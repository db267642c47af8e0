----------------------------- MODULE MVarProofs -----------------------------
(***************************************************************************)
(* The mvar command for any number of writers, readers and processes: one  *)
(* token, a clean start and the cell, whoever is killed and when.  The     *)
(* kernel enters through the lemmas of the refinement of Semaphores: a     *)
(* step of the command is one of AbstractSemaphores and a step of locals.  *)
(***************************************************************************)
EXTENDS MVar, SemaphoresProofs

\* The command and its workers are the only users, the shell launches one at a
\* time, and anybody but idle and the shell may be killed.
MVarUse ==
  /\ UnblocksSleepers = FALSE /\ ConcurrentLaunches = FALSE
  /\ KillTargets = Pids \ {1, Shell}
  /\ {0, 1} \subseteq InitialValues /\ NonNegativeStarts

Ours == {EMPTY, FULL, MUTEX}
FirstTokens(s) == IF s = FULL THEN 0 ELSE 1
Names == {"other", "mvar", "mvar_wr", "mvar_rd"}
Labels == {"none", "wait_empty", "wait_mutex", "write", "post_mutex", "post_full",
           "wait_full", "read", "post_empty", "ps", "kill", "delete", "create",
           "clear", "spawn", "exit"}

Crew == Workers(state)
Command(p) == p \in Alive(state) /\ program[p] = "mvar"
Made(s) == created[s] /\ Tokens[s] = FirstTokens(s) /\ blocked_pids[s] = <<>>
Gone(s) == ~created[s] /\ Tokens[s] = 0 /\ blocked_pids[s] = <<>>
DataSem == {EMPTY, FULL}

SlotsInv ==
  /\ program \in [Pids -> Names] /\ pc \in [Pids -> Labels]
  /\ local \in [Pids -> Nat] /\ doomed \in [Pids -> SUBSET Pids]
  /\ mvar_value \in 0..Writers
  /\ \A p \in Pids :
       /\ program[p] = "mvar_wr" => local[p] \in 1..Writers
       /\ program[p] = "mvar_rd" => local[p] \in 0..Writers
       /\ state[p] = "NONE" => program[p] = "other"

BootInv == \A p \in {1, Shell} : p \in Alive(state) /\ program[p] = "other"

\* How far the command has come.  The semaphore its loops are at is the one of
\* id 9 + local.
Phase(p) ==
  /\ pc[p] = "kill" => Crew \subseteq doomed[p] /\ doomed[p] # {}
  /\ pc[p] = "delete" =>
       /\ Crew = {} /\ local[p] \in 1..3
       /\ \A s \in Ours : s < 9 + local[p] => Gone(s)
  /\ pc[p] = "create" =>
       /\ Crew = {} /\ local[p] \in 1..3
       /\ \A s \in Ours : IF s < 9 + local[p] THEN Made(s) ELSE Gone(s)
  /\ pc[p] = "clear" => Crew = {} /\ \A s \in Ours : Made(s)
  /\ pc[p] = "spawn" =>
       /\ local[p] >= 1 /\ \A s \in Ours : created[s]
       /\ local[p] = 1 => Crew = {} /\ mvar_value = 0 /\ \A s \in Ours : Made(s)

CommandInv ==
  \A p \in Pids : Command(p) =>
    /\ \A q \in Pids : Command(q) => q = p
    /\ doomed[p] \subseteq Pids \ {1, Shell}
    /\ Phase(p)

ExistInv ==
  /\ Crew # {} => \A s \in Ours : created[s]
  /\ \A s \in Ours : ~created[s] => Tokens[s] = 0

\* Who sleeps at a semaphore is a worker that has come to it.
QueueInv ==
  \A p \in Pids :
    /\ QueuedAt(EMPTY, p) => program[p] = "mvar_wr" /\ pc[p] = "wait_mutex"
    /\ QueuedAt(FULL, p) => program[p] = "mvar_rd" /\ pc[p] = "wait_mutex"

\* The token is in one place.
HandInv ==
  /\ Tokens[EMPTY] + Tokens[FULL] \in {0, 1}
  /\ \A p, q \in Pids : InHand(p) /\ InHand(q) => p = q
  /\ \A p \in Pids : InHand(p) => Tokens[EMPTY] = 0 /\ Tokens[FULL] = 0

ValueInv == HasValue => mvar_value # 0

\* The inductive invariant.
LocalInv ==
  /\ SlotsInv /\ BootInv /\ CommandInv /\ ExistInv
  /\ QueueInv /\ HandInv /\ ValueInv
MVarInv == SemInv /\ RefInv /\ LocalInv

-----------------------------------------------------------------------------
(* The calls of the kernel. *)

LEMMA Ids ==
  /\ 1 \in Pids /\ Shell \in Pids /\ Shell # 1 /\ 0 \notin Pids
  /\ Ours \subseteq Sems /\ DataSem \subseteq Ours
  /\ EMPTY # FULL /\ EMPTY # MUTEX /\ FULL # MUTEX
  BY TableAssumption, MVarAssumption
     DEF Pids, Shell, Ours, DataSem, EMPTY, FULL, MUTEX

LEMMA CommandLoops ==
  /\ Len(MVarSems) = 3
  /\ \A i \in 1..3 : /\ MVarSems[i] = 9 + i /\ MVarSems[i] \in Ours
                     /\ InitialStatus[i] = FirstTokens(MVarSems[i])
  /\ \A s \in Ours : s \in 10..12
  BY DEF MVarSems, InitialStatus, Ours, FirstTokens, EMPTY, FULL, MUTEX

LEMMA TokensType ==
  ASSUME SemInv
  PROVE  Tokens \in [Sems -> Nat]
  BY DEF SemInv, CountInv, SemTypeOK, Tokens

LEMMA CallerRuns ==
  ASSUME SemInv, ProgramRuns
  PROVE  /\ current_process \in Pids /\ current_process \in Alive(state)
         /\ ~Queued(current_process)
  BY DEF ProgramRuns, SemInv, TableInv, TypeOK, OnlyCurrentRuns, SleepInv,
         Sleeping, QueuedPids, Alive, Pids

LEMMA CallTakes ==
  ASSUME SemInv, RefInv, NEW s \in Sems, SemWaitTakes(s), created[s]
  PROVE  /\ Tokens[s] > 0 /\ Tokens' = [Tokens EXCEPT ![s] = @ - 1]
         /\ UNCHANGED <<created, blocked_pids>>
         /\ Alive(state') = Alive(state) /\ RefInv'
<1>1. Abstract!TakeToken(current_process, s) /\ IdleLive'
  BY RefineTakes
<1> QED
  BY <1>1 DEF Abstract!TakeToken, RefInv, ClosedEmpty, Alive

LEMMA CallBlocks ==
  ASSUME SemInv, RefInv, NEW s \in Sems, SemWaitBlocks(s), created[s]
  PROVE  /\ blocked_pids' = [blocked_pids EXCEPT ![s] = Append(@, current_process)]
         /\ UNCHANGED <<created, Tokens>>
         /\ Alive(state') = Alive(state) /\ RefInv'
<1>1. Abstract!JoinQueue(current_process, s) /\ IdleLive'
  BY RefineBlocks
<1>2. /\ blocked_pids' = [blocked_pids EXCEPT ![s] = Append(@, current_process)]
      /\ UNCHANGED <<created, Tokens>> /\ Alive(state') = Alive(state)
  BY <1>1 DEF Abstract!JoinQueue, Alive
<1>3. ClosedEmpty'
  BY <1>2 DEF RefInv, ClosedEmpty
<1> QED
  BY <1>1, <1>2, <1>3 DEF RefInv

LEMMA CallPosts ==
  ASSUME SemInv, RefInv, NEW s \in Sems, SemPostAdds(s) \/ SemPostWakes(s)
  PROVE  /\ created' = created /\ Alive(state') = Alive(state) /\ RefInv'
         /\ \/ /\ blocked_pids[s] = <<>> /\ blocked_pids' = blocked_pids
               /\ Tokens' = [Tokens EXCEPT ![s] = @ + 1]
            \/ /\ blocked_pids[s] # <<>> /\ Tokens' = Tokens
               /\ blocked_pids' = [blocked_pids EXCEPT ![s] = Tail(@)]
<1>1. Abstract!Post(s) /\ IdleLive'
  BY RefinePosts
<1>2. /\ created' = created /\ Alive(state') = Alive(state)
      /\ \/ /\ blocked_pids[s] = <<>> /\ blocked_pids' = blocked_pids
            /\ Tokens' = [Tokens EXCEPT ![s] = @ + 1]
         \/ /\ blocked_pids[s] # <<>> /\ Tokens' = Tokens
            /\ blocked_pids' = [blocked_pids EXCEPT ![s] = Tail(@)]
  BY <1>1 DEF Abstract!Post, Alive
<1>3. ClosedEmpty'
  <2>1. \A t \in Sems : t # s \/ blocked_pids[s] = <<>> => blocked_pids'[t] = blocked_pids[t]
    BY <1>2 DEF SemInv, CountInv, SemTypeOK
  <2>2. ~created[s] => blocked_pids[s] = <<>>
    BY DEF RefInv, ClosedEmpty
  <2> QED
    BY <1>2, <2>1, <2>2 DEF RefInv, ClosedEmpty
<1> QED
  BY <1>1, <1>2, <1>3 DEF RefInv

LEMMA CallCreates ==
  ASSUME NonNegativeStarts, SemInv, RefInv, NEW s \in Sems, NEW v \in InitialValues, CreateSem(s, v)
  PROVE  /\ created' = [created EXCEPT ![s] = TRUE]
         /\ Tokens' = [Tokens EXCEPT ![s] = v]
         /\ blocked_pids' = blocked_pids /\ blocked_pids[s] = <<>>
         /\ Alive(state') = Alive(state) /\ RefInv'
<1>1. Abstract!Create(s, v) /\ IdleLive'
  BY RefineCreates
<1>2. /\ created' = [created EXCEPT ![s] = TRUE]
      /\ Tokens' = [Tokens EXCEPT ![s] = v]
      /\ blocked_pids' = blocked_pids /\ blocked_pids[s] = <<>>
      /\ Alive(state') = Alive(state)
  BY <1>1 DEF Abstract!Create, Alive
<1>3. ClosedEmpty'
  BY <1>2 DEF RefInv, ClosedEmpty, SemInv, CountInv, SemTypeOK
<1> QED
  BY <1>1, <1>2, <1>3 DEF RefInv

LEMMA CallDeletes ==
  ASSUME SemInv, RefInv, NEW s \in Sems, DeleteSem(s)
  PROVE  /\ created' = [created EXCEPT ![s] = FALSE]
         /\ Tokens' = [Tokens EXCEPT ![s] = 0]
         /\ blocked_pids' = [blocked_pids EXCEPT ![s] = <<>>]
         /\ Alive(state') = Alive(state) /\ RefInv'
<1>1. Abstract!Delete(s) /\ IdleLive'
  BY RefineDeletes
<1>2. /\ created' = [created EXCEPT ![s] = FALSE]
      /\ Tokens' = [Tokens EXCEPT ![s] = 0]
      /\ blocked_pids' = [blocked_pids EXCEPT ![s] = <<>>]
      /\ Alive(state') = Alive(state)
  BY <1>1 DEF Abstract!Delete, Alive
<1>3. ClosedEmpty'
  BY <1>2 DEF RefInv, ClosedEmpty, SemInv, CountInv, SemTypeOK
<1> QED
  BY <1>1, <1>2, <1>3 DEF RefInv

\* A step that gives nobody a token and puts nobody in a queue.  N are the
\* processes it creates.
Quiet(N) ==
  /\ UNCHANGED <<created, Tokens>>
  /\ Alive(state') \subseteq Alive(state) \union N
  /\ \A s \in Sems : blocked_pids[s] = <<>> => blocked_pids'[s] = <<>>
  /\ \A s \in Sems, p \in Pids : QueuedAt(s, p)' => QueuedAt(s, p)
  /\ \A s \in Sems, p \in Pids : p \in Alive(state') /\ QueuedAt(s, p)
                                   => QueuedAt(s, p)'

LEMMA UnseenQuiet ==
  ASSUME Unseen
  PROVE  Quiet({}) /\ Alive(state') = Alive(state)
  BY DEF Unseen, Quiet, QueuedAt, Alive

LEMMA RemoveFirstFrom ==
  ASSUME NEW q \in Seq(Pids), NEW e \in Pids, NEW p, Contains(RemoveFirst(q, e), p)
  PROVE  Contains(q, p)
<1>1. CASE ~Contains(q, e)
  BY <1>1, RemoveFirstAbsent
<1>2. CASE Contains(q, e)
  <2>1. PICK k \in 1..Len(q) :
          /\ Len(RemoveFirst(q, e)) = Len(q) - 1
          /\ \A i \in 1..(Len(q) - 1) :
               RemoveFirst(q, e)[i] = IF i < k THEN q[i] ELSE q[i + 1]
    <3>1. q \in Seq(Pids) /\ Contains(q, e)
      BY <1>2
    <3> QED
      BY ONLY <3>1, RemoveFirstShifts, SMTT(30)
  <2>2. PICK i \in 1..(Len(q) - 1) : RemoveFirst(q, e)[i] = p
    BY <2>1 DEF Contains
  <2>3. Len(q) \in Nat /\ i \in 1..Len(q) /\ i + 1 \in 1..Len(q)
    BY <2>2, LenProperties
  <2> QED
    BY <2>1, <2>2, <2>3 DEF Contains
<1> QED
  BY <1>1, <1>2

\* A death, as the others see it.
LEMMA DieQuiet ==
  ASSUME SemInv, NEW p \in Pids, Abstract!Die(p) \/ Unseen
  PROVE  Quiet({}) /\ Alive(state) \ {p} \subseteq Alive(state')
<1>1. CASE Unseen
  BY <1>1, UnseenQuiet
<1>2. CASE Abstract!Die(p)
  <2>1. /\ UNCHANGED <<created, Tokens>>
        /\ Alive(state') = Alive(state) \ {p}
        /\ blocked_pids' = [s \in Sems |-> RemoveFirst(blocked_pids[s], p)]
    BY <1>2, SameOperators DEF Abstract!Die, Alive
  <2>2. \A s \in Sems : /\ blocked_pids[s] \in Seq(Pids)
                        /\ blocked_pids'[s] = RemoveFirst(blocked_pids[s], p)
    BY <2>1 DEF SemInv, CountInv, SemTypeOK
  <2>3. ASSUME NEW s \in Sems, blocked_pids[s] = <<>>
        PROVE  blocked_pids'[s] = <<>>
    <3>1. ~Contains(blocked_pids[s], p)
      BY <2>3, EmptySeq DEF Contains
    <3> QED
      BY <2>2, <2>3, <3>1, RemoveFirstAbsent
  <2>4. ASSUME NEW s \in Sems, NEW q \in Pids, QueuedAt(s, q)'
        PROVE  QueuedAt(s, q)
    BY <2>2, <2>4, RemoveFirstFrom DEF QueuedAt
  <2>5. ASSUME NEW s \in Sems, NEW q \in Pids, q # p, QueuedAt(s, q)
        PROVE  QueuedAt(s, q)'
    BY <2>2, <2>5, RemoveFirstKeeps DEF QueuedAt
  <2> QED
    BY <2>1, <2>3, <2>4, <2>5 DEF Quiet, Alive
<1> QED
  BY <1>1, <1>2

-----------------------------------------------------------------------------
(* Every step is one of the kernel's. *)

\* What holds of the command when it runs.
LEMMA CommandAt ==
  ASSUME MVarInv, NEW label, At("mvar", label)
  PROVE  /\ Command(current_process) /\ current_process \in Pids
         /\ \A q \in Pids : Command(q) => q = current_process
         /\ doomed[current_process] \subseteq Pids \ {1, Shell}
         /\ Phase(current_process) /\ pc[current_process] = label
         /\ current_process \notin {1, Shell}
         /\ ProgramRuns /\ program[current_process] = "mvar"
  BY CallerRuns DEF At, MVarInv, LocalInv, CommandInv, BootInv, Command

\* What holds of a worker when it runs.
LEMMA WorkerAt ==
  ASSUME MVarInv, NEW name \in {"mvar_wr", "mvar_rd"}, NEW label, At(name, label)
  PROVE  /\ current_process \in Crew /\ current_process \in Pids
         /\ ~QueuedAt(EMPTY, current_process) /\ ~QueuedAt(FULL, current_process)
         /\ pc[current_process] = label /\ program[current_process] = name
         /\ \A s \in Ours : created[s]
<1>1. /\ current_process \in Pids /\ current_process \in Alive(state)
      /\ ~Queued(current_process)
  BY CallerRuns DEF At, MVarInv
<1>2. current_process \in Crew
  BY <1>1 DEF At, Crew, Workers, Alive
<1> QED
  BY <1>1, <1>2, Ids DEF At, MVarInv, LocalInv, ExistInv, Queued, QueuedAt, DataSem

\* A round of the loop of kills.
LEMMA KillRound ==
  ASSUME MVarUse, MVarInv, CleanupKills
  PROVE  \E p \in doomed[current_process] :
           /\ p \in KillTargets
           /\ SemKill(p) \/ (state[p] = "NONE" /\ UNCHANGED allVars)
           /\ Cleaning(doomed[current_process] \ {p})
           /\ mvar_value' = mvar_value
<1> DEFINE D == doomed[current_process]
           p == CHOOSE q \in D : \A r \in D : q <= r
<1>1. D \subseteq Pids \ {1, Shell} /\ D # {}
  BY CommandAt DEF CleanupKills, Phase
<1>2. p \in D
  <2>1. Min(D) \in D
    BY <1>1, MinExists DEF Pids
  <2> QED
    BY <2>1 DEF Min
<1>3. /\ SemKill(p) \/ (state[p] = "NONE" /\ UNCHANGED allVars)
      /\ Cleaning(D \ {p}) /\ mvar_value' = mvar_value
  BY DEF CleanupKills
<1>4. p \in KillTargets
  BY <1>1, <1>2 DEF MVarUse
<1> HIDE DEF p
<1> QED
  BY <1>2, <1>3, <1>4

LEMMA KernelStep ==
  ASSUME MVarUse, MVarInv, [MVarNext]_mvarVars
  PROVE  [SemNext]_allVars
<1> USE DEF MVarUse
<1>1. ASSUME NEW s \in Ours, NEW label, Waits(s, label) \/ Posts(s, label)
      PROVE  SemNext
  BY <1>1, Ids DEF Waits, Posts, SemNext
<1>2. CASE WorkerStep
  <2>1. CASE WriterWaits \/ WriterPosts \/ ReaderWaits \/ ReaderPosts
    BY <1>1, <2>1 DEF WriterWaits, WriterPosts, ReaderWaits, ReaderPosts, Ours
  <2>2. CASE WriterWrites \/ ReaderReads
    BY <2>2 DEF WriterWrites, ReaderReads, allVars
  <2> QED
    BY <1>2, <2>1, <2>2 DEF WorkerStep
<1>3. ASSUME NEW name, NEW label, NEW n, NEW next, NEW i,
             ProgramRuns, Spawns(name, label, n, next, i)
      PROVE  SemNext
  BY <1>3 DEF Spawns, SemNext, OtherHandler, SysCreate
<1>4. CASE CleanupKills
  <2>1. PICK p \in KillTargets : SemKill(p) \/ UNCHANGED allVars
    BY <1>4, KillRound
  <2> QED
    BY <2>1 DEF SemNext
<1>5. CASE CleanupDeletes \/ CommandCreatesSems
  <2>1. /\ local[current_process] \in 1..3
        /\ InitialStatus[local[current_process]] \in InitialValues
        /\ MVarSems[local[current_process]] \in Sems
    BY <1>5, CommandAt, CommandLoops, Ids
       DEF CleanupDeletes, CommandCreatesSems, Phase, FirstTokens
  <2> QED
    BY <1>5, <2>1 DEF CleanupDeletes, CommandCreatesSems, SemNext
<1>6. CASE CleanupLists \/ CommandClears
  BY <1>6 DEF CleanupLists, CommandClears
<1>7. CASE CommandSpawns
  BY <1>3, <1>7 DEF CommandSpawns, At
<1>8. CASE CommandExits
  BY <1>8 DEF CommandExits, SemNext
<1>9. CASE ShellLaunches
  BY <1>3, <1>9 DEF ShellLaunches, ShellTurn
<1>10. CASE ShellKills
  BY <1>10 DEF ShellKills, SemNext
<1>11. CASE MVarTimer
  BY <1>11 DEF MVarTimer, SemNext, OtherHandler
<1>12. CASE UNCHANGED mvarVars
  BY <1>12 DEF mvarVars
<1> QED
  BY <1>2, <1>4, <1>5, <1>6, <1>7, <1>8, <1>9, <1>10, <1>11, <1>12
     DEF MVarNext, CommandStep

-----------------------------------------------------------------------------
(* What a step leaves alone. *)

\* The locals after a step, of the processes that are alive then.
LEMMA SlotsAfter ==
  ASSUME NEW program1, NEW pc1, NEW local1, NEW doomed1,
         Slots(program1, pc1, local1, doomed1),
         NEW p \in Pids, p \in Alive(state')
  PROVE  /\ program'[p] = program1[p] /\ pc'[p] = pc1[p]
         /\ local'[p] = local1[p] /\ doomed'[p] = doomed1[p]
  BY DEF Slots, Alive

LEMMA SlotsKept ==
  ASSUME NEW program1 \in [Pids -> Names], NEW pc1 \in [Pids -> Labels],
         NEW local1 \in [Pids -> Nat], NEW doomed1 \in [Pids -> SUBSET Pids],
         Slots(program1, pc1, local1, doomed1), mvar_value' \in 0..Writers,
         \A p \in Pids :
           /\ program1[p] = "mvar_wr" => local1[p] \in 1..Writers
           /\ program1[p] = "mvar_rd" => local1[p] \in 0..Writers
  PROVE  SlotsInv'
<1>1. /\ program' \in [Pids -> Names] /\ pc' \in [Pids -> Labels]
      /\ local' \in [Pids -> Nat] /\ doomed' \in [Pids -> SUBSET Pids]
  BY DEF Slots, Names, Labels
<1>2. ASSUME NEW p \in Pids
      PROVE  /\ program'[p] = "mvar_wr" => local'[p] \in 1..Writers
             /\ program'[p] = "mvar_rd" => local'[p] \in 0..Writers
             /\ state'[p] = "NONE" => program'[p] = "other"
  BY DEF Slots
<1> QED
  BY <1>1, <1>2 DEF SlotsInv

\* Everybody alive was alive with the same work, but for one who is new.
SameWork ==
  \A p \in Pids : p \in Alive(state') =>
    \/ /\ p \in Alive(state) /\ program'[p] = program[p]
       /\ program[p] \in {"mvar_wr", "mvar_rd"} => pc'[p] = pc[p]
    \/ /\ p \notin Alive(state)
       /\ program'[p] \in {"mvar_wr", "mvar_rd"} => pc'[p] \in {"wait_empty", "wait_full"}

LEMMA QueuedAlive ==
  ASSUME SemInv, NEW s \in Sems, NEW p \in Pids, QueuedAt(s, p)
  PROVE  p \in Alive(state)
  BY DEF SemInv, SleepInv, Sleeping, QueuedPids, Queued, QueuedAt, Alive

LEMMA CrewIs ==
  \A p : p \in Crew <=> p \in Pids /\ p \in Alive(state)
                        /\ program[p] \in {"mvar_wr", "mvar_rd"}
  BY DEF Crew, Workers, Alive

LEMMA CrewIsThen ==
  \A p : p \in Crew' <=> p \in Pids /\ p \in Alive(state')
                         /\ program'[p] \in {"mvar_wr", "mvar_rd"}
  BY DEF Crew, Workers, Alive

\* The token is somewhere, and a step loses it only with who held it, or with
\* the semaphores.
HasToken ==
  \/ Tokens[EMPTY] + Tokens[FULL] = 1
  \/ \E p \in Pids : InHand(p)

TokenKept ==
  HasToken => \/ HasToken' \/ created' # created
              \/ \E p \in Pids : InHand(p) /\ p \notin Alive(state')

\* Who holds the token and lives goes on holding it.
LEMMA QuietKeeps ==
  ASSUME NEW N, Quiet(N), SameWork
  PROVE  TokenKept
<1>1. Tokens' = Tokens
  BY DEF Quiet
<1>2. ASSUME NEW p \in Pids, InHand(p), p \in Alive(state')
      PROVE  InHand(p)'
  <2>1. /\ p \in Alive(state) /\ program[p] \in {"mvar_wr", "mvar_rd"}
        /\ pc[p] \notin {"wait_empty", "wait_full"}
        /\ ~QueuedAt(EMPTY, p) /\ ~QueuedAt(FULL, p)
    BY <1>2, CrewIs DEF InHand, Crew
  <2>2. program'[p] = program[p] /\ pc'[p] = pc[p]
    BY <1>2, <2>1 DEF SameWork
  <2>3. ~QueuedAt(EMPTY, p)' /\ ~QueuedAt(FULL, p)'
    BY <2>1, Ids DEF Quiet, DataSem
  <2> QED
    BY <1>2, <2>1, <2>2, <2>3, CrewIsThen DEF InHand, Crew
<1> QED
  BY <1>1, <1>2 DEF TokenKept, HasToken

\* The token stays where it is, or is lost.
LEMMA QuietHands ==
  ASSUME MVarInv, SemInv', NEW N, Quiet(N), SameWork
  PROVE  /\ QueueInv' /\ HandInv'
         /\ \A p \in Pids : InHand(p)' => InHand(p) /\ program'[p] = program[p]
                                                  /\ pc'[p] = pc[p]
         /\ HasValue' => HasValue
<1>1. ASSUME NEW p \in Pids, InHand(p)'
      PROVE  InHand(p) /\ program'[p] = program[p] /\ pc'[p] = pc[p]
  <2>1. /\ p \in Alive(state') /\ program'[p] \in {"mvar_wr", "mvar_rd"}
        /\ pc'[p] \notin {"wait_empty", "wait_full"}
        /\ ~QueuedAt(EMPTY, p)' /\ ~QueuedAt(FULL, p)'
    BY <1>1, CrewIsThen DEF InHand, Crew
  <2>2. p \in Alive(state) /\ program'[p] = program[p] /\ pc'[p] = pc[p]
    BY <2>1 DEF SameWork
  <2>3. ~QueuedAt(EMPTY, p) /\ ~QueuedAt(FULL, p)
    BY <2>1, Ids DEF Quiet, DataSem
  <2> QED
    BY <2>1, <2>2, <2>3, CrewIs DEF InHand, Crew
<1>2. ASSUME NEW s \in DataSem, NEW p \in Pids, QueuedAt(s, p)'
      PROVE  QueuedAt(s, p) /\ program'[p] = program[p] /\ pc'[p] = pc[p]
  <2>1. s \in Sems /\ QueuedAt(s, p) /\ p \in Alive(state)
    BY <1>2, Ids, QueuedAlive DEF Quiet, MVarInv
  <2>2. p \in Alive(state')
    <3>1. p \in Alive(state)'
      BY <1>2, <2>1 DEF SemInv, SleepInv, Sleeping, QueuedPids, Queued, QueuedAt, Alive
    <3> QED
      BY <3>1 DEF Alive
  <2>3. program[p] \in {"mvar_wr", "mvar_rd"}
    BY <2>1 DEF MVarInv, LocalInv, QueueInv, DataSem
  <2> QED
    BY <2>1, <2>2, <2>3 DEF SameWork
<1>3. QueueInv'
  BY <1>2 DEF QueueInv, DataSem, MVarInv, LocalInv
<1>4. Tokens' = Tokens
  BY DEF Quiet
<1>5. HandInv'
  BY <1>1, <1>4 DEF HandInv, MVarInv, LocalInv
<1>6. HasValue' => HasValue
  BY <1>1, <1>4 DEF HasValue
<1> QED
  BY <1>1, <1>3, <1>5, <1>6

LEMMA MadeQuiet ==
  ASSUME NEW N, Quiet(N), NEW s \in Ours
  PROVE  (Made(s) => Made(s)') /\ (Gone(s) => Gone(s)')
  BY Ids DEF Quiet, Made, Gone

\* The command is where it was.
LEMMA PhaseQuiet ==
  ASSUME NEW N, Quiet(N), NEW p, Phase(p), Crew' \subseteq Crew,
         pc'[p] = pc[p], local'[p] = local[p], doomed'[p] = doomed[p],
         mvar_value' = mvar_value
  PROVE  Phase(p)'
<1>1. created' = created
  BY DEF Quiet
<1>2. \A s \in Ours : (Made(s) => Made(s)') /\ (Gone(s) => Gone(s)')
  BY MadeQuiet
<1> QED
  BY <1>1, <1>2 DEF Phase

-----------------------------------------------------------------------------
(* The cell. *)

\* A value may be lost, and the last value of a process forgotten.
LEMMA CellForgets ==
  ASSUME HasValue' => HasValue, mvar_value' = mvar_value \/ ~HasValue',
         \A p \in Pids : program'[p] = "mvar_rd" =>
           local'[p] = 0 \/ (program[p] = "mvar_rd" /\ local'[p] = local[p])
  PROVE  Cell!Next
<1> DEFINE S == {p \in Pids : ~(program'[p] = "mvar_rd" /\ program[p] = "mvar_rd"
                                /\ local'[p] = local[p])}
<1>1. (IF HasValue THEN mvar_value ELSE 0)'
        \in {IF HasValue THEN mvar_value ELSE 0, 0}
  OBVIOUS
<1>2. [p \in Pids |-> IF program[p] = "mvar_rd" THEN local[p] ELSE 0]'
        = [p \in Pids |-> IF p \in S THEN 0
             ELSE [q \in Pids |-> IF program[q] = "mvar_rd" THEN local[q] ELSE 0][p]]
  OBVIOUS
<1>3. S \in SUBSET Pids
  OBVIOUS
<1> HIDE DEF S
<1>4. Cell!Forget
  BY <1>1, <1>2, <1>3 DEF Cell!Forget
<1> QED
  BY <1>4 DEF Cell!Next

-----------------------------------------------------------------------------
(* The steps of the workers. *)

\* The caller is now at label, with n in its local; the others stay.
Moved(label, n) ==
  /\ Alive(state') = Alive(state) /\ Crew' = Crew
  /\ \A p \in Alive(state) :
       /\ program'[p] = program[p]
       /\ pc'[p] = IF p = current_process THEN label ELSE pc[p]
       /\ local'[p] = IF p = current_process THEN n ELSE local[p]

LEMMA WorkerFrame ==
  ASSUME MVarInv, NEW name \in {"mvar_wr", "mvar_rd"}, NEW at, At(name, at),
         NEW label \in Labels, NEW n \in Nat, SetsLocal(label, n),
         name = "mvar_wr" => n \in 1..Writers,
         name = "mvar_rd" => n \in 0..Writers,
         Alive(state') = Alive(state), created' = created,
         mvar_value' \in 0..Writers
  PROVE  /\ SlotsInv' /\ BootInv' /\ CommandInv' /\ ExistInv'
         /\ Moved(label, n)
<1> DEFINE c == current_process
<1>1. /\ c \in Crew /\ c \in Pids /\ program[c] = name
      /\ \A s \in Ours : created[s]
  BY WorkerAt
<1>2. /\ program \in [Pids -> Names] /\ pc \in [Pids -> Labels]
      /\ local \in [Pids -> Nat] /\ doomed \in [Pids -> SUBSET Pids]
      /\ \A p \in Pids : /\ program[p] = "mvar_wr" => local[p] \in 1..Writers
                         /\ program[p] = "mvar_rd" => local[p] \in 0..Writers
  BY DEF MVarInv, LocalInv, SlotsInv
<1>3. Slots(program, [pc EXCEPT ![c] = label], [local EXCEPT ![c] = n], doomed)
  BY DEF SetsLocal
<1>4. SlotsInv'
  <2>1. /\ [pc EXCEPT ![c] = label] \in [Pids -> Labels]
        /\ [local EXCEPT ![c] = n] \in [Pids -> Nat]
        /\ \A p \in Pids :
             /\ program[p] = "mvar_wr" => [local EXCEPT ![c] = n][p] \in 1..Writers
             /\ program[p] = "mvar_rd" => [local EXCEPT ![c] = n][p] \in 0..Writers
    BY <1>1, <1>2
  <2> QED
    BY <1>2, <1>3, <2>1, SlotsKept
<1>5. ASSUME NEW p \in Pids, p \in Alive(state)
      PROVE  /\ program'[p] = program[p] /\ doomed'[p] = doomed[p]
             /\ pc'[p] = IF p = c THEN label ELSE pc[p]
             /\ local'[p] = IF p = c THEN n ELSE local[p]
  <2>1. /\ program'[p] = program[p] /\ doomed'[p] = doomed[p]
        /\ pc'[p] = [pc EXCEPT ![c] = label][p]
        /\ local'[p] = [local EXCEPT ![c] = n][p]
    <3>1. p \in Alive(state')
      BY <1>5
    <3> QED
      BY <1>3, <3>1 DEF Slots, Alive
  <2>2. /\ [pc EXCEPT ![c] = label][p] = IF p = c THEN label ELSE pc[p]
        /\ [local EXCEPT ![c] = n][p] = IF p = c THEN n ELSE local[p]
    BY <1>1, <1>2
  <2> QED
    BY <2>1, <2>2
<1>6. Crew' = Crew
  BY <1>5, CrewIs, CrewIsThen
<1>7. BootInv'
  BY <1>5, Ids DEF MVarInv, LocalInv, BootInv, Alive
<1>8. ExistInv'
  BY <1>1 DEF ExistInv
<1>9. ASSUME NEW p \in Pids, Command(p)'
      PROVE  /\ \A q \in Pids : Command(q)' => q = p
             /\ doomed'[p] \subseteq Pids \ {1, Shell}
             /\ Phase(p)'
  <2>1. \A q \in Pids : Command(q)' => Command(q)
    BY <1>5 DEF Command, Alive
  <2>2. /\ \A q \in Pids : Command(q) => q = p
        /\ doomed[p] \subseteq Pids \ {1, Shell} /\ Phase(p)
        /\ p \in Alive(state) /\ p # c
    BY <1>1, <1>9, <2>1 DEF MVarInv, LocalInv, CommandInv, Command
  <2>3. pc'[p] = pc[p] /\ local'[p] = local[p] /\ doomed'[p] = doomed[p]
    BY <1>5, <2>2
  <2>4. Phase(p)'
    BY <1>1, <1>6, <2>2, <2>3 DEF Phase
  <2> QED
    BY <2>1, <2>2, <2>3, <2>4
<1>10. CommandInv'
  BY <1>9 DEF CommandInv
<1> QED
  BY <1>4, <1>5, <1>6, <1>7, <1>8, <1>10 DEF Alive, Moved

\* A worker alive is where it was, unless it is the caller.
LEMMA MovedHand ==
  ASSUME NEW label, NEW n, Moved(label, n), NEW p \in Pids
  PROVE  InHand(p)' <=>
           /\ p \in Crew /\ ~QueuedAt(EMPTY, p)' /\ ~QueuedAt(FULL, p)'
           /\ (IF p = current_process THEN label ELSE pc[p])
                \notin {"wait_empty", "wait_full"}
<1>1. p \in Crew => p \in Alive(state)
  BY CrewIs
<1> QED
  BY <1>1 DEF Moved, InHand, Crew

\* A worker past its first wait, and before its last post.
LEMMA InsideHands ==
  ASSUME MVarInv, SemInv', NEW name \in {"mvar_wr", "mvar_rd"}, NEW at, At(name, at),
         NEW label, NEW n, Moved(label, n),
         at \notin {"wait_empty", "wait_full"}, label \notin {"wait_empty", "wait_full"},
         \A s \in DataSem : Tokens'[s] = Tokens[s] /\ blocked_pids'[s] = blocked_pids[s]
  PROVE  /\ QueueInv' /\ HandInv' /\ InHand(current_process) /\ TokenKept
         /\ Tokens[EMPTY] = 0 /\ Tokens[FULL] = 0
         /\ \A p \in Pids : InHand(p)' => p = current_process
<1> DEFINE c == current_process
<1>1. /\ c \in Crew /\ c \in Pids /\ pc[c] = at
      /\ ~QueuedAt(EMPTY, c) /\ ~QueuedAt(FULL, c)
  BY WorkerAt
<1>2. InHand(c)
  BY <1>1 DEF InHand, Crew
<1>3. \A s \in DataSem, p \in Pids : QueuedAt(s, p)' <=> QueuedAt(s, p)
  BY DEF QueuedAt
<1>4. \A p \in Pids : InHand(p)' <=> InHand(p)
  <2> TAKE p \in Pids
  <2>1. p # c => (InHand(p) <=> /\ p \in Crew /\ ~QueuedAt(EMPTY, p) /\ ~QueuedAt(FULL, p)
                                /\ pc[p] \notin {"wait_empty", "wait_full"})
    BY DEF InHand, Crew
  <2>2. p # c => (InHand(p)' <=> InHand(p))
    BY <1>3, <2>1, MovedHand DEF DataSem
  <2>3. p = c => InHand(p)'
    BY <1>1, <1>3, MovedHand DEF DataSem
  <2> QED
    BY <1>2, <2>2, <2>3
<1>5. HandInv'
  BY <1>4 DEF HandInv, MVarInv, LocalInv, DataSem
<1>6. ASSUME NEW s \in DataSem, NEW p \in Pids, QueuedAt(s, p)'
      PROVE  QueuedAt(s, p) /\ program'[p] = program[p] /\ pc'[p] = pc[p]
  <2>1. QueuedAt(s, p) /\ p # c
    BY <1>1, <1>3, <1>6 DEF DataSem
  <2>2. p \in Alive(state)
    BY <2>1, Ids, QueuedAlive DEF MVarInv
  <2> QED
    BY <2>1, <2>2 DEF Moved
<1>7. QueueInv'
  BY <1>6 DEF QueueInv, DataSem, MVarInv, LocalInv
<1>8. TokenKept
  BY <1>1, <1>2, <1>4 DEF TokenKept, HasToken
<1> QED
  BY <1>1, <1>2, <1>4, <1>5, <1>7, <1>8 DEF HandInv, MVarInv, LocalInv

\* A worker takes the token, or goes to sleep for it.
LEMMA WaitHands ==
  ASSUME MVarInv, SemInv', NEW name, NEW at, NEW s, NEW n, At(name, at),
         Moved("wait_mutex", n),
         <<name, at, s>> \in {<<"mvar_wr", "wait_empty", EMPTY>>,
                              <<"mvar_rd", "wait_full", FULL>>},
         \/ /\ Tokens[s] > 0 /\ Tokens' = [Tokens EXCEPT ![s] = @ - 1]
            /\ blocked_pids' = blocked_pids
         \/ /\ blocked_pids' = [blocked_pids EXCEPT ![s] = Append(@, current_process)]
            /\ Tokens' = Tokens
  PROVE  QueueInv' /\ HandInv' /\ (HasValue' => HasValue) /\ TokenKept
<1> DEFINE c == current_process
<1>1. /\ c \in Crew /\ c \in Pids /\ pc[c] = at /\ program[c] = name /\ c \in Alive(state)
      /\ ~QueuedAt(EMPTY, c) /\ ~QueuedAt(FULL, c)
      /\ at \in {"wait_empty", "wait_full"}
  BY WorkerAt, CrewIs
<1>2. ~InHand(c)
  BY <1>1 DEF InHand
<1>3. /\ s \in DataSem /\ s \in Sems /\ Tokens \in [Sems -> Nat]
      /\ EMPTY \in Sems /\ FULL \in Sems /\ EMPTY # FULL
      /\ blocked_pids \in [Sems -> Seq(Pids)]
  BY Ids, TokensType DEF DataSem, MVarInv, SemInv, CountInv, SemTypeOK
<1>4. ASSUME NEW t \in DataSem, NEW p \in Pids, QueuedAt(t, p)
      PROVE  QueuedAt(t, p)'
  <2>1. t \in Sems /\ blocked_pids[t] \in Seq(Pids)
    BY <1>3 DEF DataSem
  <2>2. blocked_pids'[t] \in {blocked_pids[t], Append(blocked_pids[t], c)}
    BY <1>3, <2>1
  <2> QED
    BY <1>1, <1>4, <2>1, <2>2, AppendKeeps DEF QueuedAt
<1>5. ASSUME NEW t \in DataSem, NEW p \in Pids, QueuedAt(t, p)'
      PROVE  \/ QueuedAt(t, p) /\ p # c
             \/ p = c /\ t = s
  <2>1. t \in Sems /\ blocked_pids[t] \in Seq(Pids)
    BY <1>3 DEF DataSem
  <2>2. CASE blocked_pids'[t] = blocked_pids[t]
    BY <1>1, <1>5, <2>2 DEF QueuedAt, DataSem
  <2>3. CASE t = s /\ blocked_pids'[t] = Append(blocked_pids[t], c)
    <3>1. /\ Len(Append(blocked_pids[t], c)) = Len(blocked_pids[t]) + 1
          /\ Len(blocked_pids[t]) \in Nat
          /\ \A i \in 1..Len(blocked_pids[t]) : Append(blocked_pids[t], c)[i] = blocked_pids[t][i]
          /\ Append(blocked_pids[t], c)[Len(blocked_pids[t]) + 1] = c
      BY <1>1, <2>1, AppendProperties, LenProperties
    <3>2. PICK i \in 1..(Len(blocked_pids[t]) + 1) : Append(blocked_pids[t], c)[i] = p
      BY <1>5, <2>3, <3>1 DEF QueuedAt, Contains
    <3>3. i \in 1..Len(blocked_pids[t]) \/ i = Len(blocked_pids[t]) + 1
      BY <3>1, <3>2
    <3> QED
      BY <1>1, <2>3, <3>1, <3>2, <3>3 DEF QueuedAt, Contains, DataSem
  <2> QED
    BY <1>3, <2>1, <2>2, <2>3
<1>6. QueueInv'
  <2>1. ASSUME NEW t \in DataSem, NEW p \in Pids, QueuedAt(t, p)'
        PROVE  \/ QueuedAt(t, p) /\ program'[p] = program[p] /\ pc'[p] = pc[p]
               \/ p = c /\ t = s
    BY <1>5, <2>1, Ids, QueuedAlive DEF Moved, MVarInv
  <2>2. program'[c] = name /\ pc'[c] = "wait_mutex"
    BY <1>1 DEF Moved
  <2>3. s = EMPTY => name = "mvar_wr"
    BY <1>3
  <2>4. s = FULL => name = "mvar_rd"
    BY <1>3
  <2> QED
    BY <2>1, <2>2, <2>3, <2>4 DEF QueueInv, DataSem, MVarInv, LocalInv
<1>7. ASSUME NEW p \in Pids, InHand(p)', p # c
      PROVE  InHand(p)
  BY <1>4, <1>7, MovedHand DEF InHand, Crew, DataSem
<1>8. CASE blocked_pids' = [blocked_pids EXCEPT ![s] = Append(@, c)] /\ Tokens' = Tokens
  <2>1. Contains(blocked_pids'[s], c)
    <3>1. /\ Len(Append(blocked_pids[s], c)) = Len(blocked_pids[s]) + 1
          /\ Len(blocked_pids[s]) + 1 \in 1..(Len(blocked_pids[s]) + 1)
          /\ Append(blocked_pids[s], c)[Len(blocked_pids[s]) + 1] = c
      BY <1>1, <1>3, AppendProperties, LenProperties
    <3>2. blocked_pids'[s] = Append(blocked_pids[s], c)
      BY <1>3, <1>8
    <3> QED
      BY <3>1, <3>2 DEF Contains
  <2>2. \A p \in Pids : InHand(p)' => InHand(p)
    <3>1. \A p \in Pids : InHand(p)' => p # c
      BY <1>3, <2>1 DEF InHand, DataSem, QueuedAt
    <3> QED
      BY <1>7, <3>1
  <2>3. HandInv'
    BY <1>8, <2>2 DEF HandInv, MVarInv, LocalInv
  <2>4. \A p \in Pids : InHand(p)' => p # c /\ p \in Alive(state)
    BY <1>2, <2>2, CrewIs DEF InHand, Crew
  <2>5. HasValue' => HasValue
    BY <1>8, <2>2, <2>4 DEF HasValue, Moved
  <2>6. TokenKept
    <3> SUFFICES ASSUME NEW p \in Pids, InHand(p)
                 PROVE  InHand(p)'
      BY <1>8 DEF TokenKept, HasToken
    <3>1. /\ p # c /\ p \in Crew /\ pc[p] \notin {"wait_empty", "wait_full"}
          /\ ~QueuedAt(EMPTY, p) /\ ~QueuedAt(FULL, p)
      BY <1>2 DEF InHand, Crew
    <3>2. ~QueuedAt(EMPTY, p)' /\ ~QueuedAt(FULL, p)'
      BY <1>5, <3>1 DEF DataSem
    <3> QED
      BY <3>1, <3>2, MovedHand
  <2> QED
    BY <1>6, <2>3, <2>5, <2>6
<1>9. CASE /\ Tokens[s] > 0 /\ Tokens' = [Tokens EXCEPT ![s] = @ - 1]
           /\ blocked_pids' = blocked_pids
  <2>1. /\ Tokens[EMPTY] \in Nat /\ Tokens[FULL] \in Nat
        /\ Tokens[EMPTY] + Tokens[FULL] \in {0, 1}
    BY <1>3 DEF HandInv, MVarInv, LocalInv
  <2>2. Tokens[s] = 1 /\ Tokens'[EMPTY] = 0 /\ Tokens'[FULL] = 0
    BY <1>3, <1>9, <2>1 DEF DataSem
  <2>3. \A p \in Pids : ~InHand(p)
    BY <1>3, <2>2 DEF HandInv, MVarInv, LocalInv, DataSem
  <2>4. \A p \in Pids : InHand(p)' => p = c
    BY <1>7, <2>3
  <2>5. HandInv'
    BY <2>2, <2>4 DEF HandInv
  <2>6. HasValue' => HasValue
    <3>1. HasValue' => program'[c] = "mvar_rd"
      BY <1>1, <2>2, <2>4 DEF HasValue, Moved
    <3>2. program'[c] = name
      BY <1>1 DEF Moved
    <3>3. name = "mvar_rd" => s = FULL
      BY <1>3
    <3> QED
      BY <2>2, <3>1, <3>2, <3>3 DEF HasValue
  <2>7. TokenKept
    <3>1. blocked_pids' = blocked_pids
      BY <1>9
    <3>2. \A p \in Pids : p = c => InHand(p)'
      BY <1>1, <3>1, MovedHand DEF QueuedAt
    <3> QED
      BY <1>1, <3>2 DEF TokenKept, HasToken
  <2> QED
    BY <1>6, <2>5, <2>6, <2>7
<1> QED
  BY <1>8, <1>9

\* A worker gives the token back, or hands it to the one who waited first.
LEMMA PostHands ==
  ASSUME MVarInv, SemInv', NEW name, NEW at, NEW s, NEW label, NEW n, At(name, at),
         Moved(label, n),
         <<name, at, s, label>> \in {<<"mvar_wr", "post_full", FULL, "wait_empty">>,
                                     <<"mvar_rd", "post_empty", EMPTY, "wait_full">>},
         \/ /\ blocked_pids[s] = <<>> /\ blocked_pids' = blocked_pids
            /\ Tokens' = [Tokens EXCEPT ![s] = @ + 1]
         \/ /\ blocked_pids[s] # <<>> /\ Tokens' = Tokens
            /\ blocked_pids' = [blocked_pids EXCEPT ![s] = Tail(@)]
  PROVE  QueueInv' /\ HandInv' /\ (HasValue' => HasValue) /\ TokenKept
<1> DEFINE c == current_process
<1>1. /\ c \in Crew /\ c \in Pids /\ pc[c] = at /\ program[c] = name
      /\ ~QueuedAt(EMPTY, c) /\ ~QueuedAt(FULL, c)
      /\ at \in {"post_full", "post_empty"}
  BY WorkerAt
<1>2. InHand(c)
  BY <1>1 DEF InHand, Crew
<1>3. /\ s \in DataSem /\ s \in Sems /\ Tokens \in [Sems -> Nat]
      /\ EMPTY \in Sems /\ FULL \in Sems /\ EMPTY # FULL
      /\ blocked_pids \in [Sems -> Seq(Pids)]
      /\ label \in {"wait_empty", "wait_full"}
  BY Ids, TokensType DEF DataSem, MVarInv, SemInv, CountInv, SemTypeOK
<1>4. /\ Tokens[EMPTY] = 0 /\ Tokens[FULL] = 0
      /\ \A p \in Pids : InHand(p) => p = c
  BY <1>1, <1>2 DEF HandInv, MVarInv, LocalInv
<1>5. \A p \in Pids : InHand(p)' => p # c
  BY <1>3, MovedHand
<1>6. s = FULL => HasValue
  <2>1. s = FULL => name = "mvar_wr" /\ at = "post_full"
    BY <1>3
  <2> QED
    BY <1>1, <1>2, <2>1 DEF HasValue
<1>7. CASE /\ blocked_pids' = blocked_pids
           /\ Tokens' = [Tokens EXCEPT ![s] = @ + 1]
  <2>1. \A p \in Pids : ~InHand(p)'
    <3> SUFFICES ASSUME NEW p \in Pids, InHand(p)'
                 PROVE  FALSE
      OBVIOUS
    <3>1. p # c /\ InHand(p)
      BY <1>5, <1>7, MovedHand DEF InHand, Crew, QueuedAt
    <3> QED
      BY <1>4, <3>1
  <2>2. HandInv'
    BY <1>3, <1>4, <1>7, <2>1 DEF HandInv, DataSem
  <2>3. ASSUME NEW t \in DataSem, NEW p \in Pids, QueuedAt(t, p)'
        PROVE  QueuedAt(t, p) /\ program'[p] = program[p] /\ pc'[p] = pc[p]
    <3>1. QueuedAt(t, p) /\ p # c /\ p \in Alive(state)
      BY <1>1, <1>7, <2>3, Ids, QueuedAlive DEF QueuedAt, DataSem, MVarInv
    <3> QED
      BY <3>1 DEF Moved
  <2>4. QueueInv'
    BY <2>3 DEF QueueInv, DataSem, MVarInv, LocalInv
  <2>5. HasValue' => s = FULL
    BY <1>3, <1>4, <1>7, <2>1 DEF HasValue, DataSem
  <2>6. TokenKept
    <3>1. Tokens'[EMPTY] + Tokens'[FULL] = 1
      BY <1>3, <1>4, <1>7 DEF DataSem
    <3> QED
      BY <3>1 DEF TokenKept, HasToken
  <2> QED
    BY <1>6, <2>2, <2>4, <2>5, <2>6
<1>8. CASE /\ blocked_pids[s] # <<>> /\ Tokens' = Tokens
           /\ blocked_pids' = [blocked_pids EXCEPT ![s] = Tail(@)]
  <2> DEFINE h == Head(blocked_pids[s])
  <2>1. /\ \A t \in DataSem : t # s => blocked_pids'[t] = blocked_pids[t]
        /\ blocked_pids'[s] = Tail(blocked_pids[s])
        /\ blocked_pids[s] \in Seq(Pids)
    BY <1>3, <1>8 DEF DataSem
  <2>2. ASSUME NEW p \in Pids, Contains(Tail(blocked_pids[s]), p)
        PROVE  Contains(blocked_pids[s], p)
    <3>1. /\ Len(Tail(blocked_pids[s])) = Len(blocked_pids[s]) - 1
          /\ \A j \in 1..Len(Tail(blocked_pids[s])) :
               Tail(blocked_pids[s])[j] = blocked_pids[s][j + 1]
          /\ Len(blocked_pids[s]) \in Nat
      BY <1>8, <2>1, HeadTailProperties, LenProperties
    <3>2. PICK j \in 1..Len(Tail(blocked_pids[s])) : Tail(blocked_pids[s])[j] = p
      BY <2>2 DEF Contains
    <3>3. j + 1 \in 1..Len(blocked_pids[s]) /\ blocked_pids[s][j + 1] = p
      BY <3>1, <3>2
    <3> QED
      BY <3>3 DEF Contains
  <2>3. ASSUME NEW t \in DataSem, NEW p \in Pids, QueuedAt(t, p)'
        PROVE  QueuedAt(t, p) /\ program'[p] = program[p] /\ pc'[p] = pc[p]
    <3>1. QueuedAt(t, p)
      BY <2>1, <2>2, <2>3 DEF QueuedAt
    <3>2. p # c /\ p \in Alive(state)
      BY <1>1, <3>1, Ids, QueuedAlive DEF DataSem, MVarInv
    <3> QED
      BY <3>1, <3>2 DEF Moved
  <2>4. QueueInv'
    BY <2>3 DEF QueueInv, DataSem, MVarInv, LocalInv
  <2>5. ASSUME NEW p \in Pids, InHand(p)'
        PROVE  p = h /\ QueuedAt(s, p)
    <3>1. p # c /\ ~InHand(p)
      BY <1>4, <1>5, <2>5
    <3>2. QueuedAt(EMPTY, p) \/ QueuedAt(FULL, p)
      BY <2>5, <3>1, MovedHand DEF InHand, Crew
    <3>3. ~QueuedAt(EMPTY, p)' /\ ~QueuedAt(FULL, p)'
      BY <2>5 DEF InHand
    <3>4. QueuedAt(s, p) /\ ~Contains(Tail(blocked_pids[s]), p)
      BY <2>1, <3>2, <3>3 DEF QueuedAt, DataSem
    <3> QED
      BY <1>8, <2>1, <3>4, TailKeeps DEF QueuedAt
  <2>6. HandInv'
    BY <1>4, <1>8, <2>5 DEF HandInv
  <2>7. ASSUME HasValue', s = EMPTY
        PROVE  FALSE
    <3>1. PICK p \in Pids : InHand(p)' /\
             \/ program'[p] = "mvar_wr" /\ pc'[p] \in {"post_mutex", "post_full"}
             \/ program'[p] = "mvar_rd" /\ pc'[p] \in {"wait_mutex", "read"}
      BY <1>4, <1>8, <2>7 DEF HasValue
    <3>2. QueuedAt(EMPTY, p) /\ p # c
      BY <1>5, <2>5, <2>7, <3>1
    <3>3. program[p] = "mvar_wr" /\ pc[p] = "wait_mutex" /\ p \in Alive(state)
      BY <3>2, Ids, QueuedAlive DEF QueueInv, MVarInv, LocalInv, DataSem
    <3> QED
      BY <3>1, <3>2, <3>3 DEF Moved
  <2>8. TokenKept
    <3>1. PICK p \in Pids : p = h /\ QueuedAt(s, p)
      <4>1. h \in Pids /\ h = blocked_pids[s][1] /\ 1 \in 1..Len(blocked_pids[s])
        BY <1>8, <2>1, EmptySeq, HeadTailProperties, LenProperties
      <4> QED
        BY <4>1 DEF QueuedAt, Contains
    <3>2. p # c /\ p \in Alive(state)
      BY <1>1, <1>3, <3>1, QueuedAlive DEF MVarInv, DataSem
    <3>3. program[p] \in {"mvar_wr", "mvar_rd"} /\ pc[p] = "wait_mutex"
      BY <1>3, <3>1 DEF QueueInv, MVarInv, LocalInv, DataSem
    <3>4. p \notin QueuedPids'
      BY <1>3, <1>8, <3>1, TailLeaves DEF MVarInv, SemInv, CountInv, SleepInv
    <3>5. ~QueuedAt(EMPTY, p)' /\ ~QueuedAt(FULL, p)'
      BY <1>3, <3>4 DEF QueuedPids, Queued, QueuedAt
    <3>6. InHand(p)'
      BY <3>2, <3>3, <3>5, CrewIs, MovedHand
    <3> QED
      BY <3>6 DEF TokenKept, HasToken
  <2> QED
    BY <1>3, <1>6, <2>4, <2>6, <2>7, <2>8 DEF DataSem
<1> QED
  BY <1>7, <1>8

\* A step that leaves the locals at their values makes no value up.
LEMMA GoesForgets ==
  ASSUME MVarInv, NEW label, Goes(label), current_process \in Pids,
         HasValue' => HasValue, mvar_value' = mvar_value
  PROVE  Cell!Next /\ ValueInv'
<1>1. [local EXCEPT ![current_process] = local[current_process]] = local
  BY DEF MVarInv, LocalInv, SlotsInv
<1>2. \A p \in Pids : program'[p] = "mvar_rd" =>
        local'[p] = 0 \/ (program[p] = "mvar_rd" /\ local'[p] = local[p])
  BY <1>1 DEF Goes, SetsLocal, Slots
<1> QED
  BY <1>2, CellForgets DEF ValueInv, MVarInv, LocalInv

\* The two facts about the locals of a worker that WorkerFrame asks for.
LEMMA WorkerLocal ==
  ASSUME MVarInv, NEW name \in {"mvar_wr", "mvar_rd"}, NEW at, At(name, at)
  PROVE  /\ current_process \in Pids /\ local[current_process] \in Nat
         /\ mvar_value \in 0..Writers
         /\ name = "mvar_wr" => local[current_process] \in 1..Writers
         /\ name = "mvar_rd" => local[current_process] \in 0..Writers
  BY WorkerAt DEF MVarInv, LocalInv, SlotsInv

\* What a wait or a post of a worker does to the semaphores.
LEMMA WaitsEffect ==
  ASSUME MVarInv, NEW s \in Ours, created[s], NEW label, Waits(s, label)
  PROVE  /\ Alive(state') = Alive(state) /\ created' = created /\ RefInv'
         /\ Goes(label) /\ mvar_value' = mvar_value
         /\ \/ /\ Tokens[s] > 0 /\ Tokens' = [Tokens EXCEPT ![s] = @ - 1]
               /\ blocked_pids' = blocked_pids
            \/ /\ blocked_pids' = [blocked_pids EXCEPT ![s] = Append(@, current_process)]
               /\ Tokens' = Tokens
  BY Ids, CallTakes, CallBlocks DEF Waits, MVarInv

LEMMA PostsEffect ==
  ASSUME MVarInv, NEW s \in Ours, NEW label, Posts(s, label)
  PROVE  /\ Alive(state') = Alive(state) /\ created' = created /\ RefInv'
         /\ Goes(label) /\ mvar_value' = mvar_value
         /\ \/ /\ blocked_pids[s] = <<>> /\ blocked_pids' = blocked_pids
               /\ Tokens' = [Tokens EXCEPT ![s] = @ + 1]
            \/ /\ blocked_pids[s] # <<>> /\ Tokens' = Tokens
               /\ blocked_pids' = [blocked_pids EXCEPT ![s] = Tail(@)]
  BY Ids, CallPosts DEF Posts, MVarInv

LEMMA WorkerGoes ==
  ASSUME MVarInv, NEW name \in {"mvar_wr", "mvar_rd"}, NEW at, At(name, at),
         NEW label \in Labels, Goes(label), Alive(state') = Alive(state),
         created' = created, mvar_value' = mvar_value
  PROVE  /\ SlotsInv' /\ BootInv' /\ CommandInv' /\ ExistInv'
         /\ Moved(label, local[current_process])
         /\ current_process \in Pids
<1>1. SetsLocal(label, local[current_process])
  BY DEF Goes
<1> QED
  BY <1>1, WorkerLocal, WorkerFrame

LEMMA DataWaits ==
  ASSUME MVarInv, SemInv', NEW name, NEW at, NEW s, At(name, at),
         <<name, at, s>> \in {<<"mvar_wr", "wait_empty", EMPTY>>,
                              <<"mvar_rd", "wait_full", FULL>>},
         Waits(s, "wait_mutex")
  PROVE  RefInv' /\ LocalInv' /\ Cell!Next /\ TokenKept
<1>1. name \in {"mvar_wr", "mvar_rd"} /\ s \in Ours /\ "wait_mutex" \in Labels
  BY DEF Ours, Labels
<1>2. created[s]
  BY <1>1, WorkerAt
<1>3. /\ SlotsInv' /\ BootInv' /\ CommandInv' /\ ExistInv'
      /\ Moved("wait_mutex", local[current_process]) /\ current_process \in Pids
  BY <1>1, <1>2, WaitsEffect, WorkerGoes
<1>4. QueueInv' /\ HandInv' /\ (HasValue' => HasValue) /\ TokenKept
  BY <1>1, <1>2, <1>3, WaitsEffect, WaitHands
<1>5. Cell!Next /\ ValueInv'
  BY <1>1, <1>2, <1>3, <1>4, WaitsEffect, GoesForgets
<1> QED
  BY <1>1, <1>2, <1>3, <1>4, <1>5, WaitsEffect DEF LocalInv

LEMMA DataPosts ==
  ASSUME MVarInv, SemInv', NEW name, NEW at, NEW s, NEW label, At(name, at),
         <<name, at, s, label>> \in {<<"mvar_wr", "post_full", FULL, "wait_empty">>,
                                     <<"mvar_rd", "post_empty", EMPTY, "wait_full">>},
         Posts(s, label)
  PROVE  RefInv' /\ LocalInv' /\ Cell!Next /\ TokenKept
<1>1. name \in {"mvar_wr", "mvar_rd"} /\ s \in Ours /\ label \in Labels
  BY DEF Ours, Labels
<1>2. /\ SlotsInv' /\ BootInv' /\ CommandInv' /\ ExistInv'
      /\ Moved(label, local[current_process]) /\ current_process \in Pids
  BY <1>1, PostsEffect, WorkerGoes
<1>3. QueueInv' /\ HandInv' /\ (HasValue' => HasValue) /\ TokenKept
  BY <1>1, <1>2, PostsEffect, PostHands
<1>4. Cell!Next /\ ValueInv'
  BY <1>1, <1>2, <1>3, PostsEffect, GoesForgets
<1> QED
  BY <1>1, <1>2, <1>3, <1>4, PostsEffect DEF LocalInv

\* A wait or a post on MUTEX happens with the token in hand.
LEMMA MutexCalls ==
  ASSUME MVarInv, SemInv', NEW name, NEW at, NEW label, At(name, at),
         \/ /\ <<name, at, label>> \in {<<"mvar_wr", "wait_mutex", "write">>,
                                        <<"mvar_rd", "wait_mutex", "read">>}
            /\ Waits(MUTEX, label)
         \/ /\ <<name, at, label>> \in {<<"mvar_wr", "post_mutex", "post_full">>,
                                        <<"mvar_rd", "post_mutex", "post_empty">>}
            /\ Posts(MUTEX, label)
  PROVE  RefInv' /\ LocalInv' /\ Cell!Next /\ TokenKept
<1> DEFINE c == current_process
<1>1. /\ name \in {"mvar_wr", "mvar_rd"} /\ label \in Labels /\ MUTEX \in Ours
      /\ at \notin {"wait_empty", "wait_full"} /\ label \notin {"wait_empty", "wait_full"}
  BY DEF Ours, Labels
<1>2. created[MUTEX]
  BY <1>1, WorkerAt
<1>3. /\ Alive(state') = Alive(state) /\ created' = created /\ RefInv'
      /\ Goes(label) /\ mvar_value' = mvar_value
      /\ \A s \in DataSem : Tokens'[s] = Tokens[s] /\ blocked_pids'[s] = blocked_pids[s]
  <2>1. /\ Tokens \in [Sems -> Nat] /\ blocked_pids \in [Sems -> Seq(Pids)]
        /\ \A s \in DataSem : s \in Sems /\ s # MUTEX
    BY Ids, TokensType DEF MVarInv, SemInv, CountInv, SemTypeOK, DataSem
  <2>2. CASE Waits(MUTEX, label)
    BY <1>1, <1>2, <2>1, <2>2, WaitsEffect
  <2>3. CASE Posts(MUTEX, label)
    BY <1>1, <2>1, <2>3, PostsEffect
  <2> QED
    BY <2>2, <2>3
<1>4. /\ SlotsInv' /\ BootInv' /\ CommandInv' /\ ExistInv'
      /\ Moved(label, local[c]) /\ c \in Pids
  BY <1>1, <1>3, WorkerGoes
<1>5. /\ QueueInv' /\ HandInv' /\ InHand(c) /\ TokenKept
      /\ Tokens[EMPTY] = 0 /\ Tokens[FULL] = 0
      /\ \A p \in Pids : InHand(p)' => p = c
  BY <1>1, <1>3, <1>4, InsideHands
<1>6. HasValue' => HasValue
  <2>1. Tokens'[FULL] = 0
    BY <1>3, <1>5 DEF DataSem
  <2>2. program[c] = name /\ pc[c] = at /\ c \in Alive(state)
    BY <1>1, WorkerAt, CrewIs
  <2>3. program'[c] = name /\ pc'[c] = label
    BY <1>4, <2>2 DEF Moved
  <2>4. HasValue' => \/ name = "mvar_wr" /\ label \in {"post_mutex", "post_full"}
                     \/ name = "mvar_rd" /\ label \in {"wait_mutex", "read"}
    BY <1>5, <2>1, <2>3 DEF HasValue
  <2>5. HasValue' => \/ name = "mvar_wr" /\ at = "post_mutex"
                     \/ name = "mvar_rd" /\ at = "wait_mutex"
    BY <2>4
  <2> QED
    BY <1>4, <1>5, <2>2, <2>5 DEF HasValue
<1>7. Cell!Next /\ ValueInv'
  BY <1>3, <1>4, <1>6, GoesForgets
<1> QED
  BY <1>3, <1>4, <1>5, <1>7 DEF LocalInv

\* Nothing of the kernel changes.
LEMMA StillKernel ==
  ASSUME RefInv, UNCHANGED allVars
  PROVE  /\ Alive(state') = Alive(state) /\ UNCHANGED <<created, Tokens, blocked_pids>>
         /\ RefInv'
  BY DEF allVars, vars, semVars, Alive, Tokens, RefInv, ClosedEmpty, IdleLive

LEMMA WriterPuts ==
  ASSUME MVarInv, SemInv', WriterWrites
  PROVE  RefInv' /\ LocalInv' /\ Cell!Next /\ TokenKept
<1> DEFINE c == current_process
<1>1. At("mvar_wr", "write") /\ mvar_value' = local[c] /\ Goes("post_mutex")
  BY DEF WriterWrites
<1>2. /\ Alive(state') = Alive(state) /\ UNCHANGED <<created, Tokens, blocked_pids, state>>
      /\ RefInv'
  BY StillKernel DEF WriterWrites, MVarInv, allVars, vars
<1>3. c \in Pids /\ local[c] \in 1..Writers /\ local[c] \in Nat /\ Writers \in Nat
  BY <1>1, WorkerLocal, MVarAssumption
<1>4. /\ SlotsInv' /\ BootInv' /\ CommandInv' /\ ExistInv'
      /\ Moved("post_mutex", local[c])
  BY <1>1, <1>2, <1>3, WorkerFrame DEF Goes, Labels
<1>5. /\ QueueInv' /\ HandInv' /\ InHand(c) /\ TokenKept
      /\ Tokens[EMPTY] = 0 /\ Tokens[FULL] = 0
      /\ \A p \in Pids : InHand(p)' => p = c
  BY <1>1, <1>2, <1>4, InsideHands
<1>6. pc[c] = "write" /\ program[c] = "mvar_wr" /\ c \in Alive(state)
  BY <1>1, WorkerAt, CrewIs
<1>7. ~HasValue
  <2>1. \A p \in Pids : InHand(p) => p = c
    BY <1>3, <1>5 DEF MVarInv, LocalInv, HandInv
  <2> QED
    BY <1>5, <1>6, <2>1 DEF HasValue
<1>8. HasValue'
  <2>1. program'[c] = "mvar_wr" /\ pc'[c] = "post_mutex"
    BY <1>4, <1>6 DEF Moved
  <2>2. \E p \in Pids : p = c /\ InHand(p)'
    <3>1. \A p \in Pids : p = c => InHand(p)'
      BY <1>2, <1>4, <1>5, MovedHand DEF InHand, Crew, QueuedAt
    <3> QED
      BY <1>3, <3>1
  <2> QED
    BY <2>1, <2>2 DEF HasValue
<1>9. ValueInv'
  BY <1>1, <1>3 DEF ValueInv
<1>10. ASSUME NEW p \in Pids
       PROVE  (IF program'[p] = "mvar_rd" THEN local'[p] ELSE 0)
                = IF program[p] = "mvar_rd" THEN local[p] ELSE 0
  <2>1. [local EXCEPT ![c] = local[c]] = local
    BY DEF MVarInv, LocalInv, SlotsInv
  <2>2. /\ program'[p] = IF state[p] = "NONE" THEN "other" ELSE program[p]
        /\ local'[p] = IF state[p] = "NONE" THEN 0 ELSE local[p]
    BY <1>1, <1>2, <2>1 DEF Goes, SetsLocal, Slots
  <2>3. state[p] = "NONE" => program[p] = "other"
    BY DEF MVarInv, LocalInv, SlotsInv
  <2> QED
    BY <2>2, <2>3
<1>11. Cell!Put(local[c])
  BY <1>1, <1>7, <1>8, <1>10 DEF Cell!Put
<1> QED
  BY <1>2, <1>3, <1>4, <1>5, <1>9, <1>11 DEF LocalInv, Cell!Next

LEMMA ReaderTakes ==
  ASSUME MVarInv, SemInv', ReaderReads
  PROVE  RefInv' /\ LocalInv' /\ Cell!Next /\ TokenKept
<1> DEFINE c == current_process
<1>1. /\ At("mvar_rd", "read") /\ mvar_value' = mvar_value
      /\ SetsLocal("post_mutex", mvar_value)
  BY DEF ReaderReads
<1>2. /\ Alive(state') = Alive(state) /\ UNCHANGED <<created, Tokens, blocked_pids, state>>
      /\ RefInv'
  BY StillKernel DEF ReaderReads, MVarInv, allVars, vars
<1>3. c \in Pids /\ mvar_value \in 0..Writers /\ mvar_value \in Nat
  BY <1>1, WorkerLocal, MVarAssumption
<1>4. /\ SlotsInv' /\ BootInv' /\ CommandInv' /\ ExistInv'
      /\ Moved("post_mutex", mvar_value)
  BY <1>1, <1>2, <1>3, WorkerFrame DEF Labels
<1>5. /\ QueueInv' /\ HandInv' /\ InHand(c) /\ TokenKept
      /\ Tokens[EMPTY] = 0 /\ Tokens[FULL] = 0
      /\ \A p \in Pids : InHand(p)' => p = c
  BY <1>1, <1>2, <1>4, InsideHands
<1>6. pc[c] = "read" /\ program[c] = "mvar_rd" /\ c \in Alive(state)
  BY <1>1, WorkerAt, CrewIs
<1>7. HasValue /\ mvar_value # 0
  BY <1>3, <1>5, <1>6 DEF HasValue, MVarInv, LocalInv, ValueInv
<1>8. program'[c] = "mvar_rd" /\ pc'[c] = "post_mutex" /\ local'[c] = mvar_value
  BY <1>4, <1>6 DEF Moved
<1>9. ~HasValue'
  BY <1>2, <1>5, <1>8 DEF HasValue
<1>10. ASSUME NEW p \in Pids, p # c
       PROVE  (IF program'[p] = "mvar_rd" THEN local'[p] ELSE 0)
                = IF program[p] = "mvar_rd" THEN local[p] ELSE 0
  <2>1. [local EXCEPT ![c] = mvar_value][p] = local[p]
    BY <1>10 DEF MVarInv, LocalInv, SlotsInv
  <2> QED
    BY <1>1, <1>2, <2>1 DEF SetsLocal, Slots, MVarInv, LocalInv, SlotsInv
<1>11. ASSUME NEW q \in Pids, q = c
       PROVE  Cell!Take(q)
  <2> DEFINE t == [p \in Pids |-> IF program[p] = "mvar_rd" THEN local[p] ELSE 0]
             u == [p \in Pids |-> IF program'[p] = "mvar_rd" THEN local'[p] ELSE 0]
  <2>1. u = [t EXCEPT ![q] = mvar_value]
    BY <1>3, <1>8, <1>10, <1>11
  <2> QED
    BY <1>7, <1>9, <2>1 DEF Cell!Take
<1> QED
  <2>1. ValueInv'
    BY <1>9 DEF ValueInv
  <2>2. Cell!Next
    BY <1>3, <1>11 DEF Cell!Next
  <2> QED
    BY <1>2, <1>4, <1>5, <2>1, <2>2 DEF LocalInv

LEMMA WorkerSteps ==
  ASSUME MVarInv, SemInv', WorkerStep
  PROVE  RefInv' /\ LocalInv' /\ Cell!Next /\ TokenKept
<1>1. CASE WriterWaits \/ ReaderWaits
  <2>1. CASE At("mvar_wr", "wait_empty") /\ Waits(EMPTY, "wait_mutex")
    BY <2>1, DataWaits
  <2>2. CASE At("mvar_rd", "wait_full") /\ Waits(FULL, "wait_mutex")
    BY <2>2, DataWaits
  <2>3. CASE At("mvar_wr", "wait_mutex") /\ Waits(MUTEX, "write")
    BY <2>3, MutexCalls
  <2>4. CASE At("mvar_rd", "wait_mutex") /\ Waits(MUTEX, "read")
    BY <2>4, MutexCalls
  <2> QED
    BY <1>1, <2>1, <2>2, <2>3, <2>4 DEF WriterWaits, ReaderWaits
<1>2. CASE WriterPosts \/ ReaderPosts
  <2>1. CASE At("mvar_wr", "post_mutex") /\ Posts(MUTEX, "post_full")
    BY <2>1, MutexCalls
  <2>2. CASE At("mvar_rd", "post_mutex") /\ Posts(MUTEX, "post_empty")
    BY <2>2, MutexCalls
  <2>3. CASE At("mvar_wr", "post_full") /\ Posts(FULL, "wait_empty")
    BY <2>3, DataPosts
  <2>4. CASE At("mvar_rd", "post_empty") /\ Posts(EMPTY, "wait_full")
    BY <2>4, DataPosts
  <2> QED
    BY <1>2, <2>1, <2>2, <2>3, <2>4 DEF WriterPosts, ReaderPosts
<1> QED
  BY <1>1, <1>2, WriterPuts, ReaderTakes DEF WorkerStep

-----------------------------------------------------------------------------
(* Deaths, the timer, and the steps of the command that leave the           *)
(* semaphores alone.                                                        *)

LEMMA QuietClosed ==
  ASSUME RefInv, NEW N, Quiet(N)
  PROVE  ClosedEmpty'
  BY DEF RefInv, ClosedEmpty, Quiet

LEMMA TimerQuiet ==
  ASSUME MVarInv, MVarTimer
  PROVE  Quiet({}) /\ Alive(state') = Alive(state) /\ RefInv'
<1>1. /\ current_process # 0 /\ schedule_tick(state, waiting_for_pid)
      /\ UNCHANGED <<created, status, blocked_pids>>
  BY DEF MVarTimer, TimerTick, semVars
<1>2. /\ TypeOK /\ HandlerTable(state, waiting_for_pid)
      /\ idle_pcb # 0 => state[idle_pcb] # "NONE"
  BY UnchangedTable DEF MVarInv, SemInv, TableInv, RefInv, IdleLive
<1>3. Alive(state') = Alive(state) /\ IdleLive'
  BY <1>1, <1>2, TickAlive
<1>4. Unseen
  BY <1>1, <1>3 DEF Unseen, Tokens, Alive
<1> QED
  BY <1>3, <1>4, UnseenQuiet, QuietClosed DEF RefInv, MVarInv

LEMMA KillQuiet ==
  ASSUME MVarInv, NEW p \in KillTargets, SemKill(p)
  PROVE  Quiet({}) /\ Alive(state) \ {p} \subseteq Alive(state') /\ RefInv'
<1>1. (Abstract!Die(p) \/ Unseen) /\ IdleLive' /\ p \in Pids
  BY RefineKills DEF MVarInv
<1>2. Quiet({}) /\ Alive(state) \ {p} \subseteq Alive(state')
  BY <1>1, DieQuiet DEF MVarInv
<1> QED
  BY <1>1, <1>2, QuietClosed DEF RefInv, MVarInv

LEMMA ExitQuiet ==
  ASSUME MVarInv, SemExit
  PROVE  /\ Quiet({}) /\ Alive(state) \ {current_process} \subseteq Alive(state')
         /\ RefInv'
<1>1. Abstract!Die(current_process) /\ IdleLive' /\ current_process \in Pids
  BY RefineExits DEF MVarInv
<1>2. PICK p \in Pids : p = current_process
  BY <1>1
<1>3. Abstract!Die(p)
  <2>1. /\ Alive(state)' = Alive(state) \ {current_process}
        /\ current_process \in Alive(state)
        /\ blocked_pids' = [s \in Sems |-> Abstract!RemoveFirst(blocked_pids[s], current_process)]
        /\ UNCHANGED <<created, Tokens>>
    BY <1>1 DEF Abstract!Die
  <2> QED
    BY <1>2, <2>1 DEF Abstract!Die
<1>4. Quiet({}) /\ Alive(state) \ {p} \subseteq Alive(state')
  BY <1>3, DieQuiet DEF MVarInv
<1> QED
  BY <1>1, <1>2, <1>4, QuietClosed DEF RefInv, MVarInv

\* What is left to show of a quiet step.
LEMMA QuietStep ==
  ASSUME MVarInv, SemInv', NEW N, Quiet(N), SameWork,
         mvar_value' = mvar_value \/ ~HasValue,
         SlotsInv', BootInv', CommandInv', ExistInv',
         \A p \in Pids : program'[p] = "mvar_rd" =>
           local'[p] = 0 \/ (program[p] = "mvar_rd" /\ local'[p] = local[p])
  PROVE  LocalInv' /\ Cell!Next /\ TokenKept
<1>1. QueueInv' /\ HandInv' /\ (HasValue' => HasValue)
  BY QuietHands
<1>2. Cell!Next
  BY <1>1, CellForgets
<1>3. ValueInv'
  BY <1>1 DEF ValueInv, MVarInv, LocalInv
<1>4. TokenKept
  BY QuietKeeps
<1> QED
  BY <1>1, <1>2, <1>3, <1>4 DEF LocalInv

\* What the others are when only c, the command or the shell, moves.
LEMMA CallerMoves ==
  ASSUME MVarInv, Alive(state') \subseteq Alive(state), mvar_value' \in {mvar_value, 0},
         {1, Shell} \subseteq Alive(state'),
         NEW c \in Pids, program[c] \in {"mvar", "other"},
         \A q \in Pids : Command(q) => q = c,
         NEW label \in Labels, NEW n \in Nat, NEW S, S \subseteq Pids,
         program[c] = "mvar" => S \subseteq Pids \ {1, Shell},
         Slots(program, [pc EXCEPT ![c] = label], [local EXCEPT ![c] = n],
               [doomed EXCEPT ![c] = S]),
         (/\ Crew' \subseteq Crew /\ program[c] = "mvar"
          /\ pc'[c] = label /\ local'[c] = n /\ doomed'[c] = S) => Phase(c)'
  PROVE  /\ SlotsInv' /\ BootInv' /\ CommandInv' /\ SameWork /\ Crew' \subseteq Crew
         /\ \A p \in Pids : program'[p] = "mvar_rd" =>
              local'[p] = 0 \/ (program[p] = "mvar_rd" /\ local'[p] = local[p])
<1>1. /\ program \in [Pids -> Names] /\ pc \in [Pids -> Labels]
      /\ local \in [Pids -> Nat] /\ doomed \in [Pids -> SUBSET Pids]
      /\ mvar_value \in 0..Writers /\ 0 \in 0..Writers
      /\ \A p \in Pids : /\ program[p] = "mvar_wr" => local[p] \in 1..Writers
                         /\ program[p] = "mvar_rd" => local[p] \in 0..Writers
  BY MVarAssumption DEF MVarInv, LocalInv, SlotsInv
<1> DEFINE pc1 == [pc EXCEPT ![c] = label]
           local1 == [local EXCEPT ![c] = n]
           doomed1 == [doomed EXCEPT ![c] = S]
<1>2. /\ pc1 \in [Pids -> Labels] /\ local1 \in [Pids -> Nat]
      /\ doomed1 \in [Pids -> SUBSET Pids]
      /\ pc1[c] = label /\ local1[c] = n /\ doomed1[c] = S
      /\ \A p \in Pids : p # c => pc1[p] = pc[p] /\ local1[p] = local[p]
                                  /\ doomed1[p] = doomed[p]
  BY <1>1
<1>3. Slots(program, pc1, local1, doomed1)
  OBVIOUS
<1> HIDE DEF pc1, local1, doomed1
<1>4. \A p \in Pids :
        /\ program[p] = "mvar_wr" => local1[p] \in 1..Writers
        /\ program[p] = "mvar_rd" => local1[p] \in 0..Writers
  BY <1>1, <1>2
<1>5. SlotsInv'
  BY <1>1, <1>2, <1>3, <1>4, SlotsKept
<1>6. ASSUME NEW p \in Pids, p \in Alive(state')
      PROVE  /\ p \in Alive(state) /\ program'[p] = program[p]
             /\ p # c => pc'[p] = pc[p] /\ local'[p] = local[p] /\ doomed'[p] = doomed[p]
             /\ p = c => pc'[p] = label /\ local'[p] = n /\ doomed'[p] = S
  BY <1>2, <1>3, <1>6, SlotsAfter
<1>7. SameWork
  BY <1>6 DEF SameWork
<1>8. Crew' \subseteq Crew
  BY <1>6, CrewIs, CrewIsThen
<1>9. BootInv'
  BY <1>6, Ids DEF BootInv, MVarInv, LocalInv, Alive
<1>10. ASSUME NEW p \in Pids, Command(p)'
       PROVE  /\ \A q \in Pids : Command(q)' => q = p
              /\ doomed'[p] \subseteq Pids \ {1, Shell} /\ Phase(p)'
  <2>1. \A q \in Pids : Command(q)' => q = c /\ q \in Alive(state') /\ program[q] = "mvar"
    BY <1>6 DEF Command, Alive
  <2>2. /\ p = c /\ program[c] = "mvar"
        /\ doomed'[p] = S /\ pc'[p] = label /\ local'[p] = n
    BY <1>6, <1>10, <2>1
  <2>3. Phase(c)'
    BY <1>8, <2>2
  <2> QED
    BY <2>1, <2>2, <2>3
<1>11. CommandInv'
  BY <1>10 DEF CommandInv
<1>12. \A p \in Pids : program'[p] = "mvar_rd" =>
         local'[p] = 0 \/ (program[p] = "mvar_rd" /\ local'[p] = local[p])
  BY <1>2, <1>3 DEF Slots
<1> QED
  BY <1>5, <1>7, <1>8, <1>9, <1>11, <1>12

LEMMA QuietMoves ==
  ASSUME MVarInv, SemInv', Quiet({}), mvar_value' \in {mvar_value, 0},
         mvar_value' = mvar_value \/ ~HasValue,
         {1, Shell} \subseteq Alive(state'),
         NEW c \in Pids, program[c] \in {"mvar", "other"},
         \A q \in Pids : Command(q) => q = c,
         NEW label \in Labels, NEW n \in Nat, NEW S, S \subseteq Pids,
         program[c] = "mvar" => S \subseteq Pids \ {1, Shell},
         Slots(program, [pc EXCEPT ![c] = label], [local EXCEPT ![c] = n],
               [doomed EXCEPT ![c] = S]),
         (/\ Crew' \subseteq Crew /\ program[c] = "mvar"
          /\ pc'[c] = label /\ local'[c] = n /\ doomed'[c] = S) => Phase(c)'
  PROVE  LocalInv' /\ Cell!Next /\ TokenKept
<1>1. Alive(state') \subseteq Alive(state)
  BY DEF Quiet
<1>2. /\ SlotsInv' /\ BootInv' /\ CommandInv' /\ SameWork /\ Crew' \subseteq Crew
      /\ \A p \in Pids : program'[p] = "mvar_rd" =>
           local'[p] = 0 \/ (program[p] = "mvar_rd" /\ local'[p] = local[p])
  BY <1>1, CallerMoves
<1>3. ExistInv'
  BY <1>2 DEF ExistInv, Quiet, MVarInv, LocalInv
<1> QED
  BY <1>2, <1>3, QuietStep

\* The command creates and deletes semaphores when it is alone.
LEMMA LonelyMoves ==
  ASSUME MVarInv, SemInv', Crew = {}, Alive(state') = Alive(state),
         mvar_value' = mvar_value,
         NEW c \in Pids, Command(c), NEW label \in Labels, NEW n \in Nat,
         Slots(program, [pc EXCEPT ![c] = label], [local EXCEPT ![c] = n], doomed),
         \A s \in DataSem, p \in Pids : QueuedAt(s, p)' => QueuedAt(s, p),
         Tokens'[EMPTY] + Tokens'[FULL] \in {0, 1},
         Tokens'[FULL] = 1 => Tokens[FULL] = 1,
         \A s \in Ours : ~created'[s] => Tokens'[s] = 0,
         (Crew' = {} /\ pc'[c] = label /\ local'[c] = n) => Phase(c)'
  PROVE  LocalInv' /\ Cell!Next
<1>1. /\ {1, Shell} \subseteq Alive(state') /\ program[c] = "mvar"
      /\ \A q \in Pids : Command(q) => q = c
      /\ doomed[c] \subseteq Pids \ {1, Shell}
      /\ [doomed EXCEPT ![c] = doomed[c]] = doomed
  BY DEF MVarInv, LocalInv, BootInv, CommandInv, Command, SlotsInv
<1>2. /\ SlotsInv' /\ BootInv' /\ CommandInv' /\ SameWork /\ Crew' \subseteq Crew
      /\ \A p \in Pids : program'[p] = "mvar_rd" =>
           local'[p] = 0 \/ (program[p] = "mvar_rd" /\ local'[p] = local[p])
  <2>1. Slots(program, [pc EXCEPT ![c] = label], [local EXCEPT ![c] = n],
              [doomed EXCEPT ![c] = doomed[c]])
    BY <1>1
  <2>2. /\ mvar_value' \in {mvar_value, 0} /\ doomed[c] \subseteq Pids
        /\ Alive(state') \subseteq Alive(state)
        /\ (/\ Crew' \subseteq Crew /\ program[c] = "mvar"
            /\ pc'[c] = label /\ local'[c] = n /\ doomed'[c] = doomed[c]) => Phase(c)'
    BY <1>1
  <2> DEFINE S == doomed[c]
  <2>3. S \subseteq Pids \ {1, Shell}
    BY <1>1
  <2> HIDE DEF S
  <2> QED
    BY <1>1, <2>1, <2>2, <2>3, CallerMoves DEF S
<1>3. Crew' = {}
  BY <1>2
<1>4. ExistInv'
  BY <1>3 DEF ExistInv
<1>5. \A s \in DataSem, p \in Pids : ~QueuedAt(s, p)
  <2> SUFFICES ASSUME NEW s \in DataSem, NEW p \in Pids, QueuedAt(s, p)
               PROVE  FALSE
    OBVIOUS
  <2>1. p \in Alive(state) /\ program[p] \in {"mvar_wr", "mvar_rd"}
    BY Ids, QueuedAlive DEF MVarInv, LocalInv, QueueInv, DataSem
  <2> QED
    BY <2>1, CrewIs
<1>6. QueueInv'
  BY <1>5 DEF QueueInv, DataSem
<1>7. \A p \in Pids : ~InHand(p)'
  BY <1>3 DEF InHand, Crew
<1>8. HandInv'
  BY <1>7 DEF HandInv
<1>9. HasValue' => HasValue
  BY <1>7 DEF HasValue
<1>10. Cell!Next /\ ValueInv'
  BY <1>2, <1>9, CellForgets DEF ValueInv, MVarInv, LocalInv
<1> QED
  BY <1>2, <1>4, <1>6, <1>8, <1>10 DEF LocalInv

\* Nobody moves at all.
LEMMA QuietStays ==
  ASSUME MVarInv, SemInv', Quiet({}), mvar_value' = mvar_value,
         {1, Shell} \subseteq Alive(state'), KeepSlots
  PROVE  LocalInv' /\ Cell!Next /\ TokenKept
<1>1. /\ program \in [Pids -> Names] /\ pc \in [Pids -> Labels]
      /\ local \in [Pids -> Nat] /\ doomed \in [Pids -> SUBSET Pids]
      /\ mvar_value \in 0..Writers
      /\ \A p \in Pids : /\ program[p] = "mvar_wr" => local[p] \in 1..Writers
                         /\ program[p] = "mvar_rd" => local[p] \in 0..Writers
  BY DEF MVarInv, LocalInv, SlotsInv
<1>2. Slots(program, pc, local, doomed)
  BY DEF KeepSlots
<1>3. SlotsInv'
  BY <1>1, <1>2, SlotsKept
<1>4. ASSUME NEW p \in Pids, p \in Alive(state')
      PROVE  /\ p \in Alive(state) /\ program'[p] = program[p]
             /\ pc'[p] = pc[p] /\ local'[p] = local[p] /\ doomed'[p] = doomed[p]
  BY <1>2, <1>4, SlotsAfter DEF Quiet
<1>5. SameWork
  BY <1>4 DEF SameWork
<1>6. Crew' \subseteq Crew
  BY <1>4, CrewIs, CrewIsThen
<1>7. BootInv'
  BY <1>4, Ids DEF BootInv, MVarInv, LocalInv, Alive
<1>8. ExistInv'
  BY <1>6 DEF ExistInv, Quiet, MVarInv, LocalInv
<1>9. ASSUME NEW p \in Pids, Command(p)'
      PROVE  /\ \A q \in Pids : Command(q)' => q = p
             /\ doomed'[p] \subseteq Pids \ {1, Shell} /\ Phase(p)'
  <2>1. \A q \in Pids : Command(q)' => Command(q) /\ q \in Alive(state')
    BY <1>4 DEF Command, Alive
  <2>2. /\ \A q \in Pids : Command(q) => q = p
        /\ doomed[p] \subseteq Pids \ {1, Shell} /\ Phase(p)
    BY <1>9, <2>1 DEF MVarInv, LocalInv, CommandInv
  <2>3. pc'[p] = pc[p] /\ local'[p] = local[p] /\ doomed'[p] = doomed[p]
    BY <1>4, <1>9, <2>1
  <2> QED
    BY <1>6, <2>1, <2>2, <2>3, PhaseQuiet
<1>10. CommandInv'
  BY <1>9 DEF CommandInv
<1>11. \A p \in Pids : program'[p] = "mvar_rd" =>
         local'[p] = 0 \/ (program[p] = "mvar_rd" /\ local'[p] = local[p])
  BY <1>2 DEF Slots
<1> QED
  BY <1>3, <1>5, <1>7, <1>8, <1>10, <1>11, QuietStep

-----------------------------------------------------------------------------
(* The steps of the command. *)

LEMMA UnchangedQuiet ==
  ASSUME MVarInv, UNCHANGED allVars
  PROVE  Quiet({}) /\ Alive(state') = Alive(state) /\ RefInv'
<1>1. Alive(state') = Alive(state) /\ UNCHANGED <<created, Tokens, blocked_pids>> /\ RefInv'
  BY StillKernel DEF MVarInv
<1>2. Unseen
  BY <1>1 DEF Unseen, Alive
<1> QED
  BY <1>1, <1>2, UnseenQuiet

\* A step of the clean-up before its loop of deletions.
LEMMA Cleans ==
  ASSUME MVarInv, SemInv', NEW at, At("mvar", at), Quiet({}), mvar_value' = mvar_value,
         NEW S, S \subseteq Pids \ {1, Shell}, Cleaning(S),
         {1, Shell} \subseteq Alive(state'), Crew' \subseteq S
  PROVE  LocalInv' /\ Cell!Next /\ TokenKept
<1> DEFINE label == IF S = {} THEN "delete" ELSE "kill"
<1>1. PICK c \in Pids : c = current_process
  BY CommandAt
<1>2. program[c] = "mvar" /\ \A q \in Pids : Command(q) => q = c
  BY <1>1, CommandAt
<1>3. Slots(program, [pc EXCEPT ![c] = label], [local EXCEPT ![c] = 1],
            [doomed EXCEPT ![c] = S])
  BY <1>1 DEF Cleaning
<1>4. label \in Labels
  BY DEF Labels
<1>5. ASSUME pc'[c] = label, local'[c] = 1, doomed'[c] = S
      PROVE  Phase(c)'
  <2>1. \A s \in Ours : ~(s < 9 + 1)
    BY CommandLoops
  <2>2. CASE S = {}
    BY <1>5, <2>1, <2>2 DEF Phase
  <2>3. CASE S # {}
    BY <1>5, <2>3 DEF Phase
  <2> QED
    BY <2>2, <2>3
<1> HIDE DEF label
<1> QED
  BY <1>2, <1>3, <1>4, <1>5, QuietMoves

LEMMA ListStep ==
  ASSUME MVarInv, SemInv', CleanupLists
  PROVE  RefInv' /\ LocalInv' /\ Cell!Next /\ TokenKept
<1>1. /\ At("mvar", "ps") /\ UNCHANGED allVars /\ mvar_value' = mvar_value
      /\ Cleaning(Crew)
  BY DEF CleanupLists, Crew
<1>2. Quiet({}) /\ Alive(state') = Alive(state) /\ RefInv'
  BY <1>1, UnchangedQuiet
<1>3. Crew \subseteq Pids \ {1, Shell} /\ {1, Shell} \subseteq Alive(state')
  BY <1>2, CrewIs DEF MVarInv, LocalInv, BootInv
<1>4. Crew' \subseteq Crew
  <2>1. \A p \in Pids : p \in Alive(state') => program'[p] = program[p]
    BY <1>1 DEF Cleaning, Slots, Alive
  <2> QED
    BY <1>2, <2>1, CrewIs, CrewIsThen
<1> QED
  BY <1>1, <1>2, <1>3, <1>4, Cleans

LEMMA KillStep ==
  ASSUME MVarUse, MVarInv, SemInv', CleanupKills
  PROVE  RefInv' /\ LocalInv' /\ Cell!Next /\ TokenKept
<1> DEFINE D == doomed[current_process]
<1>1. PICK p \in D : /\ p \in KillTargets
                     /\ SemKill(p) \/ (state[p] = "NONE" /\ UNCHANGED allVars)
                     /\ Cleaning(D \ {p}) /\ mvar_value' = mvar_value
  BY KillRound
<1>2. /\ At("mvar", "kill") /\ D \subseteq Pids \ {1, Shell} /\ Crew \subseteq D
      /\ p \notin {1, Shell}
  BY <1>1, CommandAt DEF CleanupKills, Phase, MVarUse
<1>3. Quiet({}) /\ Alive(state) \ {p} \subseteq Alive(state') /\ RefInv'
  BY <1>1, KillQuiet, UnchangedQuiet
<1>4. {1, Shell} \subseteq Alive(state')
  BY <1>2, <1>3 DEF MVarInv, LocalInv, BootInv
<1>5. p \notin Alive(state')
  <2>1. CASE SemKill(p)
    <3>1. /\ p \in Pids /\ state[p] # "NONE"
          /\ \/ schedule_tick(exit_process(state, p), StopWaiting(p))
             \/ ReturnToCaller(exit_process(state, p), StopWaiting(p))
      BY <1>2, <2>1 DEF SemKill, SysKill
    <3>2. TypeOK /\ HandlerTable(exit_process(state, p), StopWaiting(p))
      BY <3>1, ExitTable DEF MVarInv, SemInv, TableInv
    <3>3. /\ Alive(exit_process(state, p)) = Alive(state) \ {p}
          /\ idle_pcb # 0 => exit_process(state, p)[idle_pcb] # "NONE"
      BY <3>1, <3>2, ExitAlive DEF MVarInv, RefInv, IdleLive, TypeOK, Pids
    <3>4. Alive(state') = Alive(state) \ {p}
      BY <3>1, <3>2, <3>3, TickAlive, ReturnAlive
    <3> QED
      BY <3>4
  <2>2. CASE state[p] = "NONE" /\ UNCHANGED allVars
    BY <2>2 DEF allVars, vars, Alive
  <2> QED
    BY <1>1, <2>1, <2>2
<1>6. Crew' \subseteq D \ {p}
  <2>1. \A q \in Pids : q \in Alive(state') => program'[q] = program[q] /\ q \in Alive(state)
    BY <1>1, <1>3 DEF Cleaning, Slots, Alive, Quiet
  <2> QED
    BY <1>2, <1>5, <2>1, CrewIs, CrewIsThen
<1> QED
  BY <1>1, <1>2, <1>3, <1>4, <1>6, Cleans

LEMMA StillCreated ==
  ASSUME MVarInv, NEW s \in Ours
  PROVE  ~created[s] => Tokens[s] = 0 /\ blocked_pids[s] = <<>>
  BY Ids DEF MVarInv, LocalInv, ExistInv, RefInv, ClosedEmpty

LEMMA DeleteStep ==
  ASSUME MVarInv, SemInv', CleanupDeletes
  PROVE  RefInv' /\ LocalInv' /\ Cell!Next /\ TokenKept
<1>1. PICK c \in Pids : c = current_process
  BY CommandAt DEF CleanupDeletes
<1>2. /\ Command(c) /\ Phase(c) /\ pc[c] = "delete" /\ program[c] = "mvar"
      /\ Crew = {} /\ local[c] \in 1..3
      /\ \A s \in Ours : s < 9 + local[c] => Gone(s)
  BY <1>1, CommandAt DEF CleanupDeletes, Phase
<1> DEFINE s == 9 + local[c]
           label == IF local[c] < 3 THEN "delete" ELSE "create"
           n == IF local[c] < 3 THEN local[c] + 1 ELSE 1
<1>3. s \in Ours /\ s \in Sems /\ MVarSems[local[c]] = s
  BY <1>2, CommandLoops, Ids
<1>4. /\ created' = [created EXCEPT ![s] = FALSE]
      /\ Tokens' = [Tokens EXCEPT ![s] = 0]
      /\ blocked_pids' = [blocked_pids EXCEPT ![s] = <<>>]
      /\ Alive(state') = Alive(state) /\ RefInv' /\ mvar_value' = mvar_value
  BY <1>1, <1>3, CallDeletes DEF CleanupDeletes, MVarInv
<1>5. Slots(program, [pc EXCEPT ![c] = label], [local EXCEPT ![c] = n], doomed)
  BY <1>1, CommandLoops DEF CleanupDeletes, Loop, SetsLocal
<1>6. label \in Labels /\ n \in Nat
  BY <1>2 DEF Labels
<1>7. /\ created \in [Sems -> BOOLEAN] /\ Tokens \in [Sems -> Nat]
      /\ blocked_pids \in [Sems -> Seq(Pids)]
      /\ \A t \in Ours : t \in Sems
      /\ EMPTY \in Ours /\ FULL \in Ours /\ EMPTY \in Sems /\ FULL \in Sems
      /\ EMPTY # FULL
  BY Ids, TokensType DEF MVarInv, SemInv, CountInv, SemTypeOK, DataSem
<1>8. /\ \A t \in Ours : t # s => /\ created'[t] = created[t] /\ Tokens'[t] = Tokens[t]
                                  /\ blocked_pids'[t] = blocked_pids[t]
      /\ created'[s] = FALSE /\ Tokens'[s] = 0 /\ blocked_pids'[s] = <<>>
  BY <1>3, <1>4, <1>7
<1>9. \A t \in DataSem, p \in Pids : QueuedAt(t, p)' => QueuedAt(t, p)
  <2> SUFFICES ASSUME NEW t \in DataSem, NEW p \in Pids, QueuedAt(t, p)'
               PROVE  QueuedAt(t, p)
    OBVIOUS
  <2>1. blocked_pids'[t] # <<>>
    BY EmptySeq DEF QueuedAt, Contains
  <2> QED
    BY <1>8, <2>1, Ids DEF QueuedAt
<1>10. Tokens'[EMPTY] + Tokens'[FULL] \in {0, 1} /\ (Tokens'[FULL] = 1 => Tokens[FULL] = 1)
  <2>1. Tokens'[EMPTY] \in {0, Tokens[EMPTY]} /\ Tokens'[FULL] \in {0, Tokens[FULL]}
    BY <1>7, <1>8
  <2>2. Tokens[EMPTY] \in Nat /\ Tokens[FULL] \in Nat /\ Tokens[EMPTY] + Tokens[FULL] \in {0, 1}
    BY <1>7 DEF MVarInv, LocalInv, HandInv
  <2> QED
    BY <2>1, <2>2
<1>11. \A t \in Ours : ~created'[t] => Tokens'[t] = 0
  BY <1>8, StillCreated
<1>12. \A t \in Ours : t < 9 + (local[c] + 1) => ~created'[t] /\ Tokens'[t] = 0 /\ blocked_pids'[t] = <<>>
  <2> SUFFICES ASSUME NEW t \in Ours, t < 9 + (local[c] + 1)
               PROVE  ~created'[t] /\ Tokens'[t] = 0 /\ blocked_pids'[t] = <<>>
    OBVIOUS
  <2>1. t = s \/ t < 9 + local[c]
    BY <1>2, CommandLoops
  <2> QED
    BY <1>2, <1>8, <2>1 DEF Gone
<1>13. ASSUME Crew' = {}, pc'[c] = label, local'[c] = n
       PROVE  Phase(c)'
  <2>1. CASE local[c] < 3
    BY <1>2, <1>12, <1>13, <2>1 DEF Phase, Gone
  <2>2. CASE ~(local[c] < 3)
    <3>1. local[c] = 3 /\ \A t \in Ours : t < 9 + (local[c] + 1) /\ ~(t < 9 + 1)
      BY <1>2, <2>2, CommandLoops
    <3> QED
      BY <1>12, <1>13, <2>2, <3>1 DEF Phase, Gone
  <2> QED
    BY <2>1, <2>2
<1>14. TokenKept
  <2>1. \A p \in Pids : ~InHand(p)
    BY <1>2 DEF InHand, Crew
  <2>2. CASE created[s]
    BY <1>8, <2>2 DEF TokenKept
  <2>3. CASE ~created[s]
    <3>1. \A t \in Ours : Tokens'[t] = Tokens[t]
      BY <1>3, <1>8, <2>3, StillCreated
    <3> QED
      BY <1>7, <2>1, <3>1 DEF TokenKept, HasToken
  <2> QED
    BY <2>2, <2>3
<1> HIDE DEF s, label, n
<1> QED
  BY <1>2, <1>4, <1>5, <1>6, <1>9, <1>10, <1>11, <1>13, <1>14, LonelyMoves

LEMMA CreateStep ==
  ASSUME MVarUse, MVarInv, SemInv', CommandCreatesSems
  PROVE  RefInv' /\ LocalInv' /\ Cell!Next /\ TokenKept
<1>1. PICK c \in Pids : c = current_process
  BY CommandAt DEF CommandCreatesSems
<1>2. /\ Command(c) /\ Phase(c) /\ pc[c] = "create" /\ program[c] = "mvar"
      /\ Crew = {} /\ local[c] \in 1..3
      /\ \A s \in Ours : IF s < 9 + local[c] THEN Made(s) ELSE Gone(s)
  BY <1>1, CommandAt DEF CommandCreatesSems, Phase
<1> DEFINE s == 9 + local[c]
           v == FirstTokens(s)
           label == IF local[c] < 3 THEN "create" ELSE "clear"
           n == IF local[c] < 3 THEN local[c] + 1 ELSE 1
<1>3. /\ s \in Ours /\ s \in Sems /\ MVarSems[local[c]] = s
      /\ InitialStatus[local[c]] = v /\ v \in InitialValues /\ v \in {0, 1}
  <2>1. s \in Ours /\ s \in Sems /\ MVarSems[local[c]] = s /\ InitialStatus[local[c]] = v
    BY <1>2, CommandLoops, Ids
  <2> QED
    BY <2>1 DEF MVarUse, FirstTokens
<1>4. /\ created' = [created EXCEPT ![s] = TRUE]
      /\ Tokens' = [Tokens EXCEPT ![s] = v]
      /\ blocked_pids' = blocked_pids /\ blocked_pids[s] = <<>>
      /\ Alive(state') = Alive(state) /\ RefInv' /\ mvar_value' = mvar_value
  <2>1. ~created[s]
    BY <1>2, <1>3 DEF Gone
  <2>2. CreateSem(s, v) /\ mvar_value' = mvar_value
    BY <1>1, <1>3, <2>1 DEF CommandCreatesSems
  <2> HIDE DEF s, v
  <2> QED
    BY <1>3, <2>2, CallCreates DEF MVarInv, MVarUse
<1>5. Slots(program, [pc EXCEPT ![c] = label], [local EXCEPT ![c] = n], doomed)
  BY <1>1, CommandLoops DEF CommandCreatesSems, Loop, SetsLocal
<1>6. label \in Labels /\ n \in Nat
  BY <1>2 DEF Labels
<1>7. /\ created \in [Sems -> BOOLEAN] /\ Tokens \in [Sems -> Nat]
      /\ \A t \in Ours : t \in Sems
      /\ EMPTY \in Ours /\ FULL \in Ours
  BY Ids, TokensType DEF MVarInv, SemInv, CountInv, SemTypeOK, DataSem
<1>8. /\ \A t \in Ours : t # s => created'[t] = created[t] /\ Tokens'[t] = Tokens[t]
      /\ created'[s] = TRUE /\ Tokens'[s] = v
  BY <1>3, <1>4, <1>7
<1>9. \A t \in DataSem, p \in Pids : QueuedAt(t, p)' => QueuedAt(t, p)
  BY <1>4 DEF QueuedAt
<1>10. \A t \in Ours : IF t < 9 + (local[c] + 1)
                       THEN /\ created'[t] /\ Tokens'[t] = FirstTokens(t)
                            /\ blocked_pids'[t] = <<>>
                       ELSE Tokens'[t] = 0 /\ ~created'[t] /\ blocked_pids'[t] = <<>>
  <2> TAKE t \in Ours
  <2>1. t = s \/ (t # s /\ (t < 9 + (local[c] + 1) <=> t < 9 + local[c]))
    BY <1>2, CommandLoops
  <2>2. CASE t = s
    BY <1>2, <1>4, <1>8, <2>2
  <2>3. CASE t # s
    BY <1>2, <1>4, <1>8, <2>1, <2>3 DEF Made, Gone
  <2> QED
    BY <2>2, <2>3
<1>11. Tokens'[EMPTY] + Tokens'[FULL] \in {0, 1} /\ (Tokens'[FULL] = 1 => Tokens[FULL] = 1)
  <2>1. Tokens'[EMPTY] \in {0, 1} /\ Tokens'[FULL] = 0
    BY <1>7, <1>10, Ids DEF FirstTokens
  <2> QED
    BY <2>1
<1>12. \A t \in Ours : ~created'[t] => Tokens'[t] = 0
  BY <1>10
<1>13. ASSUME Crew' = {}, pc'[c] = label, local'[c] = n
       PROVE  Phase(c)'
  <2>1. CASE local[c] < 3
    BY <1>2, <1>10, <1>13, <2>1 DEF Phase, Made, Gone
  <2>2. CASE ~(local[c] < 3)
    <3>1. local[c] = 3 /\ \A t \in Ours : t < 9 + (local[c] + 1)
      BY <1>2, <2>2, CommandLoops
    <3> QED
      BY <1>10, <1>13, <2>2, <3>1 DEF Phase, Made
  <2> QED
    BY <2>1, <2>2
<1>14. TokenKept
  BY <1>2, <1>3, <1>8 DEF Gone, TokenKept
<1> HIDE DEF s, v, label, n
<1> QED
  BY <1>2, <1>4, <1>5, <1>6, <1>9, <1>11, <1>12, <1>13, <1>14, LonelyMoves

LEMMA ClearStep ==
  ASSUME MVarInv, SemInv', CommandClears
  PROVE  RefInv' /\ LocalInv' /\ Cell!Next /\ TokenKept
<1>1. PICK c \in Pids : c = current_process
  BY CommandAt DEF CommandClears
<1>2. /\ Command(c) /\ Phase(c) /\ pc[c] = "clear" /\ program[c] = "mvar"
      /\ Crew = {} /\ \A s \in Ours : Made(s)
      /\ \A q \in Pids : Command(q) => q = c
      /\ doomed[c] \subseteq Pids \ {1, Shell}
  BY <1>1, CommandAt DEF CommandClears, Phase
<1>3. Quiet({}) /\ Alive(state') = Alive(state) /\ RefInv' /\ mvar_value' = 0
  BY UnchangedQuiet DEF CommandClears
<1>4. ~HasValue
  <2>1. Tokens[FULL] = 0
    BY <1>2, Ids DEF Made, FirstTokens, DataSem
  <2> QED
    BY <1>2, <2>1 DEF HasValue, InHand, Crew
<1>5. Slots(program, [pc EXCEPT ![c] = "spawn"], [local EXCEPT ![c] = 1],
            [doomed EXCEPT ![c] = doomed[c]])
  <2>1. [doomed EXCEPT ![c] = doomed[c]] = doomed
    BY DEF MVarInv, LocalInv, SlotsInv
  <2> QED
    BY <1>1, <2>1 DEF CommandClears, SetsLocal
<1>6. ASSUME Crew' \subseteq Crew, pc'[c] = "spawn", local'[c] = 1
      PROVE  Phase(c)'
  <2>1. Crew' = {} /\ \A s \in Ours : Made(s)' /\ created'[s]
    BY <1>2, <1>3, <1>6, MadeQuiet DEF Made
  <2> QED
    BY <1>3, <1>6, <2>1 DEF Phase
<1>7. {1, Shell} \subseteq Alive(state') /\ "spawn" \in Labels /\ 1 \in Nat
  BY <1>3 DEF MVarInv, LocalInv, BootInv, Labels
<1> DEFINE S == doomed[c]
<1>8. S \subseteq Pids \ {1, Shell} /\ S \subseteq Pids
  BY <1>2
<1>9. Slots(program, [pc EXCEPT ![c] = "spawn"], [local EXCEPT ![c] = 1],
            [doomed EXCEPT ![c] = S])
  BY <1>5
<1>10. mvar_value' \in {mvar_value, 0}
  BY <1>3
<1> HIDE DEF S
<1> QED
  BY <1>2, <1>3, <1>4, <1>6, <1>7, <1>8, <1>9, <1>10, QuietMoves

\* The locals after c has created new.
SpawnsIn(c, new, name, label, n, next, i) ==
  Slots([program EXCEPT ![new] = name],
        [pc EXCEPT ![new] = label, ![c] = next],
        [local EXCEPT ![new] = n, ![c] = i],
        [doomed EXCEPT ![new] = {}])

\* A process that is created, or not, as the kernel sees it.
LEMMA SpawnQuiet ==
  ASSUME MVarInv, ProgramRuns, NEW name, NEW label, NEW n, NEW next, NEW i,
         Spawns(name, label, n, next, i)
  PROVE  /\ RefInv' /\ mvar_value' = mvar_value
         /\ \/ Quiet({}) /\ Alive(state') = Alive(state) /\ SetsLocal(next, i)
            \/ \E new \in Pids :
                 /\ new \notin Alive(state) /\ Alive(state') = Alive(state) \union {new}
                 /\ Quiet({new})
                 /\ SpawnsIn(current_process, new, name, label, n, next, i)
<1>1. UNCHANGED <<created, Tokens, blocked_pids>> /\ mvar_value' = mvar_value
  BY DEF Spawns, semVars, Tokens
<1>2. \A N : Alive(state') \subseteq Alive(state) \union N => Quiet(N)
  BY <1>1 DEF Quiet, QueuedAt
<1>3. SysCreate
  BY DEF Spawns, SysCreate
<1>4. IdleLive' /\ ClosedEmpty'
  BY <1>1, <1>3, CreateAlive DEF MVarInv, SemInv, TableInv, RefInv, ClosedEmpty
<1>5. \A q \in Pids : Reaped(state)[q] \in {"NONE", "KILLED"}
                        <=> state[q] \in {"NONE", "KILLED"}
  BY DEF Reaped
<1>6. CASE CreateFails /\ SetsLocal(next, i)
  <2>1. Alive(state') = Alive(state)
    BY <1>5, <1>6 DEF CreateFails, Alive
  <2> QED
    BY <1>1, <1>2, <1>4, <1>6, <2>1 DEF RefInv
<1>7. ASSUME NEW new \in Pids, CreateIn(new)
      PROVE  /\ new \notin Alive(state) /\ Alive(state') = Alive(state) \union {new}
             /\ Quiet({new})
  <2>1. /\ state'[new] = "READY" /\ Reaped(state)[new] = "NONE"
        /\ \A q \in Pids : q # new => state'[q] = Reaped(state)[q]
    BY <1>7 DEF CreateIn, Reaped
  <2>2. new \notin Alive(state) /\ Alive(state') = Alive(state) \union {new}
    BY <1>5, <2>1 DEF Alive
  <2> QED
    BY <1>2, <2>2
<1> QED
  BY <1>1, <1>4, <1>6, <1>7 DEF Spawns, RefInv, SpawnsIn

\* A creation that succeeds: who is alive then, and with what.
LEMMA Spawned ==
  ASSUME MVarInv, NEW c \in Pids, program[c] \in {"mvar", "other"}, c \in Alive(state),
         NEW name \in Names, NEW label \in Labels, NEW n \in Nat,
         NEW next \in Labels, NEW i \in Nat, NEW new \in Pids,
         name = "mvar_wr" => n \in 1..Writers /\ label = "wait_empty",
         name = "mvar_rd" => n = 0 /\ label = "wait_full",
         new \notin Alive(state), Alive(state') = Alive(state) \union {new},
         mvar_value' = mvar_value,
         SpawnsIn(c, new, name, label, n, next, i)
  PROVE  /\ SlotsInv' /\ BootInv' /\ SameWork
         /\ \A p \in Pids : program'[p] = "mvar_rd" =>
              local'[p] = 0 \/ (program[p] = "mvar_rd" /\ local'[p] = local[p])
         /\ \A p \in Alive(state) : program'[p] = program[p] /\ doomed'[p] = doomed[p]
         /\ pc'[c] = next /\ local'[c] = i
         /\ program'[new] = name /\ pc'[new] = label /\ doomed'[new] = {}
<1>1. /\ program \in [Pids -> Names] /\ pc \in [Pids -> Labels]
      /\ local \in [Pids -> Nat] /\ doomed \in [Pids -> SUBSET Pids]
      /\ mvar_value \in 0..Writers
      /\ \A p \in Pids : /\ program[p] = "mvar_wr" => local[p] \in 1..Writers
                         /\ program[p] = "mvar_rd" => local[p] \in 0..Writers
  BY DEF MVarInv, LocalInv, SlotsInv
<1>2. 0 \in 0..Writers
  BY MVarAssumption
<1> DEFINE program1 == [program EXCEPT ![new] = name]
           pc1 == [pc EXCEPT ![new] = label, ![c] = next]
           local1 == [local EXCEPT ![new] = n, ![c] = i]
           doomed1 == [doomed EXCEPT ![new] = {}]
<1>3. /\ program1 \in [Pids -> Names] /\ pc1 \in [Pids -> Labels]
      /\ local1 \in [Pids -> Nat] /\ doomed1 \in [Pids -> SUBSET Pids]
      /\ c # new
      /\ pc1[c] = next /\ local1[c] = i /\ program1[c] = program[c] /\ doomed1[c] = doomed[c]
      /\ program1[new] = name /\ pc1[new] = label /\ local1[new] = n /\ doomed1[new] = {}
      /\ \A p \in Pids : p \notin {c, new} =>
           /\ program1[p] = program[p] /\ pc1[p] = pc[p]
           /\ local1[p] = local[p] /\ doomed1[p] = doomed[p]
  BY <1>1
<1>4. Slots(program1, pc1, local1, doomed1)
  BY DEF SpawnsIn
<1> HIDE DEF program1, pc1, local1, doomed1
<1>5. \A p \in Pids : /\ program1[p] = "mvar_wr" => local1[p] \in 1..Writers
                      /\ program1[p] = "mvar_rd" => local1[p] \in 0..Writers
  <2> TAKE p \in Pids
  <2>1. CASE p = c
    BY <1>3, <2>1
  <2>2. CASE p = new
    BY <1>2, <1>3, <2>2
  <2>3. CASE p \notin {c, new}
    BY <1>1, <1>3, <2>3
  <2> QED
    BY <2>1, <2>2, <2>3
<1>6. SlotsInv'
  BY <1>1, <1>3, <1>4, <1>5, SlotsKept
<1>7. ASSUME NEW p \in Pids, p \in Alive(state')
      PROVE  /\ program'[p] = program1[p] /\ pc'[p] = pc1[p]
             /\ local'[p] = local1[p] /\ doomed'[p] = doomed1[p]
  BY <1>4, <1>7, SlotsAfter
<1>8. /\ \A p \in Alive(state) : program'[p] = program[p] /\ doomed'[p] = doomed[p]
      /\ pc'[c] = next /\ local'[c] = i
      /\ program'[new] = name /\ pc'[new] = label /\ doomed'[new] = {}
  <2>1. \A p \in Alive(state) : p \in Pids /\ p \in Alive(state') /\ p # new
    BY DEF Alive
  <2> QED
    BY <1>3, <1>7, <2>1
<1>9. SameWork
  <2>1. ASSUME NEW p \in Pids, p \in Alive(state), program[p] \in {"mvar_wr", "mvar_rd"}
        PROVE  pc'[p] = pc[p]
    BY <1>3, <1>7, <2>1
  <2>2. name \in {"mvar_wr", "mvar_rd"} => label \in {"wait_empty", "wait_full"}
    OBVIOUS
  <2> QED
    BY <1>8, <2>1, <2>2 DEF SameWork
<1>10. BootInv'
  <2>1. \A p \in {1, Shell} : p \in Alive(state) /\ p \in Alive(state')
    BY DEF MVarInv, LocalInv, BootInv
  <2> QED
    BY <1>8, <2>1 DEF MVarInv, LocalInv, BootInv, Alive
<1>11. ASSUME NEW p \in Pids, program'[p] = "mvar_rd"
       PROVE  local'[p] = 0 \/ (program[p] = "mvar_rd" /\ local'[p] = local[p])
  <2>1. local'[p] = 0 \/ (program1[p] = "mvar_rd" /\ local'[p] = local1[p])
    BY <1>4, <1>11 DEF Slots
  <2> QED
    BY <1>3, <2>1
<1> QED
  BY <1>6, <1>8, <1>9, <1>10, <1>11

LEMMA LaunchStep ==
  ASSUME MVarUse, MVarInv, SemInv', ShellLaunches
  PROVE  RefInv' /\ LocalInv' /\ Cell!Next /\ TokenKept
<1>1. PICK c \in Pids : c = current_process /\ c = Shell
  BY Ids DEF ShellLaunches, ShellTurn
<1>2. /\ ProgramRuns /\ Spawns("mvar", "ps", 0, "none", 0)
      /\ \A q \in Pids : ~Command(q)
  BY DEF MVarUse, ShellLaunches, ShellTurn, Starting, Command, Alive
<1>3. /\ program[c] = "other" /\ c \in Alive(state)
      /\ {1, Shell} \subseteq Alive(state)
  BY <1>1 DEF MVarInv, LocalInv, BootInv
<1>4. RefInv' /\ mvar_value' = mvar_value
  BY <1>2, SpawnQuiet
<1>5. CASE Quiet({}) /\ Alive(state') = Alive(state) /\ SetsLocal("none", 0)
  <2>1. [doomed EXCEPT ![c] = doomed[c]] = doomed /\ doomed[c] \subseteq Pids
    BY DEF MVarInv, LocalInv, SlotsInv
  <2> DEFINE S == doomed[c]
  <2>2. Slots(program, [pc EXCEPT ![c] = "none"], [local EXCEPT ![c] = 0],
              [doomed EXCEPT ![c] = S])
    BY <1>1, <1>5, <2>1 DEF SetsLocal
  <2>3. S \subseteq Pids /\ "none" \in Labels /\ 0 \in Nat /\ mvar_value' \in {mvar_value, 0}
    BY <1>4, <2>1 DEF Labels
  <2> HIDE DEF S
  <2> QED
    BY <1>2, <1>3, <1>4, <1>5, <2>2, <2>3, QuietMoves
<1>6. ASSUME NEW new \in Pids, new \notin Alive(state),
             Alive(state') = Alive(state) \union {new}, Quiet({new}),
             SpawnsIn(c, new, "mvar", "ps", 0, "none", 0)
      PROVE  LocalInv' /\ Cell!Next /\ TokenKept
  <2>1. /\ "mvar" \in Names /\ "ps" \in Labels /\ "none" \in Labels /\ 0 \in Nat
    BY DEF Names, Labels
  <2>2. /\ SlotsInv' /\ BootInv' /\ SameWork
        /\ \A p \in Pids : program'[p] = "mvar_rd" =>
             local'[p] = 0 \/ (program[p] = "mvar_rd" /\ local'[p] = local[p])
        /\ \A p \in Alive(state) : program'[p] = program[p] /\ doomed'[p] = doomed[p]
        /\ program'[new] = "mvar" /\ pc'[new] = "ps" /\ doomed'[new] = {}
    BY <1>3, <1>4, <1>6, <2>1, Spawned
  <2>3. \A q \in Pids : Command(q)' => q = new
    BY <1>2, <1>6, <2>2 DEF Command, Alive
  <2>4. CommandInv'
    <3>1. Phase(new)'
      BY <2>2 DEF Phase
    <3> QED
      BY <2>2, <2>3, <3>1 DEF CommandInv
  <2>5. Crew' \subseteq Crew
    BY <1>6, <2>2, CrewIs, CrewIsThen
  <2>6. ExistInv'
    BY <1>6, <2>5 DEF ExistInv, Quiet, MVarInv, LocalInv
  <2> DEFINE N == {new}
  <2>7. Quiet(N)
    BY <1>6
  <2> HIDE DEF N
  <2> QED
    BY <1>4, <2>2, <2>4, <2>6, <2>7, QuietStep
<1>7. \/ Quiet({}) /\ Alive(state') = Alive(state) /\ SetsLocal("none", 0)
      \/ \E new \in Pids :
           /\ new \notin Alive(state) /\ Alive(state') = Alive(state) \union {new}
           /\ Quiet({new}) /\ SpawnsIn(c, new, "mvar", "ps", 0, "none", 0)
  <2>1. \A n, i : Spawns("mvar", "ps", n, "none", i) =>
          \/ Quiet({}) /\ Alive(state') = Alive(state) /\ SetsLocal("none", i)
          \/ \E new \in Pids :
               /\ new \notin Alive(state) /\ Alive(state') = Alive(state) \union {new}
               /\ Quiet({new})
               /\ SpawnsIn(current_process, new, "mvar", "ps", n, "none", i)
    BY <1>2, SpawnQuiet
  <2> QED
    BY <1>1, <1>2, <2>1
<1> QED
  BY <1>4, <1>5, <1>6, <1>7

\* A creation by the command, of a writer or of a reader.
LEMMA CrewGrows ==
  ASSUME MVarInv, SemInv', At("mvar", "spawn"),
         NEW name \in {"mvar_wr", "mvar_rd"}, NEW label, NEW n \in Nat,
         NEW next \in {"spawn", "exit"},
         name = "mvar_wr" => n \in 1..Writers /\ label = "wait_empty",
         name = "mvar_rd" => n = 0 /\ label = "wait_full",
         Spawns(name, label, n, next, local[current_process] + 1)
  PROVE  RefInv' /\ LocalInv' /\ Cell!Next /\ TokenKept
<1>1. PICK c \in Pids : c = current_process
  BY CommandAt
<1> DEFINE i == local[c] + 1
<1>2. /\ ProgramRuns /\ Spawns(name, label, n, next, i)
      /\ Command(c) /\ program[c] = "mvar" /\ c \in Alive(state)
      /\ \A q \in Pids : Command(q) => q = c
      /\ doomed[c] \subseteq Pids \ {1, Shell}
      /\ \A s \in Ours : created[s]
      /\ i \in Nat /\ i >= 2
  <2>1. local[c] \in Nat
    BY DEF MVarInv, LocalInv, SlotsInv
  <2> QED
    BY <1>1, <2>1, CommandAt DEF Phase, Command
<1>3. RefInv' /\ mvar_value' = mvar_value
  BY <1>2, SpawnQuiet
<1>4. created' = created
  BY DEF Spawns, semVars
<1>5. pc'[c] = next /\ local'[c] = i => Phase(c)'
  BY <1>2, <1>4 DEF Phase
<1>6. next \in Labels /\ label \in Labels /\ name \in Names
  BY DEF Labels, Names
<1>7. {1, Shell} \subseteq Alive(state)
  BY DEF MVarInv, LocalInv, BootInv
<1> HIDE DEF i
<1>8. CASE Quiet({}) /\ Alive(state') = Alive(state) /\ SetsLocal(next, i)
  <2>1. [doomed EXCEPT ![c] = doomed[c]] = doomed
    BY DEF MVarInv, LocalInv, SlotsInv
  <2> DEFINE S == doomed[c]
  <2>2. Slots(program, [pc EXCEPT ![c] = next], [local EXCEPT ![c] = i],
              [doomed EXCEPT ![c] = S])
    BY <1>1, <1>8, <2>1 DEF SetsLocal
  <2>3. S \subseteq Pids \ {1, Shell} /\ S \subseteq Pids /\ mvar_value' \in {mvar_value, 0}
    BY <1>2, <1>3
  <2>4. {1, Shell} \subseteq Alive(state')
    BY <1>7, <1>8
  <2> HIDE DEF S
  <2> QED
    BY <1>2, <1>3, <1>5, <1>6, <1>8, <2>2, <2>3, <2>4, QuietMoves
<1>9. ASSUME NEW new \in Pids, new \notin Alive(state),
             Alive(state') = Alive(state) \union {new}, Quiet({new}),
             SpawnsIn(c, new, name, label, n, next, i)
      PROVE  LocalInv' /\ Cell!Next /\ TokenKept
  <2>1. /\ SlotsInv' /\ BootInv' /\ SameWork
        /\ \A p \in Pids : program'[p] = "mvar_rd" =>
             local'[p] = 0 \/ (program[p] = "mvar_rd" /\ local'[p] = local[p])
        /\ \A p \in Alive(state) : program'[p] = program[p] /\ doomed'[p] = doomed[p]
        /\ pc'[c] = next /\ local'[c] = i /\ program'[new] = name
    BY <1>2, <1>3, <1>6, <1>9, Spawned
  <2>2. \A q \in Pids : Command(q)' => q = c
    BY <1>2, <1>9, <2>1 DEF Command, Alive
  <2>3. CommandInv'
    BY <1>2, <1>5, <2>1, <2>2 DEF CommandInv
  <2>4. ExistInv'
    BY <1>2, <1>4, <1>9 DEF ExistInv
  <2> DEFINE N == {new}
  <2>5. Quiet(N)
    BY <1>9
  <2> HIDE DEF N
  <2> QED
    BY <1>3, <2>1, <2>3, <2>4, <2>5, QuietStep
<1> QED
  BY <1>1, <1>2, <1>3, <1>8, <1>9, SpawnQuiet

LEMMA SpawnStep ==
  ASSUME MVarInv, SemInv', CommandSpawns
  PROVE  RefInv' /\ LocalInv' /\ Cell!Next /\ TokenKept
<1> DEFINE i == local[current_process]
           next == IF i = Writers + Readers THEN "exit" ELSE "spawn"
<1>1. At("mvar", "spawn") /\ i \in Nat /\ i >= 1 /\ Writers \in Nat
  BY CommandAt, MVarAssumption DEF CommandSpawns, Phase, MVarInv, LocalInv, SlotsInv
<1>2. next \in {"spawn", "exit"}
  OBVIOUS
<1>3. CASE i <= Writers /\ Spawns("mvar_wr", "wait_empty", i, next, i + 1)
  <2>1. i \in 1..Writers
    BY <1>1, <1>3
  <2> HIDE DEF next
  <2> QED
    BY <1>1, <1>2, <1>3, <2>1, CrewGrows
<1>4. CASE Spawns("mvar_rd", "wait_full", 0, next, i + 1)
  <2> HIDE DEF next
  <2> QED
    BY <1>1, <1>2, <1>4, CrewGrows
<1> QED
  BY <1>3, <1>4 DEF CommandSpawns

LEMMA ExitStep ==
  ASSUME MVarInv, SemInv', CommandExits
  PROVE  RefInv' /\ LocalInv' /\ Cell!Next /\ TokenKept
<1>1. /\ Quiet({}) /\ Alive(state) \ {current_process} \subseteq Alive(state')
      /\ RefInv' /\ mvar_value' = mvar_value /\ KeepSlots
  BY ExitQuiet DEF CommandExits
<1>2. {1, Shell} \subseteq Alive(state')
  BY <1>1, CommandAt DEF CommandExits, MVarInv, LocalInv, BootInv
<1> QED
  BY <1>1, <1>2, QuietStays

-----------------------------------------------------------------------------
(* Every step. *)

LEMMA ShellKillStep ==
  ASSUME MVarUse, MVarInv, SemInv', ShellKills
  PROVE  RefInv' /\ LocalInv' /\ Cell!Next /\ TokenKept
<1>1. PICK p \in KillTargets : SemKill(p)
  BY DEF ShellKills
<1>2. Quiet({}) /\ Alive(state) \ {p} \subseteq Alive(state') /\ RefInv'
  BY <1>1, KillQuiet
<1>3. {1, Shell} \subseteq Alive(state')
  BY <1>2 DEF MVarUse, MVarInv, LocalInv, BootInv
<1> QED
  BY <1>2, <1>3, QuietStays DEF ShellKills

LEMMA TimerStep ==
  ASSUME MVarInv, SemInv', MVarTimer
  PROVE  RefInv' /\ LocalInv' /\ Cell!Next /\ TokenKept
<1>1. Quiet({}) /\ Alive(state') = Alive(state) /\ RefInv'
  BY TimerQuiet
<1>2. {1, Shell} \subseteq Alive(state')
  BY <1>1 DEF MVarInv, LocalInv, BootInv
<1> QED
  BY <1>1, <1>2, QuietStays DEF MVarTimer

LEMMA Stutters ==
  ASSUME MVarInv, SemInv', UNCHANGED mvarVars
  PROVE  RefInv' /\ LocalInv' /\ UNCHANGED Cell!cellVars
<1>1. /\ UNCHANGED <<state, idle_pcb, created, status, blocked_pids>>
      /\ UNCHANGED <<program, pc, local, doomed, mvar_value>>
  BY DEF mvarVars, allVars, vars, semVars, localVars
<1>2. UNCHANGED Tokens /\ \A s, p : QueuedAt(s, p)' <=> QueuedAt(s, p)
  BY <1>1 DEF Tokens, QueuedAt
<1>3. UNCHANGED Crew /\ \A p : (InHand(p)' <=> InHand(p)) /\ (Command(p)' <=> Command(p))
  BY <1>1, <1>2 DEF Crew, Workers, InHand, Command, Alive
<1>4. HasValue' <=> HasValue
  BY <1>1, <1>2, <1>3 DEF HasValue
<1>5. RefInv'
  BY <1>1 DEF MVarInv, RefInv, ClosedEmpty, IdleLive
<1>6. SlotsInv' /\ BootInv'
  BY <1>1 DEF MVarInv, LocalInv, SlotsInv, BootInv, Alive
<1>7. CommandInv'
  <2>1. \A s : (Made(s)' <=> Made(s)) /\ (Gone(s)' <=> Gone(s))
    BY <1>1, <1>2 DEF Made, Gone
  <2>2. ASSUME NEW p, Phase(p)
        PROVE  Phase(p)'
    BY <1>1, <1>3, <2>1, <2>2 DEF Phase
  <2> QED
    BY <1>1, <1>3, <2>2 DEF MVarInv, LocalInv, CommandInv
<1>8. ExistInv' /\ QueueInv' /\ HandInv' /\ ValueInv'
  BY <1>1, <1>2, <1>3, <1>4
     DEF MVarInv, LocalInv, ExistInv, QueueInv, HandInv, ValueInv
<1>9. UNCHANGED Cell!cellVars
  BY <1>1, <1>4 DEF Cell!cellVars
<1> QED
  BY <1>5, <1>6, <1>7, <1>8, <1>9 DEF LocalInv

LEMMA MVarStart ==
  ASSUME MVarUse, MVarInit
  PROVE  MVarInv /\ Cell!Init
<1>1. SemInit
  BY DEF MVarInit
<1>2. SemInv /\ RefInv
  BY <1>1, InitSemInv, InitRef
<1>3. /\ program = [p \in Pids |-> "other"] /\ pc = [p \in Pids |-> "none"]
      /\ local = [p \in Pids |-> 0] /\ doomed = [p \in Pids |-> {}]
      /\ mvar_value = 0
  BY DEF MVarInit
<1>4. SlotsInv
  BY <1>3, MVarAssumption DEF SlotsInv, Names, Labels
<1>5. BootInv
  BY <1>1, <1>3, Ids DEF SemInit, Init, BootInv, Alive, Shell
<1>6. /\ Crew = {} /\ \A p \in Pids : ~InHand(p) /\ ~Command(p)
  BY <1>3 DEF Crew, Workers, InHand, Command, Alive
<1>7. /\ \A s \in Sems : Tokens[s] = 0 /\ blocked_pids[s] = <<>>
      /\ EMPTY \in Sems /\ FULL \in Sems /\ Ours \subseteq Sems
  BY <1>1, Ids DEF SemInit, Tokens, Ours
<1>8. CommandInv /\ ExistInv /\ HandInv
  BY <1>6, <1>7 DEF CommandInv, ExistInv, HandInv
<1>9. QueueInv
  BY <1>7, EmptySeq DEF QueueInv, QueuedAt, Contains
<1>10. ~HasValue
  BY <1>6, <1>7 DEF HasValue
<1>11. Cell!Init /\ ValueInv
  BY <1>3, <1>10 DEF Cell!Init, ValueInv
<1> QED
  BY <1>2, <1>4, <1>5, <1>8, <1>9, <1>11 DEF MVarInv, LocalInv

LEMMA MVarStep ==
  ASSUME MVarUse, MVarInv, [MVarNext]_mvarVars
  PROVE  MVarInv' /\ [Cell!Next]_(Cell!cellVars) /\ [TokenKept]_mvarVars
<1>1. SemInv'
  BY KernelStep, NextSemInv DEF MVarUse, MVarInv
<1>2. CASE WorkerStep
  BY <1>1, <1>2, WorkerSteps DEF MVarInv
<1>3. CASE CommandStep
  BY <1>1, <1>3, ListStep, KillStep, DeleteStep, CreateStep, ClearStep, SpawnStep, ExitStep
     DEF CommandStep, MVarInv
<1>4. CASE ShellLaunches
  BY <1>1, <1>4, LaunchStep DEF MVarInv
<1>5. CASE ShellKills
  BY <1>1, <1>5, ShellKillStep DEF MVarInv
<1>6. CASE MVarTimer
  BY <1>1, <1>6, TimerStep DEF MVarInv
<1>7. CASE UNCHANGED mvarVars
  BY <1>1, <1>7, Stutters DEF MVarInv
<1> QED
  BY <1>2, <1>3, <1>4, <1>5, <1>6, <1>7 DEF MVarNext

-----------------------------------------------------------------------------
(* The theorems. *)

\* What the invariant says of the count.
LEMMA TokenCount ==
  ASSUME MVarInv
  PROVE  /\ OneToken
         /\ DataTokens = 1 => HasToken
         /\ DataTokens = 0 => ~HasToken
<1> DEFINE H == {p \in Pids : InHand(p)}
<1>1. /\ Tokens[EMPTY] + Tokens[FULL] \in {0, 1}
      /\ \A p, q \in Pids : InHand(p) /\ InHand(q) => p = q
      /\ \A p \in Pids : InHand(p) => Tokens[EMPTY] = 0 /\ Tokens[FULL] = 0
  BY DEF MVarInv, LocalInv, HandInv
<1>2. CASE H = {}
  <2>1. \A p \in Pids : ~InHand(p)
    BY <1>2
  <2> QED
    BY <1>1, <1>2, <2>1, FS_EmptySet DEF OneToken, DataTokens, HasToken
<1>3. CASE H # {}
  <2>1. PICK h \in Pids : InHand(h)
    BY <1>3
  <2>2. H = {h}
    BY <1>1, <2>1
  <2>3. Cardinality(H) = 1
    BY <2>2, FS_Singleton
  <2>4. DataTokens = 1
    BY <1>1, <2>1, <2>3 DEF DataTokens
  <2> QED
    BY <2>1, <2>4 DEF OneToken, HasToken
<1> QED
  BY <1>2, <1>3

\* Whoever is killed and whenever, and however often the command runs, the
\* token of the cell is in one place at most (cmd_ipc.c, mvar_writer and
\* mvar_reader).
THEOREM OneTokenAlways ==
  ASSUME MVarUse
  PROVE  MVarSpec => []OneToken
<1>1. ASSUME MVarInv
      PROVE  OneToken
  BY <1>1, TokenCount
<1> QED
  BY <1>1, MVarStart, MVarStep, PTL DEF MVarSpec

\* The token of the cell is lost only with a worker that dies with it, or when
\* the command is run again: no wait, post, timer, launch or death of another
\* process loses it (cmd_ipc.c, mvar_writer and mvar_reader over sem_wait and
\* sem_post of sem.c).
THEOREM TokenLostOnlyByKill ==
  ASSUME MVarUse
  PROVE  MVarSpec => LostOnlyByKill
<1> DEFINE Lost == DataTokens = 0
<1>1. MVarInv => (Lost => ~HasToken)
  BY TokenCount
<1>2. MVarInv' => (Lost' => ~HasToken')
  <2> HIDE DEF Lost
  <2> QED
    BY <1>1, PTL
<1>3. ASSUME MVarInv, MVarInv', [TokenKept]_mvarVars
      PROVE  [DataTokens = 1 /\ DataTokens' = 0 =>
                \/ created' # created
                \/ \E p \in Pids : InHand(p) /\ state'[p] \in {"NONE", "KILLED"}]_mvarVars
  <2>1. (DataTokens = 1 => HasToken) /\ (DataTokens' = 0 => ~HasToken')
    BY <1>2, <1>3, TokenCount
  <2>2. \A p \in Pids : p \notin Alive(state') <=> state'[p] \in {"NONE", "KILLED"}
    BY DEF Alive
  <2> QED
    BY <1>3, <2>1, <2>2 DEF TokenKept
<1> QED
  BY <1>3, MVarStart, MVarStep, PTL DEF MVarSpec, LostOnlyByKill

\* However the last run of the command ended, the next one starts its workers
\* with no worker of the last one alive, the semaphores at their first values
\* with empty queues, and the variable at zero (mvar_cleanup, cmd_mvar).
THEOREM StartsFresh ==
  ASSUME MVarUse
  PROVE  MVarSpec => []FreshStart
<1>1. ASSUME MVarInv
      PROVE  FreshStart
  <2> SUFFICES ASSUME NEW p \in Pids, p \in Alive(state), program[p] = "mvar",
                      pc[p] = "spawn", local[p] = 1
               PROVE  /\ Crew = {} /\ mvar_value = 0
                      /\ \A i \in 1..3 : /\ status[MVarSems[i]] = InitialStatus[i]
                                         /\ blocked_pids[MVarSems[i]] = <<>>
    BY CommandLoops DEF FreshStart, Crew, Alive
  <2>1. Crew = {} /\ mvar_value = 0 /\ \A s \in Ours : Made(s)
    BY <1>1 DEF MVarInv, LocalInv, CommandInv, Command, Phase
  <2>2. ASSUME NEW i \in 1..3
        PROVE  status[MVarSems[i]] = InitialStatus[i] /\ blocked_pids[MVarSems[i]] = <<>>
    <3> DEFINE s == MVarSems[i]
    <3>1. s \in Ours /\ s \in Sems /\ InitialStatus[i] = FirstTokens(s)
      BY CommandLoops, Ids
    <3> HIDE DEF s
    <3>2. Tokens[s] = FirstTokens(s) /\ blocked_pids[s] = <<>>
      BY <2>1, <3>1 DEF Made
    <3>3. status[s] \in Int /\ (status[s] < 0 => Len(blocked_pids[s]) = 0 - status[s])
      BY <1>1, <3>1 DEF MVarInv, SemInv, CountInv, SemTypeOK, QueueMatchesStatus
    <3>4. ~(status[s] < 0)
      BY <3>2, <3>3, EmptySeq
    <3>5. status[s] = FirstTokens(s)
      BY <3>1, <3>2, <3>3, <3>4 DEF Tokens
    <3> QED
      BY <3>1, <3>2, <3>5 DEF s
  <2> QED
    BY <2>1, <2>2
<1> QED
  BY <1>1, MVarStart, MVarStep, PTL DEF MVarSpec

\* The writers, the readers, the command and the kills together implement a
\* variable that is empty or full: nothing is overwritten, read twice or made
\* up (cmd_ipc.c over sem.c and process.c).
THEOREM MVarRefinesCell ==
  ASSUME MVarUse
  PROVE  MVarSpec => ImplementsCell
<1> QED
  BY MVarStart, MVarStep, PTL DEF MVarSpec, ImplementsCell, Cell!Spec

=============================================================================
