-------------------------- MODULE SemaphoresProofs --------------------------
(***************************************************************************)
(* The queues of the semaphores, for every number of processes and         *)
(* semaphores.  Where the code needs its callers to behave, the theorem    *)
(* says so: UnblocksSleepers = FALSE (nobody unblocks a process asleep in  *)
(* sem_wait or waitpid), WaitsOnClosed = FALSE (sem_wait is called on      *)
(* semaphores that exist) and NonNegativeStarts, below.                    *)
(***************************************************************************)
EXTENDS Semaphores, SchedulerProofs, SequenceTheorems, FiniteSetTheorems,
        WellFoundedInduction

\* What create_sem does not check: no program gives it a negative value.
NonNegativeStarts == InitialValues \subseteq Nat

-----------------------------------------------------------------------------
(* Sequences. *)

LEMMA MinExists ==
  ASSUME NEW I, I \subseteq Nat, I # {}
  PROVE  Min(I) \in I
<1>1. PICK m \in I : \A y \in I : ~(<<y, m>> \in OpToRel(<, Nat))
  BY WFMin, NatLessThanWellFounded
<1>2. ASSUME NEW y \in I
      PROVE  m <= y
  <2>1. <<y, m>> \in Nat \X Nat /\ <<y, m>> \notin OpToRel(<, Nat)
    BY <1>1
  <2>2. ~(y < m)
    BY <2>1 DEF OpToRel
  <2>3. m \in Int /\ y \in Int
    OBVIOUS
  <2> QED
    BY <2>2, <2>3
<1> QED
  BY <1>2 DEF Min

\* RemoveFirst closes the gap left by one occurrence of e, if there is one.
LEMMA RemoveFirstShifts ==
  ASSUME NEW S, NEW q \in Seq(S), NEW e, Contains(q, e)
  PROVE  \E k \in 1..Len(q) :
           /\ q[k] = e
           /\ RemoveFirst(q, e) \in Seq(S)
           /\ Len(RemoveFirst(q, e)) = Len(q) - 1
           /\ \A i \in 1..(Len(q) - 1) :
                RemoveFirst(q, e)[i] = IF i < k THEN q[i] ELSE q[i + 1]
<1> DEFINE I == {i \in 1..Len(q) : q[i] = e}
           k == Min(I)
<1>1. I # {} /\ I \subseteq Nat
  BY LenProperties DEF Contains
<1>2. k \in 1..Len(q) /\ q[k] = e
  BY <1>1, MinExists
<1>3. SelectInSeq(q, LAMBDA v : v = e) = k
  BY <1>1 DEF SelectInSeq
<1>4. RemoveFirst(q, e) = SubSeq(q, 1, k - 1) \o SubSeq(q, k + 1, Len(q))
  BY <1>3 DEF RemoveFirst, RemoveAt, Contains
<1> HIDE DEF I, k
<1>5. Len(q) \in Nat /\ k \in Int
  BY <1>2, LenProperties
<1>6. /\ SubSeq(q, 1, k - 1) \in Seq(S)
      /\ Len(SubSeq(q, 1, k - 1)) = k - 1
      /\ \A i \in 1..(k - 1) : SubSeq(q, 1, k - 1)[i] = q[i]
  BY <1>2, <1>5, SubSeqProperties, ElementOfSeq
<1>7. /\ SubSeq(q, k + 1, Len(q)) \in Seq(S)
      /\ Len(SubSeq(q, k + 1, Len(q))) = Len(q) - k
      /\ \A i \in 1..(Len(q) - k) : SubSeq(q, k + 1, Len(q))[i] = q[k + i]
  BY <1>2, <1>5, SubSeqProperties, ElementOfSeq
<1>8. /\ RemoveFirst(q, e) \in Seq(S)
      /\ Len(RemoveFirst(q, e)) = Len(q) - 1
      /\ \A i \in 1..(Len(q) - 1) :
           RemoveFirst(q, e)[i] = IF i < k THEN q[i] ELSE q[i + 1]
  <2> DEFINE a == SubSeq(q, 1, k - 1)
             b == SubSeq(q, k + 1, Len(q))
  <2>1. /\ a \in Seq(S) /\ b \in Seq(S)
        /\ Len(a) = k - 1 /\ Len(b) = Len(q) - k
        /\ RemoveFirst(q, e) = a \o b
    BY <1>4, <1>6, <1>7
  <2>2. /\ \A i \in 1..(k - 1) : a[i] = q[i]
        /\ \A i \in 1..(Len(q) - k) : b[i] = q[k + i]
    BY <1>6, <1>7
  <2> HIDE DEF a, b
  <2>3. /\ a \o b \in Seq(S)
        /\ Len(a \o b) = Len(a) + Len(b)
        /\ \A i \in 1..(Len(a) + Len(b)) :
             (a \o b)[i] = IF i <= Len(a) THEN a[i] ELSE b[i - Len(a)]
    BY <2>1, ConcatProperties
  <2>4. ASSUME NEW i \in 1..(Len(q) - 1)
        PROVE  (a \o b)[i] = IF i < k THEN q[i] ELSE q[i + 1]
    <3>1. CASE i < k
      BY <1>2, <1>5, <2>1, <2>2, <2>3, <3>1
    <3>2. CASE ~(i < k)
      <4>1. i - Len(a) \in 1..(Len(q) - k) /\ k + (i - Len(a)) = i + 1
        BY <1>2, <1>5, <2>1, <3>2
      <4>2. (a \o b)[i] = b[i - Len(a)]
        BY <1>2, <1>5, <2>1, <2>3, <3>2
      <4>3. b[i - Len(a)] = q[i + 1]
        BY <2>2, <4>1
      <4> QED
        BY <1>5, <3>2, <4>2, <4>3
    <3> QED
      BY <3>1, <3>2
  <2> QED
    BY <1>2, <1>5, <2>1, <2>3, <2>4
<1> QED
  BY <1>2, <1>8

LEMMA RemoveFirstAbsent ==
  ASSUME NEW q, NEW e, ~Contains(q, e)
  PROVE  RemoveFirst(q, e) = q
  BY DEF RemoveFirst, Contains

-----------------------------------------------------------------------------
(* The process table under the handlers of the semaphores. *)

LEMMA SemNextTable ==
  ASSUME TableInv, [SemNext]_allVars
  PROVE  TableInv'
<1>1. TypeOK /\ (current_process # 0 =>
                   current_process \in Pids /\ state[current_process] = "RUNNING")
  BY DEF TableInv, TypeOK, OnlyCurrentRuns, Pids
<1>2. ASSUME NEW S, ReturnToCaller(unblock_process(state, S), waiting_for_pid)
      PROVE  TableInv'
  <2>1. current_process # 0 => unblock_process(state, S)[current_process] = "RUNNING"
    BY <1>1 DEF unblock_process
  <2> QED
    BY <1>1, <1>2, <2>1, UnblockTable, ReturnTable
<1>3. ASSUME ReturnToCaller(state, waiting_for_pid)
      PROVE  TableInv'
  BY <1>1, <1>3, UnchangedTable, ReturnTable
<1>4. ASSUME NEW s \in Sems, SemWaitBlocks(s)
      PROVE  TableInv'
  <2>1. current_process # 0 /\ state[current_process] # "NONE"
    BY <1>1, <1>4 DEF SemWaitBlocks, MayWait, ProgramRuns
  <2>2. HandlerTable(block_process(state, current_process), waiting_for_pid)
    BY <1>1, <2>1, BlockTable
  <2> QED
    BY <1>1, <1>4, <2>1, <2>2, ScheduleTickTable DEF SemWaitBlocks
<1>5. ASSUME NEW s \in Sems,
             \/ SemWaitTakes(s)
             \/ SemPostAdds(s)
             \/ \E v \in InitialValues : CreateSem(s, v)
      PROVE  TableInv'
  BY <1>3, <1>5 DEF SemWaitTakes, SemPostAdds, CreateSem
<1>6. ASSUME NEW s \in Sems, SemPostWakes(s) \/ DeleteSem(s)
      PROVE  TableInv'
  BY <1>2, <1>6 DEF SemPostWakes, DeleteSem
<1>7. CASE \/ SemExit
           \/ \E p \in KillTargets : SemKill(p)
           \/ \E p \in BlockTargets : SemUnblock(p)
           \/ OtherHandler
  <2>1. Next
    BY <1>7 DEF SemExit, SemKill, SemUnblock, OtherHandler, Next
  <2> QED
    BY <2>1, NextTable
<1>8. CASE UNCHANGED allVars
  BY <1>8, NextTable DEF allVars
<1> QED
  BY <1>4, <1>5, <1>6, <1>7, <1>8 DEF SemNext

-----------------------------------------------------------------------------
(* Counting: the status and the queue. *)

CountInv == SemTypeOK /\ QueueMatchesStatus

LEMMA InitCount == SemInit => CountInv
  BY EmptySeq DEF SemInit, CountInv, SemTypeOK, QueueMatchesStatus

LEMMA RemoveCount ==
  ASSUME CountInv, NEW p \in Pids, sem_remove_pid(p)
  PROVE  CountInv'
<1>1. ASSUME NEW s \in Sems
      PROVE  /\ blocked_pids'[s] \in Seq(Pids)
             /\ status'[s] \in Int
             /\ Len(blocked_pids'[s])
                  = IF status'[s] < 0 THEN 0 - status'[s] ELSE 0
  <2>1. /\ blocked_pids[s] \in Seq(Pids) /\ status[s] \in Int
        /\ Len(blocked_pids[s]) \in Nat
        /\ Len(blocked_pids[s]) = IF status[s] < 0 THEN 0 - status[s] ELSE 0
    BY LenProperties DEF CountInv, SemTypeOK, QueueMatchesStatus
  <2>2. /\ blocked_pids'[s] = RemoveFirst(blocked_pids[s], p)
        /\ status'[s] = IF Contains(blocked_pids[s], p)
                          THEN status[s] + 1 ELSE status[s]
    BY DEF sem_remove_pid
  <2>3. CASE Contains(blocked_pids[s], p)
    <3>1. /\ RemoveFirst(blocked_pids[s], p) \in Seq(Pids)
          /\ Len(RemoveFirst(blocked_pids[s], p)) = Len(blocked_pids[s]) - 1
          /\ 1..Len(blocked_pids[s]) # {}
      BY ONLY <2>1, <2>3, RemoveFirstShifts, SMTT(30)
    <3>2. Len(blocked_pids[s]) >= 1
      BY <2>1, <3>1
    <3> QED
      BY <2>1, <2>2, <2>3, <3>1, <3>2
  <2>4. CASE ~Contains(blocked_pids[s], p)
    BY <2>1, <2>2, <2>4, RemoveFirstAbsent
  <2> QED
    BY <2>3, <2>4
<1>2. /\ blocked_pids' \in [Sems -> Seq(Pids)]
      /\ status' \in [Sems -> Int]
      /\ created' \in [Sems -> BOOLEAN]
  BY <1>1 DEF sem_remove_pid, CountInv, SemTypeOK
<1> QED
  BY <1>1, <1>2 DEF CountInv, SemTypeOK, QueueMatchesStatus

LEMMA CountNext ==
  ASSUME NonNegativeStarts, TableInv, CountInv, [SemNext]_allVars
  PROVE  CountInv'
<1> USE DEF CountInv, SemTypeOK, QueueMatchesStatus
<1>1. current_process # 0 => current_process \in Pids
  BY DEF TableInv, TypeOK, Pids
<1>2. \A s \in Sems : blocked_pids[s] \in Seq(Pids) /\ Len(blocked_pids[s]) \in Nat
  BY LenProperties
<1>3. ASSUME NEW s \in Sems, SemWaitTakes(s) \/ SemPostAdds(s)
      PROVE  CountInv'
  <2>1. /\ status[s] >= 0
        /\ \E n \in Int : n >= 0 /\ status' = [status EXCEPT ![s] = n]
        /\ UNCHANGED <<created, blocked_pids>>
    BY <1>3 DEF SemWaitTakes, SemPostAdds
  <2> QED
    BY <1>2, <2>1
<1>4. ASSUME NEW s \in Sems, SemWaitBlocks(s)
      PROVE  CountInv'
  <2> DEFINE q == Append(blocked_pids[s], current_process)
  <2>1. q \in Seq(Pids) /\ Len(q) = Len(blocked_pids[s]) + 1
    BY <1>1, <1>2, <1>4, AppendProperties DEF SemWaitBlocks, MayWait, ProgramRuns
  <2>2. /\ blocked_pids' = [blocked_pids EXCEPT ![s] = q]
        /\ status' = [status EXCEPT ![s] = @ - 1]
        /\ status[s] <= 0 /\ created' = created
    BY <1>4 DEF SemWaitBlocks
  <2> HIDE DEF q
  <2> QED
    BY <1>2, <2>1, <2>2
<1>5. ASSUME NEW s \in Sems, SemPostWakes(s)
      PROVE  CountInv'
  <2> DEFINE q == Tail(blocked_pids[s])
  <2>1. status[s] < 0 /\ blocked_pids[s] # <<>>
    BY <1>5 DEF SemPostWakes
  <2>2. q \in Seq(Pids) /\ Len(q) = Len(blocked_pids[s]) - 1
    BY <1>2, <2>1, HeadTailProperties
  <2>3. /\ blocked_pids' = [blocked_pids EXCEPT ![s] = q]
        /\ status' = [status EXCEPT ![s] = @ + 1]
        /\ created' = created
    BY <1>5 DEF SemPostWakes
  <2> HIDE DEF q
  <2> QED
    BY <1>2, <2>1, <2>2, <2>3
<1>6. ASSUME NEW s \in Sems, NEW v \in InitialValues, CreateSem(s, v)
      PROVE  CountInv'
  BY <1>2, <1>6, EmptySeq DEF CreateSem, NonNegativeStarts
<1>7. ASSUME NEW s \in Sems, DeleteSem(s)
      PROVE  CountInv'
  BY <1>2, <1>7, EmptySeq DEF DeleteSem
<1>8. CASE SemExit
  BY <1>1, <1>8, RemoveCount DEF SemExit, SysExit, ProgramRuns
<1>9. ASSUME NEW p \in KillTargets, SemKill(p)
      PROVE  CountInv'
  BY <1>9, RemoveCount, TargetsAssumption DEF SemKill
<1>10. CASE \/ \E p \in BlockTargets : SemUnblock(p)
            \/ OtherHandler
            \/ UNCHANGED allVars
  <2>1. UNCHANGED <<created, status, blocked_pids>>
    BY <1>10 DEF SemUnblock, OtherHandler, allVars, semVars
  <2> QED
    BY <2>1
<1> QED
  BY <1>3, <1>4, <1>5, <1>6, <1>7, <1>8, <1>9, <1>10 DEF SemNext

LEMMA RemoveTypes ==
  ASSUME SemTypeOK, NEW p \in Pids, sem_remove_pid(p)
  PROVE  SemTypeOK'
<1>1. ASSUME NEW s \in Sems
      PROVE  RemoveFirst(blocked_pids[s], p) \in Seq(Pids)
  <2>1. blocked_pids[s] \in Seq(Pids)
    BY DEF SemTypeOK
  <2>2. CASE Contains(blocked_pids[s], p)
    BY ONLY <2>1, <2>2, RemoveFirstShifts, SMTT(30)
  <2>3. CASE ~Contains(blocked_pids[s], p)
    BY <2>1, <2>3, RemoveFirstAbsent
  <2> QED
    BY <2>2, <2>3
<1> QED
  BY <1>1 DEF sem_remove_pid, SemTypeOK

LEMMA SemTypeNext ==
  ASSUME TableInv, SemTypeOK, [SemNext]_allVars
  PROVE  SemTypeOK'
<1>1. current_process # 0 => current_process \in Pids
  BY DEF TableInv, TypeOK, Pids
<1>2. ASSUME NEW s \in Sems, SemWaitTakes(s) \/ SemPostAdds(s)
      PROVE  SemTypeOK'
  <2>1. /\ \/ status' = [status EXCEPT ![s] = @ - 1]
           \/ status' = [status EXCEPT ![s] = @ + 1]
        /\ UNCHANGED <<created, blocked_pids>>
    BY <1>2 DEF SemWaitTakes, SemPostAdds
  <2> QED
    BY <2>1 DEF SemTypeOK
<1>3. ASSUME NEW s \in Sems, DeleteSem(s)
      PROVE  SemTypeOK'
  BY <1>3, EmptySeq DEF DeleteSem, SemTypeOK
<1>4. ASSUME NEW s \in Sems, NEW v \in InitialValues, CreateSem(s, v)
      PROVE  SemTypeOK'
  BY <1>4, SemAssumption, EmptySeq DEF CreateSem, SemTypeOK
<1>5. ASSUME NEW s \in Sems, SemWaitBlocks(s)
      PROVE  SemTypeOK'
  <2>1. Append(blocked_pids[s], current_process) \in Seq(Pids)
    BY <1>1, <1>5, AppendProperties DEF SemWaitBlocks, MayWait, ProgramRuns, SemTypeOK
  <2> QED
    BY <1>5, <2>1 DEF SemWaitBlocks, SemTypeOK
<1>6. ASSUME NEW s \in Sems, SemPostWakes(s)
      PROVE  SemTypeOK'
  <2>1. Tail(blocked_pids[s]) \in Seq(Pids)
    BY <1>6, HeadTailProperties DEF SemPostWakes, SemTypeOK
  <2> QED
    BY <1>6, <2>1 DEF SemPostWakes, SemTypeOK
<1>7. CASE SemExit
  BY <1>1, <1>7, RemoveTypes DEF SemExit, SysExit, ProgramRuns
<1>8. ASSUME NEW p \in KillTargets, SemKill(p)
      PROVE  SemTypeOK'
  BY <1>8, RemoveTypes, TargetsAssumption DEF SemKill
<1>9. CASE \/ \E p \in BlockTargets : SemUnblock(p)
           \/ OtherHandler
           \/ UNCHANGED allVars
  <2>1. UNCHANGED <<created, status, blocked_pids>>
    BY <1>9 DEF SemUnblock, OtherHandler, allVars, semVars
  <2> QED
    BY <2>1 DEF SemTypeOK
<1> QED
  BY <1>2, <1>3, <1>4, <1>5, <1>6, <1>7, <1>8, <1>9 DEF SemNext

\* The ids, counts and queues of the semaphores keep their types, whatever
\* values create_sem is given.
THEOREM SemTypeCorrect == SemSpec => []SemTypeOK
<1>1. SemInit => TableInv /\ SemTypeOK
  BY InitTable, InitCount DEF SemInit, CountInv
<1>2. TableInv /\ SemTypeOK /\ [SemNext]_allVars => (TableInv /\ SemTypeOK)'
  BY SemNextTable, SemTypeNext
<1> QED
  BY <1>1, <1>2, PTL DEF SemSpec

\* As long as no semaphore is created with a negative value, it counts its
\* sleepers exactly, whatever else programs do: sem_post never takes a pid out
\* of an empty queue and no kill loses a count.
THEOREM CountsSleepers ==
  ASSUME NonNegativeStarts
  PROVE  SemSpec => []QueueMatchesStatus
<1>1. SemInit => TableInv /\ CountInv
  BY InitTable, InitCount DEF SemInit
<1>2. TableInv /\ CountInv /\ [SemNext]_allVars => (TableInv /\ CountInv)'
  BY SemNextTable, CountNext
<1>3. CountInv => QueueMatchesStatus
  BY DEF CountInv
<1> QED
  BY <1>1, <1>2, <1>3, PTL DEF SemSpec

-----------------------------------------------------------------------------
(* Sleeping: who is in a queue is asleep because of it and of nothing else. *)

\* Over a table, the waits, idle and the set Q of the processes in queues.
Sleeping(st, wf, idle, Q) ==
  /\ \A p \in Q : st[p] = "BLOCKED" /\ wf[p] = 0 /\ p # idle
  /\ \A p \in Pids : wf[p] # 0 => st[p] \in {"BLOCKED", "KILLED"} /\ p # idle

QueuedPids == {p \in Pids : Queued(p)}

SleepInv ==
  /\ Sleeping(state, waiting_for_pid, idle_pcb, QueuedPids)
  /\ InOneQueue

\* The scheduler wakes nobody but idle.
LEMMA TickSleeps ==
  ASSUME TypeOK, NEW st, NEW wf, HandlerTable(st, wf),
         NEW Q \in SUBSET Pids, Sleeping(st, wf, idle_pcb, Q),
         schedule_tick(st, wf)
  PROVE  Sleeping(state', waiting_for_pid', idle_pcb', Q)
<1>1. CASE KeepRunning(st, wf)
  BY <1>1 DEF KeepRunning, Sleeping
<1>2. CASE scheduler(st, wf)
  <2>1. \/ state' = Reaped(Preempted(st))
        \/ \E q \in Pids :
             /\ state' = [Reaped(Preempted(st)) EXCEPT ![q] = "RUNNING"]
             /\ Preempted(st)[q] = "READY" \/ q = idle_pcb
    <3>1. CASE RunNext(st)
      BY <3>1 DEF RunNext, Dispatch, Candidates
    <3>2. CASE RunIdle(st)
      <4>1. ReapedIdle(st) \in Pids /\ ReapedIdle(st) = idle_pcb
        BY <3>2, ReapedTable DEF RunIdle, Pids, ReapedIdle
      <4> QED
        BY <3>2, <4>1 DEF RunIdle, Dispatch
    <3>3. CASE RunNobody(st)
      BY <3>3 DEF RunNobody
    <3> QED
      BY <1>2, <3>1, <3>2, <3>3 DEF scheduler
  <2>2. \A p \in Pids : st[p] = "BLOCKED" => Preempted(st)[p] = "BLOCKED"
    BY DEF Preempted, HandlerTable
  <2>3. \A p \in Pids : st[p] = "BLOCKED" /\ p # idle_pcb => state'[p] = "BLOCKED"
    <3> SUFFICES ASSUME NEW p \in Pids, st[p] = "BLOCKED", p # idle_pcb
                 PROVE  state'[p] = "BLOCKED"
      OBVIOUS
    <3>1. Preempted(st)[p] = "BLOCKED" /\ Reaped(Preempted(st))[p] = "BLOCKED"
      BY <2>2 DEF Reaped
    <3> QED
      BY <2>1, <3>1, ReapedTable
  <2>4. waiting_for_pid' = ReapedField(wf, st, 0) /\ idle_pcb' \in {0, idle_pcb}
    BY <1>2 DEF scheduler, ReapedIdle
  <2>5. ASSUME NEW p \in Q
        PROVE  state'[p] = "BLOCKED" /\ waiting_for_pid'[p] = 0 /\ p # idle_pcb'
    BY <2>3, <2>4 DEF Sleeping, ReapedField, Pids
  <2>6. ASSUME NEW p \in Pids, waiting_for_pid'[p] # 0
        PROVE  state'[p] = "BLOCKED" /\ p # idle_pcb'
    BY <2>3, <2>4, <2>6 DEF Sleeping, ReapedField, Pids
  <2> QED
    BY <2>5, <2>6 DEF Sleeping
<1> QED
  BY <1>1, <1>2 DEF schedule_tick

(* How the handlers change the queues. *)

LEMMA TailLeaves ==
  ASSUME SemTypeOK, InOneQueue, NEW s \in Sems, blocked_pids[s] # <<>>,
         blocked_pids' = [blocked_pids EXCEPT ![s] = Tail(@)]
  PROVE  /\ InOneQueue'
         /\ QueuedPids' \subseteq QueuedPids \ {Head(blocked_pids[s])}
<1>1. \A t \in Sems : blocked_pids[t] \in Seq(Pids) /\ Len(blocked_pids[t]) \in Nat
  BY LenProperties DEF SemTypeOK
<1>2. /\ Len(blocked_pids'[s]) = Len(blocked_pids[s]) - 1
      /\ \A i \in 1..Len(blocked_pids'[s]) :
           blocked_pids'[s][i] = blocked_pids[s][i + 1]
  BY <1>1, HeadTailProperties DEF SemTypeOK
<1>3. \A t \in Sems : t # s => blocked_pids'[t] = blocked_pids[t]
  BY DEF SemTypeOK
<1>4. Head(blocked_pids[s]) = blocked_pids[s][1] /\ Len(blocked_pids[s]) >= 1
  BY <1>1, EmptySeq
<1>5. ASSUME NEW t \in Sems, NEW i \in 1..Len(blocked_pids'[t])
      PROVE  \E k \in 1..Len(blocked_pids[t]) :
               /\ blocked_pids'[t][i] = blocked_pids[t][k]
               /\ t = s => k = i + 1
               /\ t # s => k = i
  <2>1. CASE t = s
    <3>1. i + 1 \in 1..Len(blocked_pids[t])
      BY <1>1, <1>2, <1>5, <2>1
    <3> QED
      BY <1>2, <2>1, <3>1
  <2>2. CASE t # s
    BY <1>3, <2>2
  <2> QED
    BY <2>1, <2>2
<1>6. InOneQueue'
  <2> SUFFICES ASSUME NEW t \in Sems, NEW u \in Sems,
                      NEW i \in 1..Len(blocked_pids'[t]),
                      NEW j \in 1..Len(blocked_pids'[u]),
                      blocked_pids'[t][i] = blocked_pids'[u][j]
               PROVE  t = u /\ i = j
    BY DEF InOneQueue
  <2>1. PICK k \in 1..Len(blocked_pids[t]) :
          /\ blocked_pids'[t][i] = blocked_pids[t][k]
          /\ t = s => k = i + 1
          /\ t # s => k = i
    BY <1>5
  <2>2. PICK l \in 1..Len(blocked_pids[u]) :
          /\ blocked_pids'[u][j] = blocked_pids[u][l]
          /\ u = s => l = j + 1
          /\ u # s => l = j
    BY <1>5
  <2>3. t = u /\ k = l
    BY <2>1, <2>2 DEF InOneQueue
  <2> QED
    BY <2>1, <2>2, <2>3
<1>7. ASSUME NEW p \in Pids, NEW t \in Sems, Contains(blocked_pids'[t], p)
      PROVE  Queued(p) /\ p # Head(blocked_pids[s])
  <2>1. PICK i \in 1..Len(blocked_pids'[t]) : blocked_pids'[t][i] = p
    BY <1>7 DEF Contains
  <2>2. PICK k \in 1..Len(blocked_pids[t]) :
          /\ blocked_pids'[t][i] = blocked_pids[t][k]
          /\ t = s => k = i + 1
          /\ t # s => k = i
    BY <1>5
  <2>3. p # Head(blocked_pids[s])
    <3> SUFFICES ASSUME p = blocked_pids[s][1]
                 PROVE  FALSE
      BY <1>4
    <3>1. 1 \in 1..Len(blocked_pids[s])
      BY <1>1, <1>4
    <3>2. t = s /\ k = 1
      <4>1. blocked_pids[t][k] = blocked_pids[s][1]
        BY <2>1, <2>2
      <4> QED
        BY <3>1, <4>1 DEF InOneQueue
    <3>3. k = i + 1 /\ i \in Nat /\ i >= 1
      BY <2>2, <3>2
    <3> QED
      BY <3>2, <3>3
  <2> QED
    BY <2>1, <2>2, <2>3 DEF Queued, Contains
<1> QED
  BY <1>6, <1>7 DEF QueuedPids, Queued

LEMMA RemoveLeaves ==
  ASSUME SemTypeOK, InOneQueue, NEW p \in Pids, sem_remove_pid(p)
  PROVE  /\ InOneQueue'
         /\ QueuedPids' \subseteq QueuedPids \ {p}
<1>1. \A t \in Sems : blocked_pids[t] \in Seq(Pids) /\ Len(blocked_pids[t]) \in Nat
  BY LenProperties DEF SemTypeOK
<1>2. \A t \in Sems : blocked_pids'[t] = RemoveFirst(blocked_pids[t], p)
  BY DEF sem_remove_pid
<1>3. ASSUME NEW t \in Sems
      PROVE  \E k \in Nat :
               /\ k \in 1..Len(blocked_pids[t]) => blocked_pids[t][k] = p
               /\ k = 0 => ~Contains(blocked_pids[t], p)
               /\ \A i \in 1..Len(blocked_pids'[t]) :
                    /\ k = 0 => i \in 1..Len(blocked_pids[t])
                    /\ k = 0 => blocked_pids'[t][i] = blocked_pids[t][i]
                    /\ k # 0 => k \in 1..Len(blocked_pids[t])
                    /\ k # 0 => i + 1 \in 1..Len(blocked_pids[t])
                    /\ k # 0 => blocked_pids'[t][i] =
                         IF i < k THEN blocked_pids[t][i] ELSE blocked_pids[t][i + 1]
  <2>1. CASE Contains(blocked_pids[t], p)
    <3>1. PICK k \in 1..Len(blocked_pids[t]) :
            /\ blocked_pids[t][k] = p
            /\ Len(blocked_pids'[t]) = Len(blocked_pids[t]) - 1
            /\ \A i \in 1..(Len(blocked_pids[t]) - 1) :
                 blocked_pids'[t][i] = IF i < k THEN blocked_pids[t][i]
                                                ELSE blocked_pids[t][i + 1]
      <4>1. blocked_pids[t] \in Seq(Pids) /\ blocked_pids'[t] = RemoveFirst(blocked_pids[t], p)
        BY <1>1, <1>2
      <4>2. \E k \in 1..Len(blocked_pids[t]) :
              /\ blocked_pids[t][k] = p
              /\ Len(RemoveFirst(blocked_pids[t], p)) = Len(blocked_pids[t]) - 1
              /\ \A i \in 1..(Len(blocked_pids[t]) - 1) :
                   RemoveFirst(blocked_pids[t], p)[i] =
                     IF i < k THEN blocked_pids[t][i] ELSE blocked_pids[t][i + 1]
        BY ONLY <2>1, <4>1, RemoveFirstShifts, SMTT(30)
      <4> QED
        BY <4>1, <4>2
    <3>2. k \in Nat /\ k # 0
      BY <1>1
    <3>3. \A i \in 1..(Len(blocked_pids[t]) - 1) : i + 1 \in 1..Len(blocked_pids[t])
      BY <1>1
    <3> QED
      BY <3>1, <3>2, <3>3
  <2>2. CASE ~Contains(blocked_pids[t], p)
    <3>1. blocked_pids'[t] = blocked_pids[t] /\ 0 \in Nat
      BY <1>2, <2>2, RemoveFirstAbsent
    <3>2. 0 \notin 1..Len(blocked_pids[t])
      BY <1>1
    <3> QED
      BY <2>2, <3>1, <3>2
  <2> QED
    BY <2>1, <2>2
\* An entry i of a new queue is entry k of the old one, and is not p.
<1>4. ASSUME NEW t \in Sems
      PROVE  \A i \in 1..Len(blocked_pids'[t]) :
               \E k \in 1..Len(blocked_pids[t]) :
                 /\ blocked_pids'[t][i] = blocked_pids[t][k]
                 /\ blocked_pids[t][k] # p
                 /\ \A j \in 1..Len(blocked_pids'[t]) :
                      blocked_pids'[t][j] = blocked_pids[t][k] => i = j
  <2>1. PICK d \in Nat :
               /\ d \in 1..Len(blocked_pids[t]) => blocked_pids[t][d] = p
               /\ d = 0 => ~Contains(blocked_pids[t], p)
               /\ \A i \in 1..Len(blocked_pids'[t]) :
                    /\ d = 0 => i \in 1..Len(blocked_pids[t])
                    /\ d = 0 => blocked_pids'[t][i] = blocked_pids[t][i]
                    /\ d # 0 => d \in 1..Len(blocked_pids[t])
                    /\ d # 0 => i + 1 \in 1..Len(blocked_pids[t])
                    /\ d # 0 => blocked_pids'[t][i] =
                         IF i < d THEN blocked_pids[t][i] ELSE blocked_pids[t][i + 1]
    BY <1>3
  <2> DEFINE old(i) == IF d = 0 \/ i < d THEN i ELSE i + 1
  <2>2. ASSUME NEW i \in 1..Len(blocked_pids'[t])
        PROVE  /\ old(i) \in 1..Len(blocked_pids[t])
               /\ blocked_pids'[t][i] = blocked_pids[t][old(i)]
               /\ d # 0 => old(i) # d
    <3>1. i \in Nat /\ i >= 1 /\ Len(blocked_pids[t]) \in Nat
      BY <1>1
    <3>2. CASE d = 0
      BY <2>1, <3>1, <3>2
    <3>3. CASE d # 0 /\ i < d
      BY <2>1, <3>1, <3>3
    <3>4. CASE d # 0 /\ ~(i < d)
      BY <2>1, <3>1, <3>4
    <3> QED
      BY <3>2, <3>3, <3>4
  <2>3. ASSUME NEW i \in 1..Len(blocked_pids'[t]), NEW j \in 1..Len(blocked_pids'[t]),
               old(i) = old(j)
        PROVE  i = j
    <3>1. i \in Int /\ j \in Int /\ d \in Int
      BY <2>1
    <3> QED
      BY <2>3, <3>1
  <2> HIDE DEF old
  <2>4. ASSUME NEW i \in 1..Len(blocked_pids'[t])
        PROVE  blocked_pids[t][old(i)] # p
    <3>1. CASE d = 0
      BY <2>1, <2>2, <3>1 DEF Contains
    <3>2. CASE d # 0
      <4>1. d \in 1..Len(blocked_pids[t]) /\ blocked_pids[t][d] = p
        BY <2>1, <3>2
      <4> QED
        BY <2>2, <3>2, <4>1 DEF InOneQueue
    <3> QED
      BY <3>1, <3>2
  <2>5. ASSUME NEW i \in 1..Len(blocked_pids'[t]), NEW j \in 1..Len(blocked_pids'[t]),
               blocked_pids'[t][j] = blocked_pids[t][old(i)]
        PROVE  i = j
    <3>1. old(i) = old(j)
      BY <2>2, <2>5 DEF InOneQueue
    <3> QED
      BY <2>3, <3>1
  <2> QED
    BY <2>2, <2>4, <2>5
<1>5. InOneQueue'
  <2> SUFFICES ASSUME NEW t \in Sems, NEW u \in Sems,
                      NEW i \in 1..Len(blocked_pids'[t]),
                      NEW j \in 1..Len(blocked_pids'[u]),
                      blocked_pids'[t][i] = blocked_pids'[u][j]
               PROVE  t = u /\ i = j
    BY DEF InOneQueue
  <2>1. PICK k \in 1..Len(blocked_pids[t]) :
          /\ blocked_pids'[t][i] = blocked_pids[t][k]
          /\ \A j_1 \in 1..Len(blocked_pids'[t]) :
               blocked_pids'[t][j_1] = blocked_pids[t][k] => i = j_1
    BY <1>4
  <2>2. PICK l \in 1..Len(blocked_pids[u]) : blocked_pids'[u][j] = blocked_pids[u][l]
    BY <1>4
  <2>3. t = u
    BY <2>1, <2>2 DEF InOneQueue
  <2> QED
    BY <2>1, <2>3
<1>6. ASSUME NEW q \in Pids, NEW t \in Sems, Contains(blocked_pids'[t], q)
      PROVE  Queued(q) /\ q # p
  BY <1>4, <1>6 DEF Queued, Contains
<1> QED
  BY <1>5, <1>6 DEF QueuedPids, Queued

LEMMA AppendJoins ==
  ASSUME SemTypeOK, InOneQueue, NEW s \in Sems, NEW p \in Pids, ~Queued(p),
         blocked_pids' = [blocked_pids EXCEPT ![s] = Append(@, p)]
  PROVE  /\ InOneQueue'
         /\ QueuedPids' \subseteq QueuedPids \union {p}
<1>1. \A t \in Sems : blocked_pids[t] \in Seq(Pids) /\ Len(blocked_pids[t]) \in Nat
  BY LenProperties DEF SemTypeOK
<1>2. \A t \in Sems : \A i \in 1..Len(blocked_pids[t]) : blocked_pids[t][i] # p
  BY DEF Queued, Contains
<1>3. /\ Len(blocked_pids'[s]) = Len(blocked_pids[s]) + 1
      /\ \A i \in 1..Len(blocked_pids[s]) : blocked_pids'[s][i] = blocked_pids[s][i]
      /\ blocked_pids'[s][Len(blocked_pids[s]) + 1] = p
  BY <1>1, AppendProperties DEF SemTypeOK
<1>4. \A t \in Sems : t # s => blocked_pids'[t] = blocked_pids[t]
  BY DEF SemTypeOK
<1>5. ASSUME NEW t \in Sems, NEW i \in 1..Len(blocked_pids'[t])
      PROVE  \/ i \in 1..Len(blocked_pids[t]) /\ blocked_pids'[t][i] = blocked_pids[t][i]
             \/ t = s /\ i = Len(blocked_pids[s]) + 1 /\ blocked_pids'[t][i] = p
  <2>1. CASE t = s
    BY <1>1, <1>3, <2>1
  <2>2. CASE t # s
    BY <1>4, <2>2
  <2> QED
    BY <2>1, <2>2
<1>6. InOneQueue'
  <2> SUFFICES ASSUME NEW t \in Sems, NEW u \in Sems,
                      NEW i \in 1..Len(blocked_pids'[t]),
                      NEW j \in 1..Len(blocked_pids'[u]),
                      blocked_pids'[t][i] = blocked_pids'[u][j]
               PROVE  t = u /\ i = j
    BY DEF InOneQueue
  <2> QED
    BY <1>2, <1>5 DEF InOneQueue
<1>7. ASSUME NEW q \in Pids, NEW t \in Sems, Contains(blocked_pids'[t], q)
      PROVE  Queued(q) \/ q = p
  BY <1>5, <1>7 DEF Queued, Contains
<1> QED
  BY <1>6, <1>7 DEF QueuedPids, Queued

LEMMA ClearLeaves ==
  ASSUME SemTypeOK, InOneQueue, NEW s \in Sems,
         blocked_pids' = [blocked_pids EXCEPT ![s] = <<>>]
  PROVE  /\ InOneQueue'
         /\ QueuedPids' \subseteq QueuedPids \ ToSet(blocked_pids[s])
<1>1. \A t \in Sems : blocked_pids[t] \in Seq(Pids) /\ Len(blocked_pids[t]) \in Nat
  BY LenProperties DEF SemTypeOK
<1>2. Len(blocked_pids'[s]) = 0
  BY EmptySeq DEF SemTypeOK
<1>3. \A t \in Sems : t # s => blocked_pids'[t] = blocked_pids[t]
  BY DEF SemTypeOK
<1>4. ASSUME NEW t \in Sems, NEW i \in 1..Len(blocked_pids'[t])
      PROVE  t # s
  BY <1>2
<1>5. InOneQueue'
  BY <1>3, <1>4 DEF InOneQueue
<1>6. ASSUME NEW q \in Pids, NEW t \in Sems, Contains(blocked_pids'[t], q)
      PROVE  Queued(q) /\ q \notin ToSet(blocked_pids[s])
  <2>1. PICK i \in 1..Len(blocked_pids'[t]) : blocked_pids'[t][i] = q
    BY <1>6 DEF Contains
  <2>2. t # s /\ i \in 1..Len(blocked_pids[t]) /\ blocked_pids[t][i] = q
    BY <1>3, <1>4, <2>1
  <2>3. DOMAIN blocked_pids[s] = 1..Len(blocked_pids[s])
    BY <1>1, LenProperties
  <2> QED
    BY <2>2, <2>3 DEF InOneQueue, Queued, Contains, ToSet
<1> QED
  BY <1>5, <1>6 DEF QueuedPids, Queued

-----------------------------------------------------------------------------
(* What the handlers do to the sleepers. *)

LEMMA SleepingSubset ==
  ASSUME NEW st, NEW wf, NEW idle, NEW Q, NEW R, R \subseteq Q,
         Sleeping(st, wf, idle, Q)
  PROVE  Sleeping(st, wf, idle, R)
  BY DEF Sleeping

LEMMA ReturnSleeps ==
  ASSUME NEW st, NEW wf, NEW Q, Sleeping(st, wf, idle_pcb, Q),
         ReturnToCaller(st, wf)
  PROVE  Sleeping(state', waiting_for_pid', idle_pcb', Q)
  BY DEF ReturnToCaller, Sleeping

LEMMA ExitSleeps ==
  ASSUME TableInv, SleepInv, NEW p \in Pids
  PROVE  Sleeping(exit_process(state, p), StopWaiting(p), idle_pcb, QueuedPids \ {p})
<1>1. ASSUME NEW q \in QueuedPids \ {p}
      PROVE  /\ exit_process(state, p)[q] = "BLOCKED"
             /\ StopWaiting(p)[q] = 0 /\ q # idle_pcb
  <2>1. q \in Pids /\ state[q] = "BLOCKED" /\ waiting_for_pid[q] = 0 /\ q # idle_pcb
    BY DEF SleepInv, Sleeping, QueuedPids
  <2>2. q \notin Waiters(p)
    BY <2>1 DEF Waiters, Pids
  <2> QED
    BY <2>1, <2>2 DEF exit_process, unblock_process, StopWaiting, TableInv, TypeOK
<1>2. ASSUME NEW q \in Pids, StopWaiting(p)[q] # 0
      PROVE  exit_process(state, p)[q] \in {"BLOCKED", "KILLED"} /\ q # idle_pcb
  <2>1. waiting_for_pid[q] # 0 /\ q \notin Waiters(p)
    BY <1>2 DEF StopWaiting
  <2>2. state[q] \in {"BLOCKED", "KILLED"} /\ q # idle_pcb
    BY <2>1 DEF SleepInv, Sleeping
  <2> QED
    BY <2>1, <2>2 DEF exit_process, unblock_process, TableInv, TypeOK
<1> QED
  BY <1>1, <1>2 DEF Sleeping

LEMMA BlockSleeps ==
  ASSUME TableInv, SleepInv, NEW p \in Pids
  PROVE  Sleeping(block_process(state, p), waiting_for_pid, idle_pcb, QueuedPids)
  BY DEF SleepInv, Sleeping, QueuedPids, block_process, TableInv, TypeOK

\* The processes in S are not in a waitpid.
LEMMA UnblockSleeps ==
  ASSUME SleepInv, NEW S, \A p \in Pids : p \in S => waiting_for_pid[p] = 0
  PROVE  Sleeping(unblock_process(state, S), waiting_for_pid, idle_pcb, QueuedPids \ S)
  BY DEF SleepInv, Sleeping, QueuedPids, unblock_process

LEMMA CreateSleeps ==
  ASSUME TableInv, SleepInv, SysCreate
  PROVE  Sleeping(state', waiting_for_pid', idle_pcb', QueuedPids)
<1>1. /\ waiting_for_pid' = ReapedField(waiting_for_pid, state, 0)
      /\ idle_pcb' \in {0, idle_pcb}
  BY DEF SysCreate, CreateFails, CreateIn, ReapedIdle
<1>2. \A p \in Pids : state[p] = "BLOCKED" => state'[p] = "BLOCKED"
  <2> SUFFICES ASSUME NEW p \in Pids, state[p] = "BLOCKED"
               PROVE  state'[p] = "BLOCKED"
    OBVIOUS
  <2>1. Reaped(state)[p] = "BLOCKED"
    BY DEF Reaped
  <2>2. CASE CreateFails
    BY <2>1, <2>2 DEF CreateFails
  <2>3. ASSUME NEW q \in Pids, CreateIn(q)
        PROVE  state'[p] = "BLOCKED"
    <3>1. q # p /\ state' = [Reaped(state) EXCEPT ![q] = "READY"]
      BY <2>1, <2>3 DEF CreateIn
    <3> QED
      BY <2>1, <3>1
  <2> QED
    BY <2>2, <2>3 DEF SysCreate
<1>3. ASSUME NEW p \in QueuedPids
      PROVE  state'[p] = "BLOCKED" /\ waiting_for_pid'[p] = 0 /\ p # idle_pcb'
  BY <1>1, <1>2 DEF SleepInv, Sleeping, QueuedPids, ReapedField, Pids
<1>4. ASSUME NEW p \in Pids, waiting_for_pid'[p] # 0
      PROVE  state'[p] = "BLOCKED" /\ p # idle_pcb'
  BY <1>1, <1>2, <1>4 DEF SleepInv, Sleeping, ReapedField, Pids
<1> QED
  BY <1>3, <1>4 DEF Sleeping

LEMMA InitSleeps == SemInit => SleepInv
<1> SUFFICES ASSUME SemInit
             PROVE  SleepInv
  OBVIOUS
<1>1. \A s \in Sems : 1..Len(blocked_pids[s]) = {}
  BY EmptySeq DEF SemInit
<1> QED
  BY <1>1 DEF SemInit, Init, SleepInv, Sleeping, InOneQueue, QueuedPids, Queued, Contains

LEMMA SleepNext ==
  ASSUME UnblocksSleepers = FALSE, TableInv, CountInv, SleepInv,
         [SemNext]_allVars
  PROVE  SleepInv'
<1>1. /\ TypeOK /\ SemTypeOK /\ InOneQueue
      /\ QueuedPids \in SUBSET Pids
      /\ Sleeping(state, waiting_for_pid, idle_pcb, QueuedPids)
  BY DEF TableInv, CountInv, SleepInv, QueuedPids
<1>2. ProgramRuns => /\ current_process \in Pids
                     /\ current_process # 0 /\ current_process # idle_pcb
                     /\ state[current_process] = "RUNNING"
                     /\ waiting_for_pid[current_process] = 0
                     /\ ~Queued(current_process)
  BY DEF ProgramRuns, TableInv, TypeOK, OnlyCurrentRuns, SleepInv, Sleeping,
         QueuedPids, Pids
<1>3. ASSUME UNCHANGED <<state, waiting_for_pid, idle_pcb, blocked_pids>>
      PROVE  SleepInv'
  BY <1>3 DEF SleepInv, Sleeping, InOneQueue, QueuedPids, Queued
<1>4. ASSUME blocked_pids' = blocked_pids,
             Sleeping(state', waiting_for_pid', idle_pcb', QueuedPids)
      PROVE  SleepInv'
  <2>1. QueuedPids' = QueuedPids /\ InOneQueue'
    BY <1>1, <1>4 DEF QueuedPids, Queued, InOneQueue
  <2> QED
    BY <1>4, <2>1 DEF SleepInv, Sleeping
<1>5. ASSUME InOneQueue', NEW Q, QueuedPids' \subseteq Q,
             Sleeping(state', waiting_for_pid', idle_pcb', Q)
      PROVE  SleepInv'
  BY <1>5 DEF SleepInv, Sleeping
<1>6. ASSUME NEW s \in Sems, SemWaitTakes(s) \/ SemPostAdds(s)
      PROVE  SleepInv'
  BY <1>3, <1>6 DEF SemWaitTakes, SemPostAdds, ReturnToCaller
<1>7. ASSUME NEW s \in Sems, SemWaitBlocks(s)
      PROVE  SleepInv'
  <2> DEFINE st == block_process(state, current_process)
             Q == QueuedPids \union {current_process}
  <2>1. ProgramRuns /\ schedule_tick(st, waiting_for_pid)
    BY <1>7 DEF SemWaitBlocks, MayWait
  <2>2. Sleeping(st, waiting_for_pid, idle_pcb, Q)
    <3>1. Sleeping(st, waiting_for_pid, idle_pcb, QueuedPids)
      BY <1>2, <2>1, BlockSleeps
    <3>2. st[current_process] = "BLOCKED"
      BY <1>1, <1>2, <2>1 DEF block_process, TypeOK
    <3> QED
      BY <1>2, <2>1, <3>1, <3>2 DEF Sleeping
  <2>3. HandlerTable(st, waiting_for_pid) /\ Q \in SUBSET Pids
    BY <1>1, <1>2, <2>1, BlockTable
  <2>4. InOneQueue' /\ QueuedPids' \subseteq Q
    BY <1>1, <1>2, <1>7, <2>1, AppendJoins DEF SemWaitBlocks
  <2> HIDE DEF st, Q
  <2>5. Sleeping(state', waiting_for_pid', idle_pcb', Q)
    BY <1>1, <2>1, <2>2, <2>3, TickSleeps
  <2> QED
    BY <1>5, <2>4, <2>5
<1>8. ASSUME NEW s \in Sems, SemPostWakes(s)
      PROVE  SleepInv'
  <2> DEFINE h == Head(blocked_pids[s])
  <2>1. status[s] < 0 /\ blocked_pids[s] # <<>>
    BY <1>8 DEF SemPostWakes
  <2>2. InOneQueue' /\ QueuedPids' \subseteq QueuedPids \ {h}
    BY <1>1, <1>8, <2>1, TailLeaves DEF SemPostWakes
  <2>3. h \in Pids /\ Queued(h)
    <3>1. /\ blocked_pids[s] \in Seq(Pids)
          /\ 1 \in 1..Len(blocked_pids[s]) /\ h = blocked_pids[s][1]
      BY <1>1, <2>1, EmptySeq, LenProperties DEF SemTypeOK
    <3> QED
      BY <3>1, ElementOfSeq DEF Queued, Contains
  <2> HIDE DEF h
  <2>4. waiting_for_pid[h] = 0
    BY <1>1, <2>3 DEF Sleeping, QueuedPids
  <2>5. Sleeping(unblock_process(state, {h}), waiting_for_pid, idle_pcb, QueuedPids \ {h})
    BY <2>4, UnblockSleeps
  <2>6. ReturnToCaller(unblock_process(state, {h}), waiting_for_pid)
    BY <1>8 DEF SemPostWakes, h
  <2> QED
    BY <1>5, <2>2, <2>5, <2>6, ReturnSleeps
<1>9. ASSUME NEW s \in Sems, NEW v \in InitialValues, CreateSem(s, v)
      PROVE  SleepInv'
  <2>1. InOneQueue' /\ QueuedPids' \subseteq QueuedPids
    BY <1>1, <1>9, ClearLeaves DEF CreateSem
  <2>2. Sleeping(state', waiting_for_pid', idle_pcb', QueuedPids)
    BY <1>1, <1>9 DEF CreateSem, ReturnToCaller
  <2> QED
    BY <1>5, <2>1, <2>2
<1>10. ASSUME NEW s \in Sems, DeleteSem(s)
       PROVE  SleepInv'
  <2> DEFINE S == ToSet(blocked_pids[s])
  <2>1. InOneQueue' /\ QueuedPids' \subseteq QueuedPids \ S
    BY <1>1, <1>10, ClearLeaves DEF DeleteSem
  <2>2. \A p \in Pids : p \in S => waiting_for_pid[p] = 0
    <3>1. DOMAIN blocked_pids[s] = 1..Len(blocked_pids[s])
      BY <1>1, LenProperties DEF SemTypeOK
    <3>2. \A p \in Pids : p \in S => Queued(p)
      BY <3>1 DEF ToSet, Queued, Contains
    <3> QED
      BY <1>1, <3>2 DEF Sleeping, QueuedPids
  <2>3. ReturnToCaller(unblock_process(state, S), waiting_for_pid)
    BY <1>10 DEF DeleteSem
  <2> HIDE DEF S
  <2>4. Sleeping(unblock_process(state, S), waiting_for_pid, idle_pcb, QueuedPids \ S)
    BY <2>2, UnblockSleeps
  <2> QED
    BY <1>5, <2>1, <2>3, <2>4, ReturnSleeps
<1>11. CASE SemExit
  <2>1. /\ ProgramRuns /\ current_process \in Pids
        /\ state[current_process] # "NONE"
        /\ schedule_tick(exit_process(state, current_process),
                         StopWaiting(current_process))
    BY <1>2, <1>11 DEF SemExit, SysExit
  <2>2. InOneQueue' /\ QueuedPids' \subseteq QueuedPids \ {current_process}
    BY <1>1, <1>11, <2>1, RemoveLeaves DEF SemExit
  <2>3. /\ Sleeping(exit_process(state, current_process), StopWaiting(current_process),
                    idle_pcb, QueuedPids \ {current_process})
        /\ HandlerTable(exit_process(state, current_process),
                        StopWaiting(current_process))
    BY <2>1, ExitSleeps, ExitTable
  <2>4. Sleeping(state', waiting_for_pid', idle_pcb', QueuedPids \ {current_process})
    BY <1>1, <2>1, <2>3, TickSleeps
  <2> QED
    BY <1>5, <2>2, <2>4
<1>12. ASSUME NEW p \in KillTargets, SemKill(p)
       PROVE  SleepInv'
  <2>1. p \in Pids /\ state[p] # "NONE"
    BY <1>12, TargetsAssumption DEF SemKill, SysKill
  <2>2. InOneQueue' /\ QueuedPids' \subseteq QueuedPids \ {p}
    BY <1>1, <1>12, <2>1, RemoveLeaves DEF SemKill
  <2>3. /\ Sleeping(exit_process(state, p), StopWaiting(p), idle_pcb, QueuedPids \ {p})
        /\ HandlerTable(exit_process(state, p), StopWaiting(p))
    BY <2>1, ExitSleeps, ExitTable
  <2>4. \/ schedule_tick(exit_process(state, p), StopWaiting(p))
        \/ ReturnToCaller(exit_process(state, p), StopWaiting(p))
    BY <1>12 DEF SemKill, SysKill
  <2>5. Sleeping(state', waiting_for_pid', idle_pcb', QueuedPids \ {p})
    BY <1>1, <2>3, <2>4, TickSleeps, ReturnSleeps
  <2> QED
    BY <1>5, <2>2, <2>5
<1>13. ASSUME NEW p \in BlockTargets, SemUnblock(p)
       PROVE  SleepInv'
  <2>1. /\ p \in Pids /\ ~SleepsInCall(p)
        /\ ReturnToCaller(unblock_process(state, {p}), waiting_for_pid)
        /\ blocked_pids' = blocked_pids
    BY <1>13, TargetsAssumption DEF SemUnblock, SysUnblock, semVars
  <2>2. CASE state[p] = "BLOCKED"
    <3>1. p \notin QueuedPids /\ waiting_for_pid[p] = 0
      BY <2>1, <2>2 DEF SleepsInCall, QueuedPids
    <3>2. Sleeping(unblock_process(state, {p}), waiting_for_pid, idle_pcb,
                   QueuedPids \ {p})
      BY <3>1, UnblockSleeps
    <3>3. QueuedPids \ {p} = QueuedPids
      BY <3>1
    <3> QED
      BY <1>4, <2>1, <3>2, <3>3, ReturnSleeps
  <2>3. CASE state[p] # "BLOCKED"
    <3>1. unblock_process(state, {p}) = state
      BY <1>1, <2>3 DEF unblock_process, TypeOK
    <3> QED
      BY <1>3, <2>1, <3>1 DEF ReturnToCaller
  <2> QED
    BY <2>2, <2>3
<1>14. CASE OtherHandler
  <2>1. blocked_pids' = blocked_pids
    BY <1>14 DEF OtherHandler, semVars
  <2>2. HandlerTable(state, waiting_for_pid)
    BY UnchangedTable
  <2>3. CASE TimerTick \/ SysYield
    BY <1>1, <1>4, <2>1, <2>2, <2>3, TickSleeps DEF TimerTick, SysYield
  <2>4. CASE SysCreate
    BY <1>4, <2>1, <2>4, CreateSleeps
  <2>5. ASSUME NEW p \in BlockTargets, SysBlock(p)
        PROVE  SleepInv'
    <3>1. p \in Pids /\ state[p] # "NONE"
      BY <2>5, TargetsAssumption DEF SysBlock
    <3>2. /\ Sleeping(block_process(state, p), waiting_for_pid, idle_pcb, QueuedPids)
          /\ HandlerTable(block_process(state, p), waiting_for_pid)
      BY <3>1, BlockSleeps, BlockTable
    <3>3. \/ schedule_tick(block_process(state, p), waiting_for_pid)
          \/ ReturnToCaller(block_process(state, p), waiting_for_pid)
      BY <2>5 DEF SysBlock
    <3> QED
      BY <1>1, <1>4, <2>1, <3>2, <3>3, TickSleeps, ReturnSleeps
  <2>6. ASSUME NEW p \in Pids, SysWaitpid(p)
        PROVE  SleepInv'
    <3> DEFINE st == block_process(state, current_process)
               wf == [waiting_for_pid EXCEPT ![current_process] = p]
    <3>1. /\ ProgramRuns /\ schedule_tick(st, wf)
          /\ state[p] \notin {"NONE", "KILLED"}
      BY <2>6 DEF SysWaitpid
    <3>2. HandlerTable(st, wf)
      BY <1>2, <3>1, WaitpidTable
    <3>3. Sleeping(st, waiting_for_pid, idle_pcb, QueuedPids)
      BY <1>2, <3>1, BlockSleeps
    <3>4. /\ st[current_process] = "BLOCKED"
          /\ current_process \notin QueuedPids
          /\ wf \in [Pids -> 0..MAX_PROCESSES]
          /\ \A q \in Pids : q # current_process => wf[q] = waiting_for_pid[q]
      BY <1>1, <1>2, <3>1, <3>2 DEF block_process, TypeOK, QueuedPids, HandlerTable
    <3> HIDE DEF st, wf
    <3>5. Sleeping(st, wf, idle_pcb, QueuedPids)
      BY <1>1, <1>2, <3>1, <3>3, <3>4 DEF Sleeping
    <3> QED
      BY <1>1, <1>4, <2>1, <3>1, <3>2, <3>5, TickSleeps
  <2>7. ASSUME NEW p \in Pids, NEW new_priority \in Priorities, SysNice(p, new_priority)
        PROVE  SleepInv'
    BY <1>3, <2>1, <2>7 DEF SysNice
  <2> QED
    BY <1>14, <2>3, <2>4, <2>5, <2>6, <2>7 DEF OtherHandler
<1>15. CASE UNCHANGED allVars
  BY <1>3, <1>15 DEF allVars, vars, semVars
<1> QED
  BY <1>6, <1>7, <1>8, <1>9, <1>10, <1>11, <1>12, <1>13, <1>14, <1>15 DEF SemNext

-----------------------------------------------------------------------------
(* The theorems. *)

\* All that is inductive, together.
SemInv == TableInv /\ CountInv /\ SleepInv

LEMMA InitSemInv == SemInit => SemInv
  BY InitTable, InitCount, InitSleeps DEF SemInit, SemInv

LEMMA NextSemInv ==
  ASSUME UnblocksSleepers = FALSE, NonNegativeStarts
  PROVE  SemInv /\ [SemNext]_allVars => SemInv'
  BY SemNextTable, CountNext, SleepNext DEF SemInv

\* As long as nobody unblocks a process that sleeps in the kernel and values
\* start at 0 or above, kills, deletions, blocks and reused pids leave no phantom in a queue: whoever is in
\* one is asleep, so no post is wasted.
THEOREM QueuedAreAsleep ==
  ASSUME UnblocksSleepers = FALSE, NonNegativeStarts
  PROVE  SemSpec => []NoPhantoms
<1>1. SemInv => NoPhantoms
  BY DEF SemInv, SleepInv, Sleeping, QueuedPids, NoPhantoms
<1> QED
  BY <1>1, InitSemInv, NextSemInv, PTL DEF SemSpec

\* Under the same assumptions a process is in one queue at most, once, which is
\* what sem_remove_pid relies on when it stops at the first entry.
THEOREM OneQueueEach ==
  ASSUME UnblocksSleepers = FALSE, NonNegativeStarts
  PROVE  SemSpec => []InOneQueue
<1>1. SemInv => InOneQueue
  BY DEF SemInv, SleepInv
<1> QED
  BY <1>1, InitSemInv, NextSemInv, PTL DEF SemSpec

\* A sem_wait that has to sleep always finds a place in blocked_pids: at most
\* every process but the caller is there, once each.
THEOREM RoomToWait ==
  ASSUME UnblocksSleepers = FALSE, NonNegativeStarts
  PROVE  SemSpec => []WaitHasRoom
<1>1. ASSUME SemInv, ProgramRuns, NEW s \in Sems
      PROVE  Len(blocked_pids[s]) < MAX_BLOCKED_PIDS
  <2> DEFINE n == Len(blocked_pids[s])
             others == Pids \ {current_process}
  <2>1. /\ blocked_pids[s] \in [1..n -> Pids] /\ n \in Nat
        /\ \A i \in 1..n : blocked_pids[s][i] \in QueuedPids
    <3>1. blocked_pids[s] \in Seq(Pids)
      BY <1>1 DEF SemInv, CountInv, SemTypeOK
    <3>2. \A i \in 1..n : blocked_pids[s][i] \in Pids
      BY <3>1, ElementOfSeq
    <3> QED
      BY <3>1, <3>2, LenProperties DEF QueuedPids, Queued, Contains
  <2>2. current_process \in Pids /\ current_process \notin QueuedPids
    BY <1>1 DEF SemInv, TableInv, TypeOK, OnlyCurrentRuns, ProgramRuns, SleepInv,
                Sleeping, Pids
  <2>3. blocked_pids[s] \in [1..n -> others]
    BY <2>1, <2>2
  <2>4. \A i, j \in 1..n : blocked_pids[s][i] = blocked_pids[s][j] => i = j
    BY <1>1 DEF SemInv, SleepInv, InOneQueue
  <2>5. blocked_pids[s] \in Injection(1..n, others)
    BY <2>3, <2>4 DEF Injection, IsInjective
  <2>6. IsFiniteSet(others) /\ Cardinality(others) = MAX_PROCESSES - 1
    <3>1. IsFiniteSet(1..MAX_PROCESSES) /\ Cardinality(1..MAX_PROCESSES) = MAX_PROCESSES
      BY FS_Interval, TableAssumption
    <3>2. IsFiniteSet(Pids) /\ Cardinality(Pids) = MAX_PROCESSES
      BY <3>1 DEF Pids
    <3> QED
      BY <2>2, <3>2, FS_RemoveElement
  <2>7. Cardinality(1..n) = n
    BY <2>1, FS_Interval
  <2> HIDE DEF n, others
  <2>8. n <= MAX_PROCESSES - 1
    BY <2>5, <2>6, <2>7, FS_Injection
  <2>9. n \in Int
    BY <2>1
  <2> QED
    BY <2>8, <2>9, TableAssumption, SemAssumption DEF n
<1>2. SemInv => WaitHasRoom
  BY <1>1 DEF WaitHasRoom
<1> QED
  BY <1>2, InitSemInv, NextSemInv, PTL DEF SemSpec

-----------------------------------------------------------------------------
(* The refinement.  Two more facts are needed: a semaphore that does not   *)
(* exist has no sleepers, and idle_pcb never names a free slot.            *)

ClosedEmpty == \A s \in Sems : ~created[s] => blocked_pids[s] = <<>>

IdleLive == idle_pcb # 0 => state[idle_pcb] # "NONE"

\* The scheduler kills and revives nobody.
LEMMA TickAlive ==
  ASSUME TypeOK, NEW st, NEW wf, HandlerTable(st, wf),
         idle_pcb # 0 => st[idle_pcb] # "NONE",
         schedule_tick(st, wf)
  PROVE  Alive(state') = Alive(st) /\ IdleLive'
<1>1. CASE KeepRunning(st, wf)
  BY <1>1 DEF KeepRunning, Alive, IdleLive
<1>2. CASE scheduler(st, wf)
  <2> DEFINE base == Reaped(Preempted(st))
  <2>1. \/ state' = base
        \/ \E q \in Pids : /\ state' = [base EXCEPT ![q] = "RUNNING"]
                           /\ st[q] \notin {"NONE", "KILLED"}
    <3>1. CASE RunNext(st)
      <4>1. PICK q \in Candidates(Preempted(st)) : Dispatch(q, st, priority[q])
        BY <3>1 DEF RunNext
      <4>2. q \in Pids /\ Preempted(st)[q] = "READY"
        BY <4>1 DEF Candidates
      <4>3. st[q] \notin {"NONE", "KILLED"}
        BY <4>2 DEF Preempted, HandlerTable
      <4> QED
        BY <4>1, <4>2, <4>3 DEF Dispatch
    <3>2. CASE RunIdle(st)
      <4>1. ReapedIdle(st) \in Pids /\ st[ReapedIdle(st)] \notin {"NONE", "KILLED"}
        BY <3>2, ReapedTable DEF RunIdle, Pids, ReapedIdle
      <4> QED
        BY <3>2, <4>1 DEF RunIdle, Dispatch
    <3>3. CASE RunNobody(st)
      BY <3>3 DEF RunNobody
    <3> QED
      BY <1>2, <3>1, <3>2, <3>3 DEF scheduler
  <2>2. /\ base \in [Pids -> States]
        /\ \A p \in Pids : base[p] # "KILLED"
        /\ \A p \in Pids : base[p] = "NONE" <=> st[p] \in {"NONE", "KILLED"}
    BY ReapedTable
  <2> HIDE DEF base
  <2>3. \A p \in Pids : state'[p] \in {"NONE", "KILLED"} <=> st[p] \in {"NONE", "KILLED"}
    BY <2>1, <2>2
  <2>4. idle_pcb' # 0 => idle_pcb' = idle_pcb /\ st[idle_pcb] \notin {"NONE", "KILLED"}
    BY <1>2 DEF scheduler, ReapedIdle
  <2>5. idle_pcb # 0 => idle_pcb \in Pids
    BY DEF TypeOK, Pids
  <2> QED
    BY <2>3, <2>4, <2>5 DEF Alive, IdleLive
<1> QED
  BY <1>1, <1>2 DEF schedule_tick

LEMMA ReturnAlive ==
  ASSUME NEW st, NEW wf, idle_pcb # 0 => st[idle_pcb] # "NONE",
         ReturnToCaller(st, wf)
  PROVE  Alive(state') = Alive(st) /\ IdleLive'
  BY DEF ReturnToCaller, Alive, IdleLive

LEMMA ExitAlive ==
  ASSUME TypeOK, NEW p \in Pids, state[p] # "NONE"
  PROVE  /\ Alive(exit_process(state, p)) = Alive(state) \ {p}
         /\ \A q \in Pids : exit_process(state, p)[q] = "NONE" => state[q] = "NONE"
<1>1. exit_process(state, p)[p] = "KILLED"
  BY DEF TypeOK, exit_process, unblock_process
<1>2. \A q \in Pids : q # p =>
        (exit_process(state, p)[q] = state[q]
          \/ (state[q] = "BLOCKED" /\ exit_process(state, p)[q] = "READY"))
  BY DEF TypeOK, exit_process, unblock_process
<1> QED
  BY <1>1, <1>2 DEF Alive

LEMMA BlockAlive ==
  ASSUME TypeOK, NEW p \in Pids, state[p] # "NONE"
  PROVE  /\ Alive(block_process(state, p)) = Alive(state) \union {p}
         /\ \A q \in Pids : block_process(state, p)[q] = "NONE" => state[q] = "NONE"
<1>1. block_process(state, p) = [state EXCEPT ![p] = "BLOCKED"]
  BY DEF block_process
<1>2. /\ block_process(state, p)[p] = "BLOCKED"
      /\ \A q \in Pids : q # p => block_process(state, p)[q] = state[q]
  BY <1>1 DEF TypeOK
<1> QED
  BY <1>2 DEF Alive

LEMMA UnblockAlive ==
  ASSUME NEW S
  PROVE  /\ Alive(unblock_process(state, S)) = Alive(state)
         /\ \A q \in Pids : unblock_process(state, S)[q] = "NONE" => state[q] = "NONE"
  BY DEF unblock_process, Alive

LEMMA CreateAlive ==
  ASSUME TypeOK, IdleLive, SysCreate
  PROVE  /\ \/ Alive(state') = Alive(state)
            \/ \E p \in Pids : Alive(state') = Alive(state) \union {p}
         /\ IdleLive'
<1>1. \A q \in Pids : Reaped(state)[q] \in {"NONE", "KILLED"}
                        <=> state[q] \in {"NONE", "KILLED"}
  BY DEF Reaped
<1>2. idle_pcb' # 0 => /\ idle_pcb' = idle_pcb /\ idle_pcb \in Pids
                       /\ state[idle_pcb] \notin {"NONE", "KILLED"}
  BY DEF SysCreate, ReapedIdle, IdleLive, TypeOK, Pids
<1>3. CASE CreateFails
  BY <1>1, <1>2, <1>3 DEF CreateFails, Alive, IdleLive
<1>4. ASSUME NEW p \in Pids, CreateIn(p)
      PROVE  Alive(state') = Alive(state) \union {p} /\ IdleLive'
  <2>1. /\ state'[p] = "READY"
        /\ \A q \in Pids : q # p => state'[q] = Reaped(state)[q]
    BY <1>4 DEF CreateIn, Reaped
  <2> QED
    BY <1>1, <1>2, <2>1 DEF Alive, IdleLive
<1> QED
  BY <1>3, <1>4 DEF SysCreate

\* The facts the refinement adds to SemInv.
RefInv == ClosedEmpty /\ IdleLive

LEMMA InitRef == SemInit => RefInv
<1> SUFFICES ASSUME SemInit
             PROVE  RefInv
  OBVIOUS
<1> QED
  BY TableAssumption DEF SemInit, Init, RefInv, ClosedEmpty, IdleLive, Pids

\* With no sleepers there is nobody to remove.
LEMMA RemoveClosed ==
  ASSUME ClosedEmpty, SemTypeOK, NEW p \in Pids, sem_remove_pid(p)
  PROVE  ClosedEmpty'
<1> SUFFICES ASSUME NEW s \in Sems, ~created[s]
             PROVE  blocked_pids'[s] = <<>>
  BY DEF ClosedEmpty, sem_remove_pid
<1>1. blocked_pids[s] = <<>> /\ 1..Len(blocked_pids[s]) = {}
  BY EmptySeq DEF ClosedEmpty
<1> QED
  BY <1>1, RemoveFirstAbsent DEF sem_remove_pid, Contains

LEMMA ClosedNext ==
  ASSUME TableInv, CountInv, ClosedEmpty, [SemNext]_allVars,
         \A s \in Sems : SemWaitBlocks(s) => created[s]
  PROVE  ClosedEmpty'
<1> USE DEF CountInv, SemTypeOK, ClosedEmpty
<1>1. ASSUME UNCHANGED <<created, blocked_pids>>
      PROVE  ClosedEmpty'
  BY <1>1
<1>2. ASSUME NEW s \in Sems, SemWaitTakes(s) \/ SemPostAdds(s)
      PROVE  ClosedEmpty'
  BY <1>1, <1>2 DEF SemWaitTakes, SemPostAdds
<1>3. ASSUME NEW s \in Sems, SemWaitBlocks(s)
      PROVE  ClosedEmpty'
  BY <1>3 DEF SemWaitBlocks
<1>4. ASSUME NEW s \in Sems, SemPostWakes(s)
      PROVE  ClosedEmpty'
  <2>1. blocked_pids[s] # <<>>
    BY <1>4 DEF SemPostWakes
  <2> QED
    BY <1>4, <2>1 DEF SemPostWakes
<1>5. ASSUME NEW s \in Sems,
             DeleteSem(s) \/ \E v \in InitialValues : CreateSem(s, v)
      PROVE  ClosedEmpty'
  BY <1>5 DEF CreateSem, DeleteSem
<1>6. CASE SemExit
  <2>1. current_process \in Pids
    BY <1>6 DEF SemExit, SysExit, ProgramRuns, TableInv, TypeOK, Pids
  <2> QED
    BY <1>6, <2>1, RemoveClosed DEF SemExit
<1>7. ASSUME NEW p \in KillTargets, SemKill(p)
      PROVE  ClosedEmpty'
  BY <1>7, RemoveClosed, TargetsAssumption DEF SemKill
<1>8. CASE \/ \E p \in BlockTargets : SemUnblock(p)
           \/ OtherHandler
           \/ UNCHANGED allVars
  BY <1>1, <1>8 DEF SemUnblock, OtherHandler, allVars, semVars
<1> QED
  BY <1>2, <1>3, <1>4, <1>5, <1>6, <1>7, <1>8 DEF SemNext

-----------------------------------------------------------------------------
(* How each handler looks from the abstract semaphores.                    *)

\* Nothing that the abstract semaphores know about changes.
Unseen == UNCHANGED <<created, Tokens, blocked_pids, Alive(state)>>

\* The instance has copies of the library's operators on sequences.
LEMMA SameOperators ==
  /\ \A S, p : Abstract!Contains(S, p) <=> Contains(S, p)
  /\ \A S, p : Abstract!RemoveFirst(S, p) = RemoveFirst(S, p)
<1>1. \A S, p : Abstract!Contains(S, p) <=> Contains(S, p)
  BY DEF Abstract!Contains, Contains
<1>2. \A S, i : Abstract!RemoveAt(S, i) = RemoveAt(S, i)
  BY DEF Abstract!RemoveAt, RemoveAt
<1>3. \A I : Abstract!Min(I) = Min(I)
  BY DEF Abstract!Min, Min
<1>4. \A S, p : Abstract!RemoveFirst(S, p) = RemoveFirst(S, p)
  BY <1>2, <1>3 DEF Abstract!RemoveFirst, RemoveFirst, Abstract!SelectInSeq, SelectInSeq
<1> QED
  BY <1>1, <1>4

\* One step of the abstract semaphores, or a step they do not see.
AbstractStep == [Abstract!Next]_(Abstract!absVars)

\* A handler that changes one status changes the tokens of one semaphore.
LEMMA TokensAt ==
  ASSUME NEW s \in Sems, NEW n \in Int,
         status \in [Sems -> Int],
         status' = [status EXCEPT ![s] = n]
  PROVE  /\ Tokens' = [Tokens EXCEPT ![s] = IF n > 0 THEN n ELSE 0]
         /\ Tokens[s] = IF status[s] > 0 THEN status[s] ELSE 0
         /\ n <= 0 /\ status[s] <= 0 => Tokens' = Tokens
<1>1. /\ status'[s] = n
      /\ \A r \in Sems : r # s => status'[r] = status[r]
  OBVIOUS
<1>2. /\ Tokens = [r \in Sems |-> IF status[r] > 0 THEN status[r] ELSE 0]
      /\ Tokens' = [r \in Sems |-> IF status'[r] > 0 THEN status'[r] ELSE 0]
  BY DEF Tokens
<1>3. Tokens[s] = IF status[s] > 0 THEN status[s] ELSE 0
  BY <1>2
<1>4. Tokens' = [Tokens EXCEPT ![s] = IF n > 0 THEN n ELSE 0]
  BY <1>1, <1>2
<1>5. ASSUME n <= 0, status[s] <= 0
      PROVE  Tokens' = Tokens
  <2>1. \A r \in Sems : (IF status'[r] > 0 THEN status'[r] ELSE 0)
                          = (IF status[r] > 0 THEN status[r] ELSE 0)
    BY <1>1, <1>5
  <2> QED
    BY <1>2, <2>1
<1> QED
  BY <1>3, <1>4, <1>5

LEMMA RefineTakes ==
  ASSUME SemInv, RefInv, NEW s \in Sems, SemWaitTakes(s), created[s]
  PROVE  Abstract!TakeToken(current_process, s) /\ IdleLive'
<1>1. /\ current_process \in Alive(state) /\ ~Queued(current_process)
      /\ created[s] /\ status[s] > 0
  BY DEF SemWaitTakes, MayWait, ProgramRuns, SemInv, TableInv, TypeOK,
         OnlyCurrentRuns, SleepInv, Sleeping, QueuedPids, Alive, Pids
<1>2. /\ status' = [status EXCEPT ![s] = @ - 1]
      /\ UNCHANGED <<created, blocked_pids, state, idle_pcb>>
  BY DEF SemWaitTakes, ReturnToCaller
<1>3. status \in [Sems -> Int]
  BY DEF SemInv, CountInv, SemTypeOK
<1>4. /\ Tokens' = [Tokens EXCEPT ![s] = Tokens[s] - 1]
      /\ Tokens[s] > 0
  <2>1. /\ status[s] - 1 \in Int
        /\ (IF status[s] - 1 > 0 THEN status[s] - 1 ELSE 0) = status[s] - 1
        /\ status' = [status EXCEPT ![s] = status[s] - 1]
    BY <1>1, <1>2, <1>3
  <2>2. /\ Tokens' = [Tokens EXCEPT ![s] = IF status[s] - 1 > 0 THEN status[s] - 1 ELSE 0]
        /\ Tokens[s] = IF status[s] > 0 THEN status[s] ELSE 0
    BY <1>3, <2>1, TokensAt
  <2> QED
    BY <1>1, <2>1, <2>2
<1>5. Alive(state') = Alive(state) /\ Alive(state)' = Alive(state) /\ IdleLive'
  BY <1>2 DEF Alive, RefInv, IdleLive
<1> QED
  BY <1>1, <1>2, <1>4, <1>5, SameOperators
     DEF Abstract!TakeToken, Abstract!Waits, Queued

LEMMA RefineBlocks ==
  ASSUME SemInv, RefInv, NEW s \in Sems, SemWaitBlocks(s), created[s]
  PROVE  Abstract!JoinQueue(current_process, s) /\ IdleLive'
<1>1. /\ current_process \in Alive(state) /\ ~Queued(current_process)
      /\ created[s] /\ status[s] <= 0
      /\ current_process # 0 /\ current_process \in Pids
  BY DEF SemWaitBlocks, MayWait, ProgramRuns, SemInv, TableInv, TypeOK,
         OnlyCurrentRuns, SleepInv, Sleeping, QueuedPids, Alive, Pids
<1>2. /\ status' = [status EXCEPT ![s] = @ - 1]
      /\ blocked_pids' = [blocked_pids EXCEPT ![s] = Append(@, current_process)]
      /\ created' = created
      /\ schedule_tick(block_process(state, current_process), waiting_for_pid)
  BY DEF SemWaitBlocks
<1>3. status \in [Sems -> Int]
  BY DEF SemInv, CountInv, SemTypeOK
<1>4. Tokens' = Tokens /\ Tokens[s] = 0
  <2>1. /\ status[s] - 1 \in Int /\ status[s] - 1 <= 0
        /\ status' = [status EXCEPT ![s] = status[s] - 1]
    BY <1>1, <1>2, <1>3
  <2>2. Tokens' = Tokens /\ Tokens[s] = IF status[s] > 0 THEN status[s] ELSE 0
    BY <1>1, <1>3, <2>1, TokensAt
  <2> QED
    BY <1>1, <1>3, <2>2
<1>5. Alive(state') = Alive(state) /\ IdleLive'
  <2>1. TypeOK /\ state[current_process] # "NONE"
    BY <1>1 DEF SemInv, TableInv, Alive
  <2>2. HandlerTable(block_process(state, current_process), waiting_for_pid)
    BY <1>1, <2>1, BlockTable DEF SemInv
  <2>3. /\ Alive(block_process(state, current_process))
             = Alive(state) \union {current_process}
        /\ \A q \in Pids : block_process(state, current_process)[q] = "NONE"
                              => state[q] = "NONE"
    BY <1>1, <2>1, BlockAlive
  <2>4. Alive(block_process(state, current_process)) = Alive(state)
    BY <1>1, <2>3
  <2>5. idle_pcb # 0 => block_process(state, current_process)[idle_pcb] # "NONE"
    BY <2>1, <2>3 DEF RefInv, IdleLive, TypeOK, Pids
  <2> QED
    BY <1>2, <2>1, <2>2, <2>4, <2>5, TickAlive
<1>6. Alive(state)' = Alive(state)
  BY <1>5 DEF Alive
<1> QED
  BY <1>1, <1>2, <1>4, <1>5, <1>6, SameOperators
     DEF Abstract!JoinQueue, Abstract!Waits, Queued

LEMMA RefinePosts ==
  ASSUME SemInv, RefInv, NEW s \in Sems, SemPostAdds(s) \/ SemPostWakes(s)
  PROVE  Abstract!Post(s) /\ IdleLive'
<1>1. /\ status \in [Sems -> Int]
      /\ blocked_pids[s] \in Seq(Pids)
      /\ Len(blocked_pids[s]) = IF status[s] < 0 THEN 0 - status[s] ELSE 0
  BY DEF SemInv, CountInv, SemTypeOK, QueueMatchesStatus
<1>2. CASE SemPostAdds(s)
  <2>1. /\ status[s] >= 0
        /\ status' = [status EXCEPT ![s] = @ + 1]
        /\ UNCHANGED <<created, blocked_pids, state, idle_pcb>>
    BY <1>2 DEF SemPostAdds, ReturnToCaller
  <2>2. blocked_pids[s] = <<>>
    BY <1>1, <2>1, EmptySeq
  <2>3. Tokens' = [Tokens EXCEPT ![s] = Tokens[s] + 1]
    <3>1. /\ status[s] + 1 \in Int /\ status[s] + 1 > 0
          /\ status' = [status EXCEPT ![s] = status[s] + 1]
      BY <1>1, <2>1
    <3>2. /\ Tokens' = [Tokens EXCEPT ![s] = IF status[s] + 1 > 0 THEN status[s] + 1 ELSE 0]
          /\ Tokens[s] = IF status[s] > 0 THEN status[s] ELSE 0
      BY <1>1, <3>1, TokensAt
    <3>3. Tokens[s] = status[s]
      BY <1>1, <2>1, <3>2
    <3> QED
      BY <3>1, <3>2, <3>3
  <2> QED
    BY <2>1, <2>2, <2>3 DEF Abstract!Post, RefInv, IdleLive, Alive
<1>3. CASE SemPostWakes(s)
  <2>1. /\ status[s] < 0
        /\ status' = [status EXCEPT ![s] = @ + 1]
        /\ blocked_pids' = [blocked_pids EXCEPT ![s] = Tail(@)]
        /\ created' = created
        /\ ReturnToCaller(unblock_process(state, {Head(blocked_pids[s])}),
                          waiting_for_pid)
    BY <1>3 DEF SemPostWakes
  <2>2. blocked_pids[s] # <<>>
    BY <1>1, <2>1, EmptySeq
  <2>3. Tokens' = Tokens
    <3>1. /\ status[s] + 1 \in Int /\ status[s] + 1 <= 0 /\ status[s] <= 0
          /\ status' = [status EXCEPT ![s] = status[s] + 1]
      BY <1>1, <2>1
    <3> QED
      BY <1>1, <3>1, TokensAt
  <2>4. Alive(state') = Alive(state) /\ IdleLive'
    BY <2>1, UnblockAlive, ReturnAlive DEF RefInv, IdleLive, SemInv, TableInv, TypeOK, Pids
  <2> QED
    BY <2>1, <2>2, <2>3, <2>4 DEF Abstract!Post
<1> QED
  BY <1>2, <1>3

LEMMA RefineCreates ==
  ASSUME NonNegativeStarts, SemInv, RefInv,
         NEW s \in Sems, NEW v \in InitialValues, CreateSem(s, v)
  PROVE  Abstract!Create(s, v) /\ IdleLive'
<1>1. /\ status \in [Sems -> Int]
      /\ blocked_pids \in [Sems -> Seq(Pids)]
      /\ blocked_pids[s] = <<>> /\ ~created[s]
  BY DEF SemInv, CountInv, SemTypeOK, RefInv, ClosedEmpty, CreateSem
<1>2. /\ created' = [created EXCEPT ![s] = TRUE]
      /\ status' = [status EXCEPT ![s] = v]
      /\ blocked_pids' = [blocked_pids EXCEPT ![s] = <<>>]
      /\ UNCHANGED <<state, idle_pcb>>
  BY DEF CreateSem, ReturnToCaller
<1>3. blocked_pids' = blocked_pids
  BY <1>1, <1>2
<1>4. Tokens' = [Tokens EXCEPT ![s] = v]
  <2>1. v \in Int /\ (IF v > 0 THEN v ELSE 0) = v
    BY DEF NonNegativeStarts
  <2>2. Tokens' = [Tokens EXCEPT ![s] = IF v > 0 THEN v ELSE 0]
    BY <1>1, <1>2, <2>1, TokensAt
  <2> QED
    BY <2>1, <2>2
<1> QED
  BY <1>1, <1>2, <1>3, <1>4 DEF Abstract!Create, RefInv, IdleLive, Alive

LEMMA RefineDeletes ==
  ASSUME SemInv, RefInv, NEW s \in Sems, DeleteSem(s)
  PROVE  Abstract!Delete(s) /\ IdleLive'
<1>1. /\ created' = [created EXCEPT ![s] = FALSE]
      /\ status' = [status EXCEPT ![s] = 0]
      /\ blocked_pids' = [blocked_pids EXCEPT ![s] = <<>>]
      /\ ReturnToCaller(unblock_process(state, ToSet(blocked_pids[s])), waiting_for_pid)
  BY DEF DeleteSem
<1>2. Tokens' = [Tokens EXCEPT ![s] = 0]
  <2>1. Tokens' = [Tokens EXCEPT ![s] = IF 0 > 0 THEN 0 ELSE 0]
    <3>1. status \in [Sems -> Int] /\ 0 \in Int
      BY DEF SemInv, CountInv, SemTypeOK
    <3> QED
      BY <1>1, <3>1, TokensAt
  <2> QED
    BY <2>1
<1>3. Alive(state') = Alive(state) /\ IdleLive'
  BY <1>1, UnblockAlive, ReturnAlive DEF RefInv, IdleLive, SemInv, TableInv, TypeOK, Pids
<1> QED
  BY <1>1, <1>2, <1>3 DEF Abstract!Delete

\* A death gives back a decrement, which is not a token.
LEMMA RemoveTokens ==
  ASSUME SemInv, NEW p \in Pids, sem_remove_pid(p)
  PROVE  Tokens' = Tokens
<1> SUFFICES ASSUME NEW s \in Sems
             PROVE  (IF status'[s] > 0 THEN status'[s] ELSE 0)
                      = (IF status[s] > 0 THEN status[s] ELSE 0)
  BY DEF Tokens
<1>1. /\ status[s] \in Int /\ Len(blocked_pids[s]) \in Nat
      /\ Len(blocked_pids[s]) = IF status[s] < 0 THEN 0 - status[s] ELSE 0
  BY LenProperties DEF SemInv, CountInv, SemTypeOK, QueueMatchesStatus
<1>2. Contains(blocked_pids[s], p) => status[s] < 0
  BY <1>1 DEF Contains
<1> QED
  BY <1>1, <1>2 DEF sem_remove_pid

LEMMA RefineExits ==
  ASSUME SemInv, RefInv, SemExit
  PROVE  Abstract!Die(current_process) /\ IdleLive' /\ current_process \in Pids
<1>1. /\ current_process \in Alive(state) /\ current_process # 0
      /\ current_process \in Pids /\ state[current_process] # "NONE" /\ TypeOK
  BY DEF SemExit, SysExit, ProgramRuns, SemInv, TableInv, TypeOK,
         OnlyCurrentRuns, Alive, Pids
<1>2. /\ schedule_tick(exit_process(state, current_process),
                       StopWaiting(current_process))
      /\ sem_remove_pid(current_process)
  BY DEF SemExit, SysExit
<1>3. HandlerTable(exit_process(state, current_process), StopWaiting(current_process))
  BY <1>1, ExitTable DEF SemInv
<1>4. /\ Alive(exit_process(state, current_process)) = Alive(state) \ {current_process}
      /\ idle_pcb # 0 => exit_process(state, current_process)[idle_pcb] # "NONE"
  BY <1>1, ExitAlive DEF RefInv, IdleLive, TypeOK, Pids
<1>5. Alive(state') = Alive(state) \ {current_process} /\ IdleLive'
  BY <1>1, <1>2, <1>3, <1>4, TickAlive
<1>6. Tokens' = Tokens
  BY <1>1, <1>2, RemoveTokens
<1>7. /\ Alive(state)' = Alive(state) \ {current_process}
      /\ blocked_pids' = [s \in Sems |-> RemoveFirst(blocked_pids[s], current_process)]
      /\ created' = created
  BY <1>2, <1>5 DEF Alive, sem_remove_pid
<1> QED
  BY <1>1, <1>5, <1>6, <1>7, SameOperators DEF Abstract!Die

\* Killing a process that is dead already has no effect that can be seen.
LEMMA RefineKills ==
  ASSUME SemInv, RefInv, NEW p \in KillTargets, SemKill(p)
  PROVE  (Abstract!Die(p) \/ Unseen) /\ IdleLive' /\ p \in Pids
<1>1. /\ p \in Pids /\ state[p] # "NONE" /\ TypeOK /\ current_process # 0
      /\ \/ schedule_tick(exit_process(state, p), StopWaiting(p))
         \/ ReturnToCaller(exit_process(state, p), StopWaiting(p))
      /\ sem_remove_pid(p)
  BY TargetsAssumption DEF SemKill, SysKill, ProgramRuns, SemInv, TableInv
<1>2. HandlerTable(exit_process(state, p), StopWaiting(p))
  BY <1>1, ExitTable DEF SemInv
<1>3. /\ Alive(exit_process(state, p)) = Alive(state) \ {p}
      /\ idle_pcb # 0 => exit_process(state, p)[idle_pcb] # "NONE"
  BY <1>1, ExitAlive DEF RefInv, IdleLive, TypeOK, Pids
<1>4. Alive(state') = Alive(state) \ {p} /\ IdleLive'
  BY <1>1, <1>2, <1>3, TickAlive, ReturnAlive
<1>5. Tokens' = Tokens
  BY <1>1, RemoveTokens
<1>6. CASE p \in Alive(state)
  <2>1. /\ Alive(state)' = Alive(state) \ {p}
        /\ blocked_pids' = [s \in Sems |-> RemoveFirst(blocked_pids[s], p)]
        /\ created' = created
    BY <1>1, <1>4 DEF Alive, sem_remove_pid
  <2>2. Abstract!Die(p)
    BY <1>5, <1>6, <2>1, SameOperators DEF Abstract!Die
  <2> QED
    BY <1>1, <1>4, <2>2
<1>7. CASE p \notin Alive(state)
  <2>1. ~Queued(p)
    BY <1>1, <1>7 DEF Alive, SemInv, SleepInv, Sleeping, QueuedPids
  <2>2. blocked_pids' = blocked_pids
    <3>1. \A s \in Sems : RemoveFirst(blocked_pids[s], p) = blocked_pids[s]
      BY <2>1, RemoveFirstAbsent DEF Queued
    <3> QED
      BY <1>1, <3>1 DEF sem_remove_pid, SemInv, CountInv, SemTypeOK
  <2> QED
    BY <1>1, <1>4, <1>5, <1>7, <2>2 DEF Unseen, sem_remove_pid
<1> QED
  BY <1>1, <1>4, <1>6, <1>7

LEMMA RefineOthers ==
  ASSUME SemInv, RefInv,
         (\E p \in BlockTargets : SemUnblock(p)) \/ OtherHandler
  PROVE  /\ Unseen \/ \E p \in Pids : Abstract!Start(p)
         /\ IdleLive'
<1>1. UNCHANGED <<created, Tokens, blocked_pids>>
  BY DEF SemUnblock, OtherHandler, semVars, Tokens
<1>2. ASSUME IdleLive',
             \/ Alive(state') = Alive(state)
             \/ \E p \in Pids : Alive(state') = Alive(state) \union {p}
      PROVE  /\ Unseen \/ \E p \in Pids : Abstract!Start(p)
             /\ IdleLive'
  BY <1>1, <1>2 DEF Unseen, Abstract!Start
<1>3. /\ TableInv /\ TypeOK /\ IdleLive
      /\ idle_pcb # 0 => idle_pcb \in Pids /\ state[idle_pcb] # "NONE"
  BY DEF SemInv, TableInv, RefInv, IdleLive, TypeOK, Pids
<1>4. ASSUME NEW p \in BlockTargets, SemUnblock(p)
      PROVE  Alive(state') = Alive(state) /\ IdleLive'
  <2>1. ReturnToCaller(unblock_process(state, {p}), waiting_for_pid)
    BY <1>4 DEF SemUnblock, SysUnblock
  <2> QED
    BY <1>3, <2>1, UnblockAlive, ReturnAlive
<1>5. CASE TimerTick \/ SysYield
  <2>1. schedule_tick(state, waiting_for_pid)
    BY <1>5 DEF TimerTick, SysYield
  <2>2. HandlerTable(state, waiting_for_pid)
    BY <1>3, UnchangedTable
  <2>3. Alive(state') = Alive(state) /\ IdleLive'
    BY <1>3, <2>1, <2>2, TickAlive
  <2> QED
    BY <1>2, <2>3
<1>6. CASE SysCreate
  BY <1>2, <1>3, <1>6, CreateAlive
<1>7. ASSUME NEW p \in BlockTargets, SysBlock(p)
      PROVE  /\ p \in Pids /\ Alive(state') = Alive(state) \union {p}
             /\ IdleLive'
  <2>1. /\ p \in Pids /\ state[p] # "NONE"
        /\ \/ schedule_tick(block_process(state, p), waiting_for_pid)
           \/ ReturnToCaller(block_process(state, p), waiting_for_pid)
    BY <1>7, TargetsAssumption DEF SysBlock
  <2>2. HandlerTable(block_process(state, p), waiting_for_pid)
    BY <1>3, <2>1, BlockTable
  <2>3. /\ Alive(block_process(state, p)) = Alive(state) \union {p}
        /\ idle_pcb # 0 => block_process(state, p)[idle_pcb] # "NONE"
    BY <1>3, <2>1, BlockAlive
  <2> QED
    BY <1>3, <2>1, <2>2, <2>3, TickAlive, ReturnAlive
<1>8. ASSUME NEW p \in Pids, SysWaitpid(p)
      PROVE  Alive(state') = Alive(state) /\ IdleLive'
  <2> DEFINE wf == [waiting_for_pid EXCEPT ![current_process] = p]
  <2>1. /\ current_process \in Pids /\ current_process # 0
        /\ state[current_process] = "RUNNING"
        /\ state[p] \notin {"NONE", "KILLED"}
        /\ schedule_tick(block_process(state, current_process), wf)
    BY <1>3, <1>8 DEF SysWaitpid, ProgramRuns, TableInv, TypeOK, OnlyCurrentRuns, Pids
  <2>2. HandlerTable(block_process(state, current_process), wf)
    BY <1>3, <2>1, WaitpidTable
  <2>3. /\ Alive(block_process(state, current_process)) = Alive(state)
        /\ idle_pcb # 0 => block_process(state, current_process)[idle_pcb] # "NONE"
    BY <1>3, <2>1, BlockAlive DEF Alive
  <2> HIDE DEF wf
  <2> QED
    BY <1>3, <2>1, <2>2, <2>3, TickAlive
<1>9. ASSUME NEW p \in Pids, NEW new_priority \in Priorities, SysNice(p, new_priority)
      PROVE  Alive(state') = Alive(state) /\ IdleLive'
  BY <1>3, <1>9 DEF SysNice, Alive, IdleLive
<1> QED
  BY <1>2, <1>4, <1>5, <1>6, <1>7, <1>8, <1>9 DEF OtherHandler

LEMMA StepRefines ==
  ASSUME UnblocksSleepers = FALSE, WaitsOnClosed = FALSE, NonNegativeStarts,
         SemInv, RefInv, [SemNext]_allVars
  PROVE  AbstractStep /\ RefInv'
<1>1. Abstract!Next => AbstractStep
  BY DEF AbstractStep
<1>2. Unseen => AbstractStep
  BY DEF AbstractStep, Unseen, Abstract!absVars
<1>3. \A s \in Sems : SemWaitTakes(s) \/ SemWaitBlocks(s) => created[s]
  BY DEF SemWaitTakes, SemWaitBlocks, MayWait
<1>4. ClosedEmpty'
  BY <1>3, ClosedNext DEF SemInv, RefInv
<1>5. ASSUME NEW s \in Sems, SemWaitTakes(s) \/ SemWaitBlocks(s)
      PROVE  Abstract!Next /\ IdleLive'
  <2>1. current_process \in Pids
    BY <1>5 DEF SemWaitTakes, SemWaitBlocks, MayWait, ProgramRuns, SemInv,
                TableInv, TypeOK, Pids
  <2> QED
    BY <1>5, <1>3, <2>1, RefineTakes, RefineBlocks DEF Abstract!Next
<1>6. ASSUME NEW s \in Sems, SemPostAdds(s) \/ SemPostWakes(s)
      PROVE  Abstract!Next /\ IdleLive'
  BY <1>6, RefinePosts DEF Abstract!Next
<1>7. ASSUME NEW s \in Sems, NEW v \in InitialValues, CreateSem(s, v)
      PROVE  Abstract!Next /\ IdleLive'
  BY <1>7, RefineCreates DEF Abstract!Next
<1>8. ASSUME NEW s \in Sems, DeleteSem(s)
      PROVE  Abstract!Next /\ IdleLive'
  BY <1>8, RefineDeletes DEF Abstract!Next
<1>9. CASE SemExit
  <2>1. Abstract!Next /\ IdleLive'
    BY <1>9, RefineExits DEF Abstract!Next
  <2> QED
    BY <1>1, <1>4, <2>1 DEF RefInv
<1>10. ASSUME NEW p \in KillTargets, SemKill(p)
      PROVE  (Abstract!Next \/ Unseen) /\ IdleLive'
  BY <1>10, RefineKills DEF Abstract!Next
<1>11. CASE (\E p \in BlockTargets : SemUnblock(p)) \/ OtherHandler
  <2>1. (Abstract!Next \/ Unseen) /\ IdleLive'
    BY <1>11, RefineOthers DEF Abstract!Next
  <2> QED
    BY <1>1, <1>2, <1>4, <2>1 DEF RefInv
<1>12. CASE UNCHANGED allVars
  <2>1. Unseen /\ IdleLive'
    BY <1>12 DEF allVars, vars, semVars, Unseen, Tokens, Alive, RefInv, IdleLive
  <2> QED
    BY <1>2, <1>4, <2>1 DEF RefInv
<1>13. ASSUME (Abstract!Next \/ Unseen) /\ IdleLive'
       PROVE  AbstractStep /\ RefInv'
  BY <1>1, <1>2, <1>4, <1>13 DEF RefInv
<1>14. CASE \E s \in Sems : SemWaitTakes(s) \/ SemWaitBlocks(s)
  BY <1>5, <1>13, <1>14
<1>15. CASE \E s \in Sems : SemPostAdds(s) \/ SemPostWakes(s)
  BY <1>6, <1>13, <1>15
<1>16. CASE \E s \in Sems, v \in InitialValues : CreateSem(s, v)
  BY <1>7, <1>13, <1>16
<1>17. CASE \E s \in Sems : DeleteSem(s)
  BY <1>8, <1>13, <1>17
<1>18. CASE \E p \in KillTargets : SemKill(p)
  BY <1>10, <1>13, <1>18
<1> QED
  BY <1>9, <1>11, <1>12, <1>14, <1>15, <1>16, <1>17, <1>18 DEF SemNext

\* sem.c on this scheduler implements FIFO counting semaphores, if programs do
\* not unblock processes asleep in the kernel, wait on semaphores that exist and
\* create them with values >= 0:
\* no token is lost or made up by a death, a deletion or a reused pid.
THEOREM SemaphoresRefine ==
  ASSUME UnblocksSleepers = FALSE, WaitsOnClosed = FALSE, NonNegativeStarts
  PROVE  SemSpec => ImplementsSemaphores
<1>1. SemInit => Abstract!Init
  <2> SUFFICES ASSUME SemInit
               PROVE  Abstract!Init
    OBVIOUS
  <2>1. Alive(state) = {1, 2}
    <3>1. \A p \in Pids : state[p] \notin {"NONE", "KILLED"} <=> p \in {1, 2}
      BY DEF SemInit, Init
    <3>2. {1, 2} \subseteq Pids
      BY TableAssumption DEF Pids
    <3> QED
      BY <3>1, <3>2 DEF Alive
  <2>2. Tokens = [s \in Sems |-> 0]
    BY DEF SemInit, Tokens
  <2> QED
    BY <2>1, <2>2 DEF SemInit, Abstract!Init
<1>2. SemInit => SemInv /\ RefInv
  BY InitSemInv, InitRef
<1>3. SemInv /\ RefInv /\ [SemNext]_allVars
        => (SemInv /\ RefInv)' /\ [Abstract!Next]_(Abstract!absVars)
  BY NextSemInv, StepRefines DEF AbstractStep
<1> QED
  BY <1>1, <1>2, <1>3, PTL DEF SemSpec, ImplementsSemaphores, Abstract!Spec

-----------------------------------------------------------------------------
(* Leaving a queue. *)

\* Taking e out of a queue keeps everybody else in it.
LEMMA RemoveFirstKeeps ==
  ASSUME NEW q \in Seq(Pids), NEW e \in Pids, NEW p \in Pids, p # e, Contains(q, p)
  PROVE  Contains(RemoveFirst(q, e), p)
<1>1. CASE ~Contains(q, e)
  BY <1>1, RemoveFirstAbsent
<1>2. CASE Contains(q, e)
  <2>1. PICK k \in 1..Len(q) :
          /\ q[k] = e
          /\ Len(RemoveFirst(q, e)) = Len(q) - 1
          /\ \A i \in 1..(Len(q) - 1) :
               RemoveFirst(q, e)[i] = IF i < k THEN q[i] ELSE q[i + 1]
    <3>1. q \in Seq(Pids) /\ Contains(q, e)
      BY <1>2
    <3> QED
      BY ONLY <3>1, RemoveFirstShifts, SMTT(30)
  <2>2. PICK i \in 1..Len(q) : q[i] = p
    BY DEF Contains
  <2>3. i # k /\ Len(q) \in Nat
    BY <2>1, <2>2, LenProperties
  <2>4. CASE i < k
    <3>1. i \in 1..(Len(q) - 1)
      BY <2>3, <2>4
    <3> QED
      BY <2>1, <2>2, <2>4, <3>1 DEF Contains
  <2>5. CASE i > k
    <3>1. i - 1 \in 1..(Len(q) - 1) /\ ~(i - 1 < k) /\ (i - 1) + 1 = i
      BY <2>3, <2>5
    <3> QED
      BY <2>1, <2>2, <3>1 DEF Contains
  <2> QED
    BY <2>3, <2>4, <2>5
<1> QED
  BY <1>1, <1>2

LEMMA AppendKeeps ==
  ASSUME NEW q \in Seq(Pids), NEW e \in Pids, NEW p \in Pids, Contains(q, p)
  PROVE  Contains(Append(q, e), p)
<1>1. /\ Len(Append(q, e)) = Len(q) + 1 /\ Len(q) \in Nat
      /\ \A i \in 1..Len(q) : Append(q, e)[i] = q[i]
  BY AppendProperties, LenProperties
<1> QED
  BY <1>1 DEF Contains

\* All but the head stay.
LEMMA TailKeeps ==
  ASSUME NEW q \in Seq(Pids), q # <<>>, NEW p \in Pids, p # Head(q), Contains(q, p)
  PROVE  Contains(Tail(q), p)
<1>1. PICK i \in 1..Len(q) : q[i] = p
  BY DEF Contains
<1>2. /\ Len(Tail(q)) = Len(q) - 1 /\ Len(q) \in Nat /\ Head(q) = q[1]
      /\ \A j \in 1..Len(Tail(q)) : Tail(q)[j] = q[j + 1]
  BY HeadTailProperties, LenProperties
<1>3. i # 1
  BY <1>1, <1>2
<1>4. i - 1 \in 1..Len(Tail(q)) /\ (i - 1) + 1 = i
  BY <1>2, <1>3
<1> QED
  BY <1>1, <1>2, <1>4 DEF Contains

\* After exit_process(p), whatever the scheduler does then, p is not asleep.
LEMMA DeadNotAsleep ==
  ASSUME SemInv, RefInv, NEW p \in Pids, state[p] # "NONE", current_process # 0,
         \/ schedule_tick(exit_process(state, p), StopWaiting(p))
         \/ ReturnToCaller(exit_process(state, p), StopWaiting(p))
  PROVE  state'[p] # "BLOCKED"
<1>1. TypeOK /\ HandlerTable(exit_process(state, p), StopWaiting(p))
  BY ExitTable DEF SemInv, TableInv
<1>2. /\ Alive(exit_process(state, p)) = Alive(state) \ {p}
      /\ idle_pcb # 0 => exit_process(state, p)[idle_pcb] # "NONE"
  BY <1>1, ExitAlive DEF RefInv, IdleLive, TypeOK, Pids
<1>3. Alive(state') = Alive(state) \ {p}
  BY <1>1, <1>2, TickAlive, ReturnAlive
<1> QED
  BY <1>3 DEF Alive

\* The step that takes p out of the queue of s wakes p or kills it.
LEMMA LeavesNext ==
  ASSUME WaitsOnClosed = FALSE, SemInv, RefInv, [SemNext]_allVars,
         NEW s \in Sems, NEW p \in Pids,
         Contains(blocked_pids[s], p), ~Contains(blocked_pids'[s], p)
  PROVE  state'[p] # "BLOCKED"
<1>1. /\ blocked_pids \in [Sems -> Seq(Pids)] /\ blocked_pids[s] \in Seq(Pids)
      /\ blocked_pids[s] # <<>> /\ state[p] = "BLOCKED"
  BY EmptySeq DEF SemInv, CountInv, SemTypeOK, SleepInv, Sleeping, QueuedPids,
                  Queued, Contains
<1>2. blocked_pids' # blocked_pids
  OBVIOUS
<1>3. ASSUME NEW t \in Sems, SemWaitBlocks(t)
      PROVE  FALSE
  <2>1. /\ current_process \in Pids
        /\ blocked_pids' = [blocked_pids EXCEPT ![t] = Append(@, current_process)]
    BY <1>3 DEF SemWaitBlocks, MayWait, ProgramRuns, SemInv, TableInv, TypeOK, Pids
  <2>2. blocked_pids'[s] \in {blocked_pids[s], Append(blocked_pids[s], current_process)}
    BY <1>1, <2>1
  <2> QED
    BY <1>1, <2>1, <2>2, AppendKeeps
<1>4. ASSUME NEW t \in Sems, SemPostWakes(t)
      PROVE  state'[p] # "BLOCKED"
  <2>1. /\ blocked_pids' = [blocked_pids EXCEPT ![t] = Tail(@)]
        /\ state' = unblock_process(state, {Head(blocked_pids[t])})
    BY <1>4 DEF SemPostWakes, ReturnToCaller
  <2>2. s = t /\ p = Head(blocked_pids[s])
    BY <1>1, <2>1, TailKeeps
  <2> QED
    BY <1>1, <2>1, <2>2 DEF unblock_process
<1>5. ASSUME NEW t \in Sems, NEW v \in InitialValues, CreateSem(t, v)
      PROVE  FALSE
  <2>1. blocked_pids' = [blocked_pids EXCEPT ![t] = <<>>] /\ blocked_pids[t] = <<>>
    BY <1>5 DEF CreateSem, RefInv, ClosedEmpty
  <2> QED
    BY <1>1, <1>2, <2>1
<1>6. ASSUME NEW t \in Sems, DeleteSem(t)
      PROVE  state'[p] # "BLOCKED"
  <2>1. /\ blocked_pids' = [blocked_pids EXCEPT ![t] = <<>>]
        /\ state' = unblock_process(state, ToSet(blocked_pids[t]))
    BY <1>6 DEF DeleteSem, ReturnToCaller
  <2>2. s = t
    BY <1>1, <2>1
  <2>3. p \in ToSet(blocked_pids[t])
    BY <1>1, <2>2 DEF Contains, ToSet
  <2> QED
    BY <2>1, <2>3 DEF unblock_process
<1>7. CASE SemExit
  <2>1. /\ current_process \in Pids /\ state[current_process] # "NONE"
        /\ current_process # 0
        /\ schedule_tick(exit_process(state, current_process),
                         StopWaiting(current_process))
        /\ blocked_pids'[s] = RemoveFirst(blocked_pids[s], current_process)
    BY <1>7 DEF SemExit, SysExit, sem_remove_pid, ProgramRuns, SemInv, TableInv,
                TypeOK, OnlyCurrentRuns, Pids
  <2>2. p = current_process
    BY <1>1, <2>1, RemoveFirstKeeps
  <2> QED
    BY <2>1, <2>2, DeadNotAsleep
<1>8. ASSUME NEW q \in KillTargets, SemKill(q)
      PROVE  state'[p] # "BLOCKED"
  <2>1. /\ q \in Pids /\ state[q] # "NONE" /\ current_process # 0
        /\ \/ schedule_tick(exit_process(state, q), StopWaiting(q))
           \/ ReturnToCaller(exit_process(state, q), StopWaiting(q))
        /\ blocked_pids'[s] = RemoveFirst(blocked_pids[s], q)
    BY <1>8, TargetsAssumption DEF SemKill, SysKill, sem_remove_pid, ProgramRuns
  <2>2. p = q
    BY <1>1, <2>1, RemoveFirstKeeps
  <2> QED
    BY <2>1, <2>2, DeadNotAsleep
<1>9. ASSUME \/ \E t \in Sems : SemWaitTakes(t) \/ SemPostAdds(t)
             \/ \E q \in BlockTargets : SemUnblock(q)
             \/ OtherHandler
             \/ UNCHANGED allVars
      PROVE  FALSE
  BY <1>2, <1>9 DEF SemWaitTakes, SemPostAdds, SemUnblock, OtherHandler, semVars, allVars
<1> QED
  BY <1>3, <1>4, <1>5, <1>6, <1>7, <1>8, <1>9 DEF SemNext

\* Under the assumptions of the refinement nobody is forgotten: the deletion of
\* a semaphore, a post and a kill leave no process asleep outside its queue.
THEOREM NobodyForgotten ==
  ASSUME UnblocksSleepers = FALSE, WaitsOnClosed = FALSE, NonNegativeStarts
  PROVE  SemSpec => LeavesQueueAwake
<1> DEFINE Awake == \A s \in Sems, p \in Pids :
              Contains(blocked_pids[s], p) /\ ~Contains(blocked_pids'[s], p)
                => state'[p] # "BLOCKED"
<1>1. SemInit => SemInv /\ RefInv
  BY InitSemInv, InitRef
<1>2. SemInv /\ RefInv /\ [SemNext]_allVars => (SemInv /\ RefInv)' /\ Awake
  BY NextSemInv, StepRefines, LeavesNext
<1> QED
  BY <1>1, <1>2, PTL DEF SemSpec, LeavesQueueAwake

=============================================================================
