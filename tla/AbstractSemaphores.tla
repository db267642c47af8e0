------------------------- MODULE AbstractSemaphores -------------------------
(***************************************************************************)
(* What the kernel's counting semaphores promise, with no scheduler: a     *)
(* value that never goes below zero and a first-come-first-served queue.   *)
(* A process that waits does nothing until it is taken out of the queue by *)
(* a post (which hands it the token), by the deletion of the semaphore or  *)
(* by its own death.                                                       *)
(***************************************************************************)
EXTENDS Integers, Sequences, SequencesExt

CONSTANTS Procs, Sems, InitialValues, FirstProcs

VARIABLES
  exists,   \* the semaphores that have been created
  value,    \* tokens of each one
  waiters,  \* queue of each one
  alive     \* the processes that are not dead

absVars == <<exists, value, waiters, alive>>

Waits(p) == \E s \in Sems : Contains(waiters[s], p)

Init ==
  /\ exists = [s \in Sems |-> FALSE]
  /\ value = [s \in Sems |-> 0]
  /\ waiters = [s \in Sems |-> <<>>]
  /\ alive = FirstProcs

TakeToken(p, s) ==
  /\ exists[s] /\ p \in alive /\ ~Waits(p)
  /\ value[s] > 0
  /\ value' = [value EXCEPT ![s] = @ - 1]
  /\ UNCHANGED <<exists, waiters, alive>>

JoinQueue(p, s) ==
  /\ exists[s] /\ p \in alive /\ ~Waits(p)
  /\ value[s] = 0
  /\ waiters' = [waiters EXCEPT ![s] = Append(@, p)]
  /\ UNCHANGED <<exists, value, alive>>

Post(s) ==
  \/ /\ waiters[s] = <<>>
     /\ value' = [value EXCEPT ![s] = @ + 1]
     /\ UNCHANGED <<exists, waiters, alive>>
  \/ /\ waiters[s] # <<>>
     /\ waiters' = [waiters EXCEPT ![s] = Tail(@)]
     /\ UNCHANGED <<exists, value, alive>>

\* Nobody waits on a semaphore that does not exist yet.
Create(s, v) ==
  /\ ~exists[s] /\ waiters[s] = <<>>
  /\ exists' = [exists EXCEPT ![s] = TRUE]
  /\ value' = [value EXCEPT ![s] = v]
  /\ UNCHANGED <<waiters, alive>>

Delete(s) ==
  /\ exists' = [exists EXCEPT ![s] = FALSE]
  /\ value' = [value EXCEPT ![s] = 0]
  /\ waiters' = [waiters EXCEPT ![s] = <<>>]
  /\ UNCHANGED alive

Start(p) == alive' = alive \union {p} /\ UNCHANGED <<exists, value, waiters>>

\* A process that dies leaves every queue and takes no token with it.
Die(p) ==
  /\ alive' = alive \ {p}
  /\ p \in alive
  /\ waiters' = [s \in Sems |-> RemoveFirst(waiters[s], p)]
  /\ UNCHANGED <<exists, value>>

Next ==
  \/ \E p \in Procs, s \in Sems : TakeToken(p, s) \/ JoinQueue(p, s)
  \/ \E s \in Sems : Post(s) \/ Delete(s)
  \/ \E s \in Sems, v \in InitialValues : Create(s, v)
  \/ \E p \in Procs : Start(p) \/ Die(p)

Spec == Init /\ [][Next]_absVars

=============================================================================
