---------------------------- MODULE AbstractCell -----------------------------
(***************************************************************************)
(* What the mvar command promises: a variable that is empty or holds one   *)
(* value.  A value is put only in an empty cell and taken once.  When      *)
(* processes are killed, or the command is run again, a value may be lost, *)
(* but none is made up.                                                    *)
(***************************************************************************)
CONSTANTS Procs, Values, Nothing

VARIABLES
  cell,   \* the value, or Nothing
  taken   \* the last value each process took, or Nothing

cellVars == <<cell, taken>>

Init == cell = Nothing /\ taken = [p \in Procs |-> Nothing]

Put(v) == cell = Nothing /\ cell' = v /\ UNCHANGED taken

Take(p) ==
  /\ cell # Nothing
  /\ taken' = [taken EXCEPT ![p] = cell]
  /\ cell' = Nothing

\* Processes end, and maybe the value goes with one of them.
Forget ==
  /\ cell' \in {cell, Nothing}
  /\ \E S \in SUBSET Procs :
       taken' = [p \in Procs |-> IF p \in S THEN Nothing ELSE taken[p]]

Next ==
  \/ \E v \in Values : Put(v)
  \/ \E p \in Procs : Take(p)
  \/ Forget

Spec == Init /\ [][Next]_cellVars

=============================================================================
