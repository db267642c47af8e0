---------------------------- MODULE AbstractFiles ----------------------------
(***************************************************************************)
(* What a BMFS disk promises of its directory: a flat set of named files,  *)
(* each with the blocks reserved when it was created and a size that fits  *)
(* in them.  Only erasing the disk makes it fit for files (or leaves it    *)
(* unfit, when that fails half way).                                       *)
(***************************************************************************)
EXTENDS Integers

CONSTANTS Names, BlockSize, Reservations

VARIABLES
  files,   \* by name; reserved is 0 for a file that does not exist
  ready    \* may the disk hold files?

diskVars == <<files, ready>>

NoFile == [reserved |-> 0, size |-> 0]

Init == files = [f \in Names |-> NoFile] /\ ready = FALSE

Create(f) ==
  /\ ready /\ files[f] = NoFile
  /\ \E n \in Reservations : files' = [files EXCEPT ![f] = [reserved |-> n, size |-> 0]]
  /\ ready' = ready

Delete(f) ==
  /\ ready /\ files[f] # NoFile
  /\ files' = [files EXCEPT ![f] = NoFile]
  /\ ready' = ready

Write(f) ==
  /\ ready /\ files[f] # NoFile
  /\ \E n \in 0..(files[f].reserved * BlockSize) : files' = [files EXCEPT ![f].size = n]
  /\ ready' = ready

Erase == files' = [f \in Names |-> NoFile] /\ ready' \in BOOLEAN

Next == Erase \/ \E f \in Names : Create(f) \/ Delete(f) \/ Write(f)

Spec == Init /\ [][Next]_diskVars

=============================================================================
