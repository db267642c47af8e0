----------------------------- MODULE MCBuddyMM -----------------------------
(* Instances of BuddyMM for TLC: a page of 4 bytes, a header of 2. *)
EXTENDS BuddyMM

\* Nothing, one page exactly full, one byte more, four pages exactly full, too
\* much for the largest order.
FittingSizes == {0, 2, 3, 14, 15}

=============================================================================
