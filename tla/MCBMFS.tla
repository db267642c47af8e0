------------------------------- MODULE MCBMFS -------------------------------
(***************************************************************************)
(* BMFS with 2 for a kilobyte, so that a block is 8 bytes and a word holds *)
(* 31 blocks.                                                              *)
(***************************************************************************)
EXTENDS BMFS, TLC

\* The commands treat all names alike.
Renamings == Permutations(Names)

\* 30 bytes (three blocks and a rest), 5G (five blocks), and 296 bytes, which
\* wrap around to 40.
SomeSizes == {[digits |-> <<3, 0>>, unit |-> 0], [digits |-> <<5>>, unit |-> 3],
              [digits |-> <<2, 9, 6>>, unit |-> 0]}

=============================================================================
