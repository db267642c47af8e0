---------------------------- MODULE PageAllocator ----------------------------
(***************************************************************************)
(* What the rest of the kernel expects of a memory manager, the bitmap or  *)
(* the buddy one: runs of pages that nobody else has, until they are given *)
(* back.  A manager may refuse a request.                                  *)
(***************************************************************************)
EXTENDS Integers, FiniteSets

CONSTANT Pages      \* the pages it manages

VARIABLES
  blocks,   \* the runs of pages in use
  free      \* what get_mem_stats reports, in pages

Runs == {first..last : first, last \in Pages} \ {{}}

Init == blocks = {} /\ free = Cardinality(Pages)

Allocate(b) ==
  /\ \A p \in b : p \in Pages /\ \A c \in blocks : p \notin c
  /\ blocks' = blocks \union {b}
  /\ free' = free - Cardinality(b)

Release(b) ==
  /\ b \in blocks
  /\ blocks' = blocks \ {b}
  /\ free' = free + Cardinality(b)

Next == \E b \in Runs : Allocate(b) \/ Release(b)

Spec == Init /\ [][Next]_<<blocks, free>>

=============================================================================
