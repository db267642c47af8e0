------------------------------- MODULE BitmapMM -------------------------------
(***************************************************************************)
(* The bitmap memory manager (Kernel/bitmapmm.c).                          *)
(*                                                                         *)
(* Memory is its page numbers and, for the page that starts a block, the   *)
(* header word that allocate_block writes there.  Pointers are numbers of  *)
(* pages: the 8 bytes that allocate_block adds, free_block takes away.     *)
(***************************************************************************)
EXTENDS Integers, FiniteSets, FiniteSetsExt

CONSTANTS
  PAGE_SIZE, HEADER,   \* 4096 and sizeof(uint64_t) in the code
  WORD,                \* 2^w: sizes are unsigned and wrap around
  total_pages,         \* of the RAM that Pure64 reports
  MANAGED_START,       \* MANAGED_MEMORY_START / PAGE_SIZE
  Sizes                \* the sizes programs pass to malloc

Ceil(n, d) == (n + d - 1) \div d

bitmap_size_bytes == Ceil(total_pages, 8)
first_free_page == MANAGED_START + Ceil(bitmap_size_bytes, PAGE_SIZE)
Managed == first_free_page..(total_pages - 1)

ASSUME BitmapAssumption ==
  /\ PAGE_SIZE \in Nat \ {0} /\ HEADER \in 1..PAGE_SIZE
  /\ WORD \in Nat /\ WORD > PAGE_SIZE
  /\ total_pages \in Nat /\ MANAGED_START \in Nat
  /\ first_free_page < total_pages
  /\ Sizes \subseteq 0..(WORD - 1)

VARIABLES
  bitmap,       \* the bits at 1
  free_pages,
  header,       \* the first word of each page, where it is a header
  held          \* the blocks that the kernel and the programs have

mmVars == <<bitmap, free_pages, header, held>>

Init ==
  /\ bitmap = (0..(8 * bitmap_size_bytes - 1)) \ Managed
  /\ free_pages = total_pages - first_free_page
  /\ header = [p \in Managed |-> 0]
  /\ held = {}

\* Mutant: a page in use in the middle of a run does not end it.
FitsAround(n) ==
  {p \in Managed : n > 0 /\ p + n - 1 \in Managed \ bitmap /\ p \notin bitmap}

\* The first pages of the free runs of n pages.  The loop counts from 1, so no
\* run has 0 pages.
Fits(n) == {p \in Managed : n > 0 /\ p..(p + n - 1) \subseteq Managed \ bitmap}

\* BitmapScan shows that the loop computes this.
find_consecutive_pages(n) == IF Fits(n) = {} THEN total_pages ELSE Min(Fits(n))

\* allocate_page: the caller (create_process, pipe_create) gets a whole page.
allocate_page ==
  LET start == find_consecutive_pages(1) IN
  /\ start # total_pages
  /\ bitmap' = bitmap \union {start}
  /\ free_pages' = free_pages - 1
  /\ held' = held \union {[kind |-> "page", start |-> start, size |-> PAGE_SIZE]}
  /\ UNCHANGED header

free_page(b) ==
  /\ b.kind = "page"
  /\ bitmap' = bitmap \ {b.start}
  /\ free_pages' = free_pages + 1
  /\ held' = held \ {b}
  /\ UNCHANGED header

\* Mutant: the header is not counted.
PagesWithoutHeader(size) == Ceil(size, PAGE_SIZE)

\* Both sums are of uint64_t.
pages_needed(size) ==
  ((((size + HEADER) % WORD) + PAGE_SIZE - 1) % WORD) \div PAGE_SIZE

allocate_block(size) ==
  LET n == pages_needed(size)
      start == find_consecutive_pages(n)
  IN
  /\ size # 0 /\ start # total_pages
  /\ bitmap' = bitmap \union start..(start + n - 1)
  /\ free_pages' = free_pages - n
  /\ header' = [header EXCEPT ![start] = n]
  /\ held' = held \union {[kind |-> "block", start |-> start, size |-> size]}

\* Mutant: the last page of the block is not given back.
FreeAllButLast(b) ==
  /\ b.kind = "block"
  /\ bitmap' = bitmap \ b.start..(b.start + header[b.start] - 2)
  /\ free_pages' = free_pages + header[b.start]
  /\ held' = held \ {b}
  /\ UNCHANGED header

free_block(b) ==
  /\ b.kind = "block"
  /\ bitmap' = bitmap \ b.start..(b.start + header[b.start] - 1)
  /\ free_pages' = free_pages + header[b.start]
  /\ held' = held \ {b}
  /\ UNCHANGED header

Next ==
  \/ allocate_page
  \/ \E size \in Sizes : allocate_block(size)
  \/ \E b \in held : free_page(b) \/ free_block(b)

Spec == Init /\ [][Next]_mmVars

-----------------------------------------------------------------------------
(* Properties *)

MMTypeOK ==
  /\ bitmap \subseteq 0..(8 * bitmap_size_bytes - 1)
  /\ free_pages \in Nat
  /\ header \in [Managed -> Nat]
  /\ held \subseteq [kind: {"page", "block"}, start: Managed, size: 0..(WORD - 1)]

\* The pages that free_page or free_block will give back for b.
PagesOf(b) ==
  IF b.kind = "page" THEN {b.start} ELSE b.start..(b.start + header[b.start] - 1)

\* The bitmap, the counter and the headers, which five functions update on
\* their own, agree: the bits of the managed pages are those of the blocks
\* held, whose headers say how many there are, and free_pages counts the rest.
Accounting ==
  /\ Managed \intersect bitmap = UNION {PagesOf(b) : b \in held}
  /\ free_pages = Cardinality(Managed \ bitmap)

\* A block is at least as large as what was asked for, header apart.
BlockHoldsRequest ==
  \A b \in held :
    b.kind = "block" => Cardinality(PagesOf(b)) * PAGE_SIZE >= b.size + HEADER

\* Every execution is one of a correct allocator: blocks in use are disjoint,
\* inside the managed memory, and get_mem_stats is exact.
Allocator == INSTANCE PageAllocator WITH
  Pages <- Managed,
  blocks <- {PagesOf(b) : b \in held},
  free <- free_pages

ImplementsAllocator == Allocator!Spec

=============================================================================
