-------------------------------- MODULE BuddyMM --------------------------------
(***************************************************************************)
(* The buddy memory manager (Kernel/buddymm.c).                            *)
(*                                                                         *)
(* Addresses are numbers of pages from buddy_base.  A free list is the     *)
(* sequence of its blocks.  The nodes of the lists lie in the free blocks  *)
(* themselves, over the word where allocate_block keeps the order of a     *)
(* block: header is that word, LINK when a list operation wrote it.        *)
(***************************************************************************)
EXTENDS Integers, FiniteSets, Sequences, SequencesExt, FiniteSetsExt

CONSTANTS
  PAGE_SIZE, HEADER,   \* 4096 and sizeof(uint64_t) in the code
  WORD,                \* 2^w: sizes are unsigned and wrap around
  MAX_ORDER,           \* 10 in the code
  PAGES,               \* whole pages between buddy_base and the end of the RAM
  Sizes                \* the sizes programs pass to malloc

ASSUME BuddyAssumption ==
  /\ PAGE_SIZE \in Nat \ {0} /\ HEADER \in 1..PAGE_SIZE
  /\ MAX_ORDER \in Nat /\ PAGES \in Nat \ {0}
  /\ WORD \in Nat /\ WORD > PAGE_SIZE
  /\ Sizes \subseteq 0..(WORD - 1)

VARIABLES
  free_lists,   \* free_lists[order]: the first block first
  free_bytes,
  header,
  held          \* the blocks that the kernel and the programs have

mmVars == <<free_lists, free_bytes, header, held>>

Orders == 0..MAX_ORDER
Memory == 0..(PAGES - 1)
LINK == -1

\* The pages of a block of an order, 1ULL << order.
Span[order \in Orders] == IF order = 0 THEN 1 ELSE 2 * Span[order - 1]

\* initialize_memory_manager: as many blocks of the largest order as fit, then
\* at most one of each smaller order.  Pushing them in that order leaves the
\* last one at the head.
Init ==
  /\ free_lists = [order \in Orders |->
       LET from == IF order = MAX_ORDER THEN 0
                   ELSE PAGES - (PAGES % Span[order + 1])
           count == (PAGES - from) \div Span[order]
       IN [k \in 1..count |-> from + (count - k) * Span[order]]]
  /\ free_bytes = PAGES * PAGE_SIZE
  /\ header = [p \in Memory |-> LINK]
  /\ held = {}

-----------------------------------------------------------------------------
\* The orders whose list can serve a request.
Suitable(order) == {k \in order..MAX_ORDER : free_lists[k] # <<>>}

\* The block get_block returns.
Found(order) == Head(free_lists[Min(Suitable(order))])

\* Mutant: the half that is pushed is of the wrong size.
SplitTooFar(order) ==
  LET found == Min(Suitable(order)) block == Found(order) IN
  /\ Suitable(order) # {}
  /\ free_lists' = [k \in Orders |->
       IF k = found THEN Tail(free_lists[k])
       ELSE IF k \in order..(found - 1)
            THEN <<block + Span[order]>> \o free_lists[k]
            ELSE free_lists[k]]
  /\ free_bytes' = free_bytes - PAGE_SIZE * Span[order]

\* get_block: take the head of the first list that has one and split it, pushing
\* the upper half each time.
get_block(order) ==
  LET found == Min(Suitable(order)) block == Found(order) IN
  /\ Suitable(order) # {}
  /\ free_lists' = [k \in Orders |->
       IF k = found THEN Tail(free_lists[k])
       ELSE IF k \in order..(found - 1)
            THEN <<block + Span[k]>> \o free_lists[k]
            ELSE free_lists[k]]
  /\ free_bytes' = free_bytes - PAGE_SIZE * Span[order]

\* Memory after get_block: the nodes of the upper halves are written in them.
Linked(order) ==
  [p \in Memory |-> IF \E k \in order..(Min(Suitable(order)) - 1) : p = Found(order) + Span[k]
                      THEN LINK ELSE header[p]]

\* Mutant: the neighbour above, whoever it belongs to.
NextBlock(a, k) == a + Span[k]

\* relative ^ block_size, for an a that is a multiple of the size.
Buddy(a, k) == IF (a \div Span[k]) % 2 = 0 THEN a + Span[k] ELSE a - Span[k]

\* The block of order k that contains a: what merging makes of `actual`.
Enclosing(a, k) == a - (a % Span[k])

\* Mutant: one merge at most.
MergesOnce(actual, order) ==
  IF order < MAX_ORDER /\ Contains(free_lists[order], Buddy(actual, order))
    THEN order + 1 ELSE order

\* The order at which merging stops: at the top, or at a buddy not in the list.
MergedOrder(actual, order) ==
  Min({k \in order..MAX_ORDER :
         \/ k = MAX_ORDER
         \/ ~Contains(free_lists[k], Buddy(Enclosing(actual, k), k))})

\* put_block: every buddy met on the way leaves its list, the merged block is
\* pushed on the last one.
put_block(actual, order) ==
  LET top == MergedOrder(actual, order)
      merged == Enclosing(actual, top)
  IN
  /\ order <= MAX_ORDER
  /\ free_lists' = [k \in Orders |->
       IF k = top THEN <<merged>> \o free_lists[k]
       ELSE IF k \in order..(top - 1)
            THEN RemoveFirst(free_lists[k], Buddy(Enclosing(actual, k), k))
            ELSE free_lists[k]]
  /\ header' = [header EXCEPT ![merged] = LINK]
  /\ free_bytes' = free_bytes + PAGE_SIZE * Span[order]

-----------------------------------------------------------------------------
\* allocate_page: the caller (create_process, pipe_create) gets a whole page.
allocate_page ==
  /\ get_block(0)
  /\ header' = Linked(0)
  /\ held' = held \union {[kind |-> "page", start |-> Found(0), size |-> PAGE_SIZE]}

free_page(b) ==
  /\ b.kind = "page"
  /\ put_block(b.start, 0)
  /\ held' = held \ {b}

\* Mutant: the header is not counted.
OrderWithoutHeader(size) ==
  Min({k \in 0..(MAX_ORDER + 1) : k = MAX_ORDER + 1 \/ PAGE_SIZE * Span[k] >= size})

\* The order that allocate_block asks for; size + HEADER is of uint64_t.
OrderFor(size) ==
  Min({k \in 0..(MAX_ORDER + 1) :
         k = MAX_ORDER + 1 \/ PAGE_SIZE * Span[k] >= (size + HEADER) % WORD})

\* An order above MAX_ORDER has no suitable list.
allocate_block(size) ==
  LET order == OrderFor(size) IN
  /\ size # 0
  /\ get_block(order)
  /\ header' = [Linked(order) EXCEPT ![Found(order)] = order]
  /\ held' = held \union {[kind |-> "block", start |-> Found(order), size |-> size]}

free_block(b) ==
  /\ b.kind = "block"
  /\ put_block(b.start, header[b.start])
  /\ held' = held \ {b}

Next ==
  \/ allocate_page
  \/ \E size \in Sizes : allocate_block(size)
  \/ \E b \in held : free_page(b) \/ free_block(b)

Spec == Init /\ [][Next]_mmVars

-----------------------------------------------------------------------------
(* Properties *)

MMTypeOK ==
  /\ free_lists \in [Orders -> Seq(Memory)]
  /\ free_bytes \in Nat
  /\ header \in [Memory -> Orders \union {LINK}]
  /\ held \subseteq [kind: {"page", "block"}, start: Memory, size: 0..(WORD - 1)]

Block(start, order) == start..(start + Span[order] - 1)

OrderOf(b) == IF b.kind = "page" THEN 0 ELSE header[b.start]

\* The pages that free_page or free_block will give back for b.
PagesOf(b) == Block(b.start, OrderOf(b))

\* The nodes of the free lists, by order and position, and their pages.
Nodes == UNION {{k} \X (1..Len(free_lists[k])) : k \in Orders}
NodePages(n) == Block(free_lists[n[1]][n[2]], n[1])

\* Through every split and merge each page is in one free block or in one block
\* held, and only once: none is lost, none is given twice, no list node
\* overwrites the header of a block.  free_bytes counts the free ones.
Partition ==
  /\ \A p \in Memory :
       Cardinality({n \in Nodes : p \in NodePages(n)})
         + Cardinality({b \in held : p \in PagesOf(b)}) = 1
  /\ free_bytes = PAGE_SIZE * Cardinality(Memory \ UNION {PagesOf(b) : b \in held})

\* Finding the buddy with an exclusive or needs blocks at multiples of their
\* size, inside the memory.
Aligned ==
  \A n \in Nodes :
    /\ free_lists[n[1]][n[2]] % Span[n[1]] = 0
    /\ NodePages(n) \subseteq Memory

\* A request fails only when no aligned run of its size is free: releasing in
\* any order merges all that can be merged.
FailsOnlyIfNoFit ==
  \A order \in Orders :
    Suitable(order) = {} =>
      \A a \in {x \in Memory : x % Span[order] = 0 /\ Block(x, order) \subseteq Memory} :
        \E b \in held : Block(a, order) \intersect PagesOf(b) # {}

\* A block is at least as large as what was asked for, header apart.
BlockHoldsRequest ==
  \A b \in held :
    b.kind = "block" => Cardinality(PagesOf(b)) * PAGE_SIZE >= b.size + HEADER

\* Every execution is one of a correct allocator: blocks in use are disjoint,
\* inside the managed memory, and get_mem_stats is exact.
Allocator == INSTANCE PageAllocator WITH
  Pages <- Memory,
  blocks <- {PagesOf(b) : b \in held},
  free <- free_bytes \div PAGE_SIZE

ImplementsAllocator == Allocator!Spec

=============================================================================
