----------------------------- MODULE BitmapProofs -----------------------------
(***************************************************************************)
(* The bitmap memory manager for every size of RAM and every sequence of   *)
(* requests, and the loop of find_consecutive_pages for every bitmap.      *)
(***************************************************************************)
EXTENDS BitmapScan, FiniteSetTheorems, WellFoundedInduction, TLAPS

LEMMA MinExists ==
  ASSUME NEW I, I \subseteq Nat, I # {}
  PROVE  Min(I) \in I /\ \A y \in I : Min(I) <= y
<1>1. PICK m \in I : \A y \in I : ~(<<y, m>> \in OpToRel(<, Nat))
  BY WFMin, NatLessThanWellFounded
<1>2. ASSUME NEW y \in I
      PROVE  m <= y
  <2>1. <<y, m>> \in Nat \X Nat /\ <<y, m>> \notin OpToRel(<, Nat)
    BY <1>1
  <2>2. ~(y < m)
    BY <2>1 DEF OpToRel
  <2>3. m \in Int /\ y \in Int
    OBVIOUS
  <2> QED
    BY <2>2, <2>3
<1> QED
  BY <1>2 DEF Min

\* The managed pages are whole numbers with a bit each.
LEMMA ManagedPages ==
  /\ first_free_page \in Nat /\ total_pages \in Nat
  /\ bitmap_size_bytes \in Nat
  /\ Managed \subseteq 0..(8 * bitmap_size_bytes - 1)
  /\ Managed \subseteq Nat
  /\ IsFiniteSet(Managed)
  /\ Cardinality(Managed) = total_pages - first_free_page
<1>1. /\ total_pages \in Nat /\ MANAGED_START \in Nat /\ PAGE_SIZE \in Nat \ {0}
      /\ first_free_page < total_pages
  BY BitmapAssumption
<1>2. /\ bitmap_size_bytes \in Nat
      /\ total_pages <= 8 * bitmap_size_bytes
  BY <1>1 DEF bitmap_size_bytes, Ceil
<1>3. Ceil(bitmap_size_bytes, PAGE_SIZE) \in Nat
  BY <1>1, <1>2 DEF Ceil
<1>4. first_free_page \in Nat
  BY <1>1, <1>3 DEF first_free_page
<1>5. /\ IsFiniteSet(Managed)
      /\ Cardinality(Managed) = total_pages - first_free_page
  <2>1. total_pages - 1 \in Int /\ first_free_page \in Int /\ first_free_page <= total_pages - 1
    BY <1>1, <1>4
  <2>2. /\ IsFiniteSet(first_free_page..(total_pages - 1))
        /\ Cardinality(first_free_page..(total_pages - 1)) =
             (total_pages - 1) - first_free_page + 1
    BY <2>1, FS_Interval
  <2> QED
    BY <1>1, <1>4, <2>2 DEF Managed
<1> QED
  BY <1>1, <1>2, <1>4, <1>5 DEF Managed

LEMMA PagesNeeded ==
  ASSUME NEW size \in Sizes
  PROVE  pages_needed(size) \in Nat /\ size \in 0..(WORD - 1)
<1>1. /\ size \in Nat /\ HEADER \in Nat /\ PAGE_SIZE \in Nat \ {0}
      /\ WORD \in Nat \ {0} /\ size \in 0..(WORD - 1)
  BY BitmapAssumption
<1>2. (size + HEADER) % WORD \in Nat
  BY <1>1
<1>3. (((size + HEADER) % WORD) + PAGE_SIZE - 1) % WORD \in Nat
  BY <1>1, <1>2
<1> QED
  BY <1>1, <1>3 DEF pages_needed

\* What find_consecutive_pages returns is a free run.
LEMMA FoundFits ==
  ASSUME NEW n \in Nat, find_consecutive_pages(n) # total_pages
  PROVE  find_consecutive_pages(n) \in Fits(n)
<1>1. Fits(n) \subseteq Nat
  BY ManagedPages DEF Fits
<1> QED
  BY <1>1, MinExists DEF find_consecutive_pages

-----------------------------------------------------------------------------
(* The loop. *)

\* The last `consecutive` pages before i are free, too few for a run, and no run
\* starts before them.
ScanInv ==
  /\ pages \in Nat
  /\ i \in first_free_page..total_pages
  /\ consecutive \in Nat
  /\ result = -1 =>
       /\ consecutive <= i - first_free_page
       /\ pages > 0 => consecutive < pages
       /\ consecutive > 0 => start_page = i - consecutive
       /\ (i - consecutive)..(i - 1) \subseteq Managed \ bitmap
       /\ \A p \in Fits(pages) : p >= i - consecutive
  /\ FindsFirstFit

LEMMA FitsAreFree ==
  ASSUME NEW n \in Nat, NEW p \in Fits(n)
  PROVE  /\ n > 0 /\ p \in Managed /\ p \in Nat
         /\ \A q \in p..(p + n - 1) : q \in Managed /\ q \notin bitmap
  BY ManagedPages DEF Fits

LEMMA InitScan == ScanInit => ScanInv
<1> SUFFICES ASSUME ScanInit
             PROVE  ScanInv
  OBVIOUS
<1>1. /\ pages \in Nat /\ i = first_free_page /\ consecutive = 0 /\ result = -1
  BY ScanAssumption DEF ScanInit
<1>2. /\ first_free_page \in Nat /\ total_pages \in Nat
      /\ first_free_page < total_pages
  BY ManagedPages, BitmapAssumption
<1>3. \A p \in Fits(pages) : p >= first_free_page
  BY <1>2 DEF Fits, Managed
<1>4. (i - consecutive)..(i - 1) = {}
  BY <1>1, <1>2
<1>5. FindsFirstFit
  BY <1>1 DEF FindsFirstFit
<1> QED
  BY <1>1, <1>2, <1>3, <1>4, <1>5 DEF ScanInv

LEMMA NextScan == ScanInv /\ [ScanNext]_scanVars => ScanInv'
<1> SUFFICES ASSUME ScanInv, [ScanNext]_scanVars
             PROVE  ScanInv'
  OBVIOUS
<1>1. /\ first_free_page \in Nat /\ total_pages \in Nat
      /\ first_free_page < total_pages
      /\ Managed = first_free_page..(total_pages - 1)
  BY ManagedPages, BitmapAssumption DEF Managed
<1>2. /\ pages \in Nat /\ i \in Nat /\ consecutive \in Nat
      /\ i >= first_free_page /\ i <= total_pages
      /\ result = -1 => consecutive <= i - first_free_page
  BY <1>1 DEF ScanInv
<1>3. CASE PageInUse
  <2>1. /\ result = -1 /\ i < total_pages /\ i \in bitmap
        /\ consecutive' = 0 /\ i' = i + 1
        /\ bitmap' = bitmap /\ pages' = pages /\ result' = -1
    BY <1>3 DEF PageInUse, mmVars
  <2>2. Fits(pages)' = Fits(pages)
    BY <2>1 DEF Fits
  <2>3. \A p \in Fits(pages) : p >= i + 1
    <3> SUFFICES ASSUME NEW p \in Fits(pages)
                 PROVE  p >= i + 1
      OBVIOUS
    <3>1. /\ pages > 0 /\ p \in Nat
          /\ \A q \in p..(p + pages - 1) : q \notin bitmap
      BY <1>2, FitsAreFree
    <3>2. p >= i - consecutive /\ consecutive < pages
      BY <2>1, <3>1 DEF ScanInv
    <3>3. i \notin p..(p + pages - 1)
      BY <2>1, <3>1
    <3> QED
      BY <1>2, <3>1, <3>2, <3>3
  <2>4. (i' - consecutive')..(i' - 1) = {}
    BY <1>2, <2>1
  <2>5. FindsFirstFit'
    BY <2>1 DEF FindsFirstFit
  <2>6. /\ pages' \in Nat
        /\ i' \in first_free_page..total_pages
        /\ consecutive' \in Nat /\ consecutive' <= i' - first_free_page
        /\ pages' > 0 => consecutive' < pages'
        /\ ~(consecutive' > 0)
        /\ i' - consecutive' = i + 1
    BY <1>1, <1>2, <2>1
  <2>7. \A p \in Fits(pages)' : p >= i' - consecutive'
    BY <2>2, <2>3, <2>6
  <2> QED
    BY <2>4, <2>5, <2>6, <2>7 DEF ScanInv
<1>4. CASE PageFree
  <2>1. /\ result = -1 /\ i < total_pages /\ i \notin bitmap
        /\ start_page' = IF consecutive = 0 THEN i ELSE start_page
        /\ consecutive' = consecutive + 1
        /\ bitmap' = bitmap /\ pages' = pages
    BY <1>4 DEF PageFree, mmVars
  <2>2. Fits(pages)' = Fits(pages)
    BY <2>1 DEF Fits
  <2>3. start_page' = i - consecutive
    <3>1. consecutive > 0 => start_page = i - consecutive
      BY <2>1 DEF ScanInv
    <3>2. CASE consecutive = 0
      BY <1>2, <2>1, <3>2
    <3>3. CASE consecutive # 0
      BY <1>2, <2>1, <3>1, <3>3
    <3> QED
      BY <3>2, <3>3
  <2>4. /\ (i - consecutive)..i \subseteq Managed \ bitmap
        /\ i - consecutive \in Managed
    BY <1>1, <1>2, <2>1 DEF ScanInv
  <2>5. \A p \in Fits(pages) : p >= i - consecutive
    BY <2>1 DEF ScanInv
  <2>6. CASE consecutive' = pages
    <3>1. result' = i - consecutive /\ i' = i
      BY <1>4, <2>3, <2>6 DEF PageFree
    <3>2. i - consecutive \in Fits(pages)
      <4>1. pages > 0 /\ i - consecutive + pages - 1 = i
        BY <1>2, <2>1, <2>6
      <4> QED
        BY <2>4, <4>1 DEF Fits
    <3>3. find_consecutive_pages(pages) = i - consecutive
      <4>1. Fits(pages) \subseteq Nat /\ Fits(pages) # {}
        BY <3>2, ManagedPages DEF Fits
      <4>2. /\ Min(Fits(pages)) \in Fits(pages)
            /\ Min(Fits(pages)) <= i - consecutive
        BY <3>2, <4>1, MinExists
      <4>3. Min(Fits(pages)) >= i - consecutive /\ Min(Fits(pages)) \in Nat
        BY <2>5, <4>1, <4>2
      <4> QED
        BY <1>2, <4>1, <4>2, <4>3 DEF find_consecutive_pages
    <3>4. find_consecutive_pages(pages)' = find_consecutive_pages(pages)
      BY <2>1, <2>2 DEF find_consecutive_pages
    <3>5. FindsFirstFit' /\ result' # -1
      BY <1>2, <2>4, <3>1, <3>3, <3>4, ManagedPages DEF FindsFirstFit
    <3>6. /\ pages' \in Nat /\ consecutive' \in Nat
          /\ i' \in first_free_page..total_pages
      BY <1>1, <1>2, <2>1, <3>1
    <3> QED
      BY <3>5, <3>6 DEF ScanInv
  <2>7. CASE consecutive' # pages
    <3>1. i' = i + 1 /\ result' = -1
      BY <1>4, <2>1, <2>7 DEF PageFree
    <3>2. /\ pages' \in Nat
          /\ i' \in first_free_page..total_pages
          /\ consecutive' \in Nat /\ consecutive' <= i' - first_free_page
          /\ i' - consecutive' = i - consecutive
          /\ i' - 1 = i
      BY <1>1, <1>2, <2>1, <3>1
    <3>3. pages' > 0 => consecutive' < pages'
      BY <1>2, <2>1, <2>7 DEF ScanInv
    <3>4. FindsFirstFit'
      BY <3>1 DEF FindsFirstFit
    <3>5. consecutive' > 0 => start_page' = i' - consecutive'
      BY <2>3, <3>2
    <3>6. (i' - consecutive')..(i' - 1) \subseteq Managed \ bitmap'
      BY <2>1, <2>4, <3>2
    <3>7. \A p \in Fits(pages)' : p >= i' - consecutive'
      BY <2>2, <2>5, <3>2
    <3> QED
      BY <3>1, <3>2, <3>3, <3>4, <3>5, <3>6, <3>7 DEF ScanInv
  <2> QED
    BY <2>6, <2>7
<1>5. CASE NotFound
  <2>1. /\ result = -1 /\ i = total_pages /\ result' = total_pages
        /\ UNCHANGED <<bitmap, pages, i, consecutive, start_page>>
    BY <1>5 DEF NotFound, mmVars
  <2>2. Fits(pages)' = Fits(pages)
    BY <2>1 DEF Fits
  <2>3. Fits(pages) = {}
    <3> SUFFICES ASSUME NEW p \in Fits(pages)
                 PROVE  FALSE
      OBVIOUS
    <3>1. /\ pages > 0 /\ p \in Nat
          /\ \A q \in p..(p + pages - 1) : q \in Managed
      BY <1>2, FitsAreFree
    <3>2. p >= total_pages - consecutive /\ consecutive < pages
      BY <2>1, <3>1 DEF ScanInv
    <3>3. p + pages - 1 \in p..(p + pages - 1) /\ p + pages - 1 >= total_pages
      BY <1>1, <1>2, <3>1, <3>2
    <3> QED
      BY <1>1, <1>2, <3>1, <3>3
  <2>4. FindsFirstFit'
    BY <2>1, <2>2, <2>3 DEF FindsFirstFit, find_consecutive_pages
  <2> QED
    BY <1>1, <2>1, <2>4 DEF ScanInv
<1>6. CASE CallThenScan
  <2>1. /\ pages' \in Nat /\ i' = first_free_page /\ consecutive' = 0
        /\ result' = -1
    BY <1>6, ScanAssumption DEF CallThenScan
  <2>2. \A p \in Fits(pages)' : p >= first_free_page
    BY <1>1 DEF Fits
  <2>3. (i' - consecutive')..(i' - 1) = {}
    BY <1>1, <2>1
  <2>4. FindsFirstFit'
    BY <2>1 DEF FindsFirstFit
  <2> QED
    BY <1>1, <2>1, <2>2, <2>3, <2>4 DEF ScanInv
<1>7. CASE UNCHANGED scanVars
  BY <1>7 DEF scanVars, mmVars, ScanInv, FindsFirstFit, find_consecutive_pages, Fits
<1> QED
  BY <1>3, <1>4, <1>5, <1>6, <1>7 DEF ScanNext

\* One pass that keeps a count finds the first fit, for every bitmap, every size
\* of memory and every length asked for.
THEOREM ScanFindsFirstFit == ScanSpec => []FindsFirstFit
<1>1. ScanInv => FindsFirstFit
  BY DEF ScanInv
<1> QED
  BY <1>1, InitScan, NextScan, PTL DEF ScanSpec

-----------------------------------------------------------------------------
(* The manager. *)

\* The blocks held are runs of managed pages, disjoint.
Disjoint ==
  /\ \A b \in held : /\ b.kind = "block" => header[b.start] > 0
                      /\ PagesOf(b) \subseteq Managed
  /\ \A b, c \in held : b # c => PagesOf(b) \intersect PagesOf(c) = {}

BitmapInv == MMTypeOK /\ Accounting /\ Disjoint

LEMMA CountTaken ==
  ASSUME NEW A, IsFiniteSet(A), NEW B \in SUBSET A
  PROVE  /\ Cardinality(A \ B) = Cardinality(A) - Cardinality(B)
         /\ Cardinality(A) \in Nat /\ Cardinality(B) \in Nat
         /\ Cardinality(A \ B) \in Nat
<1>1. IsFiniteSet(B) /\ IsFiniteSet(A \ B)
  BY FS_Subset
<1>2. /\ Cardinality(A) \in Nat /\ Cardinality(B) \in Nat
      /\ Cardinality(A \ B) \in Nat
  BY <1>1, FS_CardinalityType
<1>3. (A \ B) \cup B = A /\ (A \ B) \cap B = {}
  OBVIOUS
<1>4. Cardinality((A \ B) \cup B)
        = Cardinality(A \ B) + Cardinality(B) - Cardinality((A \ B) \cap B)
  BY <1>1, FS_Union
<1>5. Cardinality(A) = Cardinality(A \ B) + Cardinality(B) - 0
  BY <1>3, <1>4, FS_EmptySet
<1> QED
  BY <1>2, <1>5

LEMMA InitBitmap == Init => BitmapInv
<1> SUFFICES ASSUME Init
             PROVE  BitmapInv
  OBVIOUS
<1>1. /\ held = {} /\ free_pages = total_pages - first_free_page
      /\ bitmap = (0..(8 * bitmap_size_bytes - 1)) \ Managed
      /\ header = [p \in Managed |-> 0]
  BY DEF Init
<1>2. Managed \intersect bitmap = {} /\ Managed \ bitmap = Managed
  BY <1>1
<1>3. free_pages = Cardinality(Managed \ bitmap) /\ free_pages \in Nat
  BY <1>1, <1>2, ManagedPages, FS_CardinalityType
<1>4. UNION {PagesOf(b) : b \in held} = {}
  BY <1>1
<1>5. Accounting
  BY <1>2, <1>3, <1>4 DEF Accounting
<1>6. MMTypeOK
  BY <1>1, <1>3 DEF MMTypeOK
<1>7. Disjoint
  BY <1>1 DEF Disjoint
<1> QED
  BY <1>5, <1>6, <1>7 DEF BitmapInv

\* The instance has a copy of the operator of FiniteSets.
LEMMA SameCardinality == \A S : Allocator!Cardinality(S) = Cardinality(S)
  BY DEF Allocator!Cardinality, Cardinality, Allocator!IsFiniteSet, IsFiniteSet

\* What allocate_page and allocate_block have in common: n pages from a free run,
\* found in their header if they are a block.
Takes(b, n) ==
  /\ b \in [kind: {"page", "block"}, start: Managed, size: 0..(WORD - 1)]
  /\ n \in Nat /\ n > 0
  /\ b.start..(b.start + n - 1) \subseteq Managed \ bitmap
  /\ bitmap' = bitmap \union b.start..(b.start + n - 1)
  /\ free_pages' = free_pages - n
  /\ held' = held \union {b}
  /\ header' \in [Managed -> Nat]
  /\ \A p \in Managed : p # b.start => header'[p] = header[p]
  /\ b.kind = "page" => n = 1
  /\ b.kind = "block" => header'[b.start] = n

LEMMA TakesKeeps ==
  ASSUME BitmapInv, NEW b, NEW n, Takes(b, n)
  PROVE  BitmapInv' /\ \E run \in Allocator!Runs : Allocator!Allocate(run)
<1> DEFINE run == b.start..(b.start + n - 1)
<1>1. /\ b \in [kind: {"page", "block"}, start: Managed, size: 0..(WORD - 1)]
      /\ b.start \in Managed /\ b.start \in Nat /\ n \in Nat /\ n > 0
      /\ b.start \in run /\ b.start + n - 1 \in run
      /\ run \subseteq Managed \ bitmap
  <2>1. /\ b \in [kind: {"page", "block"}, start: Managed, size: 0..(WORD - 1)]
        /\ n \in Nat /\ n > 0 /\ run \subseteq Managed \ bitmap
    BY DEF Takes
  <2>2. b.start \in Managed /\ b.start \in Nat
    BY <2>1, ManagedPages
  <2> QED
    BY <2>1, <2>2
<1>2. /\ bitmap' = bitmap \union run
      /\ free_pages' = free_pages - n
      /\ held' = held \union {b}
  BY DEF Takes
<1>3. IsFiniteSet(run) /\ Cardinality(run) = n
  <2>1. b.start \in Int /\ b.start + n - 1 \in Int /\ ~(b.start > b.start + n - 1)
    BY <1>1
  <2>2. /\ IsFiniteSet(b.start..(b.start + n - 1))
        /\ Cardinality(b.start..(b.start + n - 1)) = (b.start + n - 1) - b.start + 1
    BY <2>1, FS_Interval
  <2> QED
    BY <1>1, <2>2
<1>4. PagesOf(b)' = run
  <2>1. CASE b.kind = "page"
    <3>1. n = 1 /\ run = {b.start}
      BY <1>1, <2>1 DEF Takes
    <3> QED
      BY <2>1, <3>1 DEF PagesOf
  <2>2. CASE b.kind = "block"
    BY <1>1, <2>2 DEF PagesOf, Takes
  <2> QED
    BY <1>1, <2>1, <2>2
<1> HIDE DEF run
<1>5. ASSUME NEW c \in held
      PROVE  /\ c.start # b.start /\ PagesOf(c)' = PagesOf(c)
             /\ PagesOf(c) \subseteq Managed \intersect bitmap
             /\ PagesOf(c) \intersect run = {}
             /\ c.start \in PagesOf(c)
             /\ c.kind = "block" => header'[c.start] = header[c.start]
  <2>1. /\ c.kind \in {"page", "block"} /\ c.start \in Managed /\ c.start \in Nat
        /\ header[c.start] \in Nat
        /\ c.kind = "block" => header[c.start] > 0
    BY ManagedPages DEF BitmapInv, MMTypeOK, Disjoint
  <2>2. c.start \in PagesOf(c)
    BY <2>1 DEF PagesOf
  <2>3. PagesOf(c) \subseteq Managed \intersect bitmap
    BY DEF BitmapInv, Accounting
  <2>4. c.start # b.start
    BY <1>1, <2>2, <2>3
  <2>5. header'[c.start] = header[c.start]
    BY <2>1, <2>4 DEF Takes
  <2> QED
    BY <1>1, <2>2, <2>3, <2>4, <2>5 DEF PagesOf
<1>6. b \notin held
  BY <1>5
<1>7. Accounting'
  <2>1. UNION {PagesOf(c)' : c \in held'} = (UNION {PagesOf(c) : c \in held}) \union run
    <3>1. ASSUME NEW p
          PROVE  (\E c \in held' : p \in PagesOf(c)')
                   <=> (\E c \in held : p \in PagesOf(c)) \/ p \in run
      BY <1>2, <1>4, <1>5
    <3>2. \A p : p \in UNION {PagesOf(c)' : c \in held'} <=> \E c \in held' : p \in PagesOf(c)'
      BY Zenon
    <3>3. \A p : p \in UNION {PagesOf(c) : c \in held} <=> \E c \in held : p \in PagesOf(c)
      OBVIOUS
    <3> QED
      BY <3>1, <3>2, <3>3, Zenon
  <2>2. Managed \intersect bitmap' = (Managed \intersect bitmap) \union run
    BY <1>1, <1>2
  <2>3. Managed \ bitmap' = (Managed \ bitmap) \ run
    BY <1>2
  <2>4. IsFiniteSet(Managed \ bitmap)
    BY ManagedPages, FS_Subset
  <2>5. Cardinality((Managed \ bitmap) \ run) = Cardinality(Managed \ bitmap) - n
    BY <1>1, <1>3, <2>4, CountTaken
  <2>6. /\ Managed \intersect bitmap = UNION {PagesOf(c) : c \in held}
        /\ free_pages = Cardinality(Managed \ bitmap)
    BY DEF BitmapInv, Accounting
  <2>7. Managed \intersect bitmap' = UNION {PagesOf(c)' : c \in held'}
    BY <2>1, <2>2, <2>6, Zenon
  <2>8. free_pages' = Cardinality(Managed \ bitmap')
    BY <1>2, <2>3, <2>5, <2>6
  <2> QED
    BY <2>7, <2>8 DEF Accounting
<1>8. MMTypeOK'
  <2>1. bitmap' \subseteq 0..(8 * bitmap_size_bytes - 1)
    BY <1>1, <1>2, ManagedPages DEF BitmapInv, MMTypeOK
  <2>2. free_pages' \in Nat
    <3>1. IsFiniteSet(Managed \ bitmap')
      BY ManagedPages, FS_Subset
    <3> QED
      BY <1>7, <3>1, FS_CardinalityType DEF Accounting
  <2>3. header' \in [Managed -> Nat]
    BY DEF Takes
  <2>4. held' \subseteq [kind: {"page", "block"}, start: Managed, size: 0..(WORD - 1)]
    BY <1>1, <1>2 DEF BitmapInv, MMTypeOK
  <2> QED
    BY <2>1, <2>2, <2>3, <2>4 DEF MMTypeOK
<1>9. Disjoint'
  <2>1. ASSUME NEW c \in held'
        PROVE  /\ c.kind = "block" => header'[c.start] > 0
               /\ PagesOf(c)' \subseteq Managed
    <3>1. CASE c = b
      BY <1>1, <1>4, <3>1 DEF Takes
    <3>2. CASE c \in held
      BY <1>5, <3>2 DEF BitmapInv, Disjoint
    <3> QED
      BY <1>2, <3>1, <3>2
  <2>2. ASSUME NEW c \in held', NEW d \in held', c # d
        PROVE  PagesOf(c)' \intersect PagesOf(d)' = {}
    <3>1. CASE c \in held /\ d \in held
      BY <1>5, <2>2, <3>1 DEF BitmapInv, Disjoint
    <3>2. CASE c = b \/ d = b
      BY <1>2, <1>4, <1>5, <2>2, <3>2
    <3> QED
      BY <1>2, <3>1, <3>2
  <2> QED
    BY <2>1, <2>2 DEF Disjoint
<1>10. run \in Allocator!Runs
  <2>1. run = b.start..(b.start + n - 1) /\ run # {}
    BY <1>1 DEF run
  <2>2. b.start \in Managed /\ b.start + n - 1 \in Managed
    BY <1>1
  <2> QED
    BY <2>1, <2>2 DEF Allocator!Runs
<1>11. Allocator!Allocate(run)
  <2>1. \A p \in run : p \in Managed /\ \A c \in {PagesOf(d) : d \in held} : p \notin c
    BY <1>1, <1>5
  <2>2. {PagesOf(d) : d \in held}' = {PagesOf(d) : d \in held} \union {run}
    <3>1. \A c \in held' : IF c = b THEN PagesOf(c)' = run ELSE PagesOf(c)' = PagesOf(c)
      BY <1>2, <1>4, <1>5
    <3> QED
      BY <1>2, <1>6, <3>1
  <2>3. free_pages' = free_pages - Cardinality(run)
    BY <1>2, <1>3
  <2> QED
    BY <2>1, <2>2, <2>3, SameCardinality DEF Allocator!Allocate
<1> QED
  BY <1>7, <1>8, <1>9, <1>10, <1>11 DEF BitmapInv

\* The pages of a block held are a run in use, of as many pages as will be given
\* back.
LEMMA HeldRun ==
  ASSUME BitmapInv, NEW b \in held
  PROVE  /\ b.kind \in {"page", "block"} /\ b.start \in Managed
         /\ PagesOf(b) \in Allocator!Runs
         /\ PagesOf(b) \subseteq Managed \intersect bitmap
         /\ b.start \in PagesOf(b)
         /\ b.kind = "page" => Cardinality(PagesOf(b)) = 1
         /\ b.kind = "block" => Cardinality(PagesOf(b)) = header[b.start]
<1>1. /\ b.kind \in {"page", "block"} /\ b.start \in Managed /\ b.start \in Nat
      /\ header[b.start] \in Nat
      /\ b.kind = "block" => header[b.start] > 0
  BY ManagedPages DEF BitmapInv, MMTypeOK, Disjoint
<1>2. PagesOf(b) \subseteq Managed \intersect bitmap
  BY DEF BitmapInv, Accounting
<1>3. CASE b.kind = "page"
  <2>1. PagesOf(b) = {b.start} /\ PagesOf(b) = b.start..b.start
    BY <1>1, <1>3 DEF PagesOf
  <2>2. Cardinality(PagesOf(b)) = 1
    BY <2>1, FS_Singleton
  <2>3. PagesOf(b) \in Allocator!Runs
    BY <1>1, <2>1 DEF Allocator!Runs
  <2> QED
    BY <1>1, <1>2, <1>3, <2>1, <2>2, <2>3
<1>4. CASE b.kind = "block"
  <2> DEFINE last == b.start + header[b.start] - 1
  <2>1. /\ PagesOf(b) = b.start..last
        /\ last \in Int /\ b.start \in Int /\ b.start <= last
    BY <1>1, <1>4 DEF PagesOf
  <2>2. b.start \in PagesOf(b) /\ last \in PagesOf(b) /\ last \in Managed
    BY <1>2, <2>1
  <2>3. Cardinality(b.start..last) = last - b.start + 1
    BY <2>1, FS_Interval
  <2>4. last - b.start + 1 = header[b.start]
    BY <1>1
  <2>5. PagesOf(b) \in Allocator!Runs
    BY <1>1, <2>1, <2>2 DEF Allocator!Runs
  <2> HIDE DEF last
  <2> QED
    BY <1>1, <1>2, <1>4, <2>1, <2>2, <2>3, <2>4, <2>5
<1> QED
  BY <1>1, <1>3, <1>4

\* What free_page and free_block have in common.
Gives(b) ==
  /\ b \in held
  /\ bitmap' = bitmap \ PagesOf(b)
  /\ free_pages' = free_pages + Cardinality(PagesOf(b))
  /\ held' = held \ {b}
  /\ header' = header

LEMMA GivesKeeps ==
  ASSUME BitmapInv, NEW b, Gives(b)
  PROVE  BitmapInv' /\ \E run \in Allocator!Runs : Allocator!Release(run)
<1> DEFINE run == PagesOf(b)
<1>1. /\ b \in held
      /\ run \in Allocator!Runs /\ run \subseteq Managed \intersect bitmap
  BY HeldRun DEF Gives
<1>2. /\ bitmap' = bitmap \ run
      /\ free_pages' = free_pages + Cardinality(run)
      /\ held' = held \ {b}
      /\ header' = header
  BY DEF Gives
<1>3. \A c : PagesOf(c)' = PagesOf(c)
  BY <1>2 DEF PagesOf
<1>4. ASSUME NEW c \in held, c # b
      PROVE  PagesOf(c) \intersect run = {} /\ PagesOf(c) # run
  <2>1. PagesOf(c) \intersect run = {}
    BY <1>1, <1>4 DEF BitmapInv, Disjoint
  <2> QED
    BY <2>1, HeldRun
<1> HIDE DEF run
<1>5. Accounting'
  <2>1. UNION {PagesOf(c)' : c \in held'} = (UNION {PagesOf(c) : c \in held}) \ run
    <3>1. ASSUME NEW p
          PROVE  (\E c \in held' : p \in PagesOf(c)')
                   <=> (\E c \in held : p \in PagesOf(c)) /\ p \notin run
      BY <1>1, <1>2, <1>3, <1>4 DEF run
    <3>2. \A p : p \in UNION {PagesOf(c)' : c \in held'} <=> \E c \in held' : p \in PagesOf(c)'
      BY Zenon
    <3>3. \A p : p \in UNION {PagesOf(c) : c \in held} <=> \E c \in held : p \in PagesOf(c)
      OBVIOUS
    <3> QED
      BY <3>1, <3>2, <3>3, Zenon
  <2>2. /\ Managed \intersect bitmap = UNION {PagesOf(c) : c \in held}
        /\ free_pages = Cardinality(Managed \ bitmap)
    BY DEF BitmapInv, Accounting
  <2>3. Managed \intersect bitmap' = (Managed \intersect bitmap) \ run
    BY <1>2
  <2>4. Managed \intersect bitmap' = UNION {PagesOf(c)' : c \in held'}
    BY <2>1, <2>2, <2>3, Zenon
  <2>5. Managed \ bitmap = (Managed \ bitmap') \ run /\ run \subseteq Managed \ bitmap'
    BY <1>1, <1>2
  <2>6. IsFiniteSet(Managed \ bitmap')
    BY ManagedPages, FS_Subset
  <2>7. /\ Cardinality(Managed \ bitmap) = Cardinality(Managed \ bitmap') - Cardinality(run)
        /\ Cardinality(Managed \ bitmap') \in Nat /\ Cardinality(run) \in Nat
    BY <2>5, <2>6, CountTaken
  <2>8. free_pages' = Cardinality(Managed \ bitmap')
    BY <1>2, <2>2, <2>7
  <2> QED
    BY <2>4, <2>8 DEF Accounting
<1>6. MMTypeOK'
  <2>1. free_pages' \in Nat
    <3>1. IsFiniteSet(Managed \ bitmap')
      BY ManagedPages, FS_Subset
    <3> QED
      BY <1>5, <3>1, FS_CardinalityType DEF Accounting
  <2> QED
    BY <1>2, <2>1 DEF BitmapInv, MMTypeOK
<1>7. Disjoint'
  BY <1>2, <1>3 DEF BitmapInv, Disjoint
<1>8. Allocator!Release(run)
  <2>1. run \in {PagesOf(d) : d \in held}
    BY <1>1 DEF run
  <2>2. {PagesOf(d) : d \in held}' = {PagesOf(d) : d \in held} \ {run}
    <3>1. \A c \in held : c # b => PagesOf(c) # run
      BY <1>4
    <3>2. {PagesOf(d) : d \in held}' = {PagesOf(d) : d \in held \ {b}}
      BY <1>2, <1>3
    <3> QED
      BY <1>1, <3>1, <3>2 DEF run
  <2> QED
    BY <1>2, <2>1, <2>2, SameCardinality DEF Allocator!Release
<1> QED
  BY <1>1, <1>5, <1>6, <1>7, <1>8 DEF BitmapInv

LEMMA NextBitmap ==
  ASSUME BitmapInv, [Next]_mmVars
  PROVE  BitmapInv' /\ [Allocator!Next]_<<{PagesOf(b) : b \in held}, free_pages>>
<1>1. CASE allocate_page
  <2> DEFINE start == find_consecutive_pages(1)
             b == [kind |-> "page", start |-> start, size |-> PAGE_SIZE]
  <2>1. start \in Fits(1)
    BY <1>1, FoundFits DEF allocate_page
  <2>2. start \in Managed /\ start \in Nat /\ start..(start + 1 - 1) \subseteq Managed \ bitmap
    BY <2>1, ManagedPages DEF Fits
  <2>3. /\ bitmap' = bitmap \union {start} /\ free_pages' = free_pages - 1
        /\ held' = held \union {b} /\ header' = header
    BY <1>1 DEF allocate_page
  <2>4. PAGE_SIZE \in 0..(WORD - 1)
    BY BitmapAssumption
  <2> HIDE DEF start
  <2>5. {start} = start..(start + 1 - 1)
    BY <2>2
  <2>6. /\ b \in [kind: {"page", "block"}, start: Managed, size: 0..(WORD - 1)]
        /\ b.start = start /\ b.kind = "page"
    BY <2>2, <2>4
  <2> HIDE DEF b
  <2>7. Takes(b, 1)
    BY <2>2, <2>3, <2>5, <2>6 DEF Takes, BitmapInv, MMTypeOK
  <2> QED
    BY <2>7, TakesKeeps DEF Allocator!Next
<1>2. ASSUME NEW size \in Sizes, allocate_block(size)
      PROVE  BitmapInv' /\ Allocator!Next
  <2> DEFINE n == pages_needed(size)
             start == find_consecutive_pages(n)
             b == [kind |-> "block", start |-> start, size |-> size]
  <2>1. n \in Nat /\ size \in 0..(WORD - 1)
    BY PagesNeeded
  <2>2. start \in Fits(n)
    BY <1>2, <2>1, FoundFits DEF allocate_block
  <2>3. /\ bitmap' = bitmap \union start..(start + n - 1)
        /\ free_pages' = free_pages - n
        /\ header' = [header EXCEPT ![start] = n]
        /\ held' = held \union {b}
    BY <1>2 DEF allocate_block
  <2> HIDE DEF n, start
  <2>4. start \in Managed /\ n > 0 /\ start..(start + n - 1) \subseteq Managed \ bitmap
    BY <2>2 DEF Fits
  <2>5. /\ b \in [kind: {"page", "block"}, start: Managed, size: 0..(WORD - 1)]
        /\ b.start = start /\ b.kind = "block"
    BY <2>1, <2>4
  <2> HIDE DEF b
  <2>6. /\ header' \in [Managed -> Nat] /\ header'[start] = n
        /\ \A p \in Managed : p # start => header'[p] = header[p]
    BY <2>1, <2>3, <2>4 DEF BitmapInv, MMTypeOK
  <2>7. Takes(b, n)
    BY <2>1, <2>3, <2>4, <2>5, <2>6 DEF Takes
  <2> QED
    BY <2>7, TakesKeeps DEF Allocator!Next
<1>3. ASSUME NEW b \in held, free_page(b) \/ free_block(b)
      PROVE  BitmapInv' /\ Allocator!Next
  <2>1. Gives(b)
    <3>1. CASE free_page(b)
      <4>1. PagesOf(b) = {b.start} /\ Cardinality(PagesOf(b)) = 1
        BY <3>1, HeldRun DEF free_page, PagesOf
      <4> QED
        BY <3>1, <4>1 DEF free_page, Gives
    <3>2. CASE free_block(b)
      <4>1. /\ PagesOf(b) = b.start..(b.start + header[b.start] - 1)
            /\ Cardinality(PagesOf(b)) = header[b.start]
        BY <3>2, HeldRun DEF free_block, PagesOf
      <4> QED
        BY <3>2, <4>1 DEF free_block, Gives
    <3> QED
      BY <1>3, <3>1, <3>2
  <2> QED
    BY <2>1, GivesKeeps DEF Allocator!Next
<1>4. CASE UNCHANGED mmVars
  <2>1. UNCHANGED <<bitmap, free_pages, header, held>>
    BY <1>4 DEF mmVars
  <2>2. \A b : PagesOf(b)' = PagesOf(b)
    BY <2>1 DEF PagesOf
  <2>3. {PagesOf(b) : b \in held}' = {PagesOf(b) : b \in held}
    BY <2>1, <2>2
  <2>4. BitmapInv'
    BY <2>1, <2>2, <2>3 DEF BitmapInv, MMTypeOK, Accounting, Disjoint
  <2> QED
    BY <2>1, <2>3, <2>4
<1> QED
  BY <1>1, <1>2, <1>3, <1>4 DEF Next

\* The bits, the headers and the counter agree for ever: the pages marked in use
\* are those of the blocks held and get_mem_stats counts the rest.
THEOREM BitmapAccounts == Spec => []Accounting
<1>1. BitmapInv => Accounting
  BY DEF BitmapInv
<1> QED
  BY <1>1, InitBitmap, NextBitmap, PTL DEF Spec

\* The variables of bitmapmm.c keep their types whatever the order of the calls:
\* no bit outside the bitmap is written and free_pages, which is unsigned, is
\* never decremented below 0.
THEOREM BitmapTypeCorrect == Spec => []MMTypeOK
<1>1. BitmapInv => MMTypeOK
  BY DEF BitmapInv
<1> QED
  BY <1>1, InitBitmap, NextBitmap, PTL DEF Spec

\* bitmapmm.c is a page allocator: what it hands out was free and is nobody
\* else's until it is given back, whatever the size of the RAM and the requests.
THEOREM BitmapImplements == Spec => ImplementsAllocator
<1>1. Init => Allocator!Init
  <2> SUFFICES ASSUME Init
               PROVE  Allocator!Init
    OBVIOUS
  <2>1. held = {} /\ free_pages = Cardinality(Managed)
    BY ManagedPages DEF Init
  <2>2. {PagesOf(b) : b \in held} = {}
    BY <2>1
  <2> QED
    BY <2>1, <2>2, SameCardinality DEF Allocator!Init
<1> QED
  BY <1>1, InitBitmap, NextBitmap, PTL DEF Spec, ImplementsAllocator, Allocator!Spec

-----------------------------------------------------------------------------
(* Sizes. *)

\* Requests so small that neither sum of allocate_block wraps around.
NoWrap == \A size \in Sizes : size + HEADER + PAGE_SIZE - 1 < WORD

LEMMA EnoughPages ==
  ASSUME NoWrap, NEW size \in Sizes
  PROVE  pages_needed(size) * PAGE_SIZE >= size + HEADER
<1>1. /\ size \in Nat /\ HEADER \in Nat /\ PAGE_SIZE \in Nat \ {0} /\ WORD \in Nat
      /\ size + HEADER + PAGE_SIZE - 1 < WORD
  BY BitmapAssumption DEF NoWrap
<1>2. \A x \in Nat : x < WORD => x % WORD = x
  BY <1>1
<1>3. pages_needed(size) = (size + HEADER + PAGE_SIZE - 1) \div PAGE_SIZE
  BY <1>1, <1>2 DEF pages_needed
<1>4. \A x \in Nat : (x \div PAGE_SIZE) * PAGE_SIZE > x - PAGE_SIZE
  BY <1>1
<1> QED
  BY <1>1, <1>3, <1>4

\* Every block in use is large enough; a block keeps its header, because no run
\* that is found later starts at its first page.
LEMMA NextHolds ==
  ASSUME NoWrap, BitmapInv, BlockHoldsRequest, [Next]_mmVars
  PROVE  BlockHoldsRequest'
<1> SUFFICES ASSUME NEW b \in held', b.kind = "block"
             PROVE  Cardinality(PagesOf(b)') * PAGE_SIZE >= b.size + HEADER
  BY DEF BlockHoldsRequest
<1> BitmapInv'
  BY NextBitmap
<1>1. CASE b \in held /\ header'[b.start] = header[b.start]
  BY <1>1 DEF BlockHoldsRequest, PagesOf
<1>2. ASSUME NEW size \in Sizes, allocate_block(size)
      PROVE  \/ b \in held /\ header'[b.start] = header[b.start]
             \/ Cardinality(PagesOf(b)') * PAGE_SIZE >= b.size + HEADER
  <2> DEFINE n == pages_needed(size)
             start == find_consecutive_pages(n)
  <2>1. n \in Nat
    BY PagesNeeded
  <2>2. start \in Fits(n)
    BY <1>2, <2>1, FoundFits DEF allocate_block
  <2>3. /\ header' = [header EXCEPT ![start] = n]
        /\ held' = held \union {[kind |-> "block", start |-> start, size |-> size]}
    BY <1>2 DEF allocate_block
  <2>4. n * PAGE_SIZE >= size + HEADER
    BY EnoughPages
  <2> HIDE DEF n, start
  <2>5. start \in Managed \ bitmap /\ start \in Nat /\ n > 0
    <3>1. start \in Managed /\ n > 0 /\ start..(start + n - 1) \subseteq Managed \ bitmap
      BY <2>2 DEF Fits
    <3>2. start \in Nat
      BY <3>1, ManagedPages
    <3> QED
      BY <2>1, <3>1, <3>2
  <2>6. CASE b \in held
    <3>1. b.start \in Managed \intersect bitmap
      BY <2>6, HeldRun
    <3> QED
      BY <2>3, <2>5, <2>6, <3>1 DEF BitmapInv, MMTypeOK
  <2>7. CASE b = [kind |-> "block", start |-> start, size |-> size]
    <3>1. b.start = start /\ b.size = size /\ header'[start] = n
      BY <2>3, <2>5, <2>7 DEF BitmapInv, MMTypeOK
    <3>2. PagesOf(b)' = start..(start + n - 1)
      BY <3>1, <2>7 DEF PagesOf
    <3>3. Cardinality(start..(start + n - 1)) = n
      <4>1. start \in Int /\ start + n - 1 \in Int /\ ~(start > start + n - 1)
        BY <2>1, <2>5
      <4>2. Cardinality(start..(start + n - 1)) = (start + n - 1) - start + 1
        BY <4>1, FS_Interval
      <4> QED
        BY <2>1, <2>5, <4>2
    <3> QED
      BY <2>4, <3>1, <3>2, <3>3
  <2> QED
    BY <2>3, <2>6, <2>7
<1>3. CASE allocate_page \/ UNCHANGED mmVars \/ \E c \in held : free_page(c) \/ free_block(c)
  BY <1>1, <1>3 DEF allocate_page, free_page, free_block, mmVars
<1> QED
  BY <1>1, <1>2, <1>3 DEF Next

\* malloc returns blocks at least as large as asked for, as long as no size is
\* so near 2^w that the sums wrap around.
THEOREM BlocksAreLargeEnough ==
  ASSUME NoWrap
  PROVE  Spec => []BlockHoldsRequest
<1>1. Init => BlockHoldsRequest
  BY DEF Init, BlockHoldsRequest
<1>2. BitmapInv /\ BlockHoldsRequest /\ [Next]_mmVars
        => (BitmapInv /\ BlockHoldsRequest)'
  BY NextBitmap, NextHolds
<1> QED
  BY <1>1, <1>2, InitBitmap, PTL DEF Spec

=============================================================================
