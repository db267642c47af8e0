---------------------------- MODULE BMFSProofs -----------------------------
(***************************************************************************)
(* The disk image tool for every size of disk, directory and block, every  *)
(* size argument and every set of names.                                   *)
(*                                                                         *)
(* The search of create for room walks a sorted copy of the directory.     *)
(* The copy is the directory in another order, live entries first, by      *)
(* their starting block; so the gaps before, between and behind the live   *)
(* files hold no block of any of them, and a run of free blocks lies in    *)
(* one of these gaps.                                                      *)
(***************************************************************************)
EXTENDS BMFS, FiniteSetTheorems, WellFoundedInduction, TLAPS

\* Every non-empty set of numbers has a least one.
LEMMA LeastNumber ==
  ASSUME NEW T \in SUBSET Nat, T # {}
  PROVE  \E x \in T : \A y \in T : x <= y
<1>1. PICK x \in T : \A y \in T : ~(<<y, x>> \in OpToRel(<, Nat))
  BY WFMin, NatLessThanWellFounded
<1>2. ASSUME NEW y \in T
      PROVE  x <= y
  <2>1. <<y, x>> \in Nat \X Nat /\ <<y, x>> \notin OpToRel(<, Nat)
    BY <1>1
  <2>2. ~(y < x)
    BY <2>1 DEF OpToRel
  <2>3. x \in Int /\ y \in Int
    OBVIOUS
  <2> QED
    BY <2>2, <2>3
<1> QED
  BY <1>2

\* What holds of lo and, below hi, of n + 1 when it holds of n, holds up to hi.
LEMMA Climb ==
  ASSUME NEW lo \in Nat, NEW hi \in Nat, NEW S, lo \in S,
         \A n \in lo..(hi - 1) : n \in S => n + 1 \in S
  PROVE  lo..hi \subseteq S
<1> DEFINE T == (lo..hi) \ S
<1> SUFFICES ASSUME T # {}
             PROVE  FALSE
  OBVIOUS
<1>1. T \in SUBSET Nat
  OBVIOUS
<1> HIDE DEF T
<1>2. PICK x \in T : \A y \in T : x <= y
  BY <1>1, LeastNumber
<1> USE DEF T
<1>3. x \in Nat /\ x > lo /\ x <= hi
  OBVIOUS
<1>4. x - 1 \notin T
  BY <1>2, <1>3
<1> QED
  BY <1>3, <1>4

-----------------------------------------------------------------------------
(* Sizes and blocks. *)

LEMMA DivMod ==
  ASSUME NEW a \in Nat, NEW s \in Nat \ {0}
  PROVE  /\ a \div s \in Nat /\ a % s \in 0..(s - 1)
         /\ a = (a \div s) * s + (a % s)
  OBVIOUS

LEMMA SmallMod ==
  ASSUME NEW a \in Nat, NEW w \in Nat, a < w
  PROVE  a % w = a
  OBVIOUS

LEMMA WordFacts ==
  /\ Word \in Nat /\ Word > 0 /\ KILO \in Nat \ {0, 1}
  /\ MiB \in Nat /\ MiB > 0 /\ minimumDiskSize = 6 * MiB
  /\ \A a \in Int : Wrapped(a) \in 0..(Word - 1)
  /\ \A a \in 0..(Word - 1) : Wrapped(a) = a
<1>1. /\ KILO \in Nat \ {0, 1} /\ Word \in Nat /\ Word > 10 * minimumDiskSize
  BY BMFSAssumption
<1>2. MiB \in Nat /\ MiB > 0
  <2>1. KILO * KILO \in Nat /\ KILO * KILO >= KILO
    BY <1>1
  <2> QED
    BY <1>1, <2>1 DEF MiB
<1>3. minimumDiskSize = 6 * MiB
  BY DEF minimumDiskSize
<1>4. Word > 0
  BY <1>1, <1>2, <1>3
<1>5. \A a \in Int : Wrapped(a) \in 0..(Word - 1)
  BY <1>1, <1>4 DEF Wrapped
<1>6. \A a \in 0..(Word - 1) : Wrapped(a) = a
  BY <1>1, <1>4, SmallMod DEF Wrapped
<1> QED
  BY <1>1, <1>2, <1>3, <1>4, <1>5, <1>6

LEMMA WrapsDown ==
  ASSUME NEW x \in Nat
  PROVE  Wrapped(x) <= x
<1>1. Word \in Nat \ {0}
  BY WordFacts
<1> QED
  BY <1>1, DivMod DEF Wrapped

LEMMA BlocksFacts ==
  ASSUME NEW m \in MaxSizes
  PROVE  Blocks(m) \in Nat \ {0} /\ 2 * Blocks(m) <= Word - 1
<1>1. m \in Nat /\ m >= 1 /\ m <= Word - 2 /\ Word \in Nat
  BY BMFSAssumption
<1> QED
  BY <1>1 DEF Blocks

LEMMA DiskBlocks ==
  ASSUME image \in 0..(Word - 1)
  PROVE  /\ num_blocks \in Nat /\ 2 * num_blocks <= Word - 1
         /\ image >= minimumDiskSize => num_blocks >= 3
<1>1. PICK q \in Nat, r \in 0..(MiB - 1) : q = image \div MiB /\ image = q * MiB + r
  BY WordFacts, DivMod
<1>2. q * MiB \in Nat /\ q * MiB >= q
  <2>1. MiB \in Nat /\ MiB - 1 \in Nat
    BY WordFacts
  <2>2. q * (MiB - 1) \in Nat /\ q * MiB = q * (MiB - 1) + q
    BY <2>1
  <2> QED
    BY <2>1, <2>2
<1>3. PICK p \in Nat : p = q * MiB
  BY <1>2
<1>4. q <= Word - 1
  BY <1>1, <1>2, <1>3, WordFacts
<1>5. ASSUME image >= minimumDiskSize
      PROVE  q >= 6
  <2> SUFFICES ASSUME q <= 5
               PROVE  FALSE
    OBVIOUS
  <2>1. p <= 5 * MiB
    <3>1. (5 - q) * MiB >= 0 /\ (5 - q) * MiB = 5 * MiB - q * MiB
      BY WordFacts
    <3> QED
      BY <1>3, <3>1, WordFacts
  <2> QED
    BY <1>1, <1>3, <1>5, <2>1, WordFacts
<1>6. num_blocks = q \div 2
  BY <1>1 DEF num_blocks
<1> QED
  BY <1>4, <1>5, <1>6, WordFacts

\* The size on the command line is a number of 64 bits, or overflows.
LEMMA DiskSizeFacts ==
  ASSUME NEW a \in SizeArguments
  PROVE  DiskSize(a) \in Overflow..(Word - 1)
<1> DEFINE L == Len(a.digits)
           N == L + a.unit
           Sizes == Overflow..(Word - 1)
           Next1(v, i) == IF i <= L THEN AddDigit(v, a.digits[i]) ELSE TimesKilo(v)
           Upto(f, n) == /\ DOMAIN f = 0..n /\ f[0] = 0
                         /\ \A k \in 0..n : f[k] \in Sizes
                         /\ \A k \in 1..n : f[k] = Next1(f[k - 1], k)
           S == {n \in 0..N : \E f : Upto(f, n)}
<1>1. /\ a.digits \in Seq(0..9) /\ L \in Nat /\ N \in Nat
      /\ \A i \in 1..L : a.digits[i] \in 0..9
  <2>1. a.digits \in Seq(0..9) /\ a.unit \in Nat
    BY BMFSAssumption
  <2> QED
    BY <2>1
<1>2. \A v \in Sizes, i \in 1..N : Next1(v, i) \in Sizes
  <2> SUFFICES ASSUME NEW v \in Sizes, NEW i \in 1..N
               PROVE  Next1(v, i) \in Sizes
    OBVIOUS
  <2>0. /\ Word \in Nat /\ Word > 9 /\ KILO \in Nat /\ Overflow = -1
        /\ v \in Int /\ v * KILO \in Int /\ v * 10 \in Int
    BY WordFacts, BMFSAssumption DEF Overflow
  <2>1. \A n \in 0..9 : AddDigit(v, n) \in Sizes
    <3> TAKE n \in 0..9
    <3>1. v * 10 + n \in Int
      BY <2>0
    <3>2. Wrapped(v * 10 + n) \in 0..(Word - 1)
      BY <3>1, WordFacts
    <3>3. AddDigit(v, n) \in {Overflow, Wrapped(v * 10 + n), n}
      BY DEF AddDigit
    <3> QED
      BY <2>0, <3>2, <3>3
  <2>2. TimesKilo(v) \in Sizes
    <3>2. Wrapped(v * KILO) \in 0..(Word - 1)
      BY <2>0, WordFacts
    <3>3. TimesKilo(v) \in {Overflow, Wrapped(v * KILO), 0}
      BY DEF TimesKilo
    <3> QED
      BY <2>0, <3>2, <3>3
  <2>3. i <= L => i \in 1..L
    BY <1>1
  <2> QED
    BY <1>1, <2>1, <2>2, <2>3
<1>3. 0 \in Sizes
  BY WordFacts DEF Overflow
<1>4. 0 \in S
  <2> DEFINE f == [k \in 0..0 |-> 0]
  <2>1. Upto(f, 0)
    BY <1>3
  <2>2. 0 \in 0..N
    BY <1>1
  <2> HIDE DEF Upto, f
  <2> QED
    BY <2>1, <2>2
<1> HIDE DEF Sizes, Next1
<1>5. ASSUME NEW n \in 0..(N - 1), n \in S
      PROVE  n + 1 \in S
  <2>1. PICK f : Upto(f, n)
    BY <1>5
  <2> DEFINE g == [k \in 0..(n + 1) |-> IF k = n + 1 THEN Next1(f[n], k) ELSE f[k]]
  <2>2. /\ n \in Nat /\ n + 1 \in 0..N /\ n + 1 # 0 /\ 0 \in 0..(n + 1)
        /\ n \in 0..n /\ n + 1 \in 1..N
    BY <1>1
  <2>3. DOMAIN g = 0..(n + 1) /\ g[0] = 0
    BY <2>1, <2>2
  <2>4. Next1(f[n], n + 1) \in Sizes
    BY <1>2, <2>1, <2>2
  <2>5. \A k \in 0..(n + 1) : g[k] \in Sizes
    <3> TAKE k \in 0..(n + 1)
    <3>1. k # n + 1 => k \in 0..n
      BY <2>2
    <3> QED
      BY <2>1, <2>4, <3>1
  <2>6. ASSUME NEW k \in 1..(n + 1)
        PROVE  g[k] = Next1(g[k - 1], k)
    <3>1. /\ k \in 0..(n + 1) /\ k - 1 \in 0..(n + 1) /\ k - 1 # n + 1
          /\ (k = n + 1 => k - 1 = n) /\ (k # n + 1 => k \in 1..n)
      BY <2>2
    <3>2. g[k - 1] = f[k - 1]
      BY <3>1
    <3>3. CASE k = n + 1
      <4>1. g[k] = Next1(f[n], k)
        BY <3>1, <3>3
      <4> HIDE DEF g
      <4> QED
        BY <3>1, <3>2, <3>3, <4>1
    <3>4. CASE k # n + 1
      <4>1. g[k] = f[k]
        BY <3>1, <3>4
      <4>2. f[k] = Next1(f[k - 1], k)
        BY <2>1, <3>1, <3>4
      <4> HIDE DEF g
      <4> QED
        BY <3>2, <4>1, <4>2
    <3> QED
      BY <3>3, <3>4
  <2> HIDE DEF g
  <2>7. Upto(g, n + 1)
    BY <2>3, <2>5, <2>6
  <2> HIDE DEF Upto
  <2> QED
    BY <2>2, <2>7
<1>6. N \in S
  <2> HIDE DEF S, N
  <2>1. 0..N \subseteq S
    BY <1>1, <1>4, <1>5, Climb
  <2> QED
    BY <1>1, <2>1
<1>7. PICK f : Upto(f, N)
  <2> HIDE DEF Upto
  <2> QED
    BY <1>6
<1> DEFINE Body(h) == [i \in 0..N |->
             IF i = 0 THEN 0
             ELSE IF i <= L THEN AddDigit(h[i - 1], a.digits[i]) ELSE TimesKilo(h[i - 1])]
           F == [i \in 0..N |-> f[i]]
<1>8. \A i \in 1..N : F[i] = Next1(F[i - 1], i)
  <2> TAKE i \in 1..N
  <2>1. i \in 0..N /\ i - 1 \in 0..N
    BY <1>1
  <2>2. F[i] = f[i] /\ F[i - 1] = f[i - 1]
    BY <2>1
  <2> HIDE DEF F
  <2> QED
    BY <1>7, <2>2
<1>9. F[0] = 0
  BY <1>1, <1>7
<1>10. F = Body(F)
  <2> DEFINE B == Body(F)
  <2>1. ASSUME NEW i \in 0..N
        PROVE  F[i] = B[i]
    <3>1. B[i] = IF i = 0 THEN 0
                 ELSE IF i <= L THEN AddDigit(F[i - 1], a.digits[i]) ELSE TimesKilo(F[i - 1])
      OBVIOUS
    <3>2. i # 0 => i \in 1..N
      BY <1>1
    <3>3. i # 0 => F[i] = IF i <= L THEN AddDigit(F[i - 1], a.digits[i]) ELSE TimesKilo(F[i - 1])
      <4> HIDE DEF F
      <4> QED
        BY <1>8, <3>2 DEF Next1
    <3> HIDE DEF F, B
    <3> QED
      BY <1>9, <3>1, <3>3
  <2>2. F = [i \in 0..N |-> F[i]] /\ B = [i \in 0..N |-> B[i]]
    OBVIOUS
  <2>3. F = B
    <3> HIDE DEF F, B, Body
    <3> QED
      BY <2>1, <2>2
  <2> HIDE DEF F, Body
  <2> QED
    BY <2>3
<1> HIDE DEF F
<1> DEFINE C == CHOOSE h : h = Body(h)
<1>11. C = Body(C)
  <2> HIDE DEF Body
  <2> QED
    BY <1>10
<1>12. DiskSize(a) = C[N]
  BY DEF DiskSize
<1>13. ASSUME NEW c, c = Body(c)
       PROVE  c[N] \in Sizes
  <2> DEFINE P == {n \in 0..N : c[n] \in Sizes}
  <2>1. 0 \in P
    BY <1>1, <1>3, <1>13
  <2>2. ASSUME NEW n \in 0..(N - 1), n \in P
        PROVE  n + 1 \in P
    <3>1. n + 1 \in 0..N /\ n + 1 \in 1..N /\ n + 1 # 0 /\ (n + 1) - 1 = n
      BY <1>1
    <3>2. c[n + 1] = IF n + 1 <= L THEN AddDigit(c[(n + 1) - 1], a.digits[n + 1])
                     ELSE TimesKilo(c[(n + 1) - 1])
      BY <1>13, <3>1
    <3>3. c[n + 1] = Next1(c[n], n + 1)
      BY <3>1, <3>2 DEF Next1
    <3> QED
      BY <1>2, <2>2, <3>1, <3>3
  <2>3. 0..N \subseteq P
    <3> HIDE DEF P, N
    <3> QED
      BY <1>1, <2>1, <2>2, Climb
  <2>4. N \in 0..N
    BY <1>1
  <2> QED
    BY <2>3, <2>4
<1>14. C[N] \in Sizes
  <2> HIDE DEF C, Body
  <2> QED
    BY <1>11, <1>13
<1> QED
  BY <1>12, <1>14 DEF Sizes

-----------------------------------------------------------------------------
(* The directory. *)

\* The inductive invariant: an entry that is used or deleted starts after the
\* first block and has the blocks of some size given to create.
DirInv ==
  /\ image \in 0..(Word - 1)
  /\ Directory \in [Entries -> [name : Names \union {"end", "deleted"},
                                start : 0..(Word - 1), reserved : Nat, size : Nat]]
  /\ \A i \in Entries : Directory[i].name # "end" =>
       Directory[i].start >= 1 /\ \E m \in MaxSizes : Directory[i].reserved = Blocks(m)

LEMMA EntryFacts ==
  ASSUME DirInv, NEW i \in Seen
  PROVE  /\ i \in Entries /\ Directory[i].name # "end"
         /\ Directory[i].start \in 1..(Word - 1)
         /\ Directory[i].reserved \in Nat \ {0} /\ 2 * Directory[i].reserved <= Word - 1
         /\ EndOf(Directory[i]) = Directory[i].start + Directory[i].reserved
         /\ EndOf(Directory[i]) \in Nat
<1>1. i \in Entries /\ i \in 1..i
  BY BMFSAssumption DEF Seen, Entries
<1>2. Directory[i].name # "end"
  BY <1>1 DEF Seen
<1>3. Directory[i].start \in 0..(Word - 1) /\ Directory[i].start >= 1
  BY <1>1, <1>2 DEF DirInv
<1>4. PICK m \in MaxSizes : Directory[i].reserved = Blocks(m)
  BY <1>1, <1>2 DEF DirInv
<1>5. Directory[i].reserved \in Nat \ {0} /\ 2 * Directory[i].reserved <= Word - 1
  BY <1>4, BlocksFacts
<1> QED
  BY <1>1, <1>2, <1>3, <1>5, WordFacts DEF EndOf

\* The entries up to the end of the directory are the first k.
LEMMA UsedFacts ==
  \E k \in 0..MAX_ENTRIES :
    /\ Seen = 1..k /\ Cardinality(Seen) = k
    /\ k < MAX_ENTRIES => Directory[k + 1].name = "end"
    /\ Full <=> k = MAX_ENTRIES
    /\ num_used_entries = IF Full THEN 0 ELSE k
<1> DEFINE T == {i \in 1..(MAX_ENTRIES + 1) :
                   i = MAX_ENTRIES + 1 \/ Directory[i].name = "end"}
<1>1. MAX_ENTRIES \in Nat \ {0} /\ MAX_ENTRIES + 1 \in T /\ T \in SUBSET Nat
  BY BMFSAssumption
<1>2. PICK e \in T : \A y \in T : e <= y
  <2> HIDE DEF T
  <2> QED
    BY <1>1, LeastNumber
<1>3. e \in 1..(MAX_ENTRIES + 1) /\ (e < MAX_ENTRIES + 1 => Directory[e].name = "end")
  BY <1>1
<1>4. \A i \in 1..(e - 1) : i \in Entries /\ Directory[i].name # "end"
  <2> TAKE i \in 1..(e - 1)
  <2>1. i \in 1..(MAX_ENTRIES + 1) /\ ~(e <= i) /\ i \in Entries
    BY <1>1, <1>3 DEF Entries
  <2>2. i \notin T
    BY <1>2, <2>1
  <2> QED
    BY <2>1, <2>2
<1> HIDE DEF T
<1>5. Seen = 1..(e - 1)
  <2>1. ASSUME NEW i \in Seen
        PROVE  i \in 1..(e - 1)
    <3>1. i \in 1..MAX_ENTRIES /\ \A j \in 1..i : Directory[j].name # "end"
      BY DEF Seen, Entries
    <3>2. e <= i => e \in 1..i /\ e < MAX_ENTRIES + 1
      BY <1>1, <1>3, <3>1
    <3>3. ~(e <= i)
      BY <1>3, <3>1, <3>2
    <3> QED
      BY <1>1, <1>3, <3>1, <3>3
  <2>2. ASSUME NEW i \in 1..(e - 1)
        PROVE  i \in Seen
    <3>1. 1..i \subseteq 1..(e - 1)
      BY <1>1, <1>3
    <3> QED
      BY <1>4, <3>1 DEF Seen
  <2> QED
    BY <2>1, <2>2
<1>6. Cardinality(Seen) = e - 1
  <2>1. Cardinality(1..(e - 1)) = IF 1 > e - 1 THEN 0 ELSE (e - 1) - 1 + 1
    BY <1>1, <1>3, FS_Interval
  <2> QED
    BY <1>1, <1>3, <1>5, <2>1
<1>7. e - 1 \in 0..MAX_ENTRIES /\ (e - 1) + 1 = e
  BY <1>1, <1>3
<1>8. /\ Full <=> e - 1 = MAX_ENTRIES
      /\ num_used_entries = IF Full THEN 0 ELSE e - 1
  BY <1>6 DEF Full, num_used_entries
<1>9. PICK k \in 0..MAX_ENTRIES : k = e - 1 /\ k + 1 = e
  BY <1>7
<1>10. k < MAX_ENTRIES => Directory[k + 1].name = "end"
  BY <1>1, <1>3, <1>9
<1> QED
  BY <1>5, <1>6, <1>8, <1>9, <1>10

LEMMA FirstEntries ==
  /\ num_used_entries \in Nat /\ 1..num_used_entries \subseteq Seen
  /\ ~Full => Seen = 1..num_used_entries
<1>1. PICK k \in 0..MAX_ENTRIES :
        Seen = 1..k /\ num_used_entries = IF Full THEN 0 ELSE k
  BY UsedFacts
<1>2. MAX_ENTRIES \in Nat
  BY BMFSAssumption
<1> QED
  BY <1>1, <1>2

LEMMA SortedFacts ==
  ASSUME DirInv, NEW s \in Sorted
  PROVE  /\ \A i \in 1..num_used_entries : s[i] \in Seen
         /\ \A i, j \in 1..num_used_entries : i # j => s[i] # s[j]
         /\ \A i, j \in 1..num_used_entries :
              i <= j => Before(Directory[s[i]], Directory[s[j]])
         /\ \A e \in 1..num_used_entries : \E i \in 1..num_used_entries : s[i] = e
<1> DEFINE U == num_used_entries
<1>1. U \in Nat /\ 1..U \subseteq Seen
  BY FirstEntries
<1>2. /\ s \in [1..U -> 1..U]
      /\ \A i, j \in 1..U : s[i] = s[j] => i = j
      /\ \A i \in 1..(U - 1) : Before(Directory[s[i]], Directory[s[i + 1]])
  BY DEF Sorted
<1> HIDE DEF U
<1>3. \A i \in 1..U : s[i] \in Seen
  BY <1>1, <1>2
<1>4. \A i \in 1..U : Directory[s[i]].start \in Nat
  <2> TAKE i \in 1..U
  <2>1. Directory[s[i]].start \in 1..(Word - 1)
    BY <1>3, EntryFacts
  <2> QED
    BY <2>1
<1>5. ASSUME NEW i \in 1..U, NEW j \in 1..U, i <= j
      PROVE  Before(Directory[s[i]], Directory[s[j]])
  <2> DEFINE P == {p \in i..U : Before(Directory[s[i]], Directory[s[p]])}
  <2>1. i \in P
    BY <1>1, <1>4 DEF Before
  <2>2. ASSUME NEW p \in i..(U - 1), p \in P
        PROVE  p + 1 \in P
    <3>1. p \in 1..U /\ p + 1 \in 1..U /\ p \in 1..(U - 1) /\ p + 1 \in i..U
      BY <1>1
    <3>2. Before(Directory[s[i]], Directory[s[p]]) /\ Before(Directory[s[p]], Directory[s[p + 1]])
      BY <1>2, <2>2, <3>1
    <3>3. /\ Directory[s[i]].start \in Nat /\ Directory[s[p]].start \in Nat
          /\ Directory[s[p + 1]].start \in Nat
      BY <1>4, <3>1
    <3>4. Before(Directory[s[i]], Directory[s[p + 1]])
      BY <3>2, <3>3 DEF Before
    <3> QED
      BY <3>1, <3>4
  <2>3. i..U \subseteq P
    <3>1. i \in Nat
      OBVIOUS
    <3> HIDE DEF P
    <3> QED
      BY <1>1, <2>1, <2>2, <3>1, Climb
  <2>4. j \in i..U
    BY <1>1, <1>5
  <2> QED
    BY <2>3, <2>4
<1>6. ASSUME NEW e \in 1..U
      PROVE  \E i \in 1..U : s[i] = e
  <2>1. s \in Injection(1..U, 1..U)
    BY <1>2 DEF Injection, IsInjective
  <2>2. IsFiniteSet(1..U)
    BY <1>1, FS_Interval
  <2>3. s \in Surjection(1..U, 1..U)
    BY <2>1, <2>2, FS_Injection
  <2> QED
    BY <2>3 DEF Surjection
<1> USE DEF U
<1> QED
  BY <1>2, <1>3, <1>5, <1>6

-----------------------------------------------------------------------------
(* The gaps between the files. *)

\* Of two files that do not overlap the first one ends where the other begins
\* or before it.
LEMMA TwoFiles ==
  ASSUME DirInv, NoOverlap, NEW i \in Live, NEW j \in Live, i # j,
         Directory[i].start <= Directory[j].start
  PROVE  EndOf(Directory[i]) <= Directory[j].start
<1>1. i \in Seen /\ j \in Seen
  BY DEF Live
<1>2. /\ Directory[i].start \in 1..(Word - 1) /\ Directory[j].start \in 1..(Word - 1)
      /\ Directory[j].reserved \in Nat \ {0} /\ EndOf(Directory[i]) \in Nat
      /\ EndOf(Directory[j]) = Directory[j].start + Directory[j].reserved
  BY <1>1, EntryFacts
<1>3. BlocksOf(Directory[i]) \intersect BlocksOf(Directory[j]) = {}
  BY DEF NoOverlap
<1>4. Directory[j].start \in BlocksOf(Directory[j])
  BY <1>2 DEF BlocksOf
<1>5. Directory[j].start \notin BlocksOf(Directory[i])
  BY <1>3, <1>4
<1> QED
  BY <1>2, <1>5 DEF BlocksOf

LEMMA GapStartFacts ==
  ASSUME DirInv, NEW s \in Sorted, NEW t \in 1..(num_used_entries + 1)
  PROVE  /\ GapStart(s, t) \in 0..(Word - 1)
         /\ t = 1 => GapStart(s, t) = 1
         /\ t # 1 => /\ t - 1 \in 1..num_used_entries /\ s[t - 1] \in Seen
                     /\ EndOf(Directory[s[t - 1]]) < Word =>
                          GapStart(s, t) = EndOf(Directory[s[t - 1]])
<1>1. num_used_entries \in Nat
  BY FirstEntries
<1>2. CASE t = 1
  <2>1. Word > 1
    BY BMFSAssumption, WordFacts
  <2> QED
    BY <1>2, <2>1, WordFacts DEF GapStart
<1>3. CASE t # 1
  <2>1. t - 1 \in 1..num_used_entries
    BY <1>1, <1>3
  <2>2. s[t - 1] \in Seen
    BY <2>1, SortedFacts
  <2>3. PICK e \in Nat : e = EndOf(Directory[s[t - 1]])
    BY <2>2, EntryFacts
  <2>4. GapStart(s, t) = Wrapped(e)
    BY <1>3, <2>3 DEF GapStart
  <2>5. Wrapped(e) \in 0..(Word - 1)
    BY WordFacts
  <2>6. e < Word => Wrapped(e) = e
    BY WordFacts
  <2> QED
    BY <1>3, <2>1, <2>2, <2>3, <2>4, <2>5, <2>6
<1> QED
  BY <1>2, <1>3

\* A gap that ends at a file.
LEMMA GapBeforeFile ==
  ASSUME DirInv, NoOverlap, NEW s \in Sorted, NEW t \in 1..num_used_entries,
         Directory[s[t]].name # "deleted", NEW n \in Nat
  PROVE  /\ s[t] \in Live
         /\ GapStart(s, t) <= Directory[s[t]].start
         /\ LargeEnough(s, t, n) <=> GapStart(s, t) + n <= Directory[s[t]].start
         /\ t # 1 => s[t - 1] \in Live /\ GapStart(s, t) = EndOf(Directory[s[t - 1]])
<1>0. num_used_entries \in Nat /\ t \in 1..(num_used_entries + 1) /\ ~(t > num_used_entries)
  BY FirstEntries
<1>1. s[t] \in Live /\ s[t] \in Seen
  BY SortedFacts DEF Live
<1>2. Directory[s[t]].start \in 1..(Word - 1)
  BY <1>1, EntryFacts
<1>3. CASE t = 1
  <2>1. GapStart(s, t) = 1
    BY <1>0, <1>3, GapStartFacts
  <2> QED
    BY <1>0, <1>1, <1>2, <1>3, <2>1, WordFacts DEF LargeEnough, GapEnd
<1>4. CASE t # 1
  <2>1. t - 1 \in 1..num_used_entries /\ s[t - 1] \in Seen
    BY <1>0, <1>4, GapStartFacts
  <2>2. Before(Directory[s[t - 1]], Directory[s[t]]) /\ s[t - 1] # s[t]
    <3>1. t - 1 <= t /\ t - 1 # t
      OBVIOUS
    <3> QED
      BY <2>1, <3>1, SortedFacts
  <2>3. s[t - 1] \in Live /\ Directory[s[t - 1]].start <= Directory[s[t]].start
    BY <2>1, <2>2 DEF Before, Live
  <2>4. EndOf(Directory[s[t - 1]]) <= Directory[s[t]].start
    BY <1>1, <2>2, <2>3, TwoFiles
  <2>5. PICK e \in Nat : e = EndOf(Directory[s[t - 1]])
    BY <2>1, EntryFacts
  <2>6. GapStart(s, t) = e
    BY <1>0, <1>2, <1>4, <2>4, <2>5, GapStartFacts, WordFacts
  <2>7. PICK d \in Nat : d = Directory[s[t]].start - e
    BY <1>2, <2>4, <2>5
  <2>8. Wrapped(d) = d
    BY <1>2, <2>5, <2>7, WordFacts
  <2>9. LargeEnough(s, t, n) <=> d >= n
    BY <1>0, <2>6, <2>7, <2>8 DEF LargeEnough, GapEnd
  <2> QED
    BY <1>1, <1>2, <2>3, <2>4, <2>5, <2>6, <2>7, <2>9
<1> QED
  BY <1>3, <1>4

\* The gap that ends at the last block, unless it begins after it.
LEMMA GapToLastBlock ==
  ASSUME DirInv, NEW s \in Sorted, NEW t \in 1..(num_used_entries + 1),
         t > num_used_entries \/ Directory[s[t]].name = "deleted",
         NEW n \in Nat, GapStart(s, t) <= num_blocks - 1
  PROVE  LargeEnough(s, t, n) <=> GapStart(s, t) + n <= num_blocks - 1
<1>1. GapStart(s, t) \in 0..(Word - 1)
  BY GapStartFacts
<1>2. num_blocks \in Nat /\ 2 * num_blocks <= Word - 1 /\ Word \in Nat
  BY DiskBlocks, WordFacts DEF DirInv
<1>3. num_blocks - 1 \in 0..(Word - 1)
  BY <1>1, <1>2
<1>4. GapEnd(s, t) = num_blocks - 1
  BY <1>3, WordFacts DEF GapEnd
<1>5. PICK d \in 0..(Word - 1) : d = (num_blocks - 1) - GapStart(s, t)
  BY <1>1, <1>2, <1>3
<1>6. Wrapped(d) = d
  BY WordFacts
<1> QED
  BY <1>1, <1>2, <1>4, <1>5, <1>6 DEF LargeEnough

\* An area is the beginning of a gap that is large enough.
LEMMA AreaFacts ==
  ASSUME DirInv, NEW s \in Sorted, NEW n \in Nat, NEW b \in Areas(s, n)
  PROVE  \E t \in 1..(num_used_entries + 1) :
           /\ b = GapStart(s, t) /\ LargeEnough(s, t, n)
           /\ b \in 1..(Word - 1)
<1>1. PICK t \in 1..(num_used_entries + 1) : b = GapStart(s, t) /\ LargeEnough(s, t, n)
  BY DEF Areas
<1>2. b \in 0..(Word - 1) /\ b # 0
  BY <1>1, GapStartFacts DEF Areas
<1> QED
  BY <1>1, <1>2

-----------------------------------------------------------------------------
(* What a create does. *)

\* The new file is entry i, with n blocks from block b on.
Placed(f, i, n, b) ==
  Directory' = [j \in Entries |->
    IF j = i THEN [name |-> f, start |-> b, reserved |-> n, size |-> 0]
    ELSE IF i = num_used_entries + 1 /\ j = i + 1 THEN [Directory[j] EXCEPT !.name = "end"]
    ELSE Directory[j]]

LEMMA CreateIs ==
  ASSUME NEW f \in Names, NEW m \in MaxSizes, Create(f, m)
  PROVE  /\ Slots(f) = {} /\ (Full => CreatesWhenFull)
         /\ image' = image /\ num_blocks' = num_blocks
         /\ tagged /\ tagged' = tagged
         /\ \E i \in Entries, s \in Sorted : \E b \in Areas(s, Blocks(m)) :
              FreeEntry(i) /\ Placed(f, i, Blocks(m), b)
  BY DEF Create, Placed, num_blocks, ValidDisk

\* The other entries keep their blocks, and their names up to the end.
LEMMA PlacedKeeps ==
  ASSUME DirInv, NEW f \in Names, NEW i \in Entries, NEW n, NEW b,
         FreeEntry(i), Placed(f, i, n, b)
  PROVE  /\ Directory'[i] = [name |-> f, start |-> b, reserved |-> n, size |-> 0]
         /\ \A j \in Entries \ {i} :
              /\ Directory'[j].start = Directory[j].start
              /\ Directory'[j].reserved = Directory[j].reserved
              /\ Directory'[j].size = Directory[j].size
              /\ Directory'[j].name \in {"end", Directory[j].name}
         /\ Seen' \subseteq Seen \union {i}
<1>1. MAX_ENTRIES \in Nat /\ Entries = 1..MAX_ENTRIES
  BY BMFSAssumption DEF Entries
<1>2. Directory'[i] = [name |-> f, start |-> b, reserved |-> n, size |-> 0]
  BY DEF Placed
<1>3. ASSUME NEW j \in Entries \ {i}
      PROVE  /\ Directory'[j].start = Directory[j].start
             /\ Directory'[j].reserved = Directory[j].reserved
             /\ Directory'[j].size = Directory[j].size
             /\ Directory'[j].name \in {"end", Directory[j].name}
             /\ i = num_used_entries + 1 /\ j = i + 1 => Directory'[j].name = "end"
  <2>1. Directory[j] \in [name : Names \union {"end", "deleted"},
                          start : 0..(Word - 1), reserved : Nat, size : Nat]
    BY DEF DirInv
  <2> QED
    BY <2>1 DEF Placed
<1>4. ASSUME NEW j \in Seen', j \notin Seen, j # i
      PROVE  FALSE
  <2>1. j \in Entries /\ \A l \in 1..j : Directory'[l].name # "end"
    BY <1>4 DEF Seen, Entries
  <2>2. PICK l \in 1..j : Directory[l].name = "end"
    BY <1>4, <2>1 DEF Seen
  <2>3. l \in Entries /\ Directory'[l].name # "end"
    BY <1>1, <2>1, <2>2
  <2>4. l = i
    BY <1>3, <2>2, <2>3
  <2>5. PICK k \in 0..MAX_ENTRIES :
          /\ Seen = 1..k /\ (Full <=> k = MAX_ENTRIES)
          /\ k < MAX_ENTRIES => Directory[k + 1].name = "end"
          /\ num_used_entries = IF Full THEN 0 ELSE k
    BY UsedFacts
  <2>6. i = k + 1
    <3>1. i \notin Seen
      <4>1. i \in 1..i
        BY <1>1
      <4> QED
        BY <2>2, <2>4, <4>1 DEF Seen
    <3>2. i > k /\ k < MAX_ENTRIES
      BY <1>1, <2>5, <3>1
    <3>3. i > k + 1 => k + 1 \in 1..(i - 1)
      BY <1>1, <2>5
    <3> QED
      BY <1>1, <2>5, <3>2, <3>3 DEF FreeEntry
  <2>7. i = num_used_entries + 1
    BY <1>1, <2>5, <2>6
  <2>8. i + 1 \in Entries \ {i} /\ i + 1 \in 1..j
    BY <1>1, <1>4, <2>1, <2>2, <2>4
  <2> QED
    BY <1>3, <2>1, <2>7, <2>8
<1> QED
  BY <1>2, <1>3, <1>4

LEMMA DirInvInit == BMFSInit => DirInv
  BY WordFacts DEF BMFSInit, DirInv, EmptyDirectory, NoEntry

LEMMA CreateKeepsInv ==
  ASSUME DirInv, NEW f \in Names, NEW m \in MaxSizes, Create(f, m)
  PROVE  DirInv'
<1>1. PICK i \in Entries, s \in Sorted : \E b \in Areas(s, Blocks(m)) :
        FreeEntry(i) /\ Placed(f, i, Blocks(m), b)
  BY CreateIs
<1>2. PICK b \in Areas(s, Blocks(m)) : FreeEntry(i) /\ Placed(f, i, Blocks(m), b)
  BY <1>1
<1>3. Blocks(m) \in Nat
  BY BlocksFacts
<1>4. b \in 1..(Word - 1)
  BY <1>3, AreaFacts
<1> DEFINE Kind == [name : Names \union {"end", "deleted"},
                    start : 0..(Word - 1), reserved : Nat, size : Nat]
<1>5. Directory \in [Entries -> Kind]
  BY DEF DirInv
<1>6. [name |-> f, start |-> b, reserved |-> Blocks(m), size |-> 0] \in Kind
  BY <1>3, <1>4, WordFacts
<1>7. \A j \in Entries : [Directory[j] EXCEPT !.name = "end"] \in Kind
  BY <1>5
<1>8. Directory' \in [Entries -> Kind]
  <2> HIDE DEF Kind
  <2> QED
    BY <1>2, <1>5, <1>6, <1>7 DEF Placed
<1>9. ASSUME NEW j \in Entries, Directory'[j].name # "end"
      PROVE  /\ Directory'[j].start >= 1
             /\ \E l \in MaxSizes : Directory'[j].reserved = Blocks(l)
  <2>1. CASE j = i
    <3>1. Directory'[j] = [name |-> f, start |-> b, reserved |-> Blocks(m), size |-> 0]
      BY <1>2, <2>1, PlacedKeeps
    <3>2. Directory'[j].start = b /\ Directory'[j].reserved = Blocks(m)
      BY <3>1
    <3> QED
      BY <1>4, <3>2
  <2>2. CASE j # i
    <3>1. /\ Directory'[j].start = Directory[j].start
          /\ Directory'[j].reserved = Directory[j].reserved
          /\ Directory'[j].name \in {"end", Directory[j].name}
      BY <1>2, <2>2, PlacedKeeps
    <3> QED
      BY <1>9, <3>1 DEF DirInv
  <2> QED
    BY <2>1, <2>2
<1> QED
  BY <1>8, <1>9, CreateIs DEF DirInv

LEMMA DirInvNext == DirInv /\ [BMFSNext]_bmfsVars => DirInv'
<1> SUFFICES ASSUME DirInv, [BMFSNext]_bmfsVars
             PROVE  DirInv'
  OBVIOUS
<1> DEFINE Kind == [name : Names \union {"end", "deleted"},
                    start : 0..(Word - 1), reserved : Nat, size : Nat]
<1>1. Directory' = EmptyDirectory /\ image' \in 0..(Word - 1) => DirInv'
  BY WordFacts DEF DirInv, EmptyDirectory, NoEntry
<1>2. CASE Format
  BY <1>1, <1>2 DEF Format, DirInv
<1>3. ASSUME NEW a \in SizeArguments, Initialize(a)
      PROVE  DirInv'
  <2>1. DiskSize(a) \in Overflow..(Word - 1) /\ DiskSize(a) >= minimumDiskSize
    BY <1>3, DiskSizeFacts DEF Initialize
  <2>2. minimumDiskSize \in Nat
    BY WordFacts
  <2>3. image' \in 0..(Word - 1)
    BY <1>3, <2>1, <2>2, WordFacts DEF Initialize, Overflow
  <2> QED
    BY <1>1, <1>3, <2>3 DEF Initialize
<1>4. ASSUME NEW f \in Names, NEW m \in MaxSizes, Create(f, m)
      PROVE  DirInv'
  BY <1>4, CreateKeepsInv
<1>5. ASSUME NEW f \in Names, NEW l \in Lengths, Write(f, l)
      PROVE  DirInv'
  <2>1. l \in Nat /\ MAX_IMAGE \in 0..(Word - 1)
    BY BMFSAssumption
  <2>2. \E i \in Entries : Directory' = [Directory EXCEPT ![i].size = l]
    BY <1>5 DEF Write
  <2>3. image' = image \/ \E top \in Int : image' \in image..top /\ image' <= MAX_IMAGE
    <3>1. PICK i \in Entries :
            \/ image' = image
            \/ \E n \in image..(Offset(i) + l) : n <= MAX_IMAGE /\ image' = n
      BY <1>5 DEF Write
    <3>2. Offset(i) + l \in Int
      <4>1. Directory[i].start * BlockSize \in Int
        BY WordFacts DEF DirInv, BlockSize
      <4> QED
        BY <2>1, <4>1, WordFacts DEF Offset, Wrapped
    <3> QED
      BY <3>1, <3>2
  <2>4. image' \in 0..(Word - 1)
    BY <2>1, <2>3, WordFacts DEF DirInv
  <2> QED
    BY <2>1, <2>2, <2>4 DEF DirInv
<1>6. ASSUME NEW f \in Names, Delete(f)
      PROVE  DirInv'
  <2>1. PICK i \in Entries : FoundAt(f, i) /\ Directory' = [Directory EXCEPT ![i].name = "deleted"]
    BY <1>6 DEF Delete
  <2>2. i \in Seen
    BY <2>1 DEF FoundAt, Slots
  <2>3. Directory[i].name # "end"
    BY <2>2, EntryFacts
  <2> QED
    BY <1>6, <2>1, <2>3 DEF Delete, DirInv
<1>7. CASE UNCHANGED bmfsVars
  BY <1>7 DEF bmfsVars, DirInv
<1> QED
  BY <1>2, <1>3, <1>4, <1>5, <1>6, <1>7 DEF BMFSNext

-----------------------------------------------------------------------------
(* Where a new file goes. *)

\* A new file in a gap that is large enough is clear of the other files.
LEMMA NewFileApart ==
  ASSUME DirInv, NoOverlap, NoDeleted, NoneWraps,
         NEW s \in Sorted, NEW t \in 1..(num_used_entries + 1), NEW n \in Nat,
         LargeEnough(s, t, n), NEW p \in 1..num_used_entries
  PROVE  \/ EndOf(Directory[s[p]]) <= GapStart(s, t)
         \/ GapStart(s, t) + n <= Directory[s[p]].start
<1>1. num_used_entries \in Nat
  BY FirstEntries
<1>2. \A q \in 1..num_used_entries : s[q] \in Seen /\ s[q] \in Live
  BY SortedFacts, EntryFacts DEF NoDeleted, Live
<1>3. \A q \in 1..num_used_entries :
        /\ Directory[s[q]].start \in Nat /\ EndOf(Directory[s[q]]) \in Nat
        /\ EndOf(Directory[s[q]]) >= Directory[s[q]].start
        /\ EndOf(Directory[s[q]]) < Word
        /\ Directory[s[q]].name # "deleted"
  <2> TAKE q \in 1..num_used_entries
  <2>1. /\ Directory[s[q]].start \in 1..(Word - 1)
        /\ Directory[s[q]].reserved \in Nat \ {0}
        /\ EndOf(Directory[s[q]]) = Directory[s[q]].start + Directory[s[q]].reserved
    BY <1>2, EntryFacts
  <2>2. EndOf(Directory[s[q]]) < Word
    BY <1>2 DEF NoneWraps
  <2> QED
    BY <1>2, <2>1, <2>2 DEF Live
<1>4. CASE p < t
  <2>1. t # 1 /\ t - 1 \in 1..num_used_entries /\ p <= t - 1
    BY <1>1, <1>4
  <2>2. GapStart(s, t) = EndOf(Directory[s[t - 1]])
    BY <1>3, <2>1, GapStartFacts
  <2>3. CASE p = t - 1
    BY <1>3, <2>1, <2>2, <2>3
  <2>4. CASE p # t - 1
    <3>1. Before(Directory[s[p]], Directory[s[t - 1]]) /\ s[p] # s[t - 1]
      BY <2>1, <2>4, SortedFacts
    <3>2. Directory[s[p]].start <= Directory[s[t - 1]].start
      BY <1>3, <2>1, <3>1 DEF Before
    <3>3. EndOf(Directory[s[p]]) <= Directory[s[t - 1]].start
      BY <1>2, <2>1, <3>1, <3>2, TwoFiles
    <3> QED
      BY <1>3, <2>1, <2>2, <3>3
  <2> QED
    BY <2>3, <2>4
<1>5. CASE ~(p < t)
  <2>1. t \in 1..num_used_entries /\ t <= p
    BY <1>1, <1>5
  <2>2. GapStart(s, t) + n <= Directory[s[t]].start
    BY <1>3, <2>1, GapBeforeFile
  <2>3. Before(Directory[s[t]], Directory[s[p]])
    BY <2>1, SortedFacts
  <2>4. Directory[s[t]].start <= Directory[s[p]].start
    BY <1>3, <2>1, <2>3 DEF Before
  <2>5. GapStart(s, t) \in 0..(Word - 1)
    BY GapStartFacts
  <2> QED
    BY <1>3, <2>1, <2>2, <2>4, <2>5
<1> QED
  BY <1>4, <1>5

LEMMA CreateKeepsApart ==
  ASSUME DirInv, NoOverlap, NoDeleted, NoneWraps,
         NEW f \in Names, NEW m \in MaxSizes, Create(f, m)
  PROVE  NoOverlap'
<1> DEFINE n == Blocks(m)
<1>1. n \in Nat \ {0}
  BY BlocksFacts
<1>2. PICK i \in Entries, s \in Sorted : \E c \in Areas(s, n) :
        FreeEntry(i) /\ Placed(f, i, n, c)
  BY CreateIs
<1>3. PICK b \in Areas(s, n) : FreeEntry(i) /\ Placed(f, i, n, b)
  BY <1>2
<1> HIDE DEF n
<1>4. PICK t \in 1..(num_used_entries + 1) :
        b = GapStart(s, t) /\ LargeEnough(s, t, n) /\ b \in 1..(Word - 1)
  BY <1>1, AreaFacts
<1>5. Directory[i].name = "end"
  BY <1>3 DEF FreeEntry, NoDeleted
<1>6. i \notin Seen /\ ~Full
  <2>1. i \in 1..i /\ i \in 1..MAX_ENTRIES
    BY BMFSAssumption DEF Entries
  <2>2. i \notin Seen
    BY <1>5, <2>1 DEF Seen
  <2>3. Full => i \in Seen
    BY <2>1, UsedFacts
  <2> QED
    BY <2>2, <2>3
<1>7. /\ Directory'[i] = [name |-> f, start |-> b, reserved |-> n, size |-> 0]
      /\ \A j \in Entries \ {i} : /\ Directory'[j].start = Directory[j].start
                                  /\ Directory'[j].reserved = Directory[j].reserved
      /\ Seen' \subseteq Seen \union {i}
  BY <1>3, PlacedKeeps
<1>8. BlocksOf(Directory'[i]) = b..(b + n - 1)
  <2>1. Directory'[i].start = b /\ Directory'[i].reserved = n
    BY <1>7
  <2> QED
    BY <1>1, <1>4, <2>1 DEF BlocksOf, EndOf
<1>9. \A j \in Seen : j \in Live /\ BlocksOf(Directory'[j]) = BlocksOf(Directory[j])
  <2> TAKE j \in Seen
  <2>1. j \in Entries \ {i} /\ Directory[j].name # "deleted"
    BY <1>6, EntryFacts DEF NoDeleted
  <2> QED
    BY <1>7, <2>1 DEF BlocksOf, EndOf, Live
<1>10. ASSUME NEW j \in Seen
       PROVE  BlocksOf(Directory[j]) \intersect (b..(b + n - 1)) = {}
  <2>1. PICK p \in 1..num_used_entries : s[p] = j
    BY <1>6, FirstEntries, SortedFacts
  <2>2. EndOf(Directory[j]) <= b \/ b + n <= Directory[j].start
    BY <1>1, <1>4, <2>1, NewFileApart
  <2>3. Directory[j].start \in 1..(Word - 1) /\ EndOf(Directory[j]) \in Nat
    BY EntryFacts
  <2> QED
    BY <1>1, <1>4, <2>2, <2>3 DEF BlocksOf
<1>11. ASSUME NEW j \in Live', NEW l \in Live', j # l
       PROVE  BlocksOf(Directory'[j]) \intersect BlocksOf(Directory'[l]) = {}
  <2>1. j \in Seen \union {i} /\ l \in Seen \union {i}
    BY <1>7 DEF Live
  <2>2. CASE j \in Seen /\ l \in Seen
    BY <1>9, <1>11, <2>2 DEF NoOverlap
  <2>3. CASE j = i
    BY <1>8, <1>9, <1>10, <1>11, <2>1, <2>3
  <2>4. CASE l = i
    BY <1>8, <1>9, <1>10, <1>11, <2>1, <2>4
  <2> QED
    BY <2>1, <2>2, <2>3, <2>4
<1> QED
  BY <1>11 DEF NoOverlap

LEMMA CreateStaysInside ==
  ASSUME DirInv, NoOverlap, image >= minimumDiskSize, InsideDisk,
         NEW f \in Names, NEW m \in MaxSizes, Create(f, m)
  PROVE  InsideDisk'
<1> DEFINE n == Blocks(m)
<1>1. n \in Nat \ {0}
  BY BlocksFacts
<1>2. PICK i \in Entries, s \in Sorted : \E c \in Areas(s, n) :
        FreeEntry(i) /\ Placed(f, i, n, c)
  BY CreateIs
<1>3. PICK b \in Areas(s, n) : FreeEntry(i) /\ Placed(f, i, n, b)
  BY <1>2
<1> HIDE DEF n
<1>4. PICK t \in 1..(num_used_entries + 1) :
        b = GapStart(s, t) /\ LargeEnough(s, t, n) /\ b \in 1..(Word - 1)
  BY <1>1, AreaFacts
<1>5. num_blocks \in Nat /\ num_blocks >= 3 /\ 2 * num_blocks <= Word - 1 /\ Word \in Nat
  BY DiskBlocks, WordFacts DEF DirInv
<1>6. \A j \in Seen : /\ Directory[j].start \in Nat /\ Directory[j].start <= num_blocks - 2
                      /\ EndOf(Directory[j]) \in Nat /\ EndOf(Directory[j]) <= num_blocks - 1
                      /\ EndOf(Directory[j]) < Word
  <2> TAKE j \in Seen
  <2>1. /\ Directory[j].start \in 1..(Word - 1) /\ Directory[j].reserved \in Nat \ {0}
        /\ EndOf(Directory[j]) = Directory[j].start + Directory[j].reserved
    BY EntryFacts
  <2>2. EndOf(Directory[j]) - 1 \in BlocksOf(Directory[j])
    BY <2>1 DEF BlocksOf
  <2>3. EndOf(Directory[j]) - 1 \in 1..(num_blocks - 2)
    BY <2>2 DEF InsideDisk
  <2> QED
    BY <1>5, <2>1, <2>3
<1>7. b + n <= num_blocks - 1
  <2>0. num_used_entries \in Nat
    BY FirstEntries
  <2>1. CASE t \in 1..num_used_entries /\ Directory[s[t]].name # "deleted"
    <3>1. s[t] \in Seen
      BY <2>1, SortedFacts
    <3>2. b + n <= Directory[s[t]].start
      BY <1>1, <1>4, <2>1, GapBeforeFile
    <3> QED
      BY <1>1, <1>4, <1>5, <1>6, <3>1, <3>2
  <2>2. CASE t > num_used_entries \/ Directory[s[t]].name = "deleted"
    <3>1. GapStart(s, t) <= num_blocks - 1
      BY <1>5, <1>6, GapStartFacts
    <3> QED
      BY <1>1, <1>4, <2>2, <3>1, GapToLastBlock
  <2> QED
    BY <2>0, <2>1, <2>2
<1>8. /\ Directory'[i] = [name |-> f, start |-> b, reserved |-> n, size |-> 0]
      /\ \A j \in Entries \ {i} : /\ Directory'[j].start = Directory[j].start
                                  /\ Directory'[j].reserved = Directory[j].reserved
      /\ Seen' \subseteq Seen \union {i}
  BY <1>3, PlacedKeeps
<1>9. ASSUME NEW j \in Seen'
      PROVE  BlocksOf(Directory'[j]) \subseteq 1..(num_blocks - 2)
  <2>1. CASE j = i
    <3>1. BlocksOf(Directory'[j]) = b..(b + n - 1)
      <4>1. Directory'[j].start = b /\ Directory'[j].reserved = n
        BY <1>8, <2>1
      <4> QED
        BY <1>1, <1>4, <4>1 DEF BlocksOf, EndOf
    <3> QED
      BY <1>1, <1>4, <1>5, <1>7, <3>1
  <2>2. CASE j # i
    <3>1. j \in Seen /\ j \in Entries \ {i}
      BY <1>8, <2>2, EntryFacts
    <3>2. BlocksOf(Directory'[j]) = BlocksOf(Directory[j])
      BY <1>8, <3>1 DEF BlocksOf, EndOf
    <3> QED
      BY <3>1, <3>2 DEF InsideDisk
  <2> QED
    BY <2>1, <2>2
<1> QED
  BY <1>9, CreateIs DEF InsideDisk

\* create puts the new file inside the disk whenever the others are, and apart
\* from them as long as no entry is deleted and no end of a file wraps around
\* 64 bits, in whatever order the directory lists them.
THEOREM CreatePlacesFilesWell == BMFSSpec => CreatePlacesWell
<1>1. DirInv =>
        (SomeCreate /\ NoOverlap =>
           /\ NoDeleted /\ NoneWraps => NoOverlap'
           /\ image >= minimumDiskSize /\ InsideDisk => InsideDisk')
  BY CreateKeepsApart, CreateStaysInside DEF SomeCreate
<1> QED
  BY <1>1, DirInvInit, DirInvNext, PTL DEF BMFSSpec, CreatePlacesWell

-----------------------------------------------------------------------------
(* A file is refused only when there is no room for it. *)

\* If n blocks from b on are free, the search finds an area.
LEMMA SearchFinds ==
  ASSUME DirInv, NoOverlap, image >= minimumDiskSize, NEW s \in Sorted,
         NEW n \in Nat \ {0}, NEW b \in 1..(num_blocks - 1 - n),
         \A i \in Live : b..(b + n - 1) \intersect BlocksOf(Directory[i]) = {}
  PROVE  Areas(s, n) # {}
<1> DEFINE U == num_used_entries
           Ends(t) == \/ t > U \/ Directory[s[t]].name = "deleted"
                      \/ Directory[s[t]].start >= b + n
           T == {t \in 1..(U + 1) : Ends(t)}
           W == {t \in 1..(U + 1) : LargeEnough(s, t, n)}
<1>1. U \in Nat
  BY FirstEntries
<1>2. /\ num_blocks \in Nat /\ num_blocks >= 3 /\ 2 * num_blocks <= Word - 1 /\ Word \in Nat
      /\ b \in Nat /\ b >= 1 /\ b + n <= num_blocks - 1
  BY DiskBlocks, WordFacts DEF DirInv
<1>3. U + 1 \in T /\ T \in SUBSET Nat /\ W \in SUBSET Nat
  BY <1>1
\* The first file after the free blocks, or the end of the files.
<1>4. PICK t \in T : \A u \in T : t <= u
  <2> HIDE DEF T
  <2> QED
    BY <1>3, LeastNumber
<1>5. t \in 1..(U + 1) /\ Ends(t)
  OBVIOUS
\* The files before it end before the free blocks.
<1>6. ASSUME NEW u \in 1..U, u < t
      PROVE  /\ s[u] \in Live
             /\ EndOf(Directory[s[u]]) \in 1..b
  <2>1. ~Ends(u)
    <3>1. u \in 1..(U + 1) /\ ~(t <= u)
      BY <1>1, <1>5, <1>6
    <3> QED
      BY <1>4, <3>1
  <2>2. s[u] \in Seen /\ s[u] \in Live
    BY <2>1, SortedFacts DEF Live
  <2>3. /\ Directory[s[u]].start \in 1..(Word - 1)
        /\ Directory[s[u]].reserved \in Nat \ {0}
        /\ EndOf(Directory[s[u]]) = Directory[s[u]].start + Directory[s[u]].reserved
    BY <2>2, EntryFacts
  <2>4. Directory[s[u]].start < b + n
    BY <1>2, <2>1, <2>3
  <2>5. b..(b + n - 1) \intersect BlocksOf(Directory[s[u]]) = {}
    BY <2>2
  <2>6. CASE Directory[s[u]].start >= b
    <3>1. Directory[s[u]].start \in b..(b + n - 1)
      BY <1>2, <2>3, <2>4, <2>6
    <3>2. Directory[s[u]].start \in BlocksOf(Directory[s[u]])
      BY <2>3 DEF BlocksOf
    <3> QED
      BY <2>5, <3>1, <3>2
  <2>7. CASE Directory[s[u]].start < b
    <3>1. b \notin BlocksOf(Directory[s[u]])
      <4>1. b \in b..(b + n - 1)
        BY <1>2
      <4> QED
        BY <2>5, <4>1
    <3> QED
      BY <1>2, <2>2, <2>3, <2>7, <3>1 DEF BlocksOf
  <2> QED
    BY <1>2, <2>3, <2>6, <2>7
<1>7. ASSUME NEW u \in 1..(U + 1), u <= t
      PROVE  GapStart(s, u) \in 1..b
  <2>1. CASE u = 1
    BY <1>2, <2>1, GapStartFacts
  <2>2. CASE u # 1
    <3>1. u - 1 \in 1..U /\ u - 1 < t
      BY <1>1, <1>5, <1>7, <2>2
    <3>2. EndOf(Directory[s[u - 1]]) \in 1..b
      BY <1>6, <3>1
    <3>3. EndOf(Directory[s[u - 1]]) < Word
      BY <1>2, <3>2
    <3> QED
      BY <2>2, <3>2, <3>3, GapStartFacts
  <2> QED
    BY <2>1, <2>2
<1>8. GapStart(s, t) \in 1..b
  BY <1>1, <1>5, <1>7
\* The gap before it is large enough.
<1>9. LargeEnough(s, t, n)
  <2>1. CASE t > U \/ Directory[s[t]].name = "deleted"
    <3>1. GapStart(s, t) <= num_blocks - 1 /\ GapStart(s, t) + n <= num_blocks - 1
      BY <1>2, <1>8
    <3> QED
      BY <1>5, <2>1, <3>1, GapToLastBlock
  <2>2. CASE ~(t > U) /\ Directory[s[t]].name # "deleted"
    <3>1. t \in 1..U /\ Directory[s[t]].start >= b + n
      BY <1>1, <1>5, <2>2
    <3>2. Directory[s[t]].start \in 1..(Word - 1)
      BY <3>1, SortedFacts, EntryFacts
    <3>3. GapStart(s, t) + n <= Directory[s[t]].start
      BY <1>2, <1>8, <3>1, <3>2
    <3> QED
      BY <2>2, <3>1, <3>3, GapBeforeFile
  <2> QED
    BY <2>1, <2>2
<1>10. t \in W
  BY <1>5, <1>9
<1> HIDE DEF T, Ends
<1>11. PICK v \in W : \A u \in W : v <= u
  <2> HIDE DEF W
  <2> QED
    BY <1>3, <1>10, LeastNumber
<1>12. v \in 1..(U + 1) /\ LargeEnough(s, v, n) /\ v <= t
  BY <1>10, <1>11
<1>13. \A u \in 1..(v - 1) : ~LargeEnough(s, u, n)
  <2> TAKE u \in 1..(v - 1)
  <2>1. u \in 1..(U + 1) /\ ~(v <= u)
    BY <1>1, <1>12
  <2> QED
    BY <1>11, <2>1
<1>14. GapStart(s, v) \in 1..b
  BY <1>7, <1>12
<1>15. GapStart(s, v) # 0
  BY <1>2, <1>14
<1> HIDE DEF W
<1>16. GapStart(s, v) \in Areas(s, n)
  BY <1>12, <1>13, <1>15 DEF Areas
<1> QED
  BY <1>16

\* When there is a run of free blocks long enough for a file, the search of
\* create finds a place, also past deleted entries, with differences that wrap
\* around and with files that lie outside the disk.
THEOREM RoomIsAlwaysFound == BMFSSpec => []RoomIsFound
<1>1. ASSUME DirInv
      PROVE  RoomIsFound
  <2> SUFFICES ASSUME image >= minimumDiskSize, NoOverlap, NEW m \in MaxSizes,
                      NEW s \in Sorted, Areas(s, Blocks(m)) = {},
                      NEW b \in 1..(num_blocks - 1 - Blocks(m)),
                      \A i \in Live : b..(b + Blocks(m) - 1)
                                        \intersect BlocksOf(Directory[i]) = {}
               PROVE  FALSE
    BY DEF RoomIsFound
  <2>1. Blocks(m) \in Nat \ {0}
    BY BlocksFacts
  <2> QED
    BY <1>1, <2>1, SearchFinds
<1> QED
  BY <1>1, DirInvInit, DirInvNext, PTL DEF BMFSSpec

-----------------------------------------------------------------------------
(* A set of named files. *)

\* The inductive invariant of a disk where create is not used when all the
\* entries are used or deleted: no file is shadowed by another.
FilesInv ==
  /\ DirInv
  /\ \A i, j \in Live : Directory[i].name = Directory[j].name => i = j

LEMMA SlotFacts ==
  ASSUME FilesInv, NEW f \in Names, NEW i \in Slots(f)
  PROVE  /\ i \in Entries /\ i \in Seen /\ i \in Live /\ Directory[i].name = f
         /\ Slots(f) = {i}
<1>1. f \notin {"end", "deleted"}
  BY BMFSAssumption
<1>2. Slots(f) \subseteq Live
  BY <1>1 DEF Slots, Live
<1> QED
  BY <1>2 DEF Slots, Live, Seen, FilesInv

LEMMA FileIs ==
  ASSUME FilesInv
  PROVE  \A f \in Names, i \in Entries : i \in Slots(f) =>
           FileNamed(f) = [reserved |-> Directory[i].reserved, size |-> Directory[i].size]
<1> SUFFICES ASSUME NEW f \in Names, NEW i \in Entries, i \in Slots(f)
             PROVE  FileNamed(f) = [reserved |-> Directory[i].reserved, size |-> Directory[i].size]
  OBVIOUS
<1>1. Slots(f) = {i}
  BY SlotFacts
<1>2. i \in Nat
  BY BMFSAssumption DEF Entries
<1>3. FoundAt(f, i)
  BY <1>1, <1>2 DEF FoundAt
<1>4. (CHOOSE j \in Slots(f) : FoundAt(f, j)) = i
  BY <1>1, <1>3
<1> QED
  BY <1>1, <1>4 DEF FileNamed

LEMMA FileIsNext ==
  FilesInv' => \A f \in Names, i \in Entries : i \in Slots(f)' =>
    FileNamed(f)' = [reserved |-> Directory'[i].reserved, size |-> Directory'[i].size]
<1>1. FilesInv => \A f \in Names, i \in Entries : i \in Slots(f) =>
        FileNamed(f) = [reserved |-> Directory[i].reserved, size |-> Directory[i].size]
  BY FileIs
<1>2. FilesInv' => (\A f \in Names, i \in Entries : i \in Slots(f) =>
        FileNamed(f) = [reserved |-> Directory[i].reserved, size |-> Directory[i].size])'
  BY <1>1, PTL
<1> QED
  BY <1>2

LEMMA NoFileIs ==
  ASSUME NEW f \in Names
  PROVE  /\ Slots(f) = {} => FileNamed(f) = Abstract!NoFile
         /\ Slots(f)' = {} => FileNamed(f)' = Abstract!NoFile
  BY DEF FileNamed, Abstract!NoFile

\* A file whose entry does not change is the same file.
LEMMA SameFile ==
  ASSUME FilesInv, FilesInv', NEW f \in Names, Slots(f)' = Slots(f),
         \A i \in Slots(f) : /\ Directory'[i].reserved = Directory[i].reserved
                             /\ Directory'[i].size = Directory[i].size
  PROVE  FileNamed(f)' = FileNamed(f)
<1>1. CASE Slots(f) = {}
  BY <1>1, NoFileIs
<1>2. CASE Slots(f) # {}
  <2>1. PICK i \in Slots(f) : TRUE
    BY <1>2
  <2>2. i \in Entries
    BY <2>1, SlotFacts
  <2>3. FileNamed(f) = [reserved |-> Directory[i].reserved, size |-> Directory[i].size]
    BY <2>1, <2>2, FileIs
  <2>4. FileNamed(f)' = [reserved |-> Directory'[i].reserved, size |-> Directory'[i].size]
    BY <2>1, <2>2, FileIsNext
  <2> QED
    BY <2>1, <2>3, <2>4
<1> QED
  BY <1>1, <1>2

\* With room in the directory, an entry is added or taken again.
LEMMA PlacedFile ==
  ASSUME DirInv, ~Full, NEW f \in Names, NEW i \in Entries, NEW n, NEW b,
         FreeEntry(i), Placed(f, i, n, b)
  PROVE  /\ Seen' = Seen \union {i}
         /\ \A j \in Seen \ {i} : Directory'[j] = Directory[j]
<1>1. MAX_ENTRIES \in Nat /\ Entries = 1..MAX_ENTRIES
  BY BMFSAssumption DEF Entries
<1>2. Seen = 1..num_used_entries /\ num_used_entries \in Nat
  BY FirstEntries
<1>3. f # "end"
  BY BMFSAssumption
<1>4. \A j \in Seen \ {i} : Directory'[j] = Directory[j]
  <2> TAKE j \in Seen \ {i}
  <2>1. j \in Entries /\ ~(i = num_used_entries + 1 /\ j = i + 1)
    BY <1>2 DEF Seen
  <2> QED
    BY <2>1 DEF Placed
<1>5. Directory'[i].name = f
  <2>1. Directory'[i] = [name |-> f, start |-> b, reserved |-> n, size |-> 0]
    BY PlacedKeeps
  <2> QED
    BY <2>1
<1>6. \A j \in 1..(i - 1) : j \in Seen
  <2> TAKE j \in 1..(i - 1)
  <2>1. \A l \in 1..j : l \in 1..(i - 1)
    BY <1>1
  <2>2. j \in Entries
    BY <1>1
  <2> QED
    BY <2>1, <2>2 DEF Seen, FreeEntry
<1>7. \A j \in Seen : \A l \in 1..j : l \in Seen
  BY <1>2
<1>8. \A j \in Seen : Directory[j].name # "end"
  BY EntryFacts
<1>9. \A j \in Seen \union {i} : Directory'[j].name # "end"
  BY <1>3, <1>4, <1>5, <1>8
<1>10. ASSUME NEW j \in Seen \union {i}
       PROVE  j \in Seen'
  <2>1. j \in Entries
    BY DEF Seen
  <2>2. \A l \in 1..j : l \in Seen \union {i}
    <3> TAKE l \in 1..j
    <3>1. CASE j \in Seen
      BY <1>7, <3>1
    <3>2. CASE j = i
      <4>1. l = i \/ l \in 1..(i - 1)
        BY <1>1, <3>2
      <4> QED
        BY <1>6, <4>1
    <3> QED
      BY <3>1, <3>2
  <2> QED
    BY <1>9, <2>1, <2>2 DEF Seen, Entries
<1> QED
  BY <1>4, <1>10, PlacedKeeps

\* What the file system is made of: the map of the refinement.
Files == [f \in Names |-> FileNamed(f)]

LEMMA FilesChange ==
  ASSUME NEW f \in Names, NEW r, FileNamed(f)' = r,
         \A g \in Names \ {f} : FileNamed(g)' = FileNamed(g)
  PROVE  Files' = [Files EXCEPT ![f] = r]
<1>1. Files' = [g \in Names |-> FileNamed(g)']
  BY DEF Files
<1>2. [Files EXCEPT ![f] = r] = [g \in Names |-> IF g = f THEN r ELSE FileNamed(g)]
  BY DEF Files
<1> QED
  BY <1>1, <1>2

LEMMA CreateIsAbstract ==
  ASSUME FilesInv, ~CreatesWhenFull, NEW f \in Names, NEW m \in MaxSizes, Create(f, m)
  PROVE  /\ FilesInv'
         /\ Abstract!Create(f)
<1>0. ~Full /\ Slots(f) = {} /\ f \notin {"end", "deleted"}
  BY CreateIs, BMFSAssumption
<1>1. PICK i \in Entries, s \in Sorted : \E c \in Areas(s, Blocks(m)) :
        FreeEntry(i) /\ Placed(f, i, Blocks(m), c)
  BY CreateIs
<1>2. PICK b \in Areas(s, Blocks(m)) : FreeEntry(i) /\ Placed(f, i, Blocks(m), b)
  BY <1>1
<1>3. /\ Seen' = Seen \union {i}
      /\ \A j \in Seen \ {i} : Directory'[j] = Directory[j]
      /\ Directory'[i] = [name |-> f, start |-> b, reserved |-> Blocks(m), size |-> 0]
  BY <1>0, <1>2, PlacedFile, PlacedKeeps DEF FilesInv
<1>4. Directory[i].name \in {"end", "deleted"}
  BY <1>2 DEF FreeEntry
<1>5. FilesInv'
  <2>1. DirInv'
    BY CreateKeepsInv DEF FilesInv
  <2>2. ASSUME NEW j \in Live', NEW l \in Live', Directory'[j].name = Directory'[l].name
        PROVE  j = l
    <3>1. \A k \in Live' \ {i} : /\ k \in Live /\ Directory'[k].name = Directory[k].name
                                 /\ Directory[k].name # f
      BY <1>0, <1>3 DEF Live, Slots
    <3>2. Directory'[i].name = f
      BY <1>3
    <3> QED
      BY <2>2, <3>1, <3>2 DEF FilesInv
  <2> QED
    BY <2>1, <2>2 DEF FilesInv
<1>6. FileNamed(f)' = [reserved |-> Blocks(m), size |-> 0]
  <2>1. i \in Slots(f)'
    BY <1>3 DEF Slots
  <2>2. FileNamed(f)' = [reserved |-> Directory'[i].reserved, size |-> Directory'[i].size]
    BY <1>5, <2>1, FileIsNext
  <2> QED
    BY <1>3, <2>2
<1>7. ASSUME NEW g \in Names \ {f}
      PROVE  FileNamed(g)' = FileNamed(g)
  <2>1. g \notin {"end", "deleted"}
    BY BMFSAssumption
  <2>2. Slots(g)' = Slots(g)
    BY <1>3, <1>4, <2>1 DEF Slots
  <2>3. \A j \in Slots(g) : Directory'[j] = Directory[j]
    BY <1>3, <1>4, <2>1 DEF Slots
  <2> QED
    BY <1>5, <2>2, <2>3, SameFile
<1>8. Files[f] = Abstract!NoFile
  BY <1>0, NoFileIs DEF Files
<1>9. Files' = [Files EXCEPT ![f] = [reserved |-> Blocks(m), size |-> 0]]
  BY <1>6, <1>7, FilesChange
<1> QED
  BY <1>5, <1>8, <1>9, CreateIs DEF Abstract!Create, Files

LEMMA WriteIsAbstract ==
  ASSUME FilesInv, NEW f \in Names, NEW l \in Lengths, Write(f, l)
  PROVE  /\ FilesInv'
         /\ Abstract!Write(f)
<1>1. PICK i \in Entries : /\ FoundAt(f, i) /\ Wrapped(Directory[i].reserved * BlockSize) >= l
                           /\ Directory' = [Directory EXCEPT ![i].size = l]
  BY DEF Write
<1>2. i \in Slots(f)
  BY <1>1 DEF FoundAt
<1>3. i \in Seen /\ Slots(f) = {i}
  BY <1>2, SlotFacts
<1>4. Directory \in [Entries -> [name : Names \union {"end", "deleted"},
                                 start : 0..(Word - 1), reserved : Nat, size : Nat]]
  BY DEF FilesInv, DirInv
<1>5. \A j \in Entries : /\ Directory'[j].name = Directory[j].name
                         /\ Directory'[j].reserved = Directory[j].reserved
                         /\ j # i => Directory'[j] = Directory[j]
  BY <1>1, <1>4
<1>6. Directory'[i].size = l
  BY <1>1, <1>4
<1>7. Seen' = Seen /\ Live' = Live /\ \A g \in Names : Slots(g)' = Slots(g)
  <2>1. Seen' = Seen
    <3>1. \A j \in Entries : \A k \in 1..j : k \in Entries
      BY BMFSAssumption DEF Entries
    <3> QED
      BY <1>5, <3>1 DEF Seen
  <2>2. \A j \in Seen : j \in Entries
    BY DEF Seen
  <2> QED
    BY <1>5, <2>1, <2>2 DEF Live, Slots
<1>8. FilesInv'
  <2>1. DirInv'
    <3>1. BMFSNext
      BY DEF BMFSNext
    <3> QED
      BY <3>1, DirInvNext DEF FilesInv
  <2>2. \A j \in Live : j \in Entries
    BY DEF Live, Seen
  <2> QED
    BY <1>5, <1>7, <2>1, <2>2 DEF FilesInv
<1>9. PICK r \in Nat : r = Directory[i].reserved /\ r # 0
  BY <1>3, EntryFacts DEF FilesInv
<1>10. FileNamed(f) = [reserved |-> r, size |-> Directory[i].size]
  BY <1>2, <1>9, FileIs
<1>11. FileNamed(f)' = [reserved |-> r, size |-> l]
  BY <1>2, <1>5, <1>6, <1>7, <1>8, <1>9, FileIsNext
<1>12. ASSUME NEW g \in Names \ {f}
       PROVE  FileNamed(g)' = FileNamed(g)
  <2>1. \A j \in Slots(g) : j \in Entries /\ j # i
    BY SlotFacts, <1>2
  <2> QED
    BY <1>5, <1>7, <1>8, <2>1, SameFile
<1>13. Files' = [Files EXCEPT ![f] = [reserved |-> r, size |-> l]]
  BY <1>11, <1>12, FilesChange
<1>14. Files[f] = [reserved |-> r, size |-> Directory[i].size]
  BY <1>10 DEF Files
<1>15. Files' = [Files EXCEPT ![f].size = l]
  <2>1. [Files[f] EXCEPT !.size = l] = [reserved |-> r, size |-> l]
    BY <1>14
  <2> QED
    BY <1>13, <2>1 DEF Files
<1>16. l \in 0..(Files[f].reserved * BlockSize)
  <2>1. l \in Nat /\ r * BlockSize \in Int /\ l <= r * BlockSize
    <3>1. BlockSize \in Nat
      BY WordFacts DEF BlockSize
    <3>2. PICK x \in Nat : x = r * BlockSize
      BY <1>9, <3>1
    <3>3. Wrapped(x) <= x /\ Wrapped(x) \in Int
      BY WrapsDown, WordFacts
    <3>4. Wrapped(x) >= l
      BY <1>1, <1>9, <3>2
    <3>5. l \in Nat
      BY BMFSAssumption
    <3> QED
      BY <3>2, <3>3, <3>4, <3>5
  <2> QED
    BY <1>14, <2>1
<1>17. Files[f] # Abstract!NoFile
  BY <1>9, <1>14 DEF Abstract!NoFile
<1> QED
  BY <1>8, <1>15, <1>16, <1>17 DEF Abstract!Write, Files, Write, ValidDisk

LEMMA DeleteIsAbstract ==
  ASSUME FilesInv, NEW f \in Names, Delete(f)
  PROVE  /\ FilesInv'
         /\ Abstract!Delete(f)
<1>1. PICK i \in Entries : FoundAt(f, i) /\ Directory' = [Directory EXCEPT ![i].name = "deleted"]
  BY DEF Delete
<1>2. i \in Slots(f)
  BY <1>1 DEF FoundAt
<1>3. i \in Seen /\ Slots(f) = {i} /\ f \notin {"end", "deleted"}
  BY <1>2, SlotFacts, BMFSAssumption
<1>4. Directory \in [Entries -> [name : Names \union {"end", "deleted"},
                                 start : 0..(Word - 1), reserved : Nat, size : Nat]]
  BY DEF FilesInv, DirInv
<1>5. /\ Directory'[i].name = "deleted"
      /\ \A j \in Entries \ {i} : Directory'[j] = Directory[j]
  BY <1>1, <1>4
<1>6. Directory[i].name # "end"
  BY <1>3, EntryFacts DEF FilesInv
<1>7. Seen' = Seen
  <2>1. \A j \in Entries : \A k \in 1..j : k \in Entries
    BY BMFSAssumption DEF Entries
  <2>2. \A j \in Entries : Directory'[j].name = "end" <=> Directory[j].name = "end"
    BY <1>5, <1>6
  <2> QED
    BY <2>1, <2>2 DEF Seen
<1>8. \A j \in Seen : j \in Entries
  BY DEF Seen
<1>9. Live' = Live \ {i}
  BY <1>5, <1>7, <1>8 DEF Live
<1>10. FilesInv'
  <2>1. DirInv'
    <3>1. BMFSNext
      BY DEF BMFSNext
    <3> QED
      BY <3>1, DirInvNext DEF FilesInv
  <2>2. \A j \in Live : j \in Entries
    BY DEF Live, Seen
  <2>3. \A j, k \in Live' : Directory'[j].name = Directory'[k].name => j = k
    BY <1>5, <1>9, <2>2 DEF FilesInv
  <2> QED
    BY <2>1, <2>3 DEF FilesInv
<1>11. FileNamed(f)' = Abstract!NoFile
  <2>1. Slots(f)' = {}
    <3>1. ASSUME NEW j \in Slots(f)'
          PROVE  FALSE
      <4>1. j \in Seen /\ Directory'[j].name = f
        BY <1>7, <3>1 DEF Slots
      <4>2. j # i
        BY <1>3, <1>5, <4>1
      <4>3. j \in Slots(f)
        BY <1>5, <1>8, <4>1, <4>2 DEF Slots
      <4> QED
        BY <1>3, <4>2, <4>3
    <3> QED
      BY <3>1
  <2> QED
    BY <2>1, NoFileIs
<1>12. ASSUME NEW g \in Names \ {f}
       PROVE  FileNamed(g)' = FileNamed(g)
  <2>1. g # "deleted" /\ Directory[i].name = f
    BY BMFSAssumption, <1>2, SlotFacts
  <2>2. Slots(g)' = Slots(g)
    BY <1>5, <1>7, <1>8, <2>1 DEF Slots
  <2>3. \A j \in Slots(g) : Directory'[j] = Directory[j]
    BY <1>5, <1>8, <2>1 DEF Slots
  <2> QED
    BY <1>10, <2>2, <2>3, SameFile
<1>13. Files' = [Files EXCEPT ![f] = Abstract!NoFile]
  BY <1>11, <1>12, FilesChange
<1>14. Files[f] # Abstract!NoFile
  <2>1. FileNamed(f) = [reserved |-> Directory[i].reserved, size |-> Directory[i].size]
    BY <1>2, FileIs
  <2>2. Directory[i].reserved # 0
    BY <1>3, EntryFacts DEF FilesInv
  <2> QED
    BY <2>1, <2>2 DEF Files, Abstract!NoFile
<1> QED
  BY <1>10, <1>13, <1>14 DEF Abstract!Delete, Files, Delete, ValidDisk

LEMMA EmptyHasNoFiles ==
  /\ Directory = EmptyDirectory => Seen = {} /\ Files = [f \in Names |-> Abstract!NoFile]
  /\ Directory' = EmptyDirectory => Seen' = {} /\ Files' = [f \in Names |-> Abstract!NoFile]
<1>1. \A i \in Entries : 1 \in 1..i /\ 1 \in Entries
  BY BMFSAssumption DEF Entries
<1>2. Directory = EmptyDirectory => Seen = {}
  BY <1>1 DEF Seen, EmptyDirectory, NoEntry
<1>3. Directory' = EmptyDirectory => Seen' = {}
  BY <1>1 DEF Seen, EmptyDirectory, NoEntry
<1>4. /\ Seen = {} => \A f \in Names : Slots(f) = {}
      /\ Seen' = {} => \A f \in Names : Slots(f)' = {}
  BY DEF Slots
<1> QED
  BY <1>2, <1>3, <1>4, NoFileIs DEF Files

LEMMA FilesStep ==
  ASSUME ~CreatesWhenFull, FilesInv, [BMFSNext]_bmfsVars
  PROVE  FilesInv' /\ (Abstract!Next \/ UNCHANGED <<Files, tagged>>)
<1>1. ASSUME Directory' = EmptyDirectory, tagged' \in BOOLEAN
      PROVE  FilesInv' /\ Abstract!Next
  <2>1. DirInv'
    BY DirInvNext DEF FilesInv
  <2>2. Live' = {}
    BY <1>1, EmptyHasNoFiles DEF Live
  <2>3. Abstract!Erase
    BY <1>1, EmptyHasNoFiles DEF Abstract!Erase, Files
  <2> QED
    BY <2>1, <2>2, <2>3 DEF FilesInv, Abstract!Next
<1>2. CASE Format
  BY <1>1, <1>2 DEF Format
<1>3. ASSUME NEW a \in SizeArguments, Initialize(a)
      PROVE  FilesInv' /\ Abstract!Next
  BY <1>1, <1>3 DEF Initialize
<1>4. ASSUME NEW f \in Names, NEW m \in MaxSizes, Create(f, m)
      PROVE  FilesInv' /\ Abstract!Next
  BY <1>4, CreateIsAbstract DEF Abstract!Next
<1>5. ASSUME NEW f \in Names, NEW l \in Lengths, Write(f, l)
      PROVE  FilesInv' /\ Abstract!Next
  BY <1>5, WriteIsAbstract DEF Abstract!Next
<1>6. ASSUME NEW f \in Names, Delete(f)
      PROVE  FilesInv' /\ Abstract!Next
  BY <1>6, DeleteIsAbstract DEF Abstract!Next
<1>7. CASE UNCHANGED bmfsVars
  <2>1. Directory' = Directory /\ image' = image /\ tagged' = tagged
    BY <1>7 DEF bmfsVars
  <2>2. Seen' = Seen /\ \A f \in Names : Slots(f)' = Slots(f)
    BY <2>1 DEF Seen, Slots
  <2>3. FilesInv'
    BY <2>1, <2>2 DEF FilesInv, DirInv, Live
  <2>4. UNCHANGED <<Files, tagged>>
    BY <2>1, <2>2 DEF Files, FileNamed, FoundAt
  <2> QED
    BY <2>3, <2>4
<1> QED
  BY <1>2, <1>3, <1>4, <1>5, <1>6, <1>7 DEF BMFSNext

\* format, create, write, delete and a failing initialize change the set of
\* named files as the abstract file system says, as long as create is not used
\* when all the entries are used or deleted (bmfs.c then sees an empty disk);
\* without the tag the disk is not used.
THEOREM DirectoryIsFiles == ~CreatesWhenFull => (BMFSSpec => ImplementsFiles)
<1> SUFFICES ASSUME ~CreatesWhenFull
             PROVE  BMFSSpec => ImplementsFiles
  OBVIOUS
<1>1. BMFSInit => FilesInv /\ Abstract!Init
  BY DirInvInit, EmptyHasNoFiles DEF BMFSInit, FilesInv, Live, Abstract!Init, Files
<1>2. FilesInv /\ [BMFSNext]_bmfsVars => FilesInv'
  BY FilesStep
<1>3. FilesInv /\ [BMFSNext]_bmfsVars => [Abstract!Next]_<<Files, tagged>>
  BY FilesStep
<1> QED
  BY <1>1, <1>2, <1>3, PTL DEF BMFSSpec, ImplementsFiles, Abstract!Spec,
                               Abstract!diskVars, Files

=============================================================================
