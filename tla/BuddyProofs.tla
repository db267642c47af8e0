----------------------------- MODULE BuddyProofs -----------------------------
(***************************************************************************)
(* The buddy memory manager for every size of RAM, every largest order and *)
(* every sequence of requests.                                             *)
(***************************************************************************)
EXTENDS BuddyMM, FiniteSetTheorems, SequenceTheorems, WellFoundedInduction,
        TLAPS

-----------------------------------------------------------------------------
(* Numbers. *)

Less == {ss \in Nat \X Nat : ss[1] < ss[2]}

\* Every non-empty set of numbers has a least one.
LEMMA Least ==
  ASSUME NEW T \in SUBSET Nat, T # {}
  PROVE  \E x \in T : \A y \in T : x <= y
<1>1. IsWellFoundedOn(Less, Nat)
  BY NatLessThanWellFounded DEF OpToRel, Less
<1>2. PICK x \in T : \A y \in T : ~ (<<y, x>> \in Less)
  BY <1>1, WFMin
<1>3. \A a, b \in Nat : a < b => <<a, b>> \in Less
  BY DEF Less
<1>4. ASSUME NEW y \in T
      PROVE  x <= y
  <2>1. x \in Nat /\ y \in Nat /\ ~ (<<y, x>> \in Less)
    BY <1>2
  <2> HIDE DEF Less
  <2>2. ~ (y < x)
    BY <1>3, <2>1
  <2> QED
    BY <2>1, <2>2
<1> QED
  BY <1>4

LEMMA MinExists ==
  ASSUME NEW I \in SUBSET Nat, I # {}
  PROVE  Min(I) \in I /\ \A y \in I : Min(I) <= y
  BY Least DEF Min

\* What holds of lo and, below hi, of n + 1 when it holds of n, holds up to hi.
LEMMA Climb ==
  ASSUME NEW lo \in Nat, NEW hi \in Nat, NEW S, lo \in S,
         \A n \in lo..(hi - 1) : n \in S => n + 1 \in S
  PROVE  lo..hi \subseteq S
<1> DEFINE T == (lo..hi) \ S
<1> SUFFICES ASSUME T # {}
             PROVE  FALSE
  OBVIOUS
<1>1. T \in SUBSET Nat
  OBVIOUS
<1> HIDE DEF T
<1>2. PICK x \in T : \A y \in T : x <= y
  BY <1>1, Least
<1> USE DEF T
<1>3. x \in Nat /\ x > lo /\ x <= hi
  OBVIOUS
<1>4. x - 1 \notin T
  BY <1>2, <1>3
<1> QED
  BY <1>3, <1>4

LEMMA DivMod ==
  ASSUME NEW a \in Nat, NEW s \in Nat \ {0}
  PROVE  /\ a \div s \in Nat /\ a % s \in 0..(s - 1)
         /\ a = (a \div s) * s + (a % s)
  OBVIOUS

LEMMA Products ==
  ASSUME NEW x \in Nat, NEW y \in Nat, NEW s \in Nat
  PROVE  /\ x * s \in Nat
         /\ x <= y => x * s <= y * s
         /\ (x + 1) * s = x * s + s
         /\ (2 * x) * s = x * (2 * s)
         /\ (x + y) * s = x * s + y * s
<1>1. x * s \in Nat
  OBVIOUS
<1>2. ASSUME x <= y
      PROVE  x * s <= y * s
  <2>1. (y - x) * s >= 0
    BY <1>2
  <2>2. (y - x) * s = y * s - x * s
    OBVIOUS
  <2> QED
    BY <2>1, <2>2
<1> QED
  BY <1>1, <1>2

\* Products of positive numbers compare as their factors do.
LEMMA Cancel ==
  ASSUME NEW x \in Nat, NEW y \in Nat, NEW s \in Nat \ {0}, x * s < y * s
  PROVE  x < y
<1> SUFFICES ASSUME y <= x
             PROVE  FALSE
  OBVIOUS
<1> QED
  BY Products

LEMMA QuotientIs ==
  ASSUME NEW a \in Nat, NEW s \in Nat \ {0}, NEW m \in Nat, NEW r \in 0..(s - 1),
         a = m * s + r
  PROVE  a \div s = m /\ a % s = r
<1> DEFINE d == a \div s
           e == a % s
<1>1. /\ d \in Nat /\ e \in 0..(s - 1) /\ a = d * s + e
  BY DivMod
<1> HIDE DEF d, e
<1>2. /\ (d + 1) * s = d * s + s
      /\ (m + 1) * s = m * s + s
  BY <1>1, Products
<1>3. d * s \in Nat /\ m * s \in Nat
  BY <1>1, Products
<1>4. d < m + 1
  <2>1. d * s < (m + 1) * s
    BY <1>1, <1>2, <1>3
  <2>2. m + 1 \in Nat
    OBVIOUS
  <2> QED
    BY <1>1, <2>1, <2>2, Cancel
<1>5. m < d + 1
  <2>1. m * s < (d + 1) * s
    BY <1>1, <1>2, <1>3
  <2>2. d + 1 \in Nat
    BY <1>1
  <2> QED
    BY <1>1, <2>1, <2>2, Cancel
<1>6. d = m
  BY <1>1, <1>4, <1>5
<1>7. e = r
  BY <1>1, <1>3, <1>6
<1> QED
  BY <1>6, <1>7 DEF d, e

-----------------------------------------------------------------------------
(* Spans and multiples of them. *)

\* Span is the function its definition describes: 1, 2, 4 and so on.
LEMMA SpanExists ==
  \E f \in [Orders -> Nat \ {0}] :
    f = [order \in Orders |-> IF order = 0 THEN 1 ELSE 2 * f[order - 1]]
<1> DEFINE S == {n \in 0..MAX_ORDER : \E f \in [0..n -> Nat \ {0}] :
                   \A k \in 0..n : f[k] = IF k = 0 THEN 1 ELSE 2 * f[k - 1]}
<1>1. MAX_ORDER \in Nat
  BY BuddyAssumption
<1>2. 0 \in S
  <2> DEFINE f == [k \in 0..0 |-> 1]
  <2>1. /\ f \in [0..0 -> Nat \ {0}]
        /\ \A k \in 0..0 : f[k] = IF k = 0 THEN 1 ELSE 2 * f[k - 1]
    OBVIOUS
  <2>2. 0 \in 0..MAX_ORDER
    BY <1>1
  <2> HIDE DEF f
  <2> QED
    BY <2>1, <2>2
<1>3. ASSUME NEW n \in 0..(MAX_ORDER - 1), n \in S
      PROVE  n + 1 \in S
  <2>1. PICK f \in [0..n -> Nat \ {0}] :
          \A k \in 0..n : f[k] = IF k = 0 THEN 1 ELSE 2 * f[k - 1]
    BY <1>3
  <2> DEFINE g == [k \in 0..(n + 1) |-> IF k = n + 1 THEN 2 * f[n] ELSE f[k]]
  <2>2. n \in Nat /\ n + 1 \in 0..MAX_ORDER
    BY <1>1
  <2>3. f[n] \in Nat \ {0} /\ 2 * f[n] \in Nat \ {0}
    BY <2>1, <2>2
  <2>4. g \in [0..(n + 1) -> Nat \ {0}]
    BY <2>1, <2>2, <2>3
  <2>5. ASSUME NEW k \in 0..(n + 1)
        PROVE  g[k] = IF k = 0 THEN 1 ELSE 2 * g[k - 1]
    <3>1. CASE k = n + 1
      <4>1. k # 0 /\ k - 1 = n /\ n \in 0..(n + 1) /\ n # n + 1
        BY <2>2, <3>1
      <4>2. g[k] = 2 * f[n] /\ g[n] = f[n]
        BY <3>1, <4>1
      <4> QED
        BY <4>1, <4>2
    <3>2. CASE k # n + 1
      <4>1. k \in 0..n
        BY <2>2, <3>2
      <4>2. g[k] = f[k]
        BY <3>2
      <4>3. k # 0 => k - 1 \in 0..(n + 1) /\ k - 1 # n + 1
        BY <4>1, <2>2
      <4>4. k # 0 => g[k - 1] = f[k - 1]
        BY <4>3
      <4> HIDE DEF g
      <4> QED
        BY <2>1, <4>1, <4>2, <4>4
    <3> QED
      BY <3>1, <3>2
  <2> HIDE DEF g
  <2> QED
    BY <2>2, <2>4, <2>5
<1>4. MAX_ORDER \in S
  <2> HIDE DEF S
  <2>1. 0..MAX_ORDER \subseteq S
    BY <1>1, <1>2, <1>3, Climb
  <2> QED
    BY <1>1, <2>1
<1>5. PICK f \in [0..MAX_ORDER -> Nat \ {0}] :
        \A k \in 0..MAX_ORDER : f[k] = IF k = 0 THEN 1 ELSE 2 * f[k - 1]
  BY <1>4
<1>6. f = [order \in Orders |-> IF order = 0 THEN 1 ELSE 2 * f[order - 1]]
  BY <1>5 DEF Orders
<1> QED
  BY <1>5, <1>6 DEF Orders

LEMMA Spans ==
  /\ MAX_ORDER \in Nat /\ 0 \in Orders /\ MAX_ORDER \in Orders /\ Orders \subseteq Nat
  /\ Span[0] = 1
  /\ \A k \in Orders : Span[k] \in Nat \ {0}
  /\ \A k \in Orders : k < MAX_ORDER => k + 1 \in Orders /\ Span[k + 1] = 2 * Span[k]
<1>1. MAX_ORDER \in Nat /\ 0 \in Orders /\ MAX_ORDER \in Orders /\ Orders \subseteq Nat
  BY BuddyAssumption DEF Orders
<1>2. Span = [order \in Orders |-> IF order = 0 THEN 1 ELSE 2 * Span[order - 1]]
  BY SpanExists DEF Span
<1>3. Span[0] = 1
  BY <1>1, <1>2
<1>4. ASSUME NEW k \in Orders, k < MAX_ORDER
      PROVE  k + 1 \in Orders /\ Span[k + 1] = 2 * Span[k]
  <2>1. k + 1 \in Orders /\ k + 1 # 0 /\ (k + 1) - 1 = k
    BY <1>1, <1>4 DEF Orders
  <2> QED
    BY <1>2, <2>1
<1>5. \A k \in Orders : Span[k] \in Nat \ {0}
  <2> DEFINE S == {k \in Orders : Span[k] \in Nat \ {0}}
  <2>1. 0 \in S
    BY <1>1, <1>3
  <2>2. ASSUME NEW n \in 0..(MAX_ORDER - 1), n \in S
        PROVE  n + 1 \in S
    <3>1. n < MAX_ORDER
      BY <1>1
    <3> QED
      BY <1>4, <2>2, <3>1
  <2> HIDE DEF S
  <2>3. 0..MAX_ORDER \subseteq S
    BY <1>1, <2>1, <2>2, Climb
  <2> QED
    BY <2>3 DEF S, Orders
<1> QED
  BY <1>1, <1>3, <1>4, <1>5

AlignedAt(a, k) == \E m \in Nat : a = m * Span[k]

\* A larger span is a multiple of a smaller one.
LEMMA SpanDivides ==
  ASSUME NEW j \in Orders, NEW k \in Orders, j <= k
  PROVE  \E d \in Nat \ {0} : Span[k] = d * Span[j]
<1> DEFINE S == {n \in Orders : \E d \in Nat \ {0} : Span[n] = d * Span[j]}
<1>1. Span[j] \in Nat \ {0} /\ j \in Nat /\ k \in Nat /\ MAX_ORDER \in Nat
      /\ k <= MAX_ORDER
  BY Spans DEF Orders
<1>2. j \in S
  <2>1. Span[j] = 1 * Span[j] /\ 1 \in Nat \ {0}
    BY <1>1
  <2> QED
    BY <2>1
<1>3. ASSUME NEW n \in j..(k - 1), n \in S
      PROVE  n + 1 \in S
  <2>1. PICK d \in Nat \ {0} : Span[n] = d * Span[j]
    BY <1>3
  <2>2. n \in Orders /\ n < MAX_ORDER
    BY <1>1, <1>3
  <2>3. n + 1 \in Orders /\ Span[n + 1] = 2 * Span[n]
    BY <2>2, Spans
  <2>4. 2 * (d * Span[j]) = (2 * d) * Span[j] /\ 2 * d \in Nat \ {0}
    BY <1>1
  <2> QED
    BY <2>1, <2>3, <2>4
<1> HIDE DEF S
<1>4. j..k \subseteq S
  BY <1>1, <1>2, <1>3, Climb
<1>5. k \in S
  BY <1>1, <1>4
<1> QED
  BY <1>5 DEF S

LEMMA AlignedBelow ==
  ASSUME NEW j \in Orders, NEW k \in Orders, j <= k, NEW a, AlignedAt(a, k)
  PROVE  AlignedAt(a, j)
<1>1. PICK m \in Nat : a = m * Span[k]
  BY DEF AlignedAt
<1>2. PICK d \in Nat \ {0} : Span[k] = d * Span[j]
  BY SpanDivides
<1>3. Span[j] \in Nat \ {0}
  BY Spans
<1>4. m * (d * Span[j]) = (m * d) * Span[j] /\ m * d \in Nat
  BY <1>3
<1> QED
  BY <1>1, <1>2, <1>4 DEF AlignedAt

-----------------------------------------------------------------------------
(* Blocks. *)

LEMMA BlockPages ==
  ASSUME NEW k \in Orders, NEW a \in Nat
  PROVE  /\ a \in Block(a, k) /\ a + Span[k] - 1 \in Block(a, k)
         /\ Block(a, k) \subseteq Nat
         /\ \A p : p \in Block(a, k) <=> p \in Nat /\ a <= p /\ p < a + Span[k]
         /\ IsFiniteSet(Block(a, k)) /\ Cardinality(Block(a, k)) = Span[k]
<1>1. Span[k] \in Nat \ {0}
  BY Spans
<1>2. a \in Int /\ a + Span[k] - 1 \in Int /\ a <= a + Span[k] - 1
  BY <1>1
<1>3. /\ IsFiniteSet(a..(a + Span[k] - 1))
      /\ Cardinality(a..(a + Span[k] - 1)) = (a + Span[k] - 1) - a + 1
  BY <1>2, FS_Interval
<1> QED
  BY <1>1, <1>3 DEF Block

LEMMA AlignedNat ==
  ASSUME NEW k \in Orders, NEW a, AlignedAt(a, k)
  PROVE  a \in Nat
<1>1. PICK m \in Nat : a = m * Span[k]
  BY DEF AlignedAt
<1> QED
  BY <1>1, Spans

\* Two blocks at multiples of their sizes: the smaller one is inside or outside.
LEMMA InsideOrApart ==
  ASSUME NEW j \in Orders, NEW k \in Orders, j <= k,
         NEW a, NEW b, AlignedAt(a, j), AlignedAt(b, k)
  PROVE  \/ Block(a, j) \subseteq Block(b, k)
         \/ Block(a, j) \intersect Block(b, k) = {}
<1>1. PICK m \in Nat : a = m * Span[j]
  BY DEF AlignedAt
<1>2. PICK n \in Nat : b = n * Span[k]
  BY DEF AlignedAt
<1>3. PICK d \in Nat \ {0} : Span[k] = d * Span[j]
  BY SpanDivides
<1>4. Span[j] \in Nat \ {0} /\ Span[k] \in Nat \ {0}
  BY Spans
<1>5. PICK l \in Nat : l = n * d
  OBVIOUS
<1>6. b = l * Span[j]
  <2>1. n * (d * Span[j]) = (n * d) * Span[j]
    BY <1>4
  <2> QED
    BY <1>2, <1>3, <1>5, <2>1
<1>7. /\ b + Span[k] = (l + d) * Span[j]
      /\ a + Span[j] = (m + 1) * Span[j]
      /\ l + d \in Nat /\ m + 1 \in Nat
  BY <1>1, <1>3, <1>4, <1>5, <1>6, Products
<1>8. a \in Nat /\ b \in Nat
  BY AlignedNat
<1>9. CASE m + 1 <= l
  <2>1. a + Span[j] <= b
    BY <1>6, <1>7, <1>9, <1>4, Products
  <2> QED
    BY <1>4, <1>8, <2>1, BlockPages
<1>10. CASE l + d <= m
  <2>1. b + Span[k] <= a
    BY <1>1, <1>7, <1>10, <1>4, Products
  <2> QED
    BY <1>4, <1>8, <2>1, BlockPages
<1>11. CASE l <= m /\ m + 1 <= l + d
  <2>1. b <= a
    BY <1>1, <1>6, <1>11, <1>4, Products
  <2>2. a + Span[j] <= b + Span[k]
    BY <1>7, <1>11, <1>4, Products
  <2>3. ASSUME NEW p \in Block(a, j)
        PROVE  p \in Block(b, k)
    <3>1. p \in Nat /\ a <= p /\ p < a + Span[j]
      BY <1>8, BlockPages
    <3>2. b <= p /\ p < b + Span[k]
      BY <1>4, <1>8, <2>1, <2>2, <3>1
    <3> QED
      BY <1>8, <3>1, <3>2, BlockPages
  <2> QED
    BY <2>3
<1> QED
  BY <1>9, <1>10, <1>11

\* The block of an order around a page is the only one at a multiple of its size.
LEMMA EnclosingIs ==
  ASSUME NEW k \in Orders, NEW a \in Nat
  PROVE  /\ AlignedAt(Enclosing(a, k), k)
         /\ a \in Block(Enclosing(a, k), k)
         /\ Enclosing(a, k) \in Nat /\ Enclosing(a, k) <= a
         /\ \A e : AlignedAt(e, k) /\ a \in Block(e, k) => e = Enclosing(a, k)
<1>1. Span[k] \in Nat \ {0}
  BY Spans
<1>2. PICK m \in Nat, r \in 0..(Span[k] - 1) :
        m = a \div Span[k] /\ r = a % Span[k] /\ a = m * Span[k] + r
  BY <1>1, DivMod
<1>3. m * Span[k] \in Nat
  BY <1>1, Products
<1>4. Enclosing(a, k) = m * Span[k]
  BY <1>1, <1>2, <1>3 DEF Enclosing
<1>5. AlignedAt(Enclosing(a, k), k)
  BY <1>4 DEF AlignedAt
<1>6. a \in Block(Enclosing(a, k), k)
  <2>1. PICK e \in Nat : e = m * Span[k]
    BY <1>3
  <2>2. a = e + r
    BY <1>2, <2>1
  <2>3. e <= a /\ a < e + Span[k]
    BY <1>1, <2>2
  <2> QED
    BY <1>4, <2>1, <2>3, BlockPages
<1>7. ASSUME NEW e, AlignedAt(e, k), a \in Block(e, k)
      PROVE  e = Enclosing(a, k)
  <2>1. PICK n \in Nat : e = n * Span[k]
    BY <1>7 DEF AlignedAt
  <2>2. e \in Nat
    BY <1>7, AlignedNat
  <2>3. e <= a /\ a < e + Span[k]
    BY <1>7, <2>2, BlockPages
  <2>4. a - e \in 0..(Span[k] - 1) /\ a = n * Span[k] + (a - e)
    BY <1>1, <2>1, <2>2, <2>3
  <2>5. a % Span[k] = a - e
    BY <1>1, <2>4, QuotientIs
  <2> QED
    BY <1>1, <2>2, <2>5 DEF Enclosing
<1>8. Enclosing(a, k) \in Nat /\ Enclosing(a, k) <= a
  BY <1>2, <1>3, <1>4
<1> QED
  BY <1>5, <1>6, <1>7, <1>8

\* A block and its buddy are the two halves of the block that encloses them.
LEMMA BuddyIs ==
  ASSUME NEW k \in Orders, k < MAX_ORDER, NEW a, AlignedAt(a, k)
  PROVE  \E e : /\ e = Enclosing(a, k + 1) /\ e = Enclosing(Buddy(a, k), k + 1)
                /\ e \in Nat /\ AlignedAt(e, k + 1)
                /\ \/ a = e /\ Buddy(a, k) = e + Span[k]
                   \/ a = e + Span[k] /\ Buddy(a, k) = e
                /\ AlignedAt(Buddy(a, k), k)
                /\ Buddy(Buddy(a, k), k) = a
<1>1. PICK m \in Nat : a = m * Span[k]
  BY DEF AlignedAt
<1>2. PICK s \in Nat \ {0} : s = Span[k]
  BY Spans
<1>3. k + 1 \in Orders /\ Span[k + 1] = 2 * s
  BY <1>2, Spans
<1>4. a \in Nat
  BY AlignedNat
<1>5. a \div s = m
  <2>1. 0 \in 0..(s - 1) /\ a = m * s + 0
    BY <1>1, <1>2, <1>4
  <2> QED
    BY <1>4, <2>1, QuotientIs
<1>6. PICK n \in Nat : (m % 2 = 0 /\ m = 2 * n) \/ (m % 2 = 1 /\ m = 2 * n + 1)
  <2>1. (m \div 2) \in Nat /\ m % 2 \in 0..1 /\ m = (m \div 2) * 2 + (m % 2)
    OBVIOUS
  <2>2. m % 2 = 0 \/ m % 2 = 1
    BY <2>1
  <2> QED
    BY <2>1, <2>2
<1>7. PICK e \in Nat : e = n * (2 * s)
  BY <1>2
<1>8. (2 * n) * s = e /\ (2 * n + 1) * s = e + s
  BY <1>7, <1>2, Products
<1>9. \/ m % 2 = 0 /\ a = e
      \/ m % 2 = 1 /\ a = e + s
  BY <1>1, <1>2, <1>6, <1>8
<1>10. AlignedAt(e, k + 1)
  BY <1>3, <1>7 DEF AlignedAt
<1>11. \A x \in {e, e + s} : x \in Nat /\ x \in Block(e, k + 1)
  <2> SUFFICES ASSUME NEW x \in {e, e + s}
               PROVE  x \in Nat /\ x \in Block(e, k + 1)
    OBVIOUS
  <2>1. x \in Nat /\ e <= x /\ x < e + Span[k + 1]
    BY <1>2, <1>3, <1>7
  <2> QED
    BY <1>3, <1>7, <2>1, BlockPages
<1>12. \A x \in {e, e + s} : Enclosing(x, k + 1) = e
  BY <1>3, <1>10, <1>11, EnclosingIs
<1>13. \/ a = e /\ Buddy(a, k) = e + s
       \/ a = e + s /\ Buddy(a, k) = e
  BY <1>2, <1>4, <1>5, <1>7, <1>9 DEF Buddy
<1>14. AlignedAt(e, k) /\ AlignedAt(e + s, k)
  <2>1. 2 * n \in Nat /\ 2 * n + 1 \in Nat
    OBVIOUS
  <2> QED
    BY <1>2, <1>8, <2>1 DEF AlignedAt
<1>15. Buddy(e, k) = e + s /\ Buddy(e + s, k) = e
  <2>1. 2 * n \in Nat /\ 2 * n + 1 \in Nat /\ 0 \in 0..(s - 1) /\ e + s \in Nat
    BY <1>2, <1>7
  <2>2. e = (2 * n) * s + 0 /\ e + s = (2 * n + 1) * s + 0
    BY <1>8, <1>7, <1>2
  <2>3. e \div s = 2 * n /\ (e + s) \div s = 2 * n + 1
    BY <2>1, <2>2, <1>7, QuotientIs
  <2>4. (2 * n) % 2 = 0 /\ (2 * n + 1) % 2 = 1
    OBVIOUS
  <2> QED
    BY <1>2, <1>7, <2>3, <2>4 DEF Buddy
<1> QED
  BY <1>2, <1>7, <1>10, <1>12, <1>13, <1>14, <1>15

LEMMA Halves ==
  ASSUME NEW k \in Orders, k < MAX_ORDER, NEW a, AlignedAt(a, k)
  PROVE  /\ \A p : p \in Block(Enclosing(a, k + 1), k + 1) <=>
                     p \in Block(a, k) \/ p \in Block(Buddy(a, k), k)
         /\ Block(a, k) \intersect Block(Buddy(a, k), k) = {}
         /\ Buddy(a, k) # a
<1>1. PICK e \in Nat :
        /\ e = Enclosing(a, k + 1)
        /\ \/ a = e /\ Buddy(a, k) = e + Span[k]
           \/ a = e + Span[k] /\ Buddy(a, k) = e
  BY BuddyIs
<1>2. PICK s \in Nat \ {0} : s = Span[k]
  BY Spans
<1>3. k + 1 \in Orders /\ Span[k + 1] = 2 * s
  BY <1>2, Spans
<1>4. e + s \in Nat
  BY <1>2
<1>5. \A p : p \in Block(e, k + 1) <=> p \in Nat /\ e <= p /\ p < e + 2 * s
  BY <1>3, BlockPages
<1>6. \A p : p \in Block(e, k) <=> p \in Nat /\ e <= p /\ p < e + s
  BY <1>2, BlockPages
<1>7. \A p : p \in Block(e + s, k) <=> p \in Nat /\ e + s <= p /\ p < (e + s) + s
  BY <1>2, <1>4, BlockPages
<1>8. \A p : p \in Block(e, k + 1) <=> p \in Block(e, k) \/ p \in Block(e + s, k)
  BY <1>2, <1>5, <1>6, <1>7
<1>9. Block(e, k) \intersect Block(e + s, k) = {}
  BY <1>2, <1>6, <1>7
<1>10. e + s # e
  BY <1>2
<1> QED
  BY <1>1, <1>2, <1>8, <1>9, <1>10

LEMMA EnclosingTwice ==
  ASSUME NEW k \in Orders, k < MAX_ORDER, NEW a \in Nat
  PROVE  Enclosing(Enclosing(a, k), k + 1) = Enclosing(a, k + 1)
<1>1. /\ AlignedAt(Enclosing(a, k), k) /\ a \in Block(Enclosing(a, k), k)
      /\ Enclosing(a, k) \in Nat
  BY EnclosingIs
<1>2. a \in Block(Enclosing(Enclosing(a, k), k + 1), k + 1)
  BY <1>1, Halves
<1>3. k + 1 \in Orders
  BY Spans
<1>4. AlignedAt(Enclosing(Enclosing(a, k), k + 1), k + 1)
  BY <1>1, <1>3, EnclosingIs
<1> QED
  BY <1>2, <1>3, <1>4, EnclosingIs

LEMMA EnclosingSelf ==
  ASSUME NEW k \in Orders, NEW a, AlignedAt(a, k)
  PROVE  Enclosing(a, k) = a
  BY AlignedNat, BlockPages, EnclosingIs

-----------------------------------------------------------------------------
(* Tiles: blocks with their orders. *)

PagesAt(t) == Block(t[2], t[1])

Apart(P) ==
  /\ P \subseteq Orders \X Nat
  /\ \A t \in P : AlignedAt(t[2], t[1])
  /\ \A t, u \in P : t # u => PagesAt(t) \intersect PagesAt(u) = {}

Covers(P, M) == \A p : p \in M <=> \E t \in P : p \in PagesAt(t)

\* The block of order o at a and its buddies up to order k: what merges into
\* the block of order k around a, and what splitting that block down to a gives.
Buddies(a, o, k) == {<<i, Buddy(Enclosing(a, i), i)>> : i \in o..(k - 1)}
Parts(a, o, k) == {<<o, a>>} \union Buddies(a, o, k)

LEMMA PartsTile ==
  ASSUME NEW o \in Orders, NEW k \in Orders, o <= k, NEW a, AlignedAt(a, o)
  PROVE  Apart(Parts(a, o, k)) /\ Covers(Parts(a, o, k), Block(Enclosing(a, k), k))
<1> DEFINE S == {n \in Orders :
                   /\ Apart(Parts(a, o, n))
                   /\ Covers(Parts(a, o, n), Block(Enclosing(a, n), n))}
<1>1. /\ a \in Nat /\ o \in Nat /\ k \in Nat /\ k <= MAX_ORDER /\ MAX_ORDER \in Nat
      /\ Enclosing(a, o) = a
  BY AlignedNat, EnclosingSelf, Spans DEF Orders
<1>2. o \in S
  <2>1. o..(o - 1) = {}
    BY <1>1
  <2>2. Parts(a, o, o) = {<<o, a>>}
    BY <2>1 DEF Parts, Buddies
  <2>3. <<o, a>>[1] = o /\ <<o, a>>[2] = a /\ <<o, a>> \in Orders \X Nat
    BY <1>1
  <2>4. Apart({<<o, a>>})
    BY <2>3 DEF Apart
  <2>5. Covers({<<o, a>>}, Block(a, o))
    BY <2>3 DEF Covers, PagesAt
  <2> QED
    BY <1>1, <2>2, <2>4, <2>5
<1>3. ASSUME NEW n \in o..(k - 1), n \in S
      PROVE  n + 1 \in S
  <2>1. n \in Orders /\ n < MAX_ORDER /\ n + 1 \in Orders /\ n \in Nat /\ o <= n
    BY <1>1, <1>3, Spans
  <2> DEFINE x == Enclosing(a, n)
             y == Buddy(x, n)
             u == <<n, y>>
             P == Parts(a, o, n)
  <2>2. AlignedAt(x, n) /\ x \in Nat
    BY <1>1, <2>1, EnclosingIs
  <2>3. AlignedAt(y, n)
    BY <2>1, <2>2, BuddyIs
  <2>4. y \in Nat
    BY <2>1, <2>3, AlignedNat
  <2>5. /\ \A p : p \in Block(Enclosing(a, n + 1), n + 1) <=>
                    p \in Block(x, n) \/ p \in Block(y, n)
        /\ Block(x, n) \intersect Block(y, n) = {}
    BY <1>1, <2>1, <2>2, Halves, EnclosingTwice
  <2>6. Parts(a, o, n + 1) = P \union {u}
    <3>1. o..((n + 1) - 1) = (o..(n - 1)) \union {n}
      BY <1>1, <2>1
    <3> QED
      BY <3>1 DEF Parts, Buddies
  <2>7. Apart(P) /\ Covers(P, Block(x, n))
    BY <1>3
  <2>8. u[1] = n /\ u[2] = y /\ u \in Orders \X Nat
    BY <2>1, <2>4
  <2> HIDE DEF P, u, x, y
  <2>9. \A t \in P : PagesAt(t) \intersect PagesAt(u) = {}
    BY <2>5, <2>7, <2>8 DEF Covers, PagesAt
  <2>10. Apart(P \union {u})
    BY <2>3, <2>7, <2>8, <2>9 DEF Apart
  <2>11. Covers(P \union {u}, Block(Enclosing(a, n + 1), n + 1))
    BY <2>5, <2>7, <2>8 DEF Covers, PagesAt
  <2> QED
    BY <2>1, <2>6, <2>10, <2>11
<1> HIDE DEF S
<1>4. o..k \subseteq S
  BY <1>1, <1>2, <1>3, Climb
<1>5. k \in S
  BY <1>1, <1>4
<1> QED
  BY <1>5 DEF S

\* Tiles may be replaced by others of the same pages.
LEMMA Retile ==
  ASSUME NEW P, NEW M, NEW R, NEW N, NEW Q, Apart(P), Covers(P, M),
         R \subseteq P, Apart(N), Covers(R, Q), Covers(N, Q)
  PROVE  Apart((P \ R) \union N) /\ Covers((P \ R) \union N, M)
<1>1. \A t \in P \ R : PagesAt(t) \intersect Q = {}
  BY DEF Apart, Covers
<1>2. \A t \in P \ R : \A u \in N : PagesAt(t) \intersect PagesAt(u) = {}
  BY <1>1 DEF Covers
<1>3. Apart((P \ R) \union N)
  BY <1>2 DEF Apart
<1>4. Covers((P \ R) \union N, M)
  BY DEF Covers
<1> QED
  BY <1>3, <1>4

LEMMA OneTile ==
  ASSUME NEW k \in Orders, NEW a, AlignedAt(a, k)
  PROVE  Apart({<<k, a>>}) /\ Covers({<<k, a>>}, Block(a, k))
<1>1. <<k, a>>[1] = k /\ <<k, a>>[2] = a /\ <<k, a>> \in Orders \X Nat
  BY AlignedNat
<1> QED
  BY <1>1 DEF Apart, Covers, PagesAt

-----------------------------------------------------------------------------
(* Lists without repetitions. *)

Elements(q) == {q[i] : i \in 1..Len(q)}
Distinct(q) == \A i, j \in 1..Len(q) : q[i] = q[j] => i = j

LEMMA ContainsIs ==
  ASSUME NEW S, NEW q \in Seq(S), NEW e
  PROVE  Contains(q, e) <=> e \in Elements(q)
<1>1. Len(q) \in Nat /\ DOMAIN q = 1..Len(q)
  BY LenProperties
<1> QED
  BY <1>1 DEF Contains, Elements

LEMMA Pushed ==
  ASSUME NEW S, NEW q \in Seq(S), Distinct(q), NEW e \in S, e \notin Elements(q)
  PROVE  /\ <<e>> \o q \in Seq(S) /\ Distinct(<<e>> \o q)
         /\ Elements(<<e>> \o q) = Elements(q) \union {e}
<1> DEFINE c == <<e>> \o q
<1>1. <<e>> \in Seq(S) /\ Len(<<e>>) = 1 /\ <<e>>[1] = e /\ Len(q) \in Nat
  BY LenProperties
<1>2. /\ c \in Seq(S) /\ Len(c) = Len(q) + 1
      /\ \A i \in 1..(Len(q) + 1) : c[i] = IF i <= 1 THEN <<e>>[i] ELSE q[i - 1]
  <2>1. /\ c \in Seq(S) /\ Len(c) = Len(<<e>>) + Len(q)
        /\ \A i \in 1..(Len(<<e>>) + Len(q)) :
             c[i] = IF i <= Len(<<e>>) THEN <<e>>[i] ELSE q[i - Len(<<e>>)]
    BY <1>1, ConcatProperties
  <2>2. 1 + Len(q) = Len(q) + 1
    BY <1>1
  <2> QED
    BY <1>1, <2>1, <2>2
<1> HIDE DEF c
<1>3. c[1] = e
  BY <1>1, <1>2
<1>4. \A i \in 2..(Len(q) + 1) : c[i] = q[i - 1] /\ i - 1 \in 1..Len(q)
  BY <1>1, <1>2
<1>5. \A i \in 1..Len(q) : i + 1 \in 2..(Len(q) + 1) /\ c[i + 1] = q[i]
  BY <1>1, <1>4
<1>6. Elements(c) = Elements(q) \union {e}
  <2>1. ASSUME NEW x \in Elements(c)
        PROVE  x \in Elements(q) \union {e}
    <3>1. PICK i \in 1..(Len(q) + 1) : x = c[i]
      BY <1>2 DEF Elements
    <3>2. CASE i = 1
      BY <1>3, <3>1, <3>2
    <3>3. CASE i # 1
      BY <1>1, <1>4, <3>1, <3>3 DEF Elements
    <3> QED
      BY <3>2, <3>3
  <2>2. e \in Elements(c)
    BY <1>1, <1>2, <1>3 DEF Elements
  <2>3. ASSUME NEW x \in Elements(q)
        PROVE  x \in Elements(c)
    <3>1. PICK i \in 1..Len(q) : x = q[i]
      BY DEF Elements
    <3>2. i + 1 \in 1..Len(c) /\ c[i + 1] = x
      BY <1>1, <1>2, <1>5, <3>1
    <3> QED
      BY <3>2 DEF Elements
  <2> QED
    BY <2>1, <2>2, <2>3
<1>7. Distinct(c)
  <2> SUFFICES ASSUME NEW i \in 1..(Len(q) + 1), NEW j \in 1..(Len(q) + 1), c[i] = c[j]
               PROVE  i = j
    BY <1>2 DEF Distinct
  <2>1. \A n \in 2..(Len(q) + 1) : c[n] # e
    BY <1>4 DEF Elements
  <2>2. CASE i = 1 \/ j = 1
    BY <1>1, <1>3, <2>1, <2>2
  <2>3. CASE i # 1 /\ j # 1
    <3>1. i \in 2..(Len(q) + 1) /\ j \in 2..(Len(q) + 1)
      BY <1>1, <2>3
    <3>2. q[i - 1] = q[j - 1] /\ i - 1 \in 1..Len(q) /\ j - 1 \in 1..Len(q)
      BY <1>4, <3>1
    <3>3. i - 1 = j - 1
      BY <3>2 DEF Distinct
    <3> QED
      BY <3>1, <3>3
  <2> QED
    BY <2>2, <2>3
<1> QED
  BY <1>2, <1>6, <1>7 DEF c

\* r is q without its element at n.
ClosesGap(r, q, n) ==
  /\ Len(r) = Len(q) - 1
  /\ \A i \in 1..(Len(q) - 1) : r[i] = IF i < n THEN q[i] ELSE q[i + 1]

LEMMA Closed ==
  ASSUME NEW S, NEW q \in Seq(S), Distinct(q), NEW n \in 1..Len(q),
         NEW r \in Seq(S), ClosesGap(r, q, n)
  PROVE  Distinct(r) /\ Elements(r) = Elements(q) \ {q[n]}
<1>1. /\ Len(q) \in Nat /\ Len(r) = Len(q) - 1
      /\ \A i \in 1..(Len(q) - 1) : r[i] = IF i < n THEN q[i] ELSE q[i + 1]
  BY LenProperties DEF ClosesGap
<1> DEFINE at(i) == IF i < n THEN i ELSE i + 1
<1>2. \A i \in 1..Len(r) : at(i) \in 1..Len(q) /\ at(i) # n /\ r[i] = q[at(i)]
  BY <1>1
<1>3. \A j \in 1..Len(q) : j # n =>
        \E i \in 1..Len(r) : at(i) = j
  <2> SUFFICES ASSUME NEW j \in 1..Len(q), j # n
               PROVE  \E i \in 1..Len(r) : at(i) = j
    OBVIOUS
  <2>1. CASE j < n
    <3>1. j \in 1..Len(r) /\ at(j) = j
      BY <1>1, <2>1
    <3> QED
      BY <3>1
  <2>2. CASE ~(j < n)
    <3>1. j - 1 \in 1..Len(r) /\ at(j - 1) = j
      BY <1>1, <2>2
    <3> QED
      BY <3>1
  <2> QED
    BY <2>1, <2>2
<1>4. \A i, j \in 1..Len(r) : at(i) = at(j) => i = j
  BY <1>1
<1> HIDE DEF at
<1>5. Distinct(r)
  BY <1>2, <1>4 DEF Distinct
<1>6. Elements(r) = Elements(q) \ {q[n]}
  <2>1. ASSUME NEW x \in Elements(r)
        PROVE  x \in Elements(q) /\ x # q[n]
    <3>1. PICK i \in 1..Len(r) : x = r[i]
      BY DEF Elements
    <3>2. at(i) \in 1..Len(q) /\ at(i) # n /\ x = q[at(i)]
      BY <1>2, <3>1
    <3> QED
      BY <3>2 DEF Elements, Distinct
  <2>2. ASSUME NEW x \in Elements(q), x # q[n]
        PROVE  x \in Elements(r)
    <3>1. PICK j \in 1..Len(q) : x = q[j]
      BY DEF Elements
    <3>2. PICK i \in 1..Len(r) : at(i) = j
      BY <1>3, <2>2, <3>1
    <3>3. x = r[i]
      BY <1>2, <3>1, <3>2
    <3> QED
      BY <3>3 DEF Elements
  <2> QED
    BY <2>1, <2>2
<1> QED
  BY <1>5, <1>6

LEMMA Popped ==
  ASSUME NEW S, NEW q \in Seq(S), Distinct(q), q # <<>>
  PROVE  /\ Head(q) \in Elements(q)
         /\ Tail(q) \in Seq(S) /\ Distinct(Tail(q))
         /\ Elements(Tail(q)) = Elements(q) \ {Head(q)}
<1>1. /\ Len(q) \in Nat /\ Len(q) >= 1 /\ Head(q) = q[1]
      /\ Tail(q) \in Seq(S) /\ Len(Tail(q)) = Len(q) - 1
      /\ \A i \in 1..(Len(q) - 1) : Tail(q)[i] = q[i + 1]
  <2>1. Len(q) \in Nat /\ Len(q) # 0
    BY LenProperties, EmptySeq
  <2> QED
    BY <2>1, HeadTailProperties
<1>2. 1 \in 1..Len(q)
  BY <1>1
<1>3. PICK r \in Seq(S) : r = Tail(q)
  BY <1>1
<1>4. ClosesGap(r, q, 1)
  BY <1>1, <1>3 DEF ClosesGap
<1>5. Distinct(r) /\ Elements(r) = Elements(q) \ {q[1]}
  BY <1>2, <1>4, Closed
<1>6. Head(q) \in Elements(q)
  BY <1>1, <1>2 DEF Elements
<1> QED
  BY <1>1, <1>3, <1>5, <1>6

\* RemoveFirst closes the gap left by one occurrence of e, if there is one.
LEMMA RemoveFirstShifts ==
  ASSUME NEW S, NEW q \in Seq(S), NEW e, Contains(q, e)
  PROVE  \E k \in 1..Len(q) :
           /\ q[k] = e
           /\ RemoveFirst(q, e) \in Seq(S)
           /\ Len(RemoveFirst(q, e)) = Len(q) - 1
           /\ \A i \in 1..(Len(q) - 1) :
                RemoveFirst(q, e)[i] = IF i < k THEN q[i] ELSE q[i + 1]
<1> DEFINE I == {i \in 1..Len(q) : q[i] = e}
           k == Min(I)
<1>1. I # {} /\ I \subseteq Nat
  BY LenProperties DEF Contains
<1>2. k \in 1..Len(q) /\ q[k] = e
  BY <1>1, MinExists
<1>3. SelectInSeq(q, LAMBDA v : v = e) = k
  BY <1>1 DEF SelectInSeq
<1>4. RemoveFirst(q, e) = SubSeq(q, 1, k - 1) \o SubSeq(q, k + 1, Len(q))
  BY <1>3 DEF RemoveFirst, RemoveAt, Contains
<1> HIDE DEF I, k
<1>5. Len(q) \in Nat /\ k \in Int
  BY <1>2, LenProperties
<1>6. /\ SubSeq(q, 1, k - 1) \in Seq(S)
      /\ Len(SubSeq(q, 1, k - 1)) = k - 1
      /\ \A i \in 1..(k - 1) : SubSeq(q, 1, k - 1)[i] = q[i]
  BY <1>2, <1>5, SubSeqProperties, ElementOfSeq
<1>7. /\ SubSeq(q, k + 1, Len(q)) \in Seq(S)
      /\ Len(SubSeq(q, k + 1, Len(q))) = Len(q) - k
      /\ \A i \in 1..(Len(q) - k) : SubSeq(q, k + 1, Len(q))[i] = q[k + i]
  BY <1>2, <1>5, SubSeqProperties, ElementOfSeq
<1>8. /\ RemoveFirst(q, e) \in Seq(S)
      /\ Len(RemoveFirst(q, e)) = Len(q) - 1
      /\ \A i \in 1..(Len(q) - 1) :
           RemoveFirst(q, e)[i] = IF i < k THEN q[i] ELSE q[i + 1]
  <2> DEFINE a == SubSeq(q, 1, k - 1)
             b == SubSeq(q, k + 1, Len(q))
  <2>1. /\ a \in Seq(S) /\ b \in Seq(S)
        /\ Len(a) = k - 1 /\ Len(b) = Len(q) - k
        /\ RemoveFirst(q, e) = a \o b
    BY <1>4, <1>6, <1>7
  <2>2. /\ \A i \in 1..(k - 1) : a[i] = q[i]
        /\ \A i \in 1..(Len(q) - k) : b[i] = q[k + i]
    BY <1>6, <1>7
  <2> HIDE DEF a, b
  <2>3. /\ a \o b \in Seq(S)
        /\ Len(a \o b) = Len(a) + Len(b)
        /\ \A i \in 1..(Len(a) + Len(b)) :
             (a \o b)[i] = IF i <= Len(a) THEN a[i] ELSE b[i - Len(a)]
    BY <2>1, ConcatProperties
  <2>4. ASSUME NEW i \in 1..(Len(q) - 1)
        PROVE  (a \o b)[i] = IF i < k THEN q[i] ELSE q[i + 1]
    <3>1. CASE i < k
      BY <1>2, <1>5, <2>1, <2>2, <2>3, <3>1
    <3>2. CASE ~(i < k)
      <4>1. i - Len(a) \in 1..(Len(q) - k) /\ k + (i - Len(a)) = i + 1
        BY <1>2, <1>5, <2>1, <3>2
      <4>2. (a \o b)[i] = b[i - Len(a)]
        BY <1>2, <1>5, <2>1, <2>3, <3>2
      <4>3. b[i - Len(a)] = q[i + 1]
        BY <2>2, <4>1
      <4> QED
        BY <1>5, <3>2, <4>2, <4>3
    <3> QED
      BY <3>1, <3>2
  <2> QED
    BY <1>2, <1>5, <2>1, <2>3, <2>4
<1> QED
  BY <1>2, <1>8

LEMMA Removed ==
  ASSUME NEW S, NEW q \in Seq(S), Distinct(q), NEW e, e \in Elements(q)
  PROVE  /\ RemoveFirst(q, e) \in Seq(S) /\ Distinct(RemoveFirst(q, e))
         /\ Elements(RemoveFirst(q, e)) = Elements(q) \ {e}
<1>1. Contains(q, e)
  BY ContainsIs
<1>2. PICK n \in 1..Len(q) :
        /\ q[n] = e
        /\ RemoveFirst(q, e) \in Seq(S)
        /\ Len(RemoveFirst(q, e)) = Len(q) - 1
        /\ \A i \in 1..(Len(q) - 1) :
             RemoveFirst(q, e)[i] = IF i < n THEN q[i] ELSE q[i + 1]
  BY <1>1, RemoveFirstShifts
<1>3. PICK r \in Seq(S) : r = RemoveFirst(q, e)
  BY <1>2
<1>4. ClosesGap(r, q, n)
  BY <1>2, <1>3 DEF ClosesGap
<1>5. Distinct(r) /\ Elements(r) = Elements(q) \ {q[n]}
  BY <1>4, Closed
<1> QED
  BY <1>2, <1>3, <1>5

-----------------------------------------------------------------------------
(* The free lists as tiles. *)

Free == {t \in Orders \X Nat : t[2] \in Elements(free_lists[t[1]])}

Lists ==
  /\ free_lists \in [Orders -> Seq(Memory)]
  /\ \A k \in Orders : Distinct(free_lists[k])

NoFreeBuddies ==
  \A k \in Orders : \A a \in Nat :
    k < MAX_ORDER /\ <<k, a>> \in Free => <<k, Buddy(a, k)>> \notin Free

LEMMA MemoryIs ==
  /\ PAGES \in Nat /\ Memory \subseteq Nat
  /\ \A p \in Memory : \A q \in Nat : q <= p => q \in Memory
  /\ IsFiniteSet(Memory) /\ Cardinality(Memory) = PAGES
<1>1. PAGES \in Nat \ {0}
  BY BuddyAssumption
<1>2. 0 \in Int /\ PAGES - 1 \in Int /\ 0 <= PAGES - 1
  BY <1>1
<1>3. IsFiniteSet(0..(PAGES - 1)) /\ Cardinality(0..(PAGES - 1)) = (PAGES - 1) - 0 + 1
  BY <1>2, FS_Interval
<1> QED
  BY <1>1, <1>3 DEF Memory

LEMMA FreeIs ==
  ASSUME Lists
  PROVE  /\ \A k \in Orders : Elements(free_lists[k]) \subseteq Memory
         /\ \A k \in Orders : \A a : <<k, a>> \in Free <=> a \in Elements(free_lists[k])
         /\ \A t \in Free : t = <<t[1], t[2]>> /\ t[1] \in Orders /\ t[2] \in Memory
<1>1. \A k \in Orders : Elements(free_lists[k]) \subseteq Memory
  <2> SUFFICES ASSUME NEW k \in Orders
               PROVE  Elements(free_lists[k]) \subseteq Memory
    OBVIOUS
  <2>1. PICK q \in Seq(Memory) : q = free_lists[k]
    BY DEF Lists
  <2>2. \A i \in 1..Len(q) : q[i] \in Memory
    BY <2>1, ElementOfSeq
  <2> QED
    BY <2>1, <2>2 DEF Elements
<1>2. ASSUME NEW k \in Orders, NEW a
      PROVE  <<k, a>> \in Free <=> a \in Elements(free_lists[k])
  <2>1. <<k, a>>[1] = k /\ <<k, a>>[2] = a
    OBVIOUS
  <2>2. a \in Elements(free_lists[k]) => <<k, a>> \in Orders \X Nat
    BY <1>1, MemoryIs
  <2> QED
    BY <2>1, <2>2 DEF Free
<1>3. \A t \in Free : t = <<t[1], t[2]>> /\ t[1] \in Orders /\ t[2] \in Memory
  BY <1>1 DEF Free
<1> QED
  BY <1>1, <1>2, <1>3

\* The buddies of a block of a larger order are at its upper halves.
LEMMA UpperHalves ==
  ASSUME NEW i \in Orders, NEW f \in Orders, i < f, NEW b, AlignedAt(b, f)
  PROVE  Enclosing(b, i) = b /\ Buddy(b, i) = b + Span[i]
<1>1. i < MAX_ORDER /\ i + 1 \in Orders /\ i + 1 <= f /\ i <= f
  BY Spans DEF Orders
<1>2. AlignedAt(b, i) /\ AlignedAt(b, i + 1)
  BY <1>1, AlignedBelow
<1>3. Enclosing(b, i) = b /\ Enclosing(b, i + 1) = b
  BY <1>1, <1>2, EnclosingSelf
<1>4. b \in Nat /\ Span[i] \in Nat \ {0}
  BY AlignedNat, Spans
<1>5. PICK e : /\ e = Enclosing(b, i + 1)
               /\ \/ b = e /\ Buddy(b, i) = e + Span[i]
                  \/ b = e + Span[i] /\ Buddy(b, i) = e
  BY <1>1, <1>2, BuddyIs
<1>6. b # b + Span[i]
  BY <1>4
<1> QED
  BY <1>3, <1>5, <1>6

LEMMA SuitableMin ==
  ASSUME Lists, NEW order \in Nat, Suitable(order) # {}
  PROVE  /\ Min(Suitable(order)) \in Orders /\ order \in Orders
         /\ order <= Min(Suitable(order))
         /\ free_lists[Min(Suitable(order))] # <<>>
         /\ \A k \in Orders : order <= k /\ k < Min(Suitable(order)) => free_lists[k] = <<>>
<1>1. Suitable(order) \in SUBSET Nat
  BY Spans DEF Suitable
<1>2. /\ Min(Suitable(order)) \in Suitable(order)
      /\ \A k \in Suitable(order) : Min(Suitable(order)) <= k
  BY <1>1, MinExists
<1>3. MAX_ORDER \in Nat
  BY Spans
<1> DEFINE m == Min(Suitable(order))
<1>4. /\ m \in order..MAX_ORDER /\ free_lists[m] # <<>>
      /\ \A k \in order..MAX_ORDER : free_lists[k] # <<>> => m <= k
  BY <1>2 DEF Suitable
<1> HIDE DEF m
<1>5. m \in Orders /\ order \in Orders /\ order <= m
  BY <1>3, <1>4 DEF Orders
<1>6. \A k \in Orders : order <= k /\ k < m => k \in order..MAX_ORDER /\ ~(m <= k)
  BY <1>3, <1>5 DEF Orders
<1>7. \A k \in Orders : order <= k /\ k < m => free_lists[k] = <<>>
  BY <1>4, <1>6
<1> QED
  BY <1>4, <1>5, <1>7 DEF m

\* get_block replaces a free tile by the upper halves of its splits.
LEMMA TakeTiles ==
  ASSUME Lists, Apart(Free), \A t \in Free : PagesAt(t) \subseteq Memory, NoFreeBuddies,
         NEW order \in Nat, get_block(order)
  PROVE  \E f \in Orders : \E b \in Memory :
           /\ f = Min(Suitable(order)) /\ b = Found(order)
           /\ order \in Orders /\ order <= f
           /\ <<f, b>> \in Free /\ AlignedAt(b, f)
           /\ Free' = (Free \ {<<f, b>>}) \union Buddies(b, order, f)
           /\ Lists' /\ NoFreeBuddies'
<1>1. PICK f \in Orders : f = Min(Suitable(order))
  BY SuitableMin DEF get_block
<1>2. order \in Orders /\ order <= f /\ free_lists[f] # <<>>
  BY <1>1, SuitableMin DEF get_block
<1>3. PICK q \in Seq(Memory) : q = free_lists[f]
  BY DEF Lists
<1>4. Distinct(q) /\ q # <<>>
  BY <1>2, <1>3 DEF Lists
<1>5. PICK b : b = Found(order) /\ b = Head(q)
  BY <1>1, <1>3 DEF Found
<1>6. /\ b \in Elements(q)
      /\ Tail(q) \in Seq(Memory) /\ Distinct(Tail(q))
      /\ Elements(Tail(q)) = Elements(q) \ {b}
  BY <1>4, <1>5, Popped
<1>7. <<f, b>> \in Free /\ b \in Memory /\ b \in Nat
  BY <1>3, <1>6, FreeIs, MemoryIs
<1>8. <<f, b>>[1] = f /\ <<f, b>>[2] = b
  OBVIOUS
<1>9. AlignedAt(b, f) /\ Block(b, f) \subseteq Memory
  BY <1>7, <1>8 DEF Apart, PagesAt
<1> DEFINE up(i) == b + Span[i]
           range == order..(f - 1)
<1>10. \A i \in range : i \in Orders /\ i < f /\ i \in Nat
  BY <1>2, Spans DEF Orders
<1>11. Buddies(b, order, f) = {<<i, up(i)>> : i \in range}
  BY <1>9, <1>10, UpperHalves DEF Buddies
<1>12. /\ Apart(Parts(b, order, f))
       /\ Covers(Parts(b, order, f), Block(b, f))
  BY <1>2, <1>9, AlignedBelow, PartsTile, EnclosingSelf
<1>13. \A i \in range : /\ up(i) \in Nat /\ AlignedAt(up(i), i)
                        /\ Block(up(i), i) \subseteq Block(b, f) /\ up(i) \in Memory
                        /\ up(i) \in Block(b, f)
  <2> SUFFICES ASSUME NEW i \in range
               PROVE  /\ up(i) \in Nat /\ AlignedAt(up(i), i)
                      /\ Block(up(i), i) \subseteq Block(b, f) /\ up(i) \in Memory
                      /\ up(i) \in Block(b, f)
    OBVIOUS
  <2>1. <<i, up(i)>> \in Parts(b, order, f)
    BY <1>11 DEF Parts
  <2>2. <<i, up(i)>>[1] = i /\ <<i, up(i)>>[2] = up(i)
    OBVIOUS
  <2>3. /\ up(i) \in Nat /\ AlignedAt(up(i), i)
        /\ Block(up(i), i) \subseteq Block(b, f)
    BY <1>10, <1>12, <2>1, <2>2, AlignedNat DEF Apart, Covers, PagesAt
  <2>4. up(i) \in Block(up(i), i)
    BY <1>10, <2>3, BlockPages
  <2> QED
    BY <1>9, <2>3, <2>4
<1>14. \A k \in Orders :
         free_lists'[k] = IF k = f THEN Tail(free_lists[k])
                          ELSE IF k \in range THEN <<up(k)>> \o free_lists[k]
                          ELSE free_lists[k]
  BY <1>1, <1>5 DEF get_block
<1>15. DOMAIN free_lists' = Orders /\ free_lists' = [k \in Orders |-> free_lists'[k]]
  BY DEF get_block
\* No free block but the one found has pages in it.
<1>16. \A k \in Orders : \A a : <<k, a>> \in Free /\ a \in Block(b, f) => k = f /\ a = b
  <2> SUFFICES ASSUME NEW k \in Orders, NEW a, <<k, a>> \in Free, a \in Block(b, f)
               PROVE  k = f /\ a = b
    OBVIOUS
  <2>1. <<k, a>>[1] = k /\ <<k, a>>[2] = a
    OBVIOUS
  <2>2. a \in Nat
    BY FreeIs, MemoryIs
  <2>3. a \in PagesAt(<<k, a>>) /\ a \in PagesAt(<<f, b>>)
    BY <1>8, <2>1, <2>2, BlockPages DEF PagesAt
  <2>4. <<k, a>> = <<f, b>>
    BY <1>7, <2>3 DEF Apart
  <2> QED
    BY <1>8, <2>1, <2>4
<1> HIDE DEF range, up
<1>17. \A k \in Orders :
         /\ free_lists'[k] \in Seq(Memory) /\ Distinct(free_lists'[k])
         /\ Elements(free_lists'[k]) =
              IF k = f THEN Elements(free_lists[k]) \ {b}
              ELSE IF k \in range THEN Elements(free_lists[k]) \union {up(k)}
              ELSE Elements(free_lists[k])
  <2> SUFFICES ASSUME NEW k \in Orders
               PROVE  /\ free_lists'[k] \in Seq(Memory) /\ Distinct(free_lists'[k])
                      /\ Elements(free_lists'[k]) =
                           IF k = f THEN Elements(free_lists[k]) \ {b}
                           ELSE IF k \in range THEN Elements(free_lists[k]) \union {up(k)}
                           ELSE Elements(free_lists[k])
    OBVIOUS
  <2>1. CASE k = f
    BY <1>3, <1>6, <1>14, <2>1
  <2>2. CASE k # f /\ k \in range
    <3>1. PICK r \in Seq(Memory) : r = free_lists[k] /\ Distinct(r)
      BY DEF Lists
    <3>2. up(k) \in Memory /\ up(k) \notin Elements(r)
      BY <1>13, <1>16, <2>2, <3>1, FreeIs
    <3>3. PICK e \in Memory : e = up(k)
      BY <3>2
    <3>4. /\ <<e>> \o r \in Seq(Memory) /\ Distinct(<<e>> \o r)
          /\ Elements(<<e>> \o r) = Elements(r) \union {e}
      BY <3>1, <3>2, <3>3, Pushed
    <3> QED
      BY <1>14, <2>2, <3>1, <3>3, <3>4
  <2>3. CASE k # f /\ k \notin range
    BY <1>14, <2>3 DEF Lists
  <2> QED
    BY <2>1, <2>2, <2>3
<1>18. Lists'
  <2>1. free_lists' \in [Orders -> Seq(Memory)]
    BY <1>15, <1>17
  <2>2. \A k \in Orders : Distinct(free_lists'[k])
    BY <1>17
  <2> QED
    BY <2>1, <2>2 DEF Lists
<1>19. \A k \in Orders : \A a : <<k, a>> \in Free' <=>
         \/ <<k, a>> \in Free /\ ~(k = f /\ a = b)
         \/ k \in range /\ a = up(k)
  <2> SUFFICES ASSUME NEW k \in Orders, NEW a
               PROVE  <<k, a>> \in Free' <=>
                        \/ <<k, a>> \in Free /\ ~(k = f /\ a = b)
                        \/ k \in range /\ a = up(k)
    OBVIOUS
  <2>1. <<k, a>>[1] = k /\ <<k, a>>[2] = a
    OBVIOUS
  <2>2. <<k, a>> \in Free' <=> a \in Nat /\ a \in Elements(free_lists'[k])
    BY <2>1 DEF Free
  <2>3. <<k, a>> \in Free <=> a \in Elements(free_lists[k])
    BY FreeIs
  <2>4. a \in Elements(free_lists[k]) => a \in Nat
    BY FreeIs, MemoryIs
  <2>5. k \in range => up(k) \in Nat /\ k # f
    BY <1>10, <1>13, <1>2, Spans
  <2> QED
    BY <1>17, <2>2, <2>3, <2>4, <2>5
<1>20. Free' = (Free \ {<<f, b>>}) \union {<<i, up(i)>> : i \in range}
  <2>1. ASSUME NEW t \in Free'
        PROVE  t \in (Free \ {<<f, b>>}) \union {<<i, up(i)>> : i \in range}
    <3>1. t = <<t[1], t[2]>> /\ t[1] \in Orders
      BY <2>1 DEF Free
    <3> QED
      BY <1>19, <3>1
  <2>2. ASSUME NEW t \in (Free \ {<<f, b>>})
        PROVE  t \in Free'
    <3>1. t = <<t[1], t[2]>> /\ t[1] \in Orders
      BY FreeIs
    <3>2. ~(t[1] = f /\ t[2] = b)
      BY <3>1
    <3> QED
      BY <1>19, <3>1, <3>2
  <2>3. ASSUME NEW i \in range
        PROVE  <<i, up(i)>> \in Free'
    BY <1>10, <1>19
  <2> QED
    BY <2>1, <2>2, <2>3
\* The buddy of a block that was pushed is in the block found.
<1>21. NoFreeBuddies'
  <2> SUFFICES ASSUME NEW k \in Orders, NEW a \in Nat, k < MAX_ORDER,
                      <<k, a>> \in Free', <<k, Buddy(a, k)>> \in Free'
               PROVE  FALSE
    BY DEF NoFreeBuddies
  <2>1. k \in range => /\ Buddy(up(k), k) = b /\ up(k) # b
                       /\ \A x : AlignedAt(x, k) /\ Buddy(x, k) = up(k) => x = b
    <3> SUFFICES ASSUME k \in range
                 PROVE  /\ Buddy(up(k), k) = b /\ up(k) # b
                        /\ \A x : AlignedAt(x, k) /\ Buddy(x, k) = up(k) => x = b
      OBVIOUS
    <3>1. Buddy(b, k) = up(k)
      BY <1>9, <1>10, UpperHalves DEF up
    <3>2. AlignedAt(b, k)
      <4>1. k <= f
        BY <1>10, Spans
      <4> QED
        BY <1>9, <4>1, AlignedBelow
    <3>3. Buddy(up(k), k) = b
      BY <3>1, <3>2, BuddyIs
    <3>4. \A x : AlignedAt(x, k) => Buddy(Buddy(x, k), k) = x
      BY BuddyIs
    <3>5. up(k) # b
      BY <3>1, <3>2, Halves
    <3> QED
      BY <3>3, <3>4, <3>5
  <2>2. b \in Block(b, f)
    BY <1>7, BlockPages
  <2>3. \A x : <<k, x>> \in Free => AlignedAt(x, k)
    <3>1. \A x : <<k, x>>[1] = k /\ <<k, x>>[2] = x
      OBVIOUS
    <3> QED
      BY <3>1 DEF Apart
  <2>4. ~(k \in range /\ <<k, b>> \in Free)
    BY <1>10, <1>16, <2>2, Spans
  <2>5. CASE k \in range /\ a = up(k)
    BY <1>19, <2>1, <2>4, <2>5
  <2>6. CASE ~(k \in range /\ a = up(k))
    <3>1. <<k, a>> \in Free
      BY <1>19, <2>6
    <3>2. CASE <<k, Buddy(a, k)>> \in Free
      BY <3>1, <3>2 DEF NoFreeBuddies
    <3>3. CASE k \in range /\ Buddy(a, k) = up(k)
      BY <2>1, <2>3, <2>4, <3>1, <3>3
    <3> QED
      BY <1>19, <3>2, <3>3
  <2> QED
    BY <2>5, <2>6
<1> QED
  BY <1>1, <1>2, <1>5, <1>7, <1>9, <1>11, <1>18, <1>20, <1>21

LEMMA MergedIs ==
  ASSUME Lists, NEW a \in Nat, NEW order \in Orders
  PROVE  /\ MergedOrder(a, order) \in Orders /\ order <= MergedOrder(a, order)
         /\ MergedOrder(a, order) < MAX_ORDER =>
              Buddy(Enclosing(a, MergedOrder(a, order)), MergedOrder(a, order))
                \notin Elements(free_lists[MergedOrder(a, order)])
         /\ \A i \in order..(MergedOrder(a, order) - 1) :
              /\ i \in Orders /\ i < MAX_ORDER
              /\ Buddy(Enclosing(a, i), i) \in Elements(free_lists[i])
<1> DEFINE Stops(k) == \/ k = MAX_ORDER
                       \/ ~Contains(free_lists[k], Buddy(Enclosing(a, k), k))
           I == {k \in order..MAX_ORDER : Stops(k)}
           top == MergedOrder(a, order)
<1>1. MAX_ORDER \in Nat /\ order \in Nat /\ order <= MAX_ORDER
  BY Spans DEF Orders
<1>2. top = Min(I)
  BY DEF MergedOrder
<1>3. MAX_ORDER \in I /\ I \in SUBSET Nat
  BY <1>1
<1> HIDE DEF I, top
<1>4. top \in I /\ \A k \in I : top <= k
  BY <1>2, <1>3, MinExists
<1>5. top \in order..MAX_ORDER /\ Stops(top)
  BY <1>4 DEF I
<1>6. top \in Orders /\ order <= top
  BY <1>1, <1>5 DEF Orders
<1>7. ASSUME NEW i \in order..(top - 1)
      PROVE  i \in Orders /\ i < MAX_ORDER /\ ~Stops(i)
  <2>1. i \in order..MAX_ORDER /\ i < MAX_ORDER /\ ~(top <= i)
    BY <1>1, <1>5
  <2>2. i \notin I
    BY <1>4, <2>1
  <2>3. i \in Orders
    BY <1>1, <2>1 DEF Orders
  <2> QED
    BY <2>1, <2>2, <2>3 DEF I
<1>8. \A k \in Orders : \A e : Contains(free_lists[k], e) <=> e \in Elements(free_lists[k])
  BY ContainsIs DEF Lists
<1>9. top < MAX_ORDER => Buddy(Enclosing(a, top), top) \notin Elements(free_lists[top])
  BY <1>1, <1>5, <1>6, <1>8
<1>10. \A i \in order..(top - 1) :
         i \in Orders /\ i < MAX_ORDER /\ Buddy(Enclosing(a, i), i) \in Elements(free_lists[i])
  BY <1>7, <1>8
<1> QED
  BY <1>6, <1>9, <1>10 DEF top

\* put_block replaces the tiles that merge by the one they make.
LEMMA GiveTiles ==
  ASSUME Lists, Apart(Free), NoFreeBuddies,
         NEW order \in Orders, NEW a \in Memory, AlignedAt(a, order),
         <<order, a>> \notin Free, Apart(Free \union {<<order, a>>}),
         put_block(a, order)
  PROVE  \E top \in Orders : \E e \in Memory :
           /\ order <= top /\ e = Enclosing(a, top)
           /\ header' = [header EXCEPT ![e] = LINK]
           /\ Buddies(a, order, top) \subseteq Free
           /\ <<top, e>> \notin Free
           /\ Free' = (Free \ Buddies(a, order, top)) \union {<<top, e>>}
           /\ Lists' /\ NoFreeBuddies'
<1>1. a \in Nat
  BY MemoryIs
<1>2. PICK top \in Orders :
        /\ top = MergedOrder(a, order) /\ order <= top
        /\ top < MAX_ORDER => Buddy(Enclosing(a, top), top) \notin Elements(free_lists[top])
        /\ \A i \in order..(top - 1) :
             /\ i \in Orders /\ i < MAX_ORDER
             /\ Buddy(Enclosing(a, i), i) \in Elements(free_lists[i])
  BY <1>1, MergedIs
<1>3. PICK e \in Nat : /\ e = Enclosing(a, top) /\ AlignedAt(e, top)
                       /\ a \in Block(e, top) /\ e <= a
  BY <1>1, EnclosingIs
<1>4. e \in Memory
  BY <1>3, MemoryIs
<1> DEFINE y(i) == Buddy(Enclosing(a, i), i)
           range == order..(top - 1)
<1>5. \A i \in range : /\ i \in Orders /\ i < MAX_ORDER /\ i # top
                       /\ y(i) \in Elements(free_lists[i])
  <2>1. top \in Nat /\ order \in Nat
    BY Spans
  <2>2. \A i \in range : i # top
    BY <2>1
  <2> QED
    BY <1>2, <2>2
<1>6. Buddies(a, order, top) = {<<i, y(i)>> : i \in range}
  BY DEF Buddies
<1>7. \A i \in range : <<i, y(i)>> \in Free
  BY <1>5, FreeIs
<1>8. <<top, e>> \notin Free
  <2> SUFFICES ASSUME <<top, e>> \in Free
               PROVE  FALSE
    OBVIOUS
  <2>1. /\ <<top, e>>[1] = top /\ <<top, e>>[2] = e
        /\ <<order, a>>[1] = order /\ <<order, a>>[2] = a
    OBVIOUS
  <2>2. a \in PagesAt(<<top, e>>) /\ a \in PagesAt(<<order, a>>)
    BY <1>1, <1>3, <2>1, BlockPages DEF PagesAt
  <2> QED
    BY <2>2 DEF Apart
<1>9. e \notin Elements(free_lists[top])
  BY <1>8, FreeIs
<1>10. \A k \in Orders :
         free_lists'[k] = IF k = top THEN <<e>> \o free_lists[k]
                          ELSE IF k \in range THEN RemoveFirst(free_lists[k], y(k))
                          ELSE free_lists[k]
  BY <1>2, <1>3 DEF put_block
<1>11. /\ DOMAIN free_lists' = Orders /\ free_lists' = [k \in Orders |-> free_lists'[k]]
       /\ header' = [header EXCEPT ![e] = LINK]
  BY <1>2, <1>3 DEF put_block
<1> HIDE DEF range, y
<1>12. \A k \in Orders :
         /\ free_lists'[k] \in Seq(Memory) /\ Distinct(free_lists'[k])
         /\ Elements(free_lists'[k]) =
              IF k = top THEN Elements(free_lists[k]) \union {e}
              ELSE IF k \in range THEN Elements(free_lists[k]) \ {y(k)}
              ELSE Elements(free_lists[k])
  <2> SUFFICES ASSUME NEW k \in Orders
               PROVE  /\ free_lists'[k] \in Seq(Memory) /\ Distinct(free_lists'[k])
                      /\ Elements(free_lists'[k]) =
                           IF k = top THEN Elements(free_lists[k]) \union {e}
                           ELSE IF k \in range THEN Elements(free_lists[k]) \ {y(k)}
                           ELSE Elements(free_lists[k])
    OBVIOUS
  <2>1. PICK q \in Seq(Memory) : q = free_lists[k] /\ Distinct(q)
    BY DEF Lists
  <2>2. CASE k = top
    <3>1. /\ <<e>> \o q \in Seq(Memory) /\ Distinct(<<e>> \o q)
          /\ Elements(<<e>> \o q) = Elements(q) \union {e}
      BY <1>4, <1>9, <2>1, <2>2, Pushed
    <3> QED
      BY <1>10, <2>1, <2>2, <3>1
  <2>3. CASE k # top /\ k \in range
    <3>1. PICK x : x = y(k) /\ x \in Elements(q)
      BY <1>5, <2>1, <2>3
    <3>2. /\ RemoveFirst(q, x) \in Seq(Memory) /\ Distinct(RemoveFirst(q, x))
          /\ Elements(RemoveFirst(q, x)) = Elements(q) \ {x}
      BY <2>1, <3>1, Removed
    <3> QED
      BY <1>10, <2>1, <2>3, <3>1, <3>2
  <2>4. CASE k # top /\ k \notin range
    BY <1>10, <2>1, <2>4
  <2> QED
    BY <2>2, <2>3, <2>4
<1>13. Lists'
  <2>1. free_lists' \in [Orders -> Seq(Memory)]
    BY <1>11, <1>12
  <2>2. \A k \in Orders : Distinct(free_lists'[k])
    BY <1>12
  <2> QED
    BY <2>1, <2>2 DEF Lists
<1>14. \A k \in Orders : \A x : <<k, x>> \in Free' <=>
         \/ <<k, x>> \in Free /\ ~(k \in range /\ x = y(k))
         \/ k = top /\ x = e
  <2> SUFFICES ASSUME NEW k \in Orders, NEW x
               PROVE  <<k, x>> \in Free' <=>
                        \/ <<k, x>> \in Free /\ ~(k \in range /\ x = y(k))
                        \/ k = top /\ x = e
    OBVIOUS
  <2>1. <<k, x>>[1] = k /\ <<k, x>>[2] = x
    OBVIOUS
  <2>2. <<k, x>> \in Free' <=> x \in Nat /\ x \in Elements(free_lists'[k])
    BY <2>1 DEF Free
  <2>3. <<k, x>> \in Free <=> x \in Elements(free_lists[k])
    BY FreeIs
  <2>4. x \in Elements(free_lists[k]) => x \in Nat
    BY FreeIs, MemoryIs
  <2>5. k \in range => k # top
    BY <1>5
  <2> QED
    BY <1>3, <1>12, <2>2, <2>3, <2>4, <2>5
<1>15. Free' = (Free \ {<<i, y(i)>> : i \in range}) \union {<<top, e>>}
  <2>1. ASSUME NEW t \in Free'
        PROVE  t \in (Free \ {<<i, y(i)>> : i \in range}) \union {<<top, e>>}
    <3>1. t = <<t[1], t[2]>> /\ t[1] \in Orders
      BY <2>1 DEF Free
    <3>2. CASE t[1] = top /\ t[2] = e
      BY <3>1, <3>2
    <3>3. CASE <<t[1], t[2]>> \in Free /\ ~(t[1] \in range /\ t[2] = y(t[1]))
      BY <3>1, <3>3
    <3> QED
      BY <1>14, <3>1, <3>2, <3>3
  <2>2. ASSUME NEW t \in Free, t \notin {<<i, y(i)>> : i \in range}
        PROVE  t \in Free'
    <3>1. t = <<t[1], t[2]>> /\ t[1] \in Orders
      BY FreeIs
    <3>2. ~(t[1] \in range /\ t[2] = y(t[1]))
      BY <2>2, <3>1
    <3> QED
      BY <1>14, <3>1, <3>2
  <2>3. <<top, e>> \in Free'
    BY <1>14
  <2> QED
    BY <2>1, <2>2, <2>3
<1>16. NoFreeBuddies'
  <2> SUFFICES ASSUME NEW k \in Orders, NEW x \in Nat, k < MAX_ORDER,
                      <<k, x>> \in Free', <<k, Buddy(x, k)>> \in Free'
               PROVE  FALSE
    BY DEF NoFreeBuddies
  <2>1. k = top => <<k, Buddy(e, k)>> \notin Free /\ Buddy(e, k) # e
    BY <1>2, <1>3, FreeIs, Halves
  <2>2. \A z : <<k, z>> \in Free => AlignedAt(z, k)
    <3>1. \A z : <<k, z>>[1] = k /\ <<k, z>>[2] = z
      OBVIOUS
    <3> QED
      BY <3>1 DEF Apart
  <2>3. CASE k = top /\ x = e
    BY <1>14, <2>1, <2>3
  <2>4. CASE ~(k = top /\ x = e)
    <3>1. <<k, x>> \in Free
      BY <1>14, <2>4
    <3>2. CASE <<k, Buddy(x, k)>> \in Free
      BY <3>1, <3>2 DEF NoFreeBuddies
    <3>3. CASE k = top /\ Buddy(x, k) = e
      <4>1. Buddy(e, k) = x
        BY <2>2, <3>1, <3>3, BuddyIs
      <4> QED
        BY <2>1, <3>1, <3>3, <4>1
    <3> QED
      BY <1>14, <3>2, <3>3
  <2> QED
    BY <2>3, <2>4
<1> QED
  BY <1>2, <1>3, <1>4, <1>6, <1>7, <1>8, <1>11, <1>13, <1>15, <1>16

-----------------------------------------------------------------------------
(* The invariant. *)

TileOf(b) == <<OrderOf(b), b.start>>
HeldTiles == {TileOf(b) : b \in held}
Tiles == Free \union HeldTiles
InUse == UNION {PagesOf(b) : b \in held}

OneOwner ==
  /\ \A b \in held : OrderOf(b) \in Orders
  /\ \A b, c \in held : b.start = c.start => b = c

Counted == free_bytes = PAGE_SIZE * Cardinality(Memory \ InUse)

\* The free blocks and the blocks held are tiles of the memory, no two free ones
\* are buddies, and free_bytes counts the free pages.
BuddyInv ==
  /\ MMTypeOK
  /\ Lists
  /\ OneOwner
  /\ Apart(Tiles)
  /\ Covers(Tiles, Memory)
  /\ Free \intersect HeldTiles = {}
  /\ NoFreeBuddies
  /\ Counted

LEMMA TileIn ==
  ASSUME BuddyInv, NEW t \in Tiles
  PROVE  /\ t = <<t[1], t[2]>> /\ t[1] \in Orders /\ t[2] \in Nat /\ AlignedAt(t[2], t[1])
         /\ PagesAt(t) \subseteq Memory /\ t[2] \in PagesAt(t)
<1>1. t \in Orders \X Nat /\ AlignedAt(t[2], t[1])
  BY DEF BuddyInv, Apart
<1>2. PagesAt(t) \subseteq Memory
  BY DEF BuddyInv, Covers
<1>3. t[1] \in Orders /\ t[2] \in Nat /\ t = <<t[1], t[2]>>
  BY <1>1
<1>4. t[2] \in PagesAt(t)
  BY <1>3, BlockPages DEF PagesAt
<1> QED
  BY <1>1, <1>2, <1>3, <1>4

LEMMA HeldIn ==
  ASSUME BuddyInv, NEW b \in held
  PROVE  /\ b.start \in Memory /\ b.kind \in {"page", "block"} /\ b.size \in 0..(WORD - 1)
         /\ b \in [kind: {"page", "block"}, start: Memory, size: 0..(WORD - 1)]
         /\ OrderOf(b) \in Orders /\ AlignedAt(b.start, OrderOf(b))
         /\ TileOf(b) \in HeldTiles /\ TileOf(b) \in Tiles /\ TileOf(b) \notin Free
         /\ TileOf(b)[1] = OrderOf(b) /\ TileOf(b)[2] = b.start
         /\ PagesOf(b) = PagesAt(TileOf(b)) /\ PagesOf(b) = Block(b.start, OrderOf(b))
         /\ PagesOf(b) \subseteq Memory /\ b.start \in PagesOf(b)
<1>1. b \in [kind: {"page", "block"}, start: Memory, size: 0..(WORD - 1)]
  BY DEF BuddyInv, MMTypeOK
<1>2. OrderOf(b) \in Orders
  BY DEF BuddyInv, OneOwner
<1>3. TileOf(b) \in HeldTiles /\ TileOf(b) \in Tiles /\ TileOf(b) \notin Free
  BY DEF BuddyInv, HeldTiles, Tiles
<1>4. TileOf(b)[1] = OrderOf(b) /\ TileOf(b)[2] = b.start
  BY DEF TileOf
<1>5. PagesOf(b) = PagesAt(TileOf(b)) /\ PagesOf(b) = Block(b.start, OrderOf(b))
  BY <1>4 DEF PagesOf, PagesAt
<1>6. /\ AlignedAt(b.start, OrderOf(b))
      /\ PagesOf(b) \subseteq Memory /\ b.start \in PagesOf(b)
  BY <1>3, <1>4, <1>5, TileIn
<1> QED
  BY <1>1, <1>2, <1>3, <1>4, <1>5, <1>6

LEMMA HeldApart ==
  ASSUME BuddyInv, NEW b \in held, NEW t \in Tiles, t # TileOf(b)
  PROVE  PagesOf(b) \intersect PagesAt(t) = {} /\ b.start \notin PagesAt(t)
<1>1. TileOf(b) \in Tiles /\ PagesOf(b) = PagesAt(TileOf(b)) /\ b.start \in PagesOf(b)
  BY HeldIn
<1> QED
  BY <1>1 DEF BuddyInv, Apart

LEMMA CountTaken ==
  ASSUME NEW A, IsFiniteSet(A), NEW B \in SUBSET A
  PROVE  /\ Cardinality(A \ B) = Cardinality(A) - Cardinality(B)
         /\ Cardinality(A) \in Nat /\ Cardinality(B) \in Nat
         /\ Cardinality(A \ B) \in Nat
<1>1. IsFiniteSet(B) /\ IsFiniteSet(A \ B) /\ A \intersect B = B
  BY FS_Subset
<1>2. Cardinality(A \ B) = Cardinality(A) - Cardinality(B)
  BY <1>1, FS_Difference
<1> QED
  BY <1>1, <1>2, FS_CardinalityType

\* A block of a new owner, which no other owner has a page of.
Took(order, r) ==
  /\ order \in Orders /\ r \notin held /\ held' = held \union {r}
  /\ \A c \in held : OrderOf(c)' = OrderOf(c)
  /\ OrderOf(r)' = order
  /\ r.start \in Nat /\ AlignedAt(r.start, order)
  /\ Block(r.start, order) \subseteq Memory \ InUse
  /\ free_bytes' = free_bytes - PAGE_SIZE * Span[order]

LEMMA CountsTaken ==
  ASSUME BuddyInv, NEW order, NEW r, Took(order, r)
  PROVE  Counted' /\ free_bytes' \in Nat
<1>1. PICK B : B = Block(r.start, order)
  OBVIOUS
<1>2. /\ B \subseteq Memory \ InUse /\ Cardinality(B) = Span[order]
      /\ Span[order] \in Nat
  BY <1>1, BlockPages, Spans DEF Took
<1>3. InUse' = InUse \union B
  <2>1. \A c \in held : PagesOf(c)' = PagesOf(c)
    BY DEF Took, PagesOf
  <2>2. PagesOf(r)' = B
    BY <1>1 DEF Took, PagesOf
  <2>3. held' = held \union {r}
    BY DEF Took
  <2> QED
    BY <2>1, <2>2, <2>3 DEF InUse
<1>4. PICK F : F = Memory \ InUse
  OBVIOUS
<1>5. Memory \ InUse' = F \ B
  BY <1>3, <1>4
<1>6. IsFiniteSet(F) /\ B \in SUBSET F
  BY <1>2, <1>4, MemoryIs, FS_Subset
<1>7. PICK x \in Nat, y \in Nat, z \in Nat :
        x = Cardinality(F) /\ y = Cardinality(B) /\ z = Cardinality(F \ B) /\ z = x - y
  BY <1>6, CountTaken
<1>8. PAGE_SIZE \in Nat
  BY BuddyAssumption
<1>9. free_bytes = PAGE_SIZE * x /\ free_bytes' = free_bytes - PAGE_SIZE * y
  BY <1>2, <1>4, <1>7 DEF BuddyInv, Counted, Took
<1>10. free_bytes' = PAGE_SIZE * z /\ PAGE_SIZE * z \in Nat
  <2>1. PAGE_SIZE * (x - y) = PAGE_SIZE * x - PAGE_SIZE * y
    BY <1>7, <1>8
  <2>2. PAGE_SIZE * z \in Nat
    BY <1>7, <1>8
  <2> QED
    BY <1>7, <1>9, <2>1, <2>2
<1> QED
  BY <1>5, <1>7, <1>10 DEF Counted

\* An owner gives its block back.
Gave(b) ==
  /\ b \in held /\ held' = held \ {b}
  /\ \A c \in held \ {b} : OrderOf(c)' = OrderOf(c)
  /\ free_bytes' = free_bytes + PAGE_SIZE * Span[OrderOf(b)]

LEMMA CountsGiven ==
  ASSUME BuddyInv, NEW b, Gave(b)
  PROVE  Counted' /\ free_bytes' \in Nat
<1> USE DEF Gave
<1>1. PICK B : B = PagesOf(b)
  OBVIOUS
<1>2. /\ B \subseteq Memory /\ Cardinality(B) = Span[OrderOf(b)]
      /\ B = Block(b.start, OrderOf(b))
  <2>1. b.start \in Nat /\ OrderOf(b) \in Orders /\ B = Block(b.start, OrderOf(b))
    BY <1>1, HeldIn, MemoryIs
  <2> QED
    BY <1>1, <2>1, HeldIn, BlockPages
<1>3. \A c \in held \ {b} : PagesOf(c) \intersect B = {} /\ PagesOf(c)' = PagesOf(c)
  <2> SUFFICES ASSUME NEW c \in held \ {b}
               PROVE  PagesOf(c) \intersect B = {} /\ PagesOf(c)' = PagesOf(c)
    OBVIOUS
  <2>1. b.start # c.start
    BY DEF BuddyInv, OneOwner
  <2>2. TileOf(b) # TileOf(c) /\ TileOf(b) \in Tiles /\ B = PagesAt(TileOf(b))
    BY <1>1, <2>1, HeldIn
  <2>3. PagesOf(c) \intersect B = {}
    BY <2>2, HeldApart
  <2> QED
    BY <2>3 DEF PagesOf
<1>4. InUse = InUse' \union B /\ InUse' \intersect B = {}
  BY <1>1, <1>3 DEF InUse
<1>5. PICK F : F = Memory \ InUse'
  OBVIOUS
<1>6. Memory \ InUse = F \ B
  BY <1>4, <1>5
<1>7. IsFiniteSet(F) /\ B \in SUBSET F
  BY <1>2, <1>4, <1>5, MemoryIs, FS_Subset
<1>8. PICK x \in Nat, y \in Nat, z \in Nat :
        x = Cardinality(F) /\ y = Cardinality(B) /\ z = Cardinality(F \ B) /\ z = x - y
  BY <1>7, CountTaken
<1>9. PAGE_SIZE \in Nat
  BY BuddyAssumption
<1>10. free_bytes = PAGE_SIZE * z /\ free_bytes' = free_bytes + PAGE_SIZE * y
  BY <1>2, <1>6, <1>8 DEF BuddyInv, Counted
<1>11. free_bytes' = PAGE_SIZE * x /\ PAGE_SIZE * x \in Nat
  <2>1. PAGE_SIZE * (z + y) = PAGE_SIZE * z + PAGE_SIZE * y
    BY <1>8, <1>9
  <2>2. x = z + y /\ PAGE_SIZE * x \in Nat
    BY <1>8, <1>9
  <2> QED
    BY <1>10, <2>1, <2>2
<1> QED
  BY <1>5, <1>8, <1>11 DEF Counted

LEMMA TakeKeeps ==
  ASSUME BuddyInv, NEW order \in Nat, get_block(order),
         NEW r \in [kind: {"page", "block"}, start: Memory, size: 0..(WORD - 1)],
         r.start = Found(order), held' = held \union {r},
         header' \in [Memory -> Orders \union {LINK}],
         \A p \in Memory \ Block(Found(order), Min(Suitable(order))) : header'[p] = header[p],
         IF r.kind = "page" THEN order = 0 ELSE header'[r.start] = order
  PROVE  BuddyInv' /\ Took(order, r)
<1>1. Lists /\ NoFreeBuddies /\ Apart(Tiles) /\ Covers(Tiles, Memory) /\ OneOwner
  BY DEF BuddyInv
<1>2. Apart(Free)
  BY <1>1 DEF Apart, Tiles
<1>3. \A t \in Free : PagesAt(t) \subseteq Memory
  BY TileIn DEF Tiles
<1>4. PICK f \in Orders, b \in Memory :
        /\ f = Min(Suitable(order)) /\ b = Found(order)
        /\ order \in Orders /\ order <= f
        /\ <<f, b>> \in Free /\ AlignedAt(b, f)
        /\ Free' = (Free \ {<<f, b>>}) \union Buddies(b, order, f)
        /\ Lists' /\ NoFreeBuddies'
  BY <1>1, <1>2, <1>3, TakeTiles
<1> DEFINE R == {<<f, b>>}
           N == Parts(b, order, f)
           Q == Block(b, f)
           new == <<order, b>>
<1>5. /\ <<f, b>>[1] = f /\ <<f, b>>[2] = b /\ new[1] = order /\ new[2] = b
      /\ <<f, b>> \in Tiles /\ <<f, b>> \notin HeldTiles
  BY <1>4 DEF Tiles, BuddyInv
<1>6. b \in Nat /\ AlignedAt(b, order) /\ Enclosing(b, f) = b /\ b \in Q
  BY <1>4, MemoryIs, AlignedBelow, EnclosingSelf, BlockPages
<1>7. Apart(N) /\ Covers(N, Q)
  BY <1>4, <1>6, PartsTile
<1>8. Apart(R) /\ Covers(R, Q)
  BY <1>4, OneTile
<1>9. PagesAt(<<f, b>>) = Q
  BY <1>5 DEF PagesAt
<1>10. N = Buddies(b, order, f) \union {new}
  BY DEF Parts
<1>11. new \notin Buddies(b, order, f)
  <2> SUFFICES ASSUME NEW i \in order..(f - 1), new = <<i, Buddy(Enclosing(b, i), i)>>
               PROVE  FALSE
    BY DEF Buddies
  <2>1. i = order /\ b = Buddy(Enclosing(b, i), i)
    BY <1>5
  <2>2. order < f /\ order < MAX_ORDER
    BY <1>4, <2>1, Spans DEF Orders
  <2>3. Enclosing(b, order) = b /\ Buddy(b, order) # b
    BY <1>4, <1>6, <2>2, EnclosingSelf, Halves
  <2> QED
    BY <2>1, <2>3
<1>12. b = r.start
  BY <1>4
<1> HIDE DEF R, N, Q, new
\* Owners are outside the block that was found.
<1>13. \A c \in held : c.start \notin Q /\ PagesOf(c) \intersect Q = {} /\ c.start \in Memory
  <2> SUFFICES ASSUME NEW c \in held
               PROVE  c.start \notin Q /\ PagesOf(c) \intersect Q = {} /\ c.start \in Memory
    OBVIOUS
  <2>1. <<f, b>> # TileOf(c)
    BY <1>5, HeldIn
  <2> QED
    BY <1>5, <1>9, <2>1, HeldIn, HeldApart
<1>14. \A c \in held : OrderOf(c)' = OrderOf(c)
  <2> SUFFICES ASSUME NEW c \in held
               PROVE  OrderOf(c)' = OrderOf(c)
    OBVIOUS
  <2>1. header'[c.start] = header[c.start]
    BY <1>4, <1>13 DEF Q
  <2> QED
    BY <2>1 DEF OrderOf
<1>15. OrderOf(r)' = order
  BY DEF OrderOf
<1>16. r \notin held
  BY <1>6, <1>12, <1>13
<1>17. TileOf(r)' = new /\ \A c \in held : TileOf(c)' = TileOf(c)
  BY <1>12, <1>14, <1>15 DEF TileOf, new
<1>18. HeldTiles' = HeldTiles \union {new}
  BY <1>17 DEF HeldTiles
<1>19. Tiles' = (Tiles \ R) \union N
  BY <1>4, <1>5, <1>10, <1>18 DEF Tiles, R
<1>20. Apart(Tiles') /\ Covers(Tiles', Memory)
  <2>1. R \subseteq Tiles
    BY <1>5 DEF R
  <2> QED
    BY <1>1, <1>7, <1>8, <1>19, <2>1, Retile
<1>21. Free' \intersect HeldTiles' = {}
  <2>1. ASSUME NEW t \in Free \ R
        PROVE  t \notin HeldTiles'
    <3>1. t \notin HeldTiles /\ t \in Tiles /\ t # <<f, b>>
      BY DEF BuddyInv, Tiles, R
    <3>2. t # new
      <4> SUFFICES ASSUME t = new
                   PROVE  FALSE
        OBVIOUS
      <4>1. b \in PagesAt(t)
        BY <1>4, <1>5, <1>6, BlockPages DEF PagesAt
      <4> QED
        BY <1>1, <1>5, <1>6, <1>9, <3>1, <4>1 DEF Apart
    <3> QED
      BY <1>18, <3>1, <3>2
  <2>2. ASSUME NEW t \in Buddies(b, order, f)
        PROVE  t \notin HeldTiles'
    <3>1. t \in N
      BY <1>10
    <3>2. PagesAt(t) \subseteq Q /\ t[2] \in PagesAt(t)
      <4>1. t[1] \in Orders /\ t[2] \in Nat
        BY <1>7, <3>1 DEF Apart
      <4> QED
        BY <1>7, <3>1, <4>1, BlockPages DEF Covers, PagesAt
    <3>3. t \notin HeldTiles
      <4> SUFFICES ASSUME NEW c \in held, t = TileOf(c)
                   PROVE  FALSE
        BY DEF HeldTiles
      <4>1. PagesAt(t) = PagesOf(c)
        BY HeldIn
      <4> QED
        BY <1>13, <3>2, <4>1
    <3> QED
      BY <1>11, <1>18, <3>3
  <2> QED
    BY <1>4, <2>1, <2>2 DEF R
<1>22. OneOwner'
  <2>1. \A c \in held' : OrderOf(c)' \in Orders
    BY <1>1, <1>4, <1>14, <1>15 DEF OneOwner
  <2>2. \A c \in held : c.start # r.start
    BY <1>6, <1>12, <1>13
  <2>3. \A c, d \in held' : c.start = d.start => c = d
    BY <1>1, <2>2 DEF OneOwner
  <2> QED
    BY <2>1, <2>3 DEF OneOwner
<1>23. Took(order, r)
  <2>1. Block(b, order) \subseteq Q
    <3>1. new \in N
      BY <1>10
    <3> QED
      BY <1>5, <1>7, <3>1 DEF Covers, PagesAt
  <2>2. Q \subseteq Memory /\ Q \intersect InUse = {}
    BY <1>4, <1>3, <1>9, <1>13 DEF InUse
  <2>3. free_bytes' = free_bytes - PAGE_SIZE * Span[order]
    BY DEF get_block
  <2> QED
    BY <1>4, <1>6, <1>12, <1>14, <1>15, <1>16, <2>1, <2>2, <2>3 DEF Took
<1>24. Counted' /\ free_bytes' \in Nat
  BY <1>23, CountsTaken
<1>25. MMTypeOK'
  <2>1. held \subseteq [kind: {"page", "block"}, start: Memory, size: 0..(WORD - 1)]
    BY DEF BuddyInv, MMTypeOK
  <2>2. free_lists' \in [Orders -> Seq(Memory)]
    BY <1>4 DEF Lists
  <2> QED
    BY <1>24, <2>1, <2>2 DEF MMTypeOK
<1> QED
  BY <1>4, <1>20, <1>21, <1>22, <1>23, <1>24, <1>25 DEF BuddyInv

LEMMA GiveKeeps ==
  ASSUME BuddyInv, NEW b \in held, put_block(b.start, OrderOf(b)), held' = held \ {b}
  PROVE  BuddyInv' /\ Gave(b)
<1>1. Lists /\ NoFreeBuddies /\ Apart(Tiles) /\ Covers(Tiles, Memory) /\ OneOwner
  BY DEF BuddyInv
<1>2. PICK order \in Orders, a \in Memory :
        order = OrderOf(b) /\ a = b.start /\ AlignedAt(a, order)
  BY HeldIn
<1> DEFINE old == <<order, a>>
<1>3. /\ old = TileOf(b) /\ old \in Tiles /\ old \in HeldTiles /\ old \notin Free
      /\ old[1] = order /\ old[2] = a /\ PagesOf(b) = PagesAt(old)
  BY <1>2, HeldIn DEF TileOf
<1>4. Apart(Free) /\ Apart(Free \union {old})
  BY <1>1, <1>3 DEF Apart, Tiles
<1>5. put_block(a, order)
  BY <1>2
<1>6. PICK top \in Orders, e \in Memory :
        /\ order <= top /\ e = Enclosing(a, top)
        /\ header' = [header EXCEPT ![e] = LINK]
        /\ Buddies(a, order, top) \subseteq Free
        /\ <<top, e>> \notin Free
        /\ Free' = (Free \ Buddies(a, order, top)) \union {<<top, e>>}
        /\ Lists' /\ NoFreeBuddies'
  BY <1>1, <1>2, <1>3, <1>4, <1>5, GiveTiles
<1> DEFINE R == Parts(a, order, top)
           N == {<<top, e>>}
           Q == Block(e, top)
<1>7. Apart(R) /\ Covers(R, Q)
  BY <1>2, <1>6, PartsTile
<1>8. a \in Nat /\ e \in Nat
  BY MemoryIs
<1>9. AlignedAt(e, top) /\ e \in Q /\ a \in Q
  BY <1>6, <1>8, EnclosingIs, BlockPages
<1>10. Apart(N) /\ Covers(N, Q)
  BY <1>9, OneTile
<1>11. R = Buddies(a, order, top) \union {old} /\ R \subseteq Tiles
  BY <1>3, <1>6 DEF Parts, Tiles
<1>12. <<top, e>>[1] = top /\ <<top, e>>[2] = e
  OBVIOUS
<1> HIDE DEF R, N, Q, old
\* Other owners are outside the block that is made.
<1>13. \A c \in held \ {b} : c.start \notin Q /\ TileOf(c) # old /\ TileOf(c) \notin R
  <2> SUFFICES ASSUME NEW c \in held \ {b}
               PROVE  c.start \notin Q /\ TileOf(c) # old /\ TileOf(c) \notin R
    OBVIOUS
  <2>1. c.start # b.start
    BY <1>1 DEF OneOwner
  <2>2. TileOf(c) # old
    BY <1>2, <1>3, <2>1, HeldIn
  <2>3. TileOf(c) \notin R
    BY <1>6, <1>11, <2>2, HeldIn
  <2>4. \A t \in R : c.start \notin PagesAt(t)
    BY <1>11, <2>3, HeldApart
  <2> QED
    BY <1>7, <2>2, <2>3, <2>4 DEF Covers
<1>14. \A c \in held \ {b} : OrderOf(c)' = OrderOf(c)
  <2> SUFFICES ASSUME NEW c \in held \ {b}
               PROVE  OrderOf(c)' = OrderOf(c)
    OBVIOUS
  <2>1. c.start \in Memory /\ c.start # e
    BY <1>9, <1>13, HeldIn
  <2>2. header'[c.start] = header[c.start]
    BY <1>6, <2>1 DEF BuddyInv, MMTypeOK
  <2> QED
    BY <2>2 DEF OrderOf
<1>15. HeldTiles' = HeldTiles \ {old}
  <2>1. \A c \in held \ {b} : TileOf(c)' = TileOf(c)
    BY <1>14 DEF TileOf
  <2> QED
    BY <1>3, <1>13, <2>1 DEF HeldTiles
<1>16. Tiles' = (Tiles \ R) \union N
  <2>1. HeldTiles \intersect Buddies(a, order, top) = {}
    BY <1>6 DEF BuddyInv
  <2>2. Free \ R = Free \ Buddies(a, order, top) /\ HeldTiles \ R = HeldTiles \ {old}
    BY <1>3, <1>11, <2>1
  <2> QED
    BY <1>6, <1>15, <2>2 DEF Tiles, N
<1>17. Apart(Tiles') /\ Covers(Tiles', Memory)
  BY <1>1, <1>7, <1>10, <1>11, <1>16, Retile
<1>18. Free' \intersect HeldTiles' = {}
  <2>1. <<top, e>> \notin HeldTiles'
    <3> SUFFICES ASSUME NEW c \in held \ {b}, <<top, e>> = TileOf(c)
                 PROVE  FALSE
      BY <1>3, <1>15 DEF HeldTiles
    <3>1. c.start = e
      BY <1>12, HeldIn
    <3> QED
      BY <1>9, <1>13, <3>1
  <2> QED
    BY <1>6, <1>15, <2>1 DEF BuddyInv
<1>19. OneOwner'
  BY <1>1, <1>14 DEF OneOwner
<1>20. Gave(b)
  BY <1>14 DEF Gave, put_block
<1>21. Counted' /\ free_bytes' \in Nat
  BY <1>20, CountsGiven
<1>22. MMTypeOK'
  <2>1. /\ held \subseteq [kind: {"page", "block"}, start: Memory, size: 0..(WORD - 1)]
        /\ header \in [Memory -> Orders \union {LINK}]
    BY DEF BuddyInv, MMTypeOK
  <2>2. free_lists' \in [Orders -> Seq(Memory)]
    BY <1>6 DEF Lists
  <2>3. header' \in [Memory -> Orders \union {LINK}]
    BY <1>6, <2>1
  <2> QED
    BY <1>21, <2>1, <2>2, <2>3 DEF MMTypeOK
<1> QED
  BY <1>6, <1>17, <1>18, <1>19, <1>20, <1>21, <1>22 DEF BuddyInv

-----------------------------------------------------------------------------
(* The steps. *)

\* get_block writes only in the block that it found.
LEMMA LinkedIs ==
  ASSUME BuddyInv, NEW order \in Nat, get_block(order)
  PROVE  /\ Found(order) \in Memory /\ order \in Orders
         /\ Linked(order) \in [Memory -> Orders \union {LINK}]
         /\ \A p \in Memory \ Block(Found(order), Min(Suitable(order))) :
              Linked(order)[p] = header[p]
         /\ Found(order) \in Block(Found(order), Min(Suitable(order)))
<1>1. Apart(Free) /\ \A t \in Free : PagesAt(t) \subseteq Memory
  BY TileIn DEF BuddyInv, Apart, Tiles
<1>2. PICK f \in Orders, b \in Memory :
        /\ f = Min(Suitable(order)) /\ b = Found(order)
        /\ order \in Orders /\ order <= f /\ AlignedAt(b, f)
  BY <1>1, TakeTiles DEF BuddyInv
<1>3. ASSUME NEW i \in order..(f - 1)
      PROVE  b + Span[i] \in Block(b, f)
  <2>1. i \in Orders /\ i < f /\ order <= f
    BY <1>2, Spans DEF Orders
  <2>2. PICK y : y = b + Span[i] /\ y = Buddy(Enclosing(b, i), i)
    BY <1>2, <2>1, UpperHalves
  <2>3. /\ Apart(Parts(b, order, f)) /\ Covers(Parts(b, order, f), Block(b, f))
    BY <1>2, AlignedBelow, PartsTile, EnclosingSelf
  <2>4. <<i, y>> \in Parts(b, order, f)
    BY <2>2 DEF Parts, Buddies
  <2>5. <<i, y>>[1] = i /\ <<i, y>>[2] = y
    OBVIOUS
  <2>6. y \in Nat /\ y \in PagesAt(<<i, y>>)
    BY <2>1, <2>3, <2>4, <2>5, AlignedNat, BlockPages DEF Apart, PagesAt
  <2>7. y \in Block(b, f)
    BY <2>3, <2>4, <2>6 DEF Covers
  <2> QED
    BY <2>2, <2>7
<1>4. header \in [Memory -> Orders \union {LINK}]
  BY DEF BuddyInv, MMTypeOK
<1>5. Linked(order) = [p \in Memory |-> IF \E k \in order..(f - 1) : p = b + Span[k]
                                          THEN LINK ELSE header[p]]
  BY <1>2 DEF Linked
<1>6. b \in Block(b, f)
  BY <1>2, MemoryIs, BlockPages
<1>7. Linked(order) \in [Memory -> Orders \union {LINK}]
  BY <1>4, <1>5
<1>8. \A p \in Memory \ Block(b, f) : Linked(order)[p] = header[p]
  BY <1>3, <1>5
<1> QED
  BY <1>2, <1>6, <1>7, <1>8

LEMMA OrderForIs ==
  ASSUME NEW size \in Sizes
  PROVE  /\ OrderFor(size) \in Nat /\ size \in 0..(WORD - 1)
         /\ OrderFor(size) \in Orders =>
              PAGE_SIZE * Span[OrderFor(size)] >= (size + HEADER) % WORD
<1> DEFINE I == {k \in 0..(MAX_ORDER + 1) :
                   k = MAX_ORDER + 1 \/ PAGE_SIZE * Span[k] >= (size + HEADER) % WORD}
<1>1. MAX_ORDER \in Nat
  BY Spans
<1>2. I \in SUBSET Nat /\ MAX_ORDER + 1 \in I
  BY <1>1
<1>3. OrderFor(size) = Min(I)
  BY DEF OrderFor
<1> HIDE DEF I
<1>4. OrderFor(size) \in I
  BY <1>2, <1>3, MinExists
<1>5. OrderFor(size) \in Orders => OrderFor(size) # MAX_ORDER + 1
  BY <1>1 DEF Orders
<1>6. size \in 0..(WORD - 1)
  BY BuddyAssumption
<1> QED
  BY <1>2, <1>4, <1>5, <1>6 DEF I

\* Who took a block, and what for.
Asked(order, r) ==
  /\ r \in [kind: {"page", "block"}, start: Memory, size: 0..(WORD - 1)]
  /\ r.kind = "block" => r.size \in Sizes /\ order = OrderFor(r.size)

LEMMA StepIs ==
  ASSUME BuddyInv, Next
  PROVE  /\ BuddyInv'
         /\ \/ \E order \in Orders : \E r : Took(order, r) /\ Asked(order, r)
            \/ \E b \in held : Gave(b)
<1> DEFINE Steps == \/ \E order \in Orders : \E r : Took(order, r) /\ Asked(order, r)
                    \/ \E b \in held : Gave(b)
<1>1. CASE allocate_page
  <2>1. get_block(0) /\ header' = Linked(0)
    BY <1>1 DEF allocate_page
  <2>2. PICK order \in {0} : order = 0
    OBVIOUS
  <2>3. order \in Nat /\ get_block(order)
    BY <2>1, <2>2
  <2>4. PICK r : r = [kind |-> "page", start |-> Found(order), size |-> PAGE_SIZE]
    OBVIOUS
  <2>5. held' = held \union {r}
    BY <1>1, <2>2, <2>4 DEF allocate_page
  <2>6. /\ r \in [kind: {"page", "block"}, start: Memory, size: 0..(WORD - 1)]
        /\ r.start = Found(order) /\ r.kind = "page"
    <3>1. PAGE_SIZE \in 0..(WORD - 1) /\ Found(order) \in Memory
      BY <2>3, LinkedIs, BuddyAssumption
    <3> QED
      BY <2>4, <3>1
  <2>7. /\ header' \in [Memory -> Orders \union {LINK}]
        /\ \A p \in Memory \ Block(Found(order), Min(Suitable(order))) :
             header'[p] = header[p]
    BY <2>1, <2>2, <2>3, LinkedIs
  <2>8. BuddyInv' /\ Took(order, r)
    BY <2>2, <2>3, <2>5, <2>6, <2>7, TakeKeeps
  <2>9. Asked(order, r) /\ order \in Orders
    BY <2>2, <2>6, Spans DEF Asked
  <2> QED
    BY <2>8, <2>9
<1>2. ASSUME NEW size \in Sizes, allocate_block(size)
      PROVE  BuddyInv' /\ Steps
  <2>1. PICK order \in Nat : order = OrderFor(size)
    BY OrderForIs
  <2>2. get_block(order) /\ header' = [Linked(order) EXCEPT ![Found(order)] = order]
    BY <1>2, <2>1 DEF allocate_block
  <2>3. PICK r : r = [kind |-> "block", start |-> Found(order), size |-> size]
    OBVIOUS
  <2>4. held' = held \union {r}
    BY <1>2, <2>1, <2>3 DEF allocate_block
  <2>5. /\ Found(order) \in Memory /\ order \in Orders
        /\ Linked(order) \in [Memory -> Orders \union {LINK}]
        /\ \A p \in Memory \ Block(Found(order), Min(Suitable(order))) :
             Linked(order)[p] = header[p]
        /\ Found(order) \in Block(Found(order), Min(Suitable(order)))
    BY <2>2, LinkedIs
  <2>6. /\ r \in [kind: {"page", "block"}, start: Memory, size: 0..(WORD - 1)]
        /\ r.start = Found(order) /\ r.kind = "block" /\ r.size = size
    <3>1. size \in 0..(WORD - 1)
      BY OrderForIs
    <3> QED
      BY <2>3, <2>5, <3>1
  <2>7. /\ header' \in [Memory -> Orders \union {LINK}]
        /\ \A p \in Memory \ Block(Found(order), Min(Suitable(order))) :
             header'[p] = header[p]
        /\ header'[r.start] = order
    BY <2>2, <2>5, <2>6
  <2>8. BuddyInv' /\ Took(order, r)
    BY <2>2, <2>4, <2>6, <2>7, TakeKeeps
  <2>9. Asked(order, r)
    BY <2>1, <2>6 DEF Asked
  <2> QED
    BY <2>5, <2>8, <2>9
<1>3. ASSUME NEW b \in held, free_page(b)
      PROVE  BuddyInv' /\ Steps
  <2>1. OrderOf(b) = 0 /\ put_block(b.start, OrderOf(b)) /\ held' = held \ {b}
    BY <1>3 DEF free_page, OrderOf
  <2> QED
    BY <2>1, GiveKeeps
<1>4. ASSUME NEW b \in held, free_block(b)
      PROVE  BuddyInv' /\ Steps
  <2>1. OrderOf(b) = header[b.start] /\ put_block(b.start, OrderOf(b)) /\ held' = held \ {b}
    BY <1>4 DEF free_block, OrderOf
  <2> QED
    BY <2>1, GiveKeeps
<1> QED
  BY <1>1, <1>2, <1>3, <1>4 DEF Next

LEMMA NextBuddy == BuddyInv /\ [Next]_mmVars => BuddyInv'
<1>1. ASSUME BuddyInv, UNCHANGED mmVars
      PROVE  BuddyInv'
  BY <1>1 DEF mmVars, BuddyInv, MMTypeOK, Lists, OneOwner, Tiles, Free, HeldTiles, TileOf,
     OrderOf, NoFreeBuddies, Counted, InUse, PagesOf
<1> QED
  BY <1>1, StepIs

-----------------------------------------------------------------------------
(* The initial lists. *)

LEMMA MultiplesApart ==
  ASSUME NEW k \in Orders, NEW x, NEW y, AlignedAt(x, k), AlignedAt(y, k), x < y
  PROVE  x + Span[k] <= y
<1>1. PICK m \in Nat : x = m * Span[k]
  BY DEF AlignedAt
<1>2. PICK n \in Nat : y = n * Span[k]
  BY DEF AlignedAt
<1>3. PICK s \in Nat \ {0} : s = Span[k]
  BY Spans
<1>4. m < n
  BY <1>1, <1>2, <1>3, Cancel
<1>5. m + 1 \in Nat /\ m + 1 <= n
  BY <1>4
<1>6. (m + 1) * s <= n * s /\ (m + 1) * s = m * s + s
  BY <1>3, <1>5, Products
<1> QED
  BY <1>1, <1>2, <1>3, <1>6

\* The list of an order covers the pages from Start to Stop.
Stop(k) == Enclosing(PAGES, k)
Start(k) == IF k = MAX_ORDER THEN 0 ELSE Stop(k + 1)

LEMMA StopIs ==
  ASSUME NEW k \in Orders
  PROVE  /\ Stop(k) \in Nat /\ AlignedAt(Stop(k), k) /\ Stop(k) <= PAGES
         /\ PAGES < Stop(k) + Span[k]
         /\ \A x : AlignedAt(x, k) /\ x <= PAGES => x <= Stop(k)
<1>1. PAGES \in Nat /\ Span[k] \in Nat
  BY MemoryIs, Spans
<1>2. /\ Stop(k) \in Nat /\ AlignedAt(Stop(k), k) /\ Stop(k) <= PAGES
      /\ PAGES < Stop(k) + Span[k]
  BY <1>1, EnclosingIs, BlockPages DEF Stop
<1>3. ASSUME NEW x, AlignedAt(x, k), x <= PAGES
      PROVE  x <= Stop(k)
  <2>1. x \in Nat
    BY <1>3, AlignedNat
  <2>2. Stop(k) < x => Stop(k) + Span[k] <= x
    BY <1>2, <1>3, MultiplesApart
  <2> QED
    BY <1>1, <1>2, <1>3, <2>1, <2>2
<1> QED
  BY <1>2, <1>3

LEMMA StartIs ==
  ASSUME NEW k \in Orders
  PROVE  Start(k) \in Nat /\ AlignedAt(Start(k), k) /\ Start(k) <= Stop(k)
<1>1. CASE k = MAX_ORDER
  <2>1. Start(k) = 0 * Span[k] /\ 0 \in Nat /\ Start(k) = 0
    BY <1>1, Spans DEF Start
  <2> QED
    BY <2>1, StopIs DEF AlignedAt
<1>2. CASE k # MAX_ORDER
  <2>1. k < MAX_ORDER /\ k + 1 \in Orders /\ k <= k + 1
    BY <1>2, Spans DEF Orders
  <2>2. Start(k) = Stop(k + 1)
    BY <1>2 DEF Start
  <2>3. AlignedAt(Stop(k + 1), k) /\ Stop(k + 1) <= PAGES /\ Stop(k + 1) \in Nat
    BY <2>1, StopIs, AlignedBelow
  <2> QED
    BY <2>2, <2>3, StopIs
<1> QED
  BY <1>1, <1>2

LEMMA InitList ==
  ASSUME Init, NEW k \in Orders
  PROVE  \E c \in Nat :
           /\ free_lists[k] = [j \in 1..c |-> Start(k) + (c - j) * Span[k]]
           /\ Stop(k) = Start(k) + c * Span[k]
           /\ k < MAX_ORDER => c <= 1
<1>1. PICK s \in Nat \ {0} : s = Span[k]
  BY Spans
<1>2. PAGES \in Nat
  BY MemoryIs
<1>3. PICK a \in Nat : a = Start(k) /\ AlignedAt(a, k) /\ a <= Stop(k)
  BY StartIs
<1>4. a <= PAGES /\ Stop(k) \in Nat
  BY <1>2, <1>3, StopIs
<1>5. PICK c \in Nat, r \in 0..(s - 1) : c = (PAGES - a) \div s /\ PAGES - a = c * s + r
  <2>1. PAGES - a \in Nat
    BY <1>2, <1>4
  <2> QED
    BY <1>1, <2>1, DivMod
<1>6. PICK z \in Nat : z = c * s
  BY <1>1, Products
<1>7. AlignedAt(a + z, k)
  <2>1. PICK m \in Nat : a = m * s
    BY <1>1, <1>3 DEF AlignedAt
  <2>2. (m + c) * s = m * s + c * s /\ m + c \in Nat
    BY <1>1, Products
  <2> QED
    BY <1>1, <1>6, <2>1, <2>2 DEF AlignedAt
<1>8. PAGES = a + z + r
  BY <1>2, <1>4, <1>5, <1>6
<1>9. Stop(k) = a + z
  <2>1. a + z \in Nat /\ a + z <= PAGES /\ PAGES < a + z + s
    BY <1>1, <1>8
  <2>2. PAGES \in Block(a + z, k)
    BY <1>1, <1>2, <2>1, BlockPages
  <2> QED
    BY <1>2, <1>7, <2>2, EnclosingIs DEF Stop
<1>10. ASSUME k < MAX_ORDER
       PROVE  c <= 1
  <2>1. k + 1 \in Orders /\ Span[k + 1] = 2 * s
    BY <1>1, <1>10, Spans
  <2>2. a = Stop(k + 1)
    BY <1>3, <1>10, Spans DEF Start, Orders
  <2>3. PAGES < a + 2 * s
    BY <2>1, <2>2, StopIs
  <2>4. c * s < 2 * s
    BY <1>1, <1>6, <1>8, <2>3
  <2>5. c < 2
    BY <1>1, <2>4, Cancel
  <2> QED
    BY <2>5
<1>11. free_lists[k] = [j \in 1..c |-> a + (c - j) * s]
  <2>1. a = IF k = MAX_ORDER THEN 0 ELSE PAGES - (PAGES % Span[k + 1])
    BY <1>3 DEF Start, Stop, Enclosing
  <2> QED
    BY <1>1, <1>5, <2>1 DEF Init
<1> QED
  BY <1>1, <1>3, <1>6, <1>9, <1>10, <1>11

LEMMA InitElements ==
  ASSUME Init, NEW k \in Orders
  PROVE  /\ free_lists[k] \in Seq(Memory) /\ Distinct(free_lists[k])
         /\ \A x : x \in Elements(free_lists[k]) <=>
                     AlignedAt(x, k) /\ Start(k) <= x /\ x < Stop(k)
         /\ k < MAX_ORDER => \A x, y \in Elements(free_lists[k]) : x = y
<1>1. PICK s \in Nat \ {0} : s = Span[k]
  BY Spans
<1>2. PICK a \in Nat : a = Start(k) /\ AlignedAt(a, k)
  BY StartIs
<1>3. PICK c \in Nat :
        /\ free_lists[k] = [j \in 1..c |-> a + (c - j) * s]
        /\ Stop(k) = a + c * s
        /\ k < MAX_ORDER => c <= 1
  BY <1>1, <1>2, InitList
<1>4. PICK g \in Nat : a = g * s
  BY <1>1, <1>2 DEF AlignedAt
<1>5. PAGES \in Nat /\ Stop(k) \in Nat /\ Stop(k) <= PAGES
  BY MemoryIs, StopIs
<1>6. Stop(k) = (g + c) * s
  BY <1>1, <1>3, <1>4, Products
<1>7. ASSUME NEW j \in 1..c
      PROVE  /\ a + (c - j) * s = (g + (c - j)) * s /\ g + (c - j) \in Nat
             /\ AlignedAt(a + (c - j) * s, k)
             /\ a <= a + (c - j) * s /\ a + (c - j) * s < Stop(k)
             /\ a + (c - j) * s \in Memory
  <2>1. PICK d \in Nat : d = c - j /\ d + 1 <= c
    OBVIOUS
  <2>2. PICK z \in Nat : z = d * s
    BY <1>1, Products
  <2>3. a + z = (g + d) * s /\ g + d \in Nat
    BY <1>1, <1>4, <2>2, Products
  <2>4. PICK w \in Nat : w = c * s
    BY <1>1, Products
  <2>5. z + s <= w
    <3>1. PICK n \in Nat : n = d + 1 /\ n <= c
      BY <2>1
    <3>2. n * s <= c * s /\ (d + 1) * s = d * s + s
      BY <1>1, <3>1, Products
    <3> QED
      BY <2>2, <2>4, <3>1, <3>2
  <2>6. a <= a + z /\ a + z < Stop(k) /\ a + z \in Nat
    <3>1. Stop(k) = a + w
      BY <1>3, <2>4
    <3> QED
      BY <2>5, <3>1
  <2>7. AlignedAt(a + z, k)
    BY <1>1, <2>3 DEF AlignedAt
  <2>8. a + z \in Memory
    BY <1>5, <2>6 DEF Memory
  <2> QED
    BY <2>1, <2>2, <2>3, <2>6, <2>7, <2>8
<1>8. free_lists[k] \in Seq(Memory) /\ Len(free_lists[k]) = c
  <2>1. free_lists[k] \in [1..c -> Memory]
    BY <1>3, <1>7
  <2>2. free_lists[k] \in Seq(Memory)
    BY <2>1, IsASeq
  <2>3. DOMAIN free_lists[k] = 1..Len(free_lists[k]) /\ Len(free_lists[k]) \in Nat
    BY <2>2, LenProperties
  <2>4. 1..Len(free_lists[k]) = 1..c
    BY <2>1, <2>3
  <2>5. Len(free_lists[k]) = c
    BY <2>3, <2>4
  <2> QED
    BY <2>2, <2>5
<1>9. \A j \in 1..c : free_lists[k][j] = a + (c - j) * s
  BY <1>3
<1>10. Distinct(free_lists[k])
  <2> SUFFICES ASSUME NEW i \in 1..c, NEW j \in 1..c, free_lists[k][i] = free_lists[k][j],
                      i < j
               PROVE  FALSE
    BY <1>8 DEF Distinct
  <2>1. PICK d \in Nat, e \in Nat : d = c - i /\ e = c - j /\ e + 1 <= d
    OBVIOUS
  <2>2. PICK y \in Nat, z \in Nat : y = d * s /\ z = e * s
    BY <1>1, Products
  <2>3. a + y = a + z
    BY <1>9, <2>1, <2>2
  <2>4. z + s <= y
    <3>1. PICK n \in Nat : n = e + 1 /\ n <= d
      BY <2>1
    <3>2. n * s <= d * s /\ (e + 1) * s = e * s + s
      BY <1>1, <3>1, Products
    <3> QED
      BY <2>2, <3>1, <3>2
  <2> QED
    BY <1>1, <2>2, <2>3, <2>4
<1>11. Elements(free_lists[k]) = {a + (c - j) * s : j \in 1..c}
  BY <1>8, <1>9 DEF Elements
<1>12. ASSUME NEW x, AlignedAt(x, k), a <= x, x < Stop(k)
       PROVE  x \in Elements(free_lists[k])
  <2>1. PICK m \in Nat : x = m * s
    BY <1>1, <1>12 DEF AlignedAt
  <2>2. m < g + c
    BY <1>1, <1>6, <1>12, <2>1, Cancel
  <2>3. g < m + 1
    <3>1. (m + 1) * s = m * s + s /\ m + 1 \in Nat /\ m * s \in Nat
      BY <1>1, Products
    <3>2. g * s < (m + 1) * s
      BY <1>1, <1>2, <1>4, <1>12, <2>1, <3>1
    <3> QED
      BY <1>1, <3>1, <3>2, Cancel
  <2>4. PICK j \in 1..c : j = c - (m - g)
    BY <2>2, <2>3
  <2>5. g + (c - j) = m
    BY <2>2, <2>3, <2>4
  <2>6. a + (c - j) * s = m * s
    BY <1>7, <2>5
  <2> QED
    BY <1>11, <2>1, <2>6
<1>13. \A x : x \in Elements(free_lists[k]) <=>
                AlignedAt(x, k) /\ Start(k) <= x /\ x < Stop(k)
  BY <1>2, <1>7, <1>11, <1>12
<1>14. ASSUME k < MAX_ORDER, NEW x \in Elements(free_lists[k]), NEW y \in Elements(free_lists[k])
       PROVE  x = y
  <2>1. \A i, j \in 1..c : i = j
    BY <1>3, <1>14
  <2> QED
    BY <1>11, <2>1
<1> QED
  BY <1>8, <1>10, <1>13, <1>14

LEMMA StopsFall ==
  ASSUME NEW j \in Orders, NEW k \in Orders, j <= k
  PROVE  Stop(k) <= Stop(j)
  BY StopIs, AlignedBelow

LEMMA InitBuddy == Init => BuddyInv
<1> SUFFICES ASSUME Init
             PROVE  BuddyInv
  OBVIOUS
<1>1. held = {} /\ HeldTiles = {} /\ InUse = {} /\ Tiles = Free
  BY DEF Init, HeldTiles, InUse, Tiles
<1>2. Lists
  <2>1. free_lists = [k \in Orders |-> free_lists[k]]
    BY DEF Init
  <2>2. free_lists \in [Orders -> Seq(Memory)]
    BY <2>1, InitElements
  <2> QED
    BY <2>2, InitElements DEF Lists
<1>3. \A t \in Free : /\ t = <<t[1], t[2]>> /\ t[1] \in Orders /\ t[2] \in Nat
                      /\ AlignedAt(t[2], t[1])
                      /\ Start(t[1]) <= t[2] /\ t[2] + Span[t[1]] <= Stop(t[1])
  <2> SUFFICES ASSUME NEW t \in Free
               PROVE  /\ t = <<t[1], t[2]>> /\ t[1] \in Orders /\ t[2] \in Nat
                      /\ AlignedAt(t[2], t[1])
                      /\ Start(t[1]) <= t[2] /\ t[2] + Span[t[1]] <= Stop(t[1])
    OBVIOUS
  <2>1. t = <<t[1], t[2]>> /\ t[1] \in Orders /\ t[2] \in Elements(free_lists[t[1]])
    BY DEF Free
  <2>2. PICK k \in Orders, x \in {t[2]} : k = t[1]
    BY <2>1
  <2>3. AlignedAt(x, k) /\ Start(k) <= x /\ x < Stop(k)
    BY <2>1, <2>2, InitElements
  <2>4. x + Span[k] <= Stop(k)
    BY <2>3, StopIs, MultiplesApart
  <2> QED
    BY <2>1, <2>2, <2>3, <2>4, AlignedNat
<1>4. \A k \in Orders : \A x : AlignedAt(x, k) /\ Start(k) <= x /\ x < Stop(k) => <<k, x>> \in Free
  BY <1>2, InitElements, FreeIs
<1>5. Apart(Free)
  <2>1. \A t, u \in Free : t[1] = u[1] /\ t # u => PagesAt(t) \intersect PagesAt(u) = {}
    <3> SUFFICES ASSUME NEW t \in Free, NEW u \in Free, t[1] = u[1], t # u
                 PROVE  PagesAt(t) \intersect PagesAt(u) = {}
      OBVIOUS
    <3>1. PICK k \in Orders, x \in Nat, y \in Nat :
            k = t[1] /\ k = u[1] /\ x = t[2] /\ y = u[2] /\ AlignedAt(x, k) /\ AlignedAt(y, k)
      BY <1>3
    <3>2. x # y
      BY <1>3, <3>1
    <3>3. x + Span[k] <= y \/ y + Span[k] <= x
      BY <3>1, <3>2, MultiplesApart
    <3>4. Block(x, k) \intersect Block(y, k) = {}
      <4>1. PICK s \in Nat : s = Span[k]
        BY Spans
      <4>2. /\ \A p \in Block(x, k) : p \in Nat /\ x <= p /\ p < x + s
            /\ \A p \in Block(y, k) : p \in Nat /\ y <= p /\ p < y + s
        BY <4>1, BlockPages
      <4>3. x + s <= y \/ y + s <= x
        BY <3>3, <4>1
      <4> QED
        BY <4>2, <4>3
    <3> QED
      BY <3>1, <3>4 DEF PagesAt
  <2>2. \A t, u \in Free : t[1] < u[1] => PagesAt(t) \intersect PagesAt(u) = {}
    <3> SUFFICES ASSUME NEW t \in Free, NEW u \in Free, t[1] < u[1]
                 PROVE  PagesAt(t) \intersect PagesAt(u) = {}
      OBVIOUS
    <3>1. PICK j \in Orders, k \in Orders, x \in Nat, y \in Nat :
            /\ j = t[1] /\ k = u[1] /\ x = t[2] /\ y = u[2]
            /\ Start(j) <= x /\ y + Span[k] <= Stop(k)
      BY <1>3
    <3>2. j < k /\ j # MAX_ORDER /\ j + 1 \in Orders /\ j + 1 <= k
      BY <3>1, Spans DEF Orders
    <3>3. Start(j) = Stop(j + 1) /\ Stop(k) <= Stop(j + 1)
      BY <3>2, StopsFall DEF Start
    <3>4. Stop(k) \in Nat /\ Stop(j + 1) \in Nat /\ Span[k] \in Nat /\ Span[j] \in Nat
      BY <3>2, StopIs, Spans
    <3>5. y + Span[k] <= x
      BY <3>1, <3>3, <3>4
    <3>6. Block(x, j) \intersect Block(y, k) = {}
      BY <3>4, <3>5, BlockPages
    <3> QED
      BY <3>1, <3>6 DEF PagesAt
  <2>3. Free \subseteq Orders \X Nat /\ \A t \in Free : t[1] \in Nat
    BY <1>3, Spans DEF Free
  <2>4. \A t, u \in Free : t[1] = u[1] \/ t[1] < u[1] \/ u[1] < t[1]
    BY <2>3
  <2> QED
    BY <1>3, <2>1, <2>2, <2>3, <2>4 DEF Apart
<1>6. Covers(Free, Memory)
  <2>1. ASSUME NEW t \in Free, NEW p \in PagesAt(t)
        PROVE  p \in Memory
    <3>1. PICK k \in Orders, x \in Nat :
            k = t[1] /\ x = t[2] /\ x + Span[k] <= Stop(k)
      BY <1>3
    <3>2. p \in Nat /\ p < x + Span[k]
      BY <2>1, <3>1, BlockPages DEF PagesAt
    <3>3. Stop(k) \in Nat /\ Stop(k) <= PAGES /\ PAGES \in Nat /\ Span[k] \in Nat
      BY StopIs, MemoryIs, Spans
    <3>4. p < PAGES
      BY <3>1, <3>2, <3>3
    <3> QED
      BY <3>2, <3>3, <3>4 DEF Memory
  <2>2. ASSUME NEW p \in Memory
        PROVE  \E t \in Free : p \in PagesAt(t)
    <3>1. p \in Nat /\ p < PAGES /\ PAGES \in Nat
      BY MemoryIs DEF Memory
    <3> DEFINE I == {k \in Orders : k = MAX_ORDER \/ Stop(k + 1) <= p}
    <3>2. I \in SUBSET Nat /\ MAX_ORDER \in I
      BY Spans
    <3> HIDE DEF I
    <3>3. PICK k \in I : \A i \in I : k <= i
      BY <3>2, Least
    <3>4. k \in Orders /\ k \in Nat /\ k <= MAX_ORDER /\ MAX_ORDER \in Nat
      BY <3>2, <3>3, Spans DEF I, Orders
    <3>5. Start(k) <= p
      BY <3>1, <3>3 DEF I, Start
    <3>6. p < Stop(k)
      <4>1. CASE k = 0
        <5>1. PAGES = PAGES * Span[0]
          BY <3>1, Spans
        <5>2. AlignedAt(PAGES, 0)
          BY <3>1, <5>1 DEF AlignedAt
        <5>3. Stop(0) = PAGES
          BY <5>2, Spans, EnclosingSelf DEF Stop
        <5> QED
          BY <3>1, <4>1, <5>3
      <4>2. CASE k # 0
        <5>1. k - 1 \in Orders /\ k - 1 # MAX_ORDER /\ ~(k <= k - 1) /\ (k - 1) + 1 = k
          BY <3>4, <4>2 DEF Orders
        <5>2. k - 1 \notin I
          BY <3>3, <5>1
        <5>3. ~(Stop(k) <= p)
          BY <5>1, <5>2 DEF I
        <5> QED
          BY <3>1, <3>4, <5>3, StopIs
      <4> QED
        BY <4>1, <4>2
    <3>7. PICK x \in Nat : x = Enclosing(p, k) /\ AlignedAt(x, k) /\ p \in Block(x, k) /\ x <= p
      BY <3>1, <3>4, EnclosingIs
    <3>8. x < Stop(k)
      BY <3>1, <3>4, <3>6, <3>7, StopIs
    <3>9. Start(k) <= x
      <4>1. Start(k) \in Nat /\ AlignedAt(Start(k), k) /\ Span[k] \in Nat
        BY <3>4, StartIs, Spans
      <4>2. p < x + Span[k]
        BY <3>4, <3>7, BlockPages
      <4>3. x < Start(k) => x + Span[k] <= Start(k)
        BY <3>4, <3>7, <4>1, MultiplesApart
      <4> QED
        BY <3>1, <3>5, <3>7, <4>1, <4>2, <4>3
    <3>10. <<k, x>> \in Free
      BY <1>4, <3>4, <3>7, <3>8, <3>9
    <3>11. <<k, x>>[1] = k /\ <<k, x>>[2] = x
      OBVIOUS
    <3> QED
      BY <3>7, <3>10, <3>11 DEF PagesAt
  <2> QED
    BY <2>1, <2>2 DEF Covers
<1>7. NoFreeBuddies
  <2> SUFFICES ASSUME NEW k \in Orders, NEW a \in Nat, k < MAX_ORDER,
                      <<k, a>> \in Free, <<k, Buddy(a, k)>> \in Free
               PROVE  FALSE
    BY DEF NoFreeBuddies
  <2>1. a \in Elements(free_lists[k]) /\ Buddy(a, k) \in Elements(free_lists[k])
    BY <1>2, FreeIs
  <2>2. a = Buddy(a, k) /\ AlignedAt(a, k)
    BY <2>1, InitElements
  <2> QED
    BY <2>2, Halves
<1>8. Counted /\ free_bytes \in Nat
  <2>1. Memory \ InUse = Memory
    BY <1>1
  <2>2. PAGES \in Nat /\ PAGE_SIZE \in Nat /\ Cardinality(Memory) = PAGES
    BY MemoryIs, BuddyAssumption
  <2>3. free_bytes = PAGES * PAGE_SIZE
    BY DEF Init
  <2>4. PAGES * PAGE_SIZE = PAGE_SIZE * PAGES /\ PAGES * PAGE_SIZE \in Nat
    BY <2>2
  <2> QED
    BY <2>1, <2>2, <2>3, <2>4 DEF Counted
<1>9. MMTypeOK
  BY <1>1, <1>2, <1>8 DEF MMTypeOK, Lists, Init
<1>10. OneOwner
  BY <1>1 DEF OneOwner
<1> QED
  BY <1>1, <1>2, <1>5, <1>6, <1>7, <1>8, <1>9, <1>10 DEF BuddyInv

-----------------------------------------------------------------------------
(* The theorems. *)

\* The variables keep their types.
THEOREM BuddyTypeCorrect == Spec => []MMTypeOK
<1>1. BuddyInv => MMTypeOK
  BY DEF BuddyInv
<1> QED
  BY <1>1, InitBuddy, NextBuddy, PTL DEF Spec

\* Each page is of one list node or of one owner, and only of one.
LEMMA OnePlace ==
  ASSUME BuddyInv, NEW p \in Memory
  PROVE  Cardinality({n \in Nodes : p \in NodePages(n)})
           + Cardinality({b \in held : p \in PagesOf(b)}) = 1
<1>1. PICK t \in Tiles : p \in PagesAt(t)
  BY DEF BuddyInv, Covers
<1>2. \A u \in Tiles : p \in PagesAt(u) => u = t
  BY <1>1 DEF BuddyInv, Apart
<1>3. \A b \in held : p \in PagesOf(b) => TileOf(b) = t
  BY <1>2, HeldIn
<1>4. Lists
  BY DEF BuddyInv
<1>5. \A n \in Nodes : /\ n = <<n[1], n[2]>> /\ n[1] \in Orders
                       /\ n[2] \in 1..Len(free_lists[n[1]])
  BY DEF Nodes
<1>6. \A k \in Orders : \A i \in 1..Len(free_lists[k]) : <<k, free_lists[k][i]>> \in Free
  BY <1>4, FreeIs DEF Elements
<1>7. \A n \in Nodes : p \in NodePages(n) => <<n[1], free_lists[n[1]][n[2]]>> = t
  <2> SUFFICES ASSUME NEW n \in Nodes, p \in NodePages(n)
               PROVE  <<n[1], free_lists[n[1]][n[2]]>> = t
    OBVIOUS
  <2>1. PICK u : u = <<n[1], free_lists[n[1]][n[2]]>>
    OBVIOUS
  <2>2. u[1] = n[1] /\ u[2] = free_lists[n[1]][n[2]] /\ u \in Tiles
    BY <1>5, <1>6, <2>1 DEF Tiles
  <2>3. p \in PagesAt(u)
    BY <2>2 DEF PagesAt, NodePages
  <2> QED
    BY <1>2, <2>1, <2>2, <2>3
<1>8. CASE t \in Free
  <2>1. {b \in held : p \in PagesOf(b)} = {}
    BY <1>3, <1>8, HeldIn
  <2>2. t = <<t[1], t[2]>> /\ t[1] \in Orders /\ t[2] \in Elements(free_lists[t[1]])
    BY <1>8 DEF Free
  <2>3. PICK i \in 1..Len(free_lists[t[1]]) : t[2] = free_lists[t[1]][i]
    BY <2>2 DEF Elements
  <2>4. PICK m : m = <<t[1], i>>
    OBVIOUS
  <2>5. m \in Nodes /\ p \in NodePages(m)
    BY <1>1, <2>2, <2>3, <2>4 DEF Nodes, NodePages, PagesAt
  <2>6. ASSUME NEW n \in Nodes, p \in NodePages(n)
        PROVE  n = m
    <3>1. n = <<n[1], n[2]>> /\ n[1] = t[1] /\ free_lists[t[1]][n[2]] = t[2]
          /\ n[2] \in 1..Len(free_lists[t[1]])
      BY <1>5, <1>7, <2>2, <2>6
    <3>2. n[2] = i
      BY <1>4, <2>2, <2>3, <3>1 DEF Lists, Distinct
    <3> QED
      BY <2>4, <3>1, <3>2
  <2>7. {n \in Nodes : p \in NodePages(n)} = {m}
    BY <2>5, <2>6
  <2>8. Cardinality({n \in Nodes : p \in NodePages(n)}) = 1
    BY <2>7, FS_Singleton
  <2>9. Cardinality({b \in held : p \in PagesOf(b)}) = 0
    BY <2>1, FS_EmptySet
  <2> QED
    BY <2>8, <2>9
<1>9. CASE t \in HeldTiles
  <2>1. PICK c \in held : t = TileOf(c)
    BY <1>9 DEF HeldTiles
  <2>2. p \in PagesOf(c)
    BY <1>1, <2>1, HeldIn
  <2>3. \A b \in held : p \in PagesOf(b) => b = c
    BY <1>3, <2>1, HeldIn DEF BuddyInv, OneOwner
  <2>4. {b \in held : p \in PagesOf(b)} = {c}
    BY <2>2, <2>3
  <2>5. {n \in Nodes : p \in NodePages(n)} = {}
    BY <1>5, <1>6, <1>7, <2>1, HeldIn
  <2>6. Cardinality({b \in held : p \in PagesOf(b)}) = 1
    BY <2>4, FS_Singleton
  <2>7. Cardinality({n \in Nodes : p \in NodePages(n)}) = 0
    BY <2>5, FS_EmptySet
  <2> QED
    BY <2>6, <2>7
<1> QED
  BY <1>8, <1>9 DEF Tiles

\* Through every split and merge, in every order of requests: no page is lost,
\* none is given twice, and free_bytes counts the free ones.
THEOREM BuddyPartitions == Spec => []Partition
<1>1. BuddyInv => Partition
  BY OnePlace DEF BuddyInv, Counted, InUse, Partition
<1> QED
  BY <1>1, InitBuddy, NextBuddy, PTL DEF Spec

LEMMA EmptyHasNone == Elements(<<>>) = {}
<1>1. Len(<<>>) = 0
  BY EmptySeq
<1> QED
  BY <1>1 DEF Elements

\* A smallest free block of a free aligned run would have its buddy in the run:
\* free, so they would have merged, or of a free block that contains both.
LEMMA NoFitMissed == BuddyInv => FailsOnlyIfNoFit
<1> SUFFICES ASSUME BuddyInv, NEW order \in Orders, Suitable(order) = {},
                    NEW a \in Memory, a % Span[order] = 0, Block(a, order) \subseteq Memory,
                    \A b \in held : Block(a, order) \intersect PagesOf(b) = {}
             PROVE  FALSE
  BY DEF FailsOnlyIfNoFit
<1>1. PICK s \in Nat \ {0} : s = Span[order]
  BY Spans
<1>2. a \in Nat /\ order \in Nat /\ MAX_ORDER \in Nat /\ order <= MAX_ORDER
  BY MemoryIs, Spans DEF Orders
<1>3. AlignedAt(a, order)
  <2>1. a \div s \in Nat /\ a = (a \div s) * s + (a % s)
    BY <1>1, <1>2, DivMod
  <2>2. a % s = 0 /\ (a \div s) * s \in Nat
    BY <1>1, <2>1, Products
  <2>3. a = (a \div s) * s
    BY <2>1, <2>2
  <2> QED
    BY <1>1, <2>1, <2>3 DEF AlignedAt
<1>4. Lists /\ Apart(Tiles) /\ NoFreeBuddies
  BY DEF BuddyInv
<1>5. \A k \in Orders : \A x : <<k, x>> \in Free => k < order
  <2> SUFFICES ASSUME NEW k \in Orders, NEW x, <<k, x>> \in Free, order <= k
               PROVE  FALSE
    BY <1>2, Spans
  <2>1. k \in order..MAX_ORDER
    BY <1>2 DEF Orders
  <2>2. free_lists[k] = <<>>
    BY <2>1 DEF Suitable
  <2>3. x \in Elements(free_lists[k])
    BY <1>4, FreeIs
  <2> QED
    BY <2>2, <2>3, EmptyHasNone
<1>6. \A k \in Orders : \A x : <<k, x>> \in Free =>
        x \in Nat /\ AlignedAt(x, k) /\ PagesAt(<<k, x>>) = Block(x, k) /\ <<k, x>> \in Tiles
  <2>1. \A k, x : <<k, x>>[1] = k /\ <<k, x>>[2] = x
    OBVIOUS
  <2>2. \A k, x : <<k, x>> \in Free => <<k, x>> \in Tiles
    BY DEF Tiles
  <2> QED
    BY <2>1, <2>2, TileIn DEF PagesAt
<1>7. ASSUME NEW p \in Block(a, order)
      PROVE  \E k \in Orders : \E x \in Nat :
               /\ <<k, x>> \in Free /\ p \in Block(x, k)
               /\ Block(x, k) \subseteq Block(a, order)
  <2>1. PICK t \in Tiles : p \in PagesAt(t)
    BY DEF BuddyInv, Covers
  <2>2. t \notin HeldTiles
    <3> SUFFICES ASSUME NEW b \in held, t = TileOf(b)
                 PROVE  FALSE
      BY DEF HeldTiles
    <3>1. p \in PagesOf(b)
      BY <2>1, HeldIn
    <3> QED
      BY <3>1
  <2>3. t \in Free /\ t = <<t[1], t[2]>> /\ t[1] \in Orders /\ t[2] \in Nat
    BY <2>1, <2>2, TileIn DEF Tiles
  <2>4. PICK k \in Orders, x \in Nat : t = <<k, x>> /\ <<k, x>> \in Free
    BY <2>3
  <2>5. p \in Block(x, k) /\ AlignedAt(x, k)
    BY <1>6, <2>1, <2>4
  <2>6. k <= order
    BY <1>2, <1>5, <2>4, Spans
  <2>7. Block(x, k) \subseteq Block(a, order)
    BY <1>3, <2>5, <2>6, InsideOrApart
  <2> QED
    BY <2>4, <2>5, <2>7
<1> DEFINE In(k, x) == <<k, x>> \in Free /\ Block(x, k) \subseteq Block(a, order)
           I == {k \in Orders : \E x \in Nat : In(k, x)}
<1>8. I \in SUBSET Nat /\ I # {}
  <2>1. a \in Block(a, order)
    BY <1>2, BlockPages
  <2> QED
    BY <1>7, <2>1, Spans
<1> HIDE DEF I
<1>9. PICK j \in I : \A i \in I : j <= i
  BY <1>8, Least
<1>10. PICK x \in Nat : In(j, x)
  BY <1>9 DEF I
<1>11. j \in Orders /\ j < order /\ j < MAX_ORDER /\ j + 1 \in Orders /\ j + 1 <= order
       /\ j \in Nat
  <2>1. j \in Orders
    BY <1>9 DEF I
  <2>2. j < order /\ j \in Nat
    BY <1>5, <1>10, <2>1, Spans
  <2> QED
    BY <1>2, <2>1, <2>2, Spans
<1>12. AlignedAt(x, j)
  BY <1>6, <1>10, <1>11
<1>13. PICK e : /\ e = Enclosing(x, j + 1) /\ AlignedAt(e, j + 1)
                /\ AlignedAt(Buddy(x, j), j)
  BY <1>11, <1>12, BuddyIs
<1>14. PICK y \in Nat : y = Buddy(x, j) /\ AlignedAt(y, j)
  BY <1>11, <1>13, AlignedNat
<1>15. x \in Block(e, j + 1) /\ y \in Block(e, j + 1)
  BY <1>11, <1>12, <1>13, <1>14, Halves, BlockPages
<1>16. x \in Block(x, j) /\ x \in Block(a, order)
  BY <1>10, <1>11, BlockPages
<1>17. Block(e, j + 1) \subseteq Block(a, order)
  BY <1>3, <1>11, <1>13, <1>15, <1>16, InsideOrApart
<1>18. PICK i \in Orders, c \in Nat :
         <<i, c>> \in Free /\ y \in Block(c, i) /\ Block(c, i) \subseteq Block(a, order)
  BY <1>7, <1>15, <1>17
<1>19. AlignedAt(c, i) /\ j <= i /\ i \in Nat
  BY <1>6, <1>9, <1>18, Spans DEF I
<1>20. CASE i = j
  <2>1. c = y
    BY <1>11, <1>14, <1>18, <1>19, <1>20, EnclosingIs, EnclosingSelf
  <2> QED
    BY <1>4, <1>10, <1>11, <1>14, <1>18, <1>20, <2>1 DEF NoFreeBuddies
<1>21. CASE j + 1 <= i
  <2>1. Block(e, j + 1) \subseteq Block(c, i)
    BY <1>11, <1>13, <1>15, <1>18, <1>19, <1>21, InsideOrApart
  <2>2. x \in Block(c, i)
    BY <1>15, <2>1
  <2>3. <<j, x>> # <<i, c>>
    BY <1>11, <1>21
  <2>4. /\ x \in PagesAt(<<j, x>>) /\ x \in PagesAt(<<i, c>>)
        /\ <<j, x>> \in Tiles /\ <<i, c>> \in Tiles
    BY <1>6, <1>10, <1>11, <1>16, <1>18, <2>2
  <2> QED
    BY <1>4, <2>3, <2>4 DEF Apart
<1> QED
  BY <1>11, <1>19, <1>20, <1>21

\* A request fails only if every aligned run of its size has a page in use.
THEOREM BuddyFindsFit == Spec => []FailsOnlyIfNoFit
  BY NoFitMissed, InitBuddy, NextBuddy, PTL DEF Spec

-----------------------------------------------------------------------------
(* Sizes. *)

\* Requests so small that the sum of allocate_block does not wrap around.
NoWrap == \A size \in Sizes : size + HEADER < WORD

LargeEnough ==
  \A b \in held : b.kind = "block" => PAGE_SIZE * Span[OrderOf(b)] >= b.size + HEADER

LEMMA NextLarge ==
  ASSUME NoWrap, BuddyInv, LargeEnough, [Next]_mmVars
  PROVE  LargeEnough'
<1>1. CASE UNCHANGED mmVars
  BY <1>1 DEF mmVars, LargeEnough, OrderOf
<1>2. ASSUME NEW order \in Orders, NEW r, Took(order, r), Asked(order, r)
      PROVE  LargeEnough'
  <2>1. r.kind = "block" => PAGE_SIZE * Span[order] >= r.size + HEADER
    <3> SUFFICES ASSUME r.kind = "block"
                 PROVE  PAGE_SIZE * Span[order] >= r.size + HEADER
      OBVIOUS
    <3>1. PICK size \in Sizes : size = r.size /\ order = OrderFor(size)
      BY <1>2 DEF Asked
    <3>2. PAGE_SIZE * Span[order] >= (size + HEADER) % WORD
      BY <3>1, OrderForIs
    <3>3. size + HEADER \in Nat /\ size + HEADER < WORD /\ WORD \in Nat
      <4>1. size \in 0..(WORD - 1) /\ HEADER \in Nat /\ WORD \in Nat
        BY OrderForIs, BuddyAssumption
      <4> QED
        BY <4>1 DEF NoWrap
    <3>4. (size + HEADER) % WORD = size + HEADER
      BY <3>3
    <3> QED
      BY <3>1, <3>2, <3>4
  <2>2. /\ held' = held \union {r} /\ OrderOf(r)' = order
        /\ \A c \in held : OrderOf(c)' = OrderOf(c)
    BY <1>2 DEF Took
  <2>3. ASSUME NEW b \in held', b.kind = "block"
        PROVE  PAGE_SIZE * Span[OrderOf(b)'] >= b.size + HEADER
    BY <2>1, <2>2, <2>3 DEF LargeEnough
  <2> QED
    BY <2>3 DEF LargeEnough
<1>3. ASSUME NEW b \in held, Gave(b)
      PROVE  LargeEnough'
  BY <1>3 DEF Gave, LargeEnough
<1> QED
  BY <1>1, <1>2, <1>3, StepIs

\* malloc returns blocks with room for what was asked and the header, as long as
\* no size is so near 2^w that the sum wraps around.
THEOREM BuddyBlocksAreLargeEnough ==
  ASSUME NoWrap
  PROVE  Spec => []BlockHoldsRequest
<1>1. Init => LargeEnough
  BY DEF Init, LargeEnough
<1>2. BuddyInv /\ LargeEnough => BlockHoldsRequest
  <2> SUFFICES ASSUME BuddyInv, LargeEnough, NEW b \in held, b.kind = "block"
               PROVE  Cardinality(PagesOf(b)) * PAGE_SIZE >= b.size + HEADER
    BY DEF BlockHoldsRequest
  <2>1. PICK k \in Orders, x \in Nat : k = OrderOf(b) /\ x = b.start /\ PagesOf(b) = Block(x, k)
    BY HeldIn, MemoryIs
  <2>2. PICK n \in Nat : n = Cardinality(PagesOf(b)) /\ n = Span[OrderOf(b)]
    BY <2>1, BlockPages, Spans
  <2>3. PAGE_SIZE \in Nat /\ PAGE_SIZE * n >= b.size + HEADER
    BY <2>2, BuddyAssumption DEF LargeEnough
  <2>4. PAGE_SIZE * n = n * PAGE_SIZE
    BY <2>3
  <2> QED
    BY <2>2, <2>3, <2>4
<1>3. BuddyInv /\ LargeEnough /\ [Next]_mmVars => (BuddyInv /\ LargeEnough)'
  BY NextBuddy, NextLarge
<1> QED
  BY <1>1, <1>2, <1>3, InitBuddy, PTL DEF Spec

-----------------------------------------------------------------------------
(* The abstract allocator. *)

LEMMA SameCardinality == \A S : Allocator!Cardinality(S) = Cardinality(S)
  BY DEF Allocator!Cardinality, Cardinality, Allocator!IsFiniteSet, IsFiniteSet

\* get_mem_stats in pages, before and after a step.
LEMMA FreePages ==
  ASSUME NEW n \in Nat, NEW s \in Nat, NEW before, NEW after,
         before = PAGE_SIZE * n, NEW m \in Nat, after = PAGE_SIZE * m
  PROVE  /\ before \div PAGE_SIZE = n /\ after \div PAGE_SIZE = m
         /\ after = before - PAGE_SIZE * s => m = n - s
         /\ after = before + PAGE_SIZE * s => m = n + s
<1>1. PICK P \in Nat \ {0} : P = PAGE_SIZE
  BY BuddyAssumption
<1>2. \A x \in Nat : (P * x) \div P = x
  <2> SUFFICES ASSUME NEW x \in Nat
               PROVE  (P * x) \div P = x
    OBVIOUS
  <2>1. P * x \in Nat /\ P * x = x * P + 0 /\ 0 \in 0..(P - 1)
    OBVIOUS
  <2> QED
    BY <2>1, QuotientIs
<1>3. \A x, y \in Nat : P * x = P * y => x = y
  BY <1>2
<1>4. ASSUME after = before - PAGE_SIZE * s
      PROVE  m = n - s
  <2>1. P * (m + s) = P * m + P * s
    OBVIOUS
  <2>2. P * m = P * n - P * s
    BY <1>1, <1>4
  <2>3. P * m \in Nat /\ P * n \in Nat /\ P * s \in Nat
    OBVIOUS
  <2>4. P * (m + s) = P * n
    BY <2>1, <2>2, <2>3
  <2>5. m + s = n
    <3>1. PICK w \in Nat : w = m + s
      OBVIOUS
    <3> QED
      BY <1>3, <2>4, <3>1
  <2> QED
    BY <2>5
<1>5. ASSUME after = before + PAGE_SIZE * s
      PROVE  m = n + s
  <2>1. P * (n + s) = P * n + P * s
    OBVIOUS
  <2>2. P * m = P * (n + s)
    BY <1>1, <1>5, <2>1
  <2>3. PICK w \in Nat : w = n + s
    OBVIOUS
  <2> QED
    BY <1>3, <2>2, <2>3
<1> QED
  BY <1>1, <1>2, <1>4, <1>5

LEMMA CountIs ==
  ASSUME BuddyInv
  PROVE  \E n \in Nat : free_bytes = PAGE_SIZE * n
<1>1. IsFiniteSet(Memory \ InUse)
  BY MemoryIs, FS_Subset
<1>2. Cardinality(Memory \ InUse) \in Nat
  BY <1>1, FS_CardinalityType
<1> QED
  BY <1>2 DEF BuddyInv, Counted

LEMMA StepImplements ==
  ASSUME BuddyInv, [Next]_mmVars
  PROVE  [Allocator!Next]_<<{PagesOf(b) : b \in held}, free_bytes \div PAGE_SIZE>>
<1>1. CASE UNCHANGED mmVars
  BY <1>1 DEF mmVars, PagesOf, OrderOf
<1>2. PICK n \in Nat : free_bytes = PAGE_SIZE * n
  BY CountIs
<1>3. ASSUME Next
      PROVE  \E m \in Nat : free_bytes' = PAGE_SIZE * m
  <2>1. Counted' /\ IsFiniteSet(Memory \ InUse')
    BY <1>3, StepIs, MemoryIs, FS_Subset DEF BuddyInv
  <2>2. Cardinality(Memory \ InUse') \in Nat
    BY <2>1, FS_CardinalityType
  <2> QED
    BY <2>1, <2>2 DEF Counted
<1>4. ASSUME Next, NEW order \in Orders, NEW r, Took(order, r)
      PROVE  Allocator!Next
  <2>1. PICK m \in Nat : free_bytes' = PAGE_SIZE * m
    BY <1>3, <1>4
  <2>2. PICK B : B = Block(r.start, order)
    OBVIOUS
  <2>3. PICK a \in Nat, s \in Nat : a = r.start /\ s = Span[order] /\ s # 0
    BY <1>4, Spans DEF Took
  <2>4. a \in B /\ a + s - 1 \in B /\ Cardinality(B) = s /\ B = a..(a + s - 1)
    BY <2>2, <2>3, BlockPages DEF Block
  <2>5. B \subseteq Memory \ InUse /\ free_bytes' = free_bytes - PAGE_SIZE * s
    BY <1>4, <2>2, <2>3 DEF Took
  <2>6. B \in Allocator!Runs
    BY <2>4, <2>5 DEF Allocator!Runs
  <2>7. {PagesOf(b) : b \in held}' = {PagesOf(b) : b \in held} \union {B}
    <3>1. \A c \in held : PagesOf(c)' = PagesOf(c)
      BY <1>4 DEF Took, PagesOf
    <3>2. PagesOf(r)' = B /\ held' = held \union {r}
      BY <1>4, <2>2 DEF Took, PagesOf
    <3> QED
      BY <3>1, <3>2
  <2>8. (free_bytes \div PAGE_SIZE)' = free_bytes \div PAGE_SIZE - Cardinality(B)
    <3>1. free_bytes' = free_bytes - PAGE_SIZE * s
      BY <2>5
    <3>2. /\ free_bytes \div PAGE_SIZE = n /\ free_bytes' \div PAGE_SIZE = m
          /\ m = n - s
      BY <1>2, <2>1, <2>3, <3>1, FreePages
    <3> QED
      BY <2>4, <3>2
  <2>9. \A p \in B : p \in Memory /\ \A c \in {PagesOf(b) : b \in held} : p \notin c
    BY <2>5 DEF InUse
  <2> QED
    BY <2>6, <2>7, <2>8, <2>9, SameCardinality DEF Allocator!Next, Allocator!Allocate
<1>5. ASSUME Next, NEW b \in held, Gave(b)
      PROVE  Allocator!Next
  <2>1. PICK m \in Nat : free_bytes' = PAGE_SIZE * m
    BY <1>3, <1>5
  <2>2. PICK B : B = PagesOf(b)
    OBVIOUS
  <2>3. PICK k \in Orders, a \in Nat, s \in Nat :
          k = OrderOf(b) /\ a = b.start /\ s = Span[k] /\ B = Block(a, k) /\ B \subseteq Memory
    BY <2>2, HeldIn, MemoryIs, Spans
  <2>4. a \in B /\ a + s - 1 \in B /\ Cardinality(B) = s /\ B = a..(a + s - 1)
    BY <2>3, BlockPages DEF Block
  <2>5. B \in Allocator!Runs
    BY <2>3, <2>4 DEF Allocator!Runs
  <2>6. {PagesOf(c) : c \in held}' = {PagesOf(c) : c \in held} \ {B}
    <3>1. \A c \in held \ {b} : PagesOf(c)' = PagesOf(c) /\ PagesOf(c) # B
      <4> SUFFICES ASSUME NEW c \in held \ {b}
                   PROVE  PagesOf(c)' = PagesOf(c) /\ PagesOf(c) # B
        OBVIOUS
      <4>1. b.start # c.start
        BY DEF BuddyInv, OneOwner
      <4>2. TileOf(b) # TileOf(c) /\ TileOf(b) \in Tiles /\ B = PagesAt(TileOf(b))
        BY <2>2, <4>1, HeldIn
      <4>3. PagesOf(c) \intersect B = {}
        BY <4>2, HeldApart
      <4> QED
        BY <1>5, <2>4, <4>3 DEF Gave, PagesOf
    <3>2. held' = held \ {b}
      BY <1>5 DEF Gave
    <3> QED
      BY <2>2, <3>1, <3>2
  <2>7. (free_bytes \div PAGE_SIZE)' = free_bytes \div PAGE_SIZE + Cardinality(B)
    <3>1. free_bytes' = free_bytes + PAGE_SIZE * s
      BY <1>5, <2>3 DEF Gave
    <3> QED
      BY <1>2, <2>1, <2>4, <3>1, FreePages
  <2>8. B \in {PagesOf(c) : c \in held}
    BY <2>2
  <2> QED
    BY <2>5, <2>6, <2>7, <2>8, SameCardinality DEF Allocator!Next, Allocator!Release
<1> QED
  BY <1>1, <1>4, <1>5, StepIs

\* Every execution of the manager is one of the abstract allocator.
THEOREM BuddyImplements == Spec => ImplementsAllocator
<1>1. Init => Allocator!Init
  <2> SUFFICES ASSUME Init
               PROVE  Allocator!Init
    OBVIOUS
  <2>1. held = {} /\ {PagesOf(b) : b \in held} = {}
    BY DEF Init
  <2>2. PICK n \in Nat, P \in Nat : n = PAGES /\ P = PAGE_SIZE /\ free_bytes = P * n
    <3>1. PAGES \in Nat /\ PAGE_SIZE \in Nat /\ free_bytes = PAGES * PAGE_SIZE
      BY BuddyAssumption DEF Init
    <3> QED
      BY <3>1
  <2>3. free_bytes \div PAGE_SIZE = PAGES
    BY <2>2, FreePages
  <2> QED
    BY <2>1, <2>3, MemoryIs, SameCardinality DEF Allocator!Init
<1> QED
  BY <1>1, InitBuddy, NextBuddy, StepImplements, PTL
     DEF Spec, ImplementsAllocator, Allocator!Spec

==============================================================================
