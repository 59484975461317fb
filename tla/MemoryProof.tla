---------------------------- MODULE MemoryProof ----------------------------
(***************************************************************************)
(* Proofs about memory allocation: the heap first, then the page pool it   *)
(* is built on.  Each has its inductive invariant and its theorems.        *)
(***************************************************************************)
EXTENDS MCPalloc, FiniteSetTheorems, TLAPS
-----------------------------------------------------------------------------
(***************************************************************************)
(* Addresses and pages.                                                    *)
(***************************************************************************)
\* A division is determined by its quotient and remainder.
LEMMA Quotient ==
  ASSUME NEW B \in Nat \ {0}, NEW q \in Nat, NEW r \in 0 .. B - 1, NEW n \in Nat, n = B * q + r
  PROVE  n \div B = q
  <1>1. n \div B \in Nat /\ n % B \in 0 .. B - 1 /\ n = B * (n \div B) + (n % B)
    OBVIOUS
  <1> DEFINE a == n \div B
             b == n % B
  <1>2. a \in Nat /\ b \in 0 .. B - 1 /\ B * a + b = B * q + r
    BY <1>1
  <1> HIDE DEF a, b
  <1>3. ~ (a < q)
    <2> SUFFICES ASSUME a + 1 <= q PROVE FALSE
      BY <1>2
    <2>1. B * (a + 1) <= B * q
      BY <1>2
    <2> QED BY <1>2, <2>1
  <1>4. ~ (q < a)
    <2> SUFFICES ASSUME q + 1 <= a PROVE FALSE
      BY <1>2
    <2>1. B * (q + 1) <= B * a
      BY <1>2
    <2> QED BY <1>2, <2>1
  <1>5. a = q
    BY <1>2, <1>3, <1>4
  <1> QED BY <1>5 DEF a

\* The page of an address, and where the page lies.
LEMMA PageOf ==
  ASSUME NEW x \in Nat
  PROVE  /\ block_to_arena(x) \in Nat
         /\ block_to_arena(x) * PGSIZE <= x
         /\ x < block_to_arena(x) * PGSIZE + PGSIZE
         /\ \A p \in Nat : p * PGSIZE <= x /\ x < p * PGSIZE + PGSIZE => p = block_to_arena(x)
  <1>1. PGSIZE \in Nat \ {0}
    BY HeapAssumption
  <1>2. x \div PGSIZE \in Nat /\ x % PGSIZE \in 0 .. PGSIZE - 1 /\ x = PGSIZE * (x \div PGSIZE) + (x % PGSIZE)
    BY <1>1
  <1> DEFINE q == x \div PGSIZE
  <1>3. q \in Nat /\ \E r \in 0 .. PGSIZE - 1 : x = PGSIZE * q + r
    BY <1>2
  <1>4. block_to_arena(x) = q
    BY DEF block_to_arena
  <1>5. ASSUME NEW p \in Nat, p * PGSIZE <= x, x < p * PGSIZE + PGSIZE
        PROVE  p = q
    <2> DEFINE r == x - p * PGSIZE
    <2>1. p * PGSIZE \in Nat /\ p * PGSIZE = PGSIZE * p
      BY <1>1
    <2>2. r \in 0 .. PGSIZE - 1 /\ x = PGSIZE * p + r
      BY <1>1, <1>5, <2>1
    <2> HIDE DEF r, q
    <2>3. x \div PGSIZE = p
      BY <1>1, <2>2, Quotient
    <2> QED BY <2>3 DEF q
  <1> HIDE DEF q
  <1>6. q * PGSIZE = PGSIZE * q /\ q * PGSIZE \in Nat
    BY <1>1, <1>3
  <1>7. q * PGSIZE <= x /\ x < q * PGSIZE + PGSIZE
    BY <1>1, <1>3, <1>6
  <1> QED BY <1>3, <1>4, <1>5, <1>7

\* The pages of a run of pages are the ones of its addresses.
LEMMA PageSpan ==
  ASSUME NEW p \in Nat, NEW n \in Nat, NEW x \in Int
  PROVE  x \in Region(p * PGSIZE, n * PGSIZE) <=> x \in Nat /\ block_to_arena(x) \in p .. p + n - 1
  <1>1. PGSIZE \in Nat \ {0}
    BY HeapAssumption
  <1>2. p * PGSIZE \in Nat /\ n * PGSIZE \in Nat /\ (p + n) * PGSIZE = p * PGSIZE + n * PGSIZE
    BY <1>1
  <1>3. x \in Region(p * PGSIZE, n * PGSIZE) <=> p * PGSIZE <= x /\ x < (p + n) * PGSIZE
    BY <1>1, <1>2 DEF Region
  <1>4. ASSUME x \in Nat
        PROVE  p * PGSIZE <= x /\ x < (p + n) * PGSIZE <=> block_to_arena(x) \in p .. p + n - 1
    <2> DEFINE q == block_to_arena(x)
    <2>1. q \in Nat /\ q * PGSIZE <= x /\ x < q * PGSIZE + PGSIZE
      BY <1>4, PageOf
    <2> HIDE DEF q
    <2>2. q * PGSIZE \in Nat /\ (q + 1) * PGSIZE = q * PGSIZE + PGSIZE
      BY <1>1, <2>1
    <2>3. ASSUME p * PGSIZE <= x, ~ (p <= q) PROVE FALSE
      <3>1. (q + 1) * PGSIZE <= p * PGSIZE
        BY <1>1, <2>1, <2>3
      <3> QED BY <2>1, <2>2, <2>3, <3>1, <1>1, <1>2
    <2>4. ASSUME x < (p + n) * PGSIZE, ~ (q < p + n) PROVE FALSE
      <3>1. (p + n) * PGSIZE <= q * PGSIZE
        BY <1>1, <2>1, <2>4
      <3> QED BY <2>1, <2>2, <2>4, <3>1, <1>1, <1>2
    <2>5. ASSUME p <= q PROVE p * PGSIZE <= x
      <3>1. p * PGSIZE <= q * PGSIZE
        BY <1>1, <2>1, <2>5
      <3> QED BY <2>1, <2>2, <3>1, <1>1, <1>2
    <2>6. ASSUME q < p + n PROVE x < (p + n) * PGSIZE
      <3>1. (q + 1) * PGSIZE <= (p + n) * PGSIZE
        BY <1>1, <2>1, <2>6
      <3> QED BY <2>1, <2>2, <3>1, <1>1, <1>2
    <2>7. q \in p .. p + n - 1 <=> p <= q /\ q < p + n
      BY <2>1
    <2> QED BY <2>3, <2>4, <2>5, <2>6, <2>7 DEF q
  <1> QED BY <1>2, <1>3, <1>4

\* A byte of a page of the pool is an address of the pool.
LEMMA PageAddress ==
  ASSUME NEW x \in Nat, block_to_arena(x) \in Page
  PROVE  x \in Address
  <1>1. PGSIZE \in Nat \ {0} /\ PageCnt \in Nat
    BY HeapAssumption
  <1> DEFINE one == 1
  <1>2. one \in Nat /\ x \in Int /\ block_to_arena(x) \in one .. one + PageCnt - 1
    BY <1>1 DEF Page
  <1> HIDE DEF one
  <1>3. x \in Region(one * PGSIZE, PageCnt * PGSIZE)
    BY <1>1, <1>2, PageSpan
  <1>4. PGSIZE * (PageCnt + 1) = PGSIZE + PageCnt * PGSIZE /\ PageCnt * PGSIZE \in Nat
        /\ one * PGSIZE = PGSIZE
    BY <1>1 DEF one
  <1> QED BY <1>1, <1>3, <1>4 DEF Region, Address

\* The header is at the start of its page.
LEMMA HeaderPage ==
  ASSUME NEW p \in Nat, NEW x \in Region(p * PGSIZE, ArenaSize)
  PROVE  x \in Nat /\ block_to_arena(x) = p /\ x < p * PGSIZE + ArenaSize
  <1>1. PGSIZE \in Nat /\ ArenaSize \in 1 .. PGSIZE - 1
    BY HeapAssumption
  <1>2. p * PGSIZE \in Nat
    BY <1>1
  <1>3. x \in Nat /\ p * PGSIZE <= x /\ x < p * PGSIZE + ArenaSize
    BY <1>1, <1>2 DEF Region
  <1>4. x < p * PGSIZE + PGSIZE
    BY <1>1, <1>2, <1>3
  <1> QED BY <1>3, <1>4, PageOf

\* The first byte after the header of a page is in that page.
LEMMA AfterHeader ==
  ASSUME NEW p \in Nat
  PROVE  p * PGSIZE + ArenaSize \in Nat /\ block_to_arena(p * PGSIZE + ArenaSize) = p
  <1>1. PGSIZE \in Nat /\ ArenaSize \in 1 .. PGSIZE - 1
    BY HeapAssumption
  <1>2. p * PGSIZE \in Nat
    BY <1>1
  <1> DEFINE b == p * PGSIZE + ArenaSize
  <1>3. b \in Nat /\ p * PGSIZE <= b /\ b < p * PGSIZE + PGSIZE
    BY <1>1, <1>2
  <1> HIDE DEF b
  <1>4. block_to_arena(b) = p
    BY <1>3, PageOf
  <1> QED BY <1>3, <1>4 DEF b

LEMMA DescSizes ==
  ASSUME NEW d \in descs
  PROVE  d \in Nat /\ d > 0 /\ ArenaSize + d <= PGSIZE /\ d # 0
  BY HeapAssumption

\* An arena has a block at least, and its blocks fit in.
LEMMA BlocksFit ==
  ASSUME NEW d \in descs
  PROVE  /\ blocks_per_arena(d) \in Nat
         /\ blocks_per_arena(d) >= 1
         /\ \A i \in 0 .. blocks_per_arena(d) - 1 :
              i * d \in Nat /\ i * d + d <= PGSIZE - ArenaSize
  <1>1. PGSIZE \in Nat /\ ArenaSize \in 1 .. PGSIZE - 1 /\ d \in Nat \ {0} /\ ArenaSize + d <= PGSIZE
    BY HeapAssumption
  <1> DEFINE m == PGSIZE - ArenaSize
             n == m \div d
  <1>2. m \in Nat /\ d <= m
    BY <1>1
  <1>3. n \in Nat /\ m % d \in 0 .. d - 1 /\ m = d * n + (m % d)
    BY <1>1, <1>2
  <1>4. blocks_per_arena(d) = n
    BY DEF blocks_per_arena
  <1>5. PICK r \in 0 .. d - 1 : m = d * n + r
    BY <1>3
  <1> HIDE DEF n, m
  <1>6. d * n \in Nat /\ d * n = n * d
    BY <1>1, <1>3
  <1>7. n >= 1
    <2> SUFFICES ASSUME n = 0 PROVE FALSE
      BY <1>3
    <2>1. d * n = 0
      BY <1>1
    <2> QED BY <1>1, <1>2, <1>5, <2>1
  <1>8. ASSUME NEW i \in 0 .. n - 1 PROVE i * d \in Nat /\ i * d + d <= m
    <2>1. i * d \in Nat /\ (i + 1) * d = i * d + d
      BY <1>1, <1>3
    <2>2. (i + 1) * d <= n * d
      BY <1>1, <1>3
    <2> QED BY <1>1, <1>2, <1>5, <1>6, <2>1, <2>2
  <1> QED BY <1>3, <1>4, <1>7, <1>8 DEF m

\* A block is after the header and within its page.
LEMMA BlockPlace ==
  ASSUME NEW p \in Nat, NEW d \in descs, NEW b \in BlocksOf(p, d)
  PROVE  /\ b \in Nat
         /\ p * PGSIZE + ArenaSize <= b
         /\ b + d <= p * PGSIZE + PGSIZE
         /\ block_to_arena(b) = p
         /\ \A x \in Region(b, d) : x \in Nat /\ block_to_arena(x) = p
  <1>1. PGSIZE \in Nat /\ ArenaSize \in 1 .. PGSIZE - 1 /\ d \in Nat /\ d > 0
    BY HeapAssumption
  <1>2. PICK i \in 0 .. blocks_per_arena(d) - 1 : b = p * PGSIZE + ArenaSize + i * d
    BY DEF BlocksOf, arena_to_block
  <1>3. i * d \in Nat /\ i * d + d <= PGSIZE - ArenaSize
    BY BlocksFit
  <1>4. p * PGSIZE \in Nat
    BY <1>1
  <1>5. b \in Nat /\ p * PGSIZE + ArenaSize <= b /\ b + d <= p * PGSIZE + PGSIZE
    BY <1>1, <1>2, <1>3, <1>4
  <1>6. ASSUME NEW x \in Region(b, d) PROVE x \in Nat /\ block_to_arena(x) = p
    <2>1. x \in Nat /\ p * PGSIZE <= x /\ x < p * PGSIZE + PGSIZE
      BY <1>1, <1>4, <1>5 DEF Region
    <2> QED BY <2>1, PageOf
  <1>7. b \in Region(b, d)
    BY <1>1, <1>5 DEF Region
  <1> QED BY <1>5, <1>6, <1>7

\* Two blocks of an arena have no byte in common.
LEMMA BlocksApart ==
  ASSUME NEW p \in Nat, NEW d \in descs, NEW b \in BlocksOf(p, d), NEW c \in BlocksOf(p, d), b # c
  PROVE  Region(b, d) \cap Region(c, d) = {}
  <1>1. PGSIZE \in Nat /\ ArenaSize \in 1 .. PGSIZE - 1 /\ d \in Nat /\ d > 0
    BY HeapAssumption
  <1>2. PICK i \in 0 .. blocks_per_arena(d) - 1 : b = p * PGSIZE + ArenaSize + i * d
    BY DEF BlocksOf, arena_to_block
  <1>3. PICK k \in 0 .. blocks_per_arena(d) - 1 : c = p * PGSIZE + ArenaSize + k * d
    BY DEF BlocksOf, arena_to_block
  <1>4. blocks_per_arena(d) \in Nat
    BY BlocksFit
  <1>5. i \in Nat /\ k \in Nat /\ i # k
    BY <1>2, <1>3, <1>4
  <1>6. p * PGSIZE \in Nat /\ i * d \in Nat /\ k * d \in Nat
    BY <1>1, <1>5
  <1>7. (i + 1) * d = i * d + d /\ (k + 1) * d = k * d + d
    BY <1>1, <1>5
  <1>8. i + 1 <= k => (i + 1) * d <= k * d
    BY <1>1, <1>5
  <1>9. k + 1 <= i => (k + 1) * d <= i * d
    BY <1>1, <1>5
  <1>10. b + d <= c \/ c + d <= b
    BY <1>1, <1>2, <1>3, <1>5, <1>6, <1>7, <1>8, <1>9
  <1> QED BY <1>1, <1>2, <1>3, <1>6, <1>10 DEF Region

\* The pages of a big block hold the header and the block.
LEMMA BigFits ==
  ASSUME NEW size \in Sizes
  PROVE  /\ BigPages(size) \in Nat
         /\ BigPages(size) >= 1
         /\ size + ArenaSize <= BigPages(size) * PGSIZE
  <1>1. PGSIZE \in Nat /\ ArenaSize \in 1 .. PGSIZE - 1 /\ SizeMod \in Nat
    BY HeapAssumption
  <1>2. size \in Nat /\ size > 0 /\ size + ArenaSize + PGSIZE - 1 < SizeMod
    BY HeapAssumption
  <1> DEFINE m == size + ArenaSize + PGSIZE - 1
             n == m \div PGSIZE
  <1>3. m \in Nat /\ m < SizeMod /\ SizeMod \in Nat \ {0} /\ PGSIZE \in Nat \ {0}
    BY <1>1, <1>2
  <1>4. m % SizeMod = m
    <2> HIDE DEF m
    <2> QED BY <1>3
  <1>5. BigPages(size) = n
    BY <1>4 DEF BigPages
  <1>6. n \in Nat /\ \E r \in 0 .. PGSIZE - 1 : m = PGSIZE * n + r
    <2> HIDE DEF m
    <2>1. m \div PGSIZE \in Nat /\ m % PGSIZE \in 0 .. PGSIZE - 1 /\ m = PGSIZE * (m \div PGSIZE) + (m % PGSIZE)
      BY <1>3
    <2> QED BY <2>1
  <1> HIDE DEF n
  <1>7. PGSIZE * n \in Nat /\ PGSIZE * n = n * PGSIZE
    BY <1>3, <1>6
  <1>8. size + ArenaSize <= n * PGSIZE
    BY <1>1, <1>2, <1>6, <1>7
  <1>9. n >= 1
    <2> SUFFICES ASSUME n = 0 PROVE FALSE
      BY <1>6
    <2>1. n * PGSIZE = 0
      BY <1>3
    <2> QED BY <1>1, <1>2, <1>8, <2>1
  <1> QED BY <1>5, <1>6, <1>8, <1>9

\* A set of numbers that is not empty has a smallest member.
LEMMA SmallestExists ==
  ASSUME NEW S \in SUBSET Nat, S # {}
  PROVE  Smallest(S) \in S /\ \A e \in S : Smallest(S) <= e
  <1>1. PICK x \in S : \A y \in S : ~ (<<y, x>> \in OpToRel(<, Nat))
    BY NatLessThanWellFounded, WFMin
  <1>2. OpToRel(<, Nat) = {ss \in Nat \X Nat : ss[1] < ss[2]}
    BY DEF OpToRel
  <1>3. \A y \in S : x <= y
    <2> TAKE y \in S
    <2>1. x \in Nat /\ y \in Nat
      OBVIOUS
    <2>2. ~ (<<y, x>> \in {ss \in Nat \X Nat : ss[1] < ss[2]})
      BY <1>1, <1>2
    <2> QED BY <2>1, <2>2
  <1> QED BY <1>3 DEF Smallest

\* The descriptor that malloc() picks is large enough.
LEMMA FitsDesc ==
  ASSUME NEW size \in Nat, Fits(size) # {}
  PROVE  Smallest(Fits(size)) \in descs /\ size <= Smallest(Fits(size))
  <1>1. Fits(size) \in SUBSET Nat
    BY DescSizes DEF Fits
  <1>2. Smallest(Fits(size)) \in Fits(size)
    BY <1>1, SmallestExists
  <1> QED BY <1>2, DescSizes DEF Fits

\* The members of a set of numbers, in ascending order.
LEMMA NthMember ==
  ASSUME NEW K \in SUBSET Nat, IsFiniteSet(K)
  PROVE  /\ \A n \in 1 .. Cardinality(K) :
              Nth(K, n) \in K /\ Cardinality({k \in K : k <= Nth(K, n)}) = n
         /\ \A i \in K : \E n \in 1 .. Cardinality(K) : Nth(K, n) = i
  <1> DEFINE N == Cardinality(K)
             below(i) == {k \in K : k <= i}
             rank == [i \in K |-> Cardinality(below(i))]
  <1>1. N \in Nat
    BY FS_CardinalityType
  <1>2. ASSUME NEW i \in K
        PROVE  IsFiniteSet(below(i)) /\ Cardinality(below(i)) \in 1 .. N
    <2>1. below(i) \in SUBSET K /\ i \in below(i)
      OBVIOUS
    <2> HIDE DEF below
    <2>2. IsFiniteSet(below(i)) /\ Cardinality(below(i)) <= N
      BY <2>1, FS_Subset
    <2>3. Cardinality(below(i)) \in Nat /\ Cardinality(below(i)) # 0
      BY <2>1, <2>2, FS_CardinalityType, FS_EmptySet
    <2> QED BY <1>1, <2>2, <2>3
  <1>3. ASSUME NEW i \in K, NEW k \in K, i < k
        PROVE  Cardinality(below(i)) # Cardinality(below(k))
    <2>1. below(i) \in SUBSET below(k) /\ k \in below(k) /\ k \notin below(i)
      <3>1. \A n \in K : n \in Nat
        OBVIOUS
      <3>2. \A n \in K : n <= i => n <= k
        BY <1>3, <3>1
      <3>3. i \in Nat /\ k \in Nat /\ k <= k /\ ~ (k <= i)
        BY <1>3, <3>1
      <3>4. below(i) \in SUBSET below(k)
        BY <3>2
      <3> QED BY <3>3, <3>4
    <2>2. IsFiniteSet(below(k))
      BY <1>2
    <2> HIDE DEF below
    <2> QED BY <2>1, <2>2, FS_Subset
  <1>4. ASSUME NEW i \in K, NEW k \in K, Cardinality(below(i)) = Cardinality(below(k))
        PROVE  i = k
    <2>1. i \in Nat /\ k \in Nat
      OBVIOUS
    <2>2. ~ (i < k) /\ ~ (k < i)
      BY <1>3, <1>4
    <2> QED BY <2>1, <2>2
  <1> HIDE DEF below
  <1>5. rank \in [K -> 1 .. N]
    BY <1>2
  <1>6. rank \in Injection(K, 1 .. N)
    BY <1>4, <1>5 DEF Injection, IsInjective
  <1>7. IsFiniteSet(1 .. N) /\ Cardinality(1 .. N) = N
    BY <1>1, FS_Interval
  <1>8. rank \in Surjection(K, 1 .. N)
    BY <1>6, <1>7, FS_Injection
  <1>9. \A n \in 1 .. N : \E i \in K : rank[i] = n
    BY <1>8 DEF Surjection
  <1>10. ASSUME NEW n \in 1 .. N PROVE Nth(K, n) \in K /\ Cardinality(below(Nth(K, n))) = n
    BY <1>9 DEF Nth, below
  <1>11. ASSUME NEW i \in K PROVE \E n \in 1 .. N : Nth(K, n) = i
    <2>1. PICK n \in 1 .. N : Cardinality(below(i)) = n
      BY <1>2
    <2>2. Nth(K, n) = i
      BY <1>4, <1>10, <2>1
    <2> QED BY <2>2
  <1> QED BY <1>10, <1>11 DEF below

\* The elements of a list, and that no two of them are the same.
Members(s) == {s[i] : i \in DOMAIN s}
Distinct(s) == \A i, k \in DOMAIN s : s[i] = s[k] => i = k

\* Taking elements out of a list of distinct ones.
LEMMA WithoutSeq ==
  ASSUME NEW s \in Seq(Nat), NEW B,
         Distinct(s)
  PROVE  /\ Without(s, B) \in Seq(Nat)
         /\ Members(Without(s, B)) = Members(s) \ B
         /\ Distinct(Without(s, B))
  <1> DEFINE K == {i \in DOMAIN s : s[i] \notin B}
             N == Cardinality(K)
  <1>1. K \in SUBSET Nat /\ IsFiniteSet(K)
    <2>1. DOMAIN s = 1 .. Len(s) /\ Len(s) \in Nat
      OBVIOUS
    <2>2. IsFiniteSet(1 .. Len(s)) /\ K \in SUBSET (1 .. Len(s))
      BY <2>1, FS_Interval
    <2> HIDE DEF K
    <2>3. IsFiniteSet(K)
      BY <2>2, FS_Subset
    <2> QED BY <2>1, <2>2, <2>3
  <1>2. N \in Nat
    BY <1>1, FS_CardinalityType
  <1> DEFINE w == [n \in 1 .. N |-> s[Nth(K, n)]]
  <1>3. Without(s, B) = w
    BY DEF Without
  <1>4. \A n \in 1 .. N : Nth(K, n) \in K /\ Cardinality({k \in K : k <= Nth(K, n)}) = n
    BY <1>1, NthMember
  <1>5. \A i \in K : \E n \in 1 .. N : Nth(K, n) = i
    BY <1>1, NthMember
  <1>6. \A i \in DOMAIN s : s[i] \in Nat
    OBVIOUS
  <1>7. w \in Seq(Nat) /\ DOMAIN w = 1 .. N
    <2>1. \A n \in 1 .. N : w[n] \in Nat
      BY <1>4, <1>6
    <2>2. w \in [1 .. N -> Nat]
      BY <2>1
    <2> HIDE DEF w, N
    <2> QED BY <1>2, <2>2
  <1>8. \A i \in DOMAIN s : i \in K <=> s[i] \notin B
    OBVIOUS
  <1>9. \A i \in K : i \in DOMAIN s
    OBVIOUS
  <1>10. \A n \in 1 .. N : w[n] = s[Nth(K, n)]
    OBVIOUS
  <1> HIDE DEF K, N, w
  <1>11. \A n \in DOMAIN w : w[n] \in {s[i] : i \in DOMAIN s} \ B
    <2> TAKE n \in DOMAIN w
    <2>1. Nth(K, n) \in K /\ w[n] = s[Nth(K, n)]
      BY <1>4, <1>7, <1>10
    <2>2. Nth(K, n) \in DOMAIN s /\ s[Nth(K, n)] \notin B
      BY <1>8, <1>9, <2>1
    <2> QED BY <2>1, <2>2
  <1>12. \A i \in DOMAIN s : s[i] \notin B => \E n \in DOMAIN w : w[n] = s[i]
    BY <1>5, <1>7, <1>8, <1>10
  <1>13. Members(w) = Members(s) \ B
    BY <1>11, <1>12 DEF Members
  <1>14. ASSUME NEW m \in DOMAIN w, NEW n \in DOMAIN w, w[m] = w[n] PROVE m = n
    <2>1. Nth(K, m) = Nth(K, n)
      BY <1>4, <1>7, <1>9, <1>10, <1>14 DEF Distinct
    <2>2. m \in 1 .. N /\ n \in 1 .. N
      BY <1>7
    <2>3. Cardinality({k \in K : k <= Nth(K, m)}) = m /\ Cardinality({k \in K : k <= Nth(K, n)}) = n
      BY <1>4, <2>2
    <2> QED BY <2>1, <2>3
  <1>15. Distinct(w)
    BY <1>14 DEF Distinct
  <1> QED BY <1>3, <1>7, <1>13, <1>15

\* An arena has blocks_per_arena blocks.
LEMMA BlocksCount ==
  ASSUME NEW p \in Nat, NEW d \in descs
  PROVE  IsFiniteSet(BlocksOf(p, d)) /\ Cardinality(BlocksOf(p, d)) = blocks_per_arena(d)
  <1> DEFINE n == blocks_per_arena(d)
             f == [i \in 0 .. n - 1 |-> arena_to_block(p, i, d)]
  <1>1. n \in Nat /\ n >= 1 /\ PGSIZE \in Nat /\ ArenaSize \in Nat /\ d \in Nat \ {0}
    BY BlocksFit, HeapAssumption
  <1> HIDE DEF n
  <1>2. f \in [0 .. n - 1 -> BlocksOf(p, d)]
    BY DEF BlocksOf, n
  <1>3. ASSUME NEW i \in 0 .. n - 1, NEW k \in 0 .. n - 1, f[i] = f[k]
        PROVE  i = k
    <2>1. p * PGSIZE + ArenaSize + i * d = p * PGSIZE + ArenaSize + k * d
      BY <1>3 DEF arena_to_block
    <2>2. p * PGSIZE \in Nat /\ i \in Nat /\ k \in Nat
      BY <1>1
    <2>3. i * d \in Nat /\ k * d \in Nat
      BY <1>1, <2>2
    <2>4. i * d = k * d
      BY <1>1, <2>1, <2>2, <2>3
    <2>5. i < k => i * d < k * d
      BY <1>1, <2>2
    <2>6. k < i => k * d < i * d
      BY <1>1, <2>2
    <2> QED BY <2>2, <2>3, <2>4, <2>5, <2>6
  <1>4. \A b \in BlocksOf(p, d) : \E i \in 0 .. n - 1 : f[i] = b
    BY DEF BlocksOf, n
  <1> HIDE DEF f
  <1>5. f \in Bijection(0 .. n - 1, BlocksOf(p, d))
    BY <1>2, <1>3, <1>4 DEF Bijection, Injection, Surjection, IsInjective
  <1>6. IsFiniteSet(0 .. n - 1) /\ Cardinality(0 .. n - 1) = n
    BY <1>1, FS_Interval
  <1> QED BY <1>5, <1>6, FS_Bijection DEF ExistsBijection, n

-----------------------------------------------------------------------------
(***************************************************************************)
(* The invariant.                                                          *)
(***************************************************************************)
Label == {"idle", "malloc", "pop", "free", "lock", "push", "test", "unlock"}

TypeOK ==
  /\ used \in SUBSET Page
  /\ arena \in [Page -> [desc : descs \union {0}, free_cnt : Int]]
  /\ bytes \in [Address -> Int]
  /\ free_list \in [descs -> Seq(Nat)]
  /\ lock \in [descs -> Thread \union {NULL}]
  /\ pc \in [Thread -> Label]
  /\ arg \in [Thread -> [size : Nat, block : Nat, copy : Seq(Int), new : Nat]]
  /\ held \in SUBSET [addr : Nat, text : Seq(Int)]

\* The pages of small blocks, and those that begin a big one; its pages.
Arenas == {p \in used : arena[p].desc # 0}
BigHeads == {p \in used : arena[p].desc = 0 /\ arena[p].free_cnt > 0}
Extent(p) == p .. p + arena[p].free_cnt - 1

\* A block that malloc() can have returned, and the bytes that belong to it.
Valid(b) ==
  /\ block_to_arena(b) \in used
  /\ \/ /\ arena[block_to_arena(b)].desc = 0
        /\ arena[block_to_arena(b)].free_cnt > 0
        /\ b = block_to_arena(b) * PGSIZE + ArenaSize
     \/ /\ arena[block_to_arena(b)].desc # 0
        /\ b \in BlocksOf(block_to_arena(b), arena[block_to_arena(b)].desc)
Size(b) ==
  IF arena[block_to_arena(b)].desc = 0
  THEN arena[block_to_arena(b)].free_cnt * PGSIZE - ArenaSize
  ELSE arena[block_to_arena(b)].desc
Owned(b) == Region(b, Size(b))

\* The free blocks of a descriptor; the blocks that somebody has, or is about
\* to give back.
Listed(d) == {free_list[d][i] : i \in DOMAIN free_list[d]}
Addrs == {r.addr : r \in held}
Transit == {arg[t].block : t \in {t \in Thread : pc[t] \in {"lock", "push"}}}
Taken == Addrs \union Transit

\* A page that is not used has no header, one that is is an arena or a page of
\* a big block, and the other pages of a big block have no header either.
PagesOK ==
  /\ \A p \in Page \ used : arena[p] = NoHeader
  /\ \A p \in BigHeads : Extent(p) \subseteq used /\ \A q \in Extent(p) \ {p} : arena[q] = NoHeader
  /\ \A p \in used : p \in Arenas \/ \E q \in BigHeads : p \in Extent(q)

\* Callers have blocks, each once, with room for what they asked for; and a
\* big block is always somebody's.
HeldOK ==
  /\ \A r \in held : Valid(r.addr) /\ Len(r.text) <= Size(r.addr)
  /\ \A r, s \in held : r.addr = s.addr => r = s
  /\ \A p \in BigHeads : p * PGSIZE + ArenaSize \in Addrs

BytesOK ==
  /\ \A r \in held : \A i \in 1 .. Len(r.text) : bytes[r.addr + i - 1] = r.text[i]
  /\ \A p \in Arenas : \A x \in Region(p * PGSIZE, ArenaSize) : bytes[x] = HEADER

\* Every block of an arena is free and listed, once, or it is taken.
ListsOK ==
  /\ \A d \in descs : \A i, k \in DOMAIN free_list[d] : free_list[d][i] = free_list[d][k] => i = k
  /\ \A d \in descs : \A b \in Listed(d) :
       Valid(b) /\ arena[block_to_arena(b)].desc = d /\ b \notin Taken
  /\ \A p \in Arenas : \A b \in BlocksOf(p, arena[p].desc) : b \in Listed(arena[p].desc) \/ b \in Taken

FreeIn(p) == {b \in Listed(arena[p].desc) : block_to_arena(b) = p}
CountOK == \A p \in Arenas : arena[p].free_cnt = Cardinality(FreeIn(p))

\* What a thread at each point of a call works on.
ThreadOK(t) ==
  /\ pc[t] = "idle" => arg[t].block = 0
  /\ pc[t] \in {"malloc", "pop"} => arg[t].size \in Sizes
  /\ pc[t] = "pop" => Fits(arg[t].size) # {}
  /\ pc[t] \in {"malloc", "pop", "free"} /\ arg[t].block # 0 => arg[t].block \in Addrs
  /\ pc[t] = "free" => arg[t].block # 0
  /\ pc[t] \in {"lock", "push", "test"} =>
       Valid(arg[t].block) /\ arena[block_to_arena(arg[t].block)].desc # 0
  /\ pc[t] \in {"lock", "push"} => arg[t].block \notin Addrs
  /\ pc[t] = "unlock" => arg[t].size \in descs /\ arg[t].block = 0
ThreadsOK == \A t \in Thread : ThreadOK(t)

\* No two calls work on the same block.
ClaimsOK ==
  \A t, u \in Thread : t # u /\ arg[t].block # 0 => arg[u].block # arg[t].block

\* A descriptor's lock is held by the thread that works on its list.
LockOf(t) == IF pc[t] = "unlock" THEN arg[t].size ELSE Desc(t)
Locked == {"pop", "push", "test", "unlock"}
LocksOK ==
  \A d \in descs : \A t \in Thread : lock[d] = t <=> pc[t] \in Locked /\ d = LockOf(t)

\* An arena has a block in use, except the one whose first block is about to be
\* taken and the one that is about to be given back.
Passing(p, t) ==
  /\ lock[arena[p].desc] = t
  /\ \/ /\ pc[t] = "pop" /\ free_list[arena[p].desc] # <<>>
        /\ p = block_to_arena(Head(free_list[arena[p].desc]))
     \/ pc[t] = "test" /\ p = block_to_arena(arg[t].block)
InUse ==
  \A p \in Arenas :
    (\E b \in Taken : block_to_arena(b) = p) \/ \E t \in Thread : Passing(p, t)

IInv ==
  /\ TypeOK /\ PagesOK /\ HeldOK /\ BytesOK /\ ListsOK /\ CountOK
  /\ ThreadsOK /\ ClaimsOK /\ LocksOK /\ InUse
-----------------------------------------------------------------------------
(***************************************************************************)
(* What the invariant says of a state.                                     *)
(***************************************************************************)
LEMMA PageFacts ==
  ASSUME TypeOK, NEW p \in used
  PROVE  /\ p \in Page /\ p \in Nat /\ p > 0
         /\ arena[p].desc \in descs \union {0} /\ arena[p].free_cnt \in Int
         /\ arena[p].desc # 0 => arena[p].desc \in descs
  BY HeapAssumption DEF TypeOK, Page

\* A block begins after the header of its page.
LEMMA ValidPlace ==
  ASSUME TypeOK, NEW b \in Nat, Valid(b)
  PROVE  /\ block_to_arena(b) \in used
         /\ block_to_arena(b) * PGSIZE + ArenaSize <= b
         /\ b # 0
         /\ arena[block_to_arena(b)].desc = 0 => block_to_arena(b) \in BigHeads
         /\ arena[block_to_arena(b)].desc # 0 => block_to_arena(b) \in Arenas
  <1> DEFINE a == block_to_arena(b)
  <1>1. a \in used /\ a \in Nat /\ a > 0 /\ (arena[a].desc # 0 => arena[a].desc \in descs)
    BY PageFacts DEF Valid
  <1>2. PGSIZE \in Nat \ {0} /\ ArenaSize \in Nat \ {0}
    BY HeapAssumption
  <1>3. a * PGSIZE \in Nat /\ a * PGSIZE + ArenaSize \in Nat
    BY <1>1, <1>2
  <1>4. a * PGSIZE + ArenaSize <= b
    <2>1. CASE arena[a].desc = 0
      BY <1>3, <2>1 DEF Valid
    <2>2. CASE arena[a].desc # 0
      <3>1. b \in BlocksOf(a, arena[a].desc)
        BY <2>2 DEF Valid
      <3> HIDE DEF a
      <3> QED BY <1>1, <2>2, <3>1, BlockPlace
    <2> QED BY <2>1, <2>2
  <1>5. arena[a].desc = 0 => a \in BigHeads
    BY DEF Valid, BigHeads
  <1>6. arena[a].desc # 0 => a \in Arenas
    BY <1>1 DEF Arenas
  <1> HIDE DEF a
  <1>7. b # 0
    BY <1>2, <1>3, <1>4
  <1> QED BY <1>1, <1>4, <1>5, <1>6, <1>7 DEF a

\* The pages that belong to the header in page p, and those of a block.
Roots == Arenas \union BigHeads
Cover(p) == IF arena[p].desc = 0 THEN Extent(p) ELSE {p}
Pages(b) == Cover(block_to_arena(b))

LEMMA OwnedPlace ==
  ASSUME TypeOK, PagesOK, NEW b \in Nat, Valid(b)
  PROVE  /\ Size(b) \in Nat /\ Size(b) > 0
         /\ \A x \in Owned(b) :
              /\ x \in Nat
              /\ x \in Address
              /\ block_to_arena(x) \in Pages(b)
              /\ block_to_arena(x) \in used
              /\ block_to_arena(b) * PGSIZE + ArenaSize <= x
         /\ Pages(b) \subseteq used
         /\ block_to_arena(b) \in Pages(b)
  <1> DEFINE a == block_to_arena(b)
             d == arena[a].desc
             n == arena[a].free_cnt
  <1>1. a \in used /\ a \in Nat /\ a * PGSIZE + ArenaSize <= b
    BY ValidPlace, PageFacts
  <1>2. PGSIZE \in Nat /\ ArenaSize \in 1 .. PGSIZE - 1
    BY HeapAssumption
  <1>3. a * PGSIZE \in Nat
    BY <1>1, <1>2
  <1>4. CASE d = 0
    <2>1. n \in Nat /\ n > 0 /\ a \in BigHeads /\ b = a * PGSIZE + ArenaSize
      BY <1>1, <1>4, ValidPlace, PageFacts DEF Valid
    <2>2. Size(b) = n * PGSIZE - ArenaSize
      BY <1>4 DEF Size
    <2>3. Pages(b) = a .. a + n - 1
      BY <1>4 DEF Pages, Cover, Extent
    <2>4. Pages(b) \subseteq used
      BY <2>1, <2>3 DEF PagesOK, Extent
    <2>5. a \in Pages(b)
      BY <1>1, <2>1, <2>3
    <2> HIDE DEF a, n, d
    <2>6. n * PGSIZE \in Nat /\ PGSIZE <= n * PGSIZE
      BY <1>2, <2>1
    <2>7. Size(b) \in Nat /\ Size(b) > 0
      BY <1>2, <2>2, <2>6
    <2>8. ASSUME NEW x \in Owned(b)
          PROVE  x \in Nat /\ a * PGSIZE + ArenaSize <= x /\ block_to_arena(x) \in Pages(b)
      <3>1. x \in Nat /\ a * PGSIZE + ArenaSize <= x /\ x < a * PGSIZE + n * PGSIZE
        BY <1>2, <1>3, <2>1, <2>2, <2>6, <2>7 DEF Owned, Region
      <3>2. x \in Region(a * PGSIZE, n * PGSIZE)
        BY <1>2, <1>3, <2>6, <3>1 DEF Region
      <3>3. x \in Int
        BY <3>1
      <3>4. block_to_arena(x) \in a .. a + n - 1
        BY <1>1, <2>1, <3>2, <3>3, PageSpan
      <3> QED BY <2>3, <3>1, <3>4
    <2>9. ASSUME NEW x \in Owned(b) PROVE x \in Address
      <3>1. x \in Nat /\ block_to_arena(x) \in Page
        BY <2>4, <2>8 DEF TypeOK
      <3> QED BY <3>1, PageAddress
    <2> QED BY <2>4, <2>5, <2>7, <2>8, <2>9 DEF a
  <1>5. CASE d # 0
    <2>1. d \in descs /\ b \in BlocksOf(a, d)
      BY <1>1, <1>5, PageFacts DEF Valid
    <2>2. Size(b) = d /\ Pages(b) = {a}
      BY <1>5 DEF Size, Pages, Cover
    <2> HIDE DEF a, n, d
    <2>3. d \in Nat /\ d > 0
      BY <2>1, DescSizes
    <2>4. ASSUME NEW x \in Owned(b)
          PROVE  x \in Nat /\ a * PGSIZE + ArenaSize <= x /\ block_to_arena(x) = a
      <3>1. x \in Region(b, d)
        BY <2>2 DEF Owned
      <3>2. x \in Nat /\ block_to_arena(x) = a
        BY <1>1, <2>1, <3>1, BlockPlace
      <3>3. b <= x
        BY <2>3, <3>1 DEF Region
      <3>4. a * PGSIZE + ArenaSize \in Nat
        BY <1>2, <1>3
      <3> QED BY <1>1, <3>2, <3>3, <3>4
    <2>5. ASSUME NEW x \in Owned(b) PROVE x \in Address
      <3>1. x \in Nat /\ block_to_arena(x) \in Page
        BY <1>1, <2>4 DEF TypeOK
      <3> QED BY <3>1, PageAddress
    <2> QED BY <1>1, <2>2, <2>3, <2>4, <2>5 DEF a
  <1> QED BY <1>4, <1>5

\* No page belongs to two headers.
LEMMA RootsApart ==
  ASSUME TypeOK, PagesOK, NEW p \in Roots, NEW q \in Roots, p # q
  PROVE  Cover(p) \cap Cover(q) = {}
  <1>1. ASSUME NEW r \in Roots, NEW s \in Cover(r), s # r
        PROVE  s \notin Roots
    <2>1. arena[r].desc = 0 /\ r \in BigHeads
      BY <1>1 DEF Roots, Arenas, Cover
    <2>2. arena[s] = NoHeader
      BY <1>1, <2>1 DEF PagesOK, Cover
    <2> QED BY <2>2 DEF NoHeader, Roots, Arenas, BigHeads
  <1>2. ASSUME NEW r \in Roots, NEW s \in Roots, r < s, NEW x, x \in Cover(r), x \in Cover(s)
        PROVE  FALSE
    <2>1. r \in Nat /\ s \in Nat /\ arena[r].free_cnt \in Int /\ arena[s].free_cnt \in Int
      BY PageFacts DEF Roots, Arenas, BigHeads
    <2>2. arena[r].desc = 0
      BY <1>2, <2>1 DEF Cover, Extent
    <2>3. x \in Int /\ s <= x /\ x <= r + arena[r].free_cnt - 1
      BY <1>2, <2>1, <2>2 DEF Cover, Extent
    <2>4. s \in Cover(r)
      BY <1>2, <2>1, <2>2, <2>3 DEF Cover, Extent
    <2>5. s # r
      BY <1>2, <2>1
    <2> QED BY <1>1, <2>4, <2>5
  <1>3. p \in Nat /\ q \in Nat
    BY PageFacts DEF Roots, Arenas, BigHeads
  <1>4. p < q \/ q < p
    BY <1>3
  <1> QED BY <1>2, <1>4

LEMMA ValidRoot ==
  ASSUME TypeOK, NEW b \in Nat, Valid(b)
  PROVE  block_to_arena(b) \in Roots
  BY ValidPlace DEF Roots

\* Blocks that begin in different pages have no page in common.
LEMMA PagesApart ==
  ASSUME TypeOK, PagesOK, NEW b \in Nat, NEW c \in Nat, Valid(b), Valid(c),
         block_to_arena(b) # block_to_arena(c)
  PROVE  Pages(b) \cap Pages(c) = {}
  BY ValidRoot, RootsApart DEF Pages

\* Two blocks have no byte in common, ...
LEMMA Apart ==
  ASSUME TypeOK, PagesOK, NEW b \in Nat, NEW c \in Nat, Valid(b), Valid(c), b # c
  PROVE  Owned(b) \cap Owned(c) = {}
  <1>1. CASE block_to_arena(b) # block_to_arena(c)
    <2>1. Pages(b) \cap Pages(c) = {}
      BY <1>1, PagesApart
    <2>2. \A x \in Owned(b) : block_to_arena(x) \in Pages(b)
      BY OwnedPlace
    <2>3. \A x \in Owned(c) : block_to_arena(x) \in Pages(c)
      BY OwnedPlace
    <2> QED BY <2>1, <2>2, <2>3
  <1>2. CASE block_to_arena(b) = block_to_arena(c)
    <2> DEFINE a == block_to_arena(b)
               d == arena[a].desc
    <2>1. a \in used /\ a \in Nat
      BY ValidPlace, PageFacts
    <2>2. d # 0
      BY <1>2 DEF Valid
    <2>3. d \in descs /\ b \in BlocksOf(a, d) /\ c \in BlocksOf(a, d)
      BY <1>2, <2>1, <2>2, PageFacts DEF Valid
    <2>4. Owned(b) = Region(b, d) /\ Owned(c) = Region(c, d)
      BY <1>2, <2>2 DEF Owned, Size
    <2> HIDE DEF a, d
    <2> QED BY <2>1, <2>3, <2>4, BlocksApart
  <1> QED BY <1>1, <1>2

\* ... and none with the header of an arena.
LEMMA HeaderApart ==
  ASSUME TypeOK, PagesOK, NEW b \in Nat, Valid(b), NEW p \in Arenas
  PROVE  Region(p * PGSIZE, ArenaSize) \cap Owned(b) = {}
  <1> SUFFICES ASSUME NEW x \in Region(p * PGSIZE, ArenaSize), x \in Owned(b)
               PROVE  FALSE
    OBVIOUS
  <1>1. p \in used /\ p \in Nat /\ arena[p].desc # 0
    BY PageFacts DEF Arenas
  <1>2. x \in Nat /\ block_to_arena(x) = p /\ x < p * PGSIZE + ArenaSize
    BY <1>1, HeaderPage
  <1>3. p \in Pages(b) /\ block_to_arena(b) * PGSIZE + ArenaSize <= x
    BY <1>2, OwnedPlace
  <1>4. p # block_to_arena(b)
    <2> SUFFICES ASSUME p = block_to_arena(b) PROVE FALSE
      OBVIOUS
    <2>1. p * PGSIZE + ArenaSize \in Int
      BY <1>1, HeapAssumption
    <2> QED BY <1>2, <1>3, <2>1
  <1>5. block_to_arena(b) \in BigHeads /\ p \in Extent(block_to_arena(b)) \ {block_to_arena(b)}
    BY <1>3, <1>4, ValidPlace DEF Pages, Cover
  <1>6. arena[p] = NoHeader
    BY <1>5 DEF PagesOK
  <1> QED BY <1>1, <1>6 DEF NoHeader

\* What a caller wrote is within its block.
LEMMA TextPlace ==
  ASSUME TypeOK, PagesOK, HeldOK, NEW r \in held, NEW i \in 1 .. Len(r.text)
  PROVE  /\ r.addr \in Nat /\ Valid(r.addr)
         /\ r.addr + i - 1 \in Region(r.addr, Len(r.text))
         /\ r.addr + i - 1 \in Owned(r.addr)
         /\ r.addr + i - 1 \in Address
  <1>1. r.addr \in Nat /\ Valid(r.addr) /\ Len(r.text) <= Size(r.addr) /\ Len(r.text) \in Nat
    BY DEF TypeOK, HeldOK
  <1>2. Size(r.addr) \in Nat
    BY <1>1, OwnedPlace
  <1>3. r.addr + i - 1 \in Region(r.addr, Len(r.text))
    BY <1>1 DEF Region
  <1>4. r.addr + i - 1 \in Owned(r.addr)
    BY <1>1, <1>2 DEF Owned, Region
  <1> QED BY <1>1, <1>3, <1>4, OwnedPlace

\* The free blocks of an arena are its blocks that nobody has taken.
LEMMA FreeBlocks ==
  ASSUME TypeOK, ListsOK, NEW p \in Arenas
  PROVE  /\ p \in Nat /\ arena[p].desc \in descs
         /\ FreeIn(p) = BlocksOf(p, arena[p].desc) \ Taken
         /\ IsFiniteSet(FreeIn(p))
  <1> DEFINE d == arena[p].desc
  <1>1. p \in used /\ p \in Nat /\ d \in descs /\ d # 0
    BY PageFacts DEF Arenas
  <1>2. ASSUME NEW b \in FreeIn(p) PROVE b \in BlocksOf(p, d) /\ b \notin Taken
    <2>1. b \in Listed(d) /\ block_to_arena(b) = p
      BY DEF FreeIn
    <2>2. Valid(b) /\ b \notin Taken
      BY <1>1, <2>1 DEF ListsOK
    <2> QED BY <1>1, <2>1, <2>2 DEF Valid
  <1>3. ASSUME NEW b \in BlocksOf(p, d), b \notin Taken PROVE b \in FreeIn(p)
    <2>1. b \in Listed(d)
      BY <1>3 DEF ListsOK
    <2> HIDE DEF d
    <2>2. block_to_arena(b) = p
      BY <1>1, <1>3, BlockPlace
    <2> QED BY <2>1, <2>2 DEF FreeIn, d
  <1>4. FreeIn(p) = BlocksOf(p, d) \ Taken
    BY <1>2, <1>3
  <1> HIDE DEF d
  <1>5. IsFiniteSet(BlocksOf(p, d)) /\ BlocksOf(p, d) \ Taken \in SUBSET BlocksOf(p, d)
    BY <1>1, BlocksCount
  <1>6. IsFiniteSet(FreeIn(p))
    BY <1>4, <1>5, FS_Subset
  <1> QED BY <1>1, <1>4, <1>6 DEF d

\* free_cnt tells whether a block of the arena is taken.
LEMMA UnusedMeansFree ==
  ASSUME TypeOK, ListsOK, CountOK, NEW p \in Arenas
  PROVE  EntirelyUnused(p, arena[p].desc) <=> \A b \in Taken : block_to_arena(b) # p \/ b \notin BlocksOf(p, arena[p].desc)
  <1> DEFINE d == arena[p].desc
             all == BlocksOf(p, d)
  <1>1. p \in Nat /\ d \in descs /\ FreeIn(p) = all \ Taken /\ IsFiniteSet(FreeIn(p))
    BY FreeBlocks
  <1>2. arena[p].free_cnt = Cardinality(FreeIn(p))
    BY DEF CountOK
  <1> HIDE DEF d
  <1>3. IsFiniteSet(all) /\ Cardinality(all) = blocks_per_arena(d)
    BY <1>1, BlocksCount
  <1>4. \A b \in all : block_to_arena(b) = p
    BY <1>1, BlockPlace
  <1> HIDE DEF all
  <1>5. FreeIn(p) \in SUBSET all
    BY <1>1
  <1>6. Cardinality(FreeIn(p)) <= Cardinality(all) /\ (Cardinality(all) = Cardinality(FreeIn(p)) => all = FreeIn(p))
    BY <1>3, <1>5, FS_Subset
  <1>7. Cardinality(FreeIn(p)) \in Nat /\ Cardinality(all) \in Nat
    BY <1>1, <1>3, FS_CardinalityType
  <1>8. EntirelyUnused(p, d) <=> Cardinality(FreeIn(p)) >= Cardinality(all)
    BY <1>2, <1>3 DEF EntirelyUnused
  <1>9. EntirelyUnused(p, d) <=> all = FreeIn(p)
    BY <1>6, <1>7, <1>8
  <1>10. all = FreeIn(p) <=> \A b \in Taken : block_to_arena(b) # p \/ b \notin all
    BY <1>1, <1>4
  <1> QED BY <1>9, <1>10 DEF all, d

\* The blocks that are taken are blocks; those about to be given back are small.
LEMMA TakenValid ==
  ASSUME TypeOK, HeldOK, ThreadsOK, NEW b \in Taken
  PROVE  b \in Nat /\ Valid(b) /\ b # 0
  <1>1. b \in Nat /\ Valid(b)
    <2>1. CASE b \in Addrs
      BY <2>1 DEF Addrs, HeldOK, TypeOK
    <2>2. CASE b \in Transit
      BY <2>2 DEF Transit, ThreadsOK, ThreadOK, TypeOK
    <2> QED BY <2>1, <2>2 DEF Taken
  <1> QED BY <1>1, ValidPlace

LEMMA ListedNat ==
  ASSUME TypeOK, NEW d \in descs, NEW b \in Listed(d)
  PROVE  b \in Nat
  BY DEF TypeOK, Listed

\* An arena counted as entirely unused is one of which no block is taken.
LEMMA Unused ==
  ASSUME TypeOK, HeldOK, ThreadsOK, ListsOK, CountOK, NEW p \in Arenas
  PROVE  EntirelyUnused(p, arena[p].desc) <=> \A b \in Taken : block_to_arena(b) # p
  <1>1. arena[p].desc # 0
    BY DEF Arenas
  <1>2. \A b \in Taken : block_to_arena(b) = p => b \in BlocksOf(p, arena[p].desc)
    BY <1>1, TakenValid DEF Valid
  <1> QED BY <1>2, UnusedMeansFree

LEMMA InitIInv == Init => IInv
  <1> SUFFICES ASSUME Init PROVE IInv
    OBVIOUS
  <1> USE DEF Init
  <1>1. 0 \in Nat /\ <<>> \in Seq(Int) /\ NoArg \in [size : Nat, block : Nat, copy : Seq(Int), new : Nat]
    BY DEF NoArg
  <1>2. TypeOK
    BY <1>1 DEF TypeOK, NoHeader, CC, Label
  <1>3. Arenas = {} /\ BigHeads = {} /\ Addrs = {} /\ Transit = {} /\ Taken = {}
    BY DEF Arenas, BigHeads, Addrs, Transit, Taken
  <1>4. \A d \in descs : DOMAIN free_list[d] = {} /\ Listed(d) = {}
    BY DEF Listed
  <1>5. PagesOK /\ HeldOK /\ BytesOK
    BY <1>3 DEF PagesOK, HeldOK, BytesOK
  <1>6. ListsOK /\ CountOK /\ InUse
    BY <1>3, <1>4 DEF ListsOK, CountOK, InUse
  <1>7. ThreadsOK /\ ClaimsOK
    BY DEF ThreadsOK, ThreadOK, ClaimsOK, NoArg
  <1>8. LocksOK
    BY HeapAssumption DEF LocksOK, Locked
  <1> QED BY <1>2, <1>5, <1>6, <1>7, <1>8 DEF IInv
-----------------------------------------------------------------------------
(***************************************************************************)
(* Frames: what a step of one thread leaves to the others.                 *)
(***************************************************************************)
\* Only thread t moves.
Others(t) == \A u \in Thread \ {t} : pc'[u] = pc[u] /\ arg'[u] = arg[u]

LEMMA MovePc ==
  ASSUME TypeOK, NEW t \in Thread, NEW l \in Label, pc' = [pc EXCEPT ![t] = l]
  PROVE  /\ pc' \in [Thread -> Label]
         /\ pc'[t] = l
         /\ \A u \in Thread \ {t} : pc'[u] = pc[u]
  BY DEF TypeOK

LEMMA MoveArg ==
  ASSUME TypeOK, NEW t \in Thread,
         NEW r \in [size : Nat, block : Nat, copy : Seq(Int), new : Nat], arg' = [arg EXCEPT ![t] = r]
  PROVE  /\ arg' \in [Thread -> [size : Nat, block : Nat, copy : Seq(Int), new : Nat]]
         /\ arg'[t] = r
         /\ \A u \in Thread \ {t} : arg'[u] = arg[u]
  BY DEF TypeOK

LEMMA NoArgType ==
  /\ NoArg \in [size : Nat, block : Nat, copy : Seq(Int), new : Nat]
  /\ NoArg.block = 0
  BY DEF NoArg

\* The blocks about to be given back: thread t's own, and the others.
LEMMA TransitFrame ==
  ASSUME TypeOK, ClaimsOK, NEW t \in Thread, Others(t)
  PROVE  \E S : /\ Transit = S \union (IF pc[t] \in {"lock", "push"} THEN {arg[t].block} ELSE {})
                /\ Transit' = S \union (IF pc'[t] \in {"lock", "push"} THEN {arg'[t].block} ELSE {})
                /\ arg[t].block # 0 => arg[t].block \notin S
  <1> DEFINE S == {arg[u].block : u \in {u \in Thread \ {t} : pc[u] \in {"lock", "push"}}}
  <1>1. Transit = S \union (IF pc[t] \in {"lock", "push"} THEN {arg[t].block} ELSE {})
    BY DEF Transit
  <1>2. Transit' = S \union (IF pc'[t] \in {"lock", "push"} THEN {arg'[t].block} ELSE {})
    BY DEF Transit, Others
  <1>3. arg[t].block # 0 => arg[t].block \notin S
    BY DEF ClaimsOK
  <1> QED BY <1>1, <1>2, <1>3

\* A block stays one while its page keeps its header.
LEMMA ValidKept ==
  ASSUME NEW b \in Nat, Valid(b), block_to_arena(b) \in used',
         arena'[block_to_arena(b)].desc = arena[block_to_arena(b)].desc,
         arena[block_to_arena(b)].desc = 0 => arena'[block_to_arena(b)] = arena[block_to_arena(b)]
  PROVE  Valid(b)' /\ Size(b)' = Size(b) /\ Owned(b)' = Owned(b)
  BY DEF Valid, Size, Owned

\* Calls of other threads keep what they work on.
LEMMA ThreadsFrame ==
  ASSUME TypeOK, ThreadsOK, NEW t \in Thread, Others(t),
         \A u \in Thread \ {t} : arg[u].block \in Addrs => arg[u].block \in Addrs',
         \A u \in Thread \ {t} : \A b \in Nat :
           pc[u] \in {"lock", "push", "test"} /\ b = arg[u].block =>
             Valid(b)' /\ arena'[block_to_arena(b)].desc # 0,
         \A u \in Thread \ {t} : pc[u] \in {"lock", "push"} => arg[u].block \notin Addrs',
         ThreadOK(t)'
  PROVE  ThreadsOK'
  <1> SUFFICES ASSUME NEW u \in Thread \ {t} PROVE ThreadOK(u)'
    BY DEF ThreadsOK
  <1>1. pc'[u] = pc[u] /\ arg'[u] = arg[u]
    BY DEF Others
  <1>2. ThreadOK(u)
    BY DEF ThreadsOK
  <1>3. PICK b \in Nat : b = arg[u].block
    BY DEF TypeOK
  <1>4. ASSUME pc[u] \in {"lock", "push", "test"}
        PROVE  (Valid(arg[u].block) /\ arena[block_to_arena(arg[u].block)].desc # 0)'
    <2>1. Valid(b)' /\ arena'[block_to_arena(b)].desc # 0
      BY <1>3, <1>4
    <2> QED BY <1>1, <1>3, <2>1 DEF Valid
  <1> QED BY <1>1, <1>2, <1>3, <1>4 DEF ThreadOK, Fits, descs

\* A step that leaves arenas, lists and blocks alone.
LEMMA QuietFrame ==
  ASSUME IInv, used' = used, arena' = arena, free_list' = free_list, Taken' = Taken
  PROVE  /\ PagesOK' /\ ListsOK' /\ CountOK'
         /\ Arenas' = Arenas /\ BigHeads' = BigHeads
         /\ \A b \in Nat : Valid(b)' = Valid(b) /\ Size(b)' = Size(b) /\ Owned(b)' = Owned(b)
  <1>1. Arenas' = Arenas /\ BigHeads' = BigHeads
    BY DEF Arenas, BigHeads
  <1>2. \A b : Valid(b)' = Valid(b) /\ Size(b)' = Size(b) /\ Owned(b)' = Owned(b)
    BY DEF Valid, Size, Owned
  <1>3. \A p : Extent(p)' = Extent(p)
    BY DEF Extent
  <1>4. \A d : Listed(d)' = Listed(d)
    BY DEF Listed
  <1>5. \A p : FreeIn(p)' = FreeIn(p)
    BY <1>4 DEF FreeIn
  <1>6. PagesOK'
    BY <1>1, <1>3 DEF IInv, PagesOK
  <1>7. ListsOK'
    BY <1>1, <1>2, <1>4 DEF IInv, ListsOK
  <1>8. CountOK'
    BY <1>1, <1>5 DEF IInv, CountOK
  <1> QED BY <1>1, <1>2, <1>6, <1>7, <1>8

\* The blocks of callers and their bytes, left alone as well.
LEMMA QuietHeld ==
  ASSUME IInv, used' = used, arena' = arena, held' = held, bytes' = bytes
  PROVE  HeldOK' /\ BytesOK' /\ Addrs' = Addrs
  <1>1. Arenas' = Arenas /\ BigHeads' = BigHeads /\ Addrs' = Addrs
    BY DEF Arenas, BigHeads, Addrs
  <1>2. \A b : Valid(b)' = Valid(b) /\ Size(b)' = Size(b)
    BY DEF Valid, Size
  <1>3. HeldOK'
    BY <1>1, <1>2 DEF IInv, HeldOK
  <1>4. BytesOK'
    BY <1>1 DEF IInv, BytesOK
  <1> QED BY <1>1, <1>3, <1>4

\* The lock that a thread holds depends on its call and its block's page.
LEMMA LockOfKept ==
  ASSUME NEW u \in Thread, pc'[u] = pc[u], arg'[u] = arg[u],
         pc[u] \in {"push", "test"} =>
           arena'[block_to_arena(arg[u].block)].desc = arena[block_to_arena(arg[u].block)].desc,
         pc[u] \in Locked
  PROVE  LockOf(u)' = LockOf(u)
  <1>1. CASE pc[u] = "unlock"
    BY <1>1 DEF LockOf
  <1>2. CASE pc[u] = "pop"
    BY <1>2 DEF LockOf, Desc, Smallest, Fits, descs
  <1>3. CASE pc[u] \in {"push", "test"}
    BY <1>3 DEF LockOf, Desc
  <1> QED BY <1>1, <1>2, <1>3 DEF Locked

\* The thread's own lock is as it was, ...
LEMMA LocksSame ==
  ASSUME TypeOK, LocksOK, NEW t \in Thread, Others(t), lock' = lock,
         \A u \in Thread \ {t} : pc[u] \in {"push", "test"} =>
           arena'[block_to_arena(arg[u].block)].desc = arena[block_to_arena(arg[u].block)].desc,
         pc'[t] \in Locked <=> pc[t] \in Locked,
         pc[t] \in Locked => LockOf(t)' = LockOf(t)
  PROVE  LocksOK'
  <1> SUFFICES ASSUME NEW d \in descs, NEW u \in Thread
               PROVE  lock'[d] = u <=> pc'[u] \in Locked /\ d = LockOf(u)'
    BY DEF LocksOK, descs, Locked
  <1>1. lock[d] = u <=> pc[u] \in Locked /\ d = LockOf(u)
    BY DEF LocksOK
  <1>2. CASE u = t
    BY <1>1, <1>2
  <1>3. CASE u # t
    <2>1. pc'[u] = pc[u] /\ arg'[u] = arg[u]
      BY <1>3 DEF Others
    <2>2. pc[u] \in Locked => LockOf(u)' = LockOf(u)
      BY <1>3, <2>1, LockOfKept
    <2> QED BY <1>1, <2>1, <2>2
  <1> QED BY <1>2, <1>3

\* ... or just taken, ...
LEMMA LocksTaken ==
  ASSUME TypeOK, LocksOK, NEW t \in Thread, Others(t), NEW e \in descs,
         lock[e] = NULL, lock' = [lock EXCEPT ![e] = t],
         \A u \in Thread \ {t} : pc[u] \in {"push", "test"} =>
           arena'[block_to_arena(arg[u].block)].desc = arena[block_to_arena(arg[u].block)].desc,
         pc[t] \notin Locked, pc'[t] \in Locked, LockOf(t)' = e
  PROVE  LocksOK'
  <1> SUFFICES ASSUME NEW d \in descs, NEW u \in Thread
               PROVE  lock'[d] = u <=> pc'[u] \in Locked /\ d = LockOf(u)'
    BY DEF LocksOK, descs, Locked
  <1>1. lock[d] = u <=> pc[u] \in Locked /\ d = LockOf(u)
    BY DEF LocksOK
  <1>2. lock'[d] = IF d = e THEN t ELSE lock[d]
    BY DEF TypeOK
  <1>3. u # NULL /\ t # NULL
    BY HeapAssumption
  <1>4. CASE u = t
    BY <1>1, <1>2, <1>4
  <1>5. CASE u # t
    <2>1. pc'[u] = pc[u] /\ arg'[u] = arg[u]
      BY <1>5 DEF Others
    <2>2. pc[u] \in Locked => LockOf(u)' = LockOf(u)
      BY <1>5, <2>1, LockOfKept
    <2> QED BY <1>1, <1>2, <1>3, <1>5, <2>1, <2>2
  <1> QED BY <1>4, <1>5

\* ... or just released.
LEMMA LocksReleased ==
  ASSUME TypeOK, LocksOK, NEW t \in Thread, Others(t), NEW e \in descs,
         pc[t] \in Locked, LockOf(t) = e, lock' = [lock EXCEPT ![e] = NULL],
         \A u \in Thread \ {t} : pc[u] \in {"push", "test"} =>
           arena'[block_to_arena(arg[u].block)].desc = arena[block_to_arena(arg[u].block)].desc,
         pc'[t] \notin Locked
  PROVE  LocksOK'
  <1> SUFFICES ASSUME NEW d \in descs, NEW u \in Thread
               PROVE  lock'[d] = u <=> pc'[u] \in Locked /\ d = LockOf(u)'
    BY DEF LocksOK, descs, Locked
  <1>1. \A w \in Thread : lock[d] = w <=> pc[w] \in Locked /\ d = LockOf(w)
    BY DEF LocksOK
  <1>2. lock'[d] = IF d = e THEN NULL ELSE lock[d]
    BY DEF TypeOK
  <1>3. u # NULL /\ t # NULL
    BY HeapAssumption
  <1>4. CASE u = t
    BY <1>1, <1>2, <1>3, <1>4
  <1>5. CASE u # t
    <2>1. pc'[u] = pc[u] /\ arg'[u] = arg[u]
      BY <1>5 DEF Others
    <2>2. pc[u] \in Locked => LockOf(u)' = LockOf(u)
      BY <1>5, <2>1, LockOfKept
    <2>3. d = e => lock[d] = t
      BY <1>1
    <2> QED BY <1>1, <1>2, <1>3, <1>5, <2>1, <2>2, <2>3
  <1> QED BY <1>4, <1>5

\* An arena that another thread is passing stays so.
LEMMA PassingKept ==
  ASSUME NEW p, NEW t \in Thread, NEW u \in Thread \ {t}, Others(t), Passing(p, u),
         arena'[p].desc = arena[p].desc,
         lock'[arena[p].desc] = lock[arena[p].desc],
         free_list'[arena[p].desc] = free_list[arena[p].desc]
  PROVE  Passing(p, u)'
  <1>1. pc'[u] = pc[u] /\ arg'[u] = arg[u]
    BY DEF Others
  <1> QED BY <1>1 DEF Passing

LEMMA QuietInUse ==
  ASSUME IInv, NEW t \in Thread, Others(t),
         used' = used, arena' = arena, free_list' = free_list, Taken' = Taken,
         \A d \in descs : lock'[d] = lock[d] \/ lock[d] \in {NULL, t},
         \A p \in Arenas : Passing(p, t) =>
           Passing(p, t)' \/ \E b \in Taken : block_to_arena(b) = p
  PROVE  InUse'
  <1> SUFFICES ASSUME NEW p \in Arenas, ~ \E b \in Taken : block_to_arena(b) = p
               PROVE  \E u \in Thread : Passing(p, u)'
    BY DEF InUse, Arenas
  <1>1. PICK u \in Thread : Passing(p, u)
    BY DEF IInv, InUse
  <1>2. CASE u = t
    BY <1>1, <1>2
  <1>3. CASE u # t
    <2>1. arena[p].desc \in descs
      BY FreeBlocks DEF IInv
    <2>2. lock[arena[p].desc] = u /\ u # NULL
      BY <1>1, HeapAssumption DEF Passing
    <2>3. lock'[arena[p].desc] = lock[arena[p].desc]
      BY <1>3, <2>1, <2>2
    <2> QED BY <1>1, <1>3, <2>3, PassingKept
  <1> QED BY <1>2, <1>3

\* A step that changes only where a thread is, what it works on, and locks.
LEMMA QuietStep ==
  ASSUME IInv, NEW t \in Thread, Others(t),
         UNCHANGED <<used, arena, bytes, free_list, held>>,
         Transit' = Transit,
         TypeOK', ThreadOK(t)', ClaimsOK', LocksOK',
         \A d \in descs : lock'[d] = lock[d] \/ lock[d] \in {NULL, t},
         \A p \in Arenas : Passing(p, t) =>
           Passing(p, t)' \/ \E b \in Taken : block_to_arena(b) = p
  PROVE  IInv'
  <1>1. Addrs' = Addrs /\ HeldOK' /\ BytesOK'
    BY QuietHeld
  <1>2. Taken' = Taken
    BY <1>1 DEF Taken
  <1>3. PagesOK' /\ ListsOK' /\ CountOK' /\ \A b \in Nat : Valid(b)' = Valid(b)
    BY <1>2, QuietFrame
  <1>4. ThreadsOK'
    <2>1. \A u \in Thread : ThreadOK(u)
      BY DEF IInv, ThreadsOK
    <2>2. \A u \in Thread \ {t} : \A b \in Nat :
            pc[u] \in {"lock", "push", "test"} /\ b = arg[u].block =>
              Valid(b)' /\ arena'[block_to_arena(b)].desc # 0
      BY <1>3, <2>1 DEF ThreadOK
    <2>3. \A u \in Thread \ {t} : pc[u] \in {"lock", "push"} => arg[u].block \notin Addrs'
      BY <1>1, <2>1 DEF ThreadOK
    <2> QED BY <1>1, <2>2, <2>3, ThreadsFrame DEF IInv
  <1>5. InUse'
    BY <1>2, QuietInUse
  <1> QED BY <1>1, <1>3, <1>4, <1>5 DEF IInv

\* No call works on the block that a new one is about.
LEMMA ClaimsNew ==
  ASSUME TypeOK, ClaimsOK, NEW t \in Thread, Others(t),
         \A u \in Thread \ {t} : arg'[t].block # 0 => arg[u].block # arg'[t].block
  PROVE  ClaimsOK'
  BY DEF ClaimsOK, Others

\* malloc(), realloc() and free() begin.
LEMMA CallStep ==
  ASSUME IInv, NEW t \in Thread, pc[t] = "idle",
         NEW r \in [size : Nat, block : Nat, copy : Seq(Int), new : Nat],
         NEW l \in {"malloc", "free"},
         pc' = [pc EXCEPT ![t] = l], arg' = [arg EXCEPT ![t] = r],
         UNCHANGED <<used, arena, bytes, free_list, lock, held>>,
         l = "malloc" => r.size \in Sizes,
         l = "free" => r.block # 0,
         r.block # 0 => r.block \in Addrs /\ \A u \in Thread : arg[u].block # r.block
  PROVE  IInv'
  <1>1. TypeOK /\ ClaimsOK /\ LocksOK
    BY DEF IInv
  <1>2. l \in Label
    BY DEF Label
  <1>3. pc' \in [Thread -> Label] /\ pc'[t] = l /\ \A u \in Thread \ {t} : pc'[u] = pc[u]
    BY <1>1, <1>2, MovePc
  <1>4. /\ arg' \in [Thread -> [size : Nat, block : Nat, copy : Seq(Int), new : Nat]]
        /\ arg'[t] = r /\ \A u \in Thread \ {t} : arg'[u] = arg[u]
    BY <1>1, MoveArg
  <1>5. Others(t)
    BY <1>3, <1>4 DEF Others
  <1>6. TypeOK'
    BY <1>1, <1>3, <1>4 DEF TypeOK
  <1>7. Transit' = Transit
    BY <1>1, <1>3, <1>5, TransitFrame
  <1>8. ClaimsOK'
    BY <1>1, <1>4, <1>5, ClaimsNew
  <1>9. pc[t] \notin Locked /\ pc'[t] \notin Locked
    BY <1>3 DEF Locked
  <1>10. LocksOK'
    BY <1>1, <1>5, <1>9, LocksSame
  <1>11. Addrs' = Addrs
    BY DEF Addrs
  <1>12. ThreadOK(t)'
    BY <1>3, <1>4, <1>11 DEF ThreadOK
  <1>13. \A p : ~ Passing(p, t)
    BY DEF Passing
  <1> QED BY <1>5, <1>6, <1>7, <1>8, <1>10, <1>12, <1>13, QuietStep

LEMMA BeginStep ==
  ASSUME IInv, NEW t \in Thread,
         (\E size \in Sizes : malloc(t, size) \/ realloc(t, size))
           \/ (\E a, b \in Factors : calloc(t, a, b)) \/ free(t)
  PROVE  IInv'
  <1>1. \A size \in Sizes : size \in Nat
    BY HeapAssumption
  <1>2. ASSUME NEW size \in Sizes, malloc(t, size) PROVE IInv'
    <2> DEFINE r == [size |-> size, block |-> 0, copy |-> <<>>, new |-> 0]
    <2>1. r \in [size : Nat, block : Nat, copy : Seq(Int), new : Nat] /\ r.size = size /\ r.block = 0
      BY <1>1
    <2>2. pc[t] = "idle" /\ pc' = [pc EXCEPT ![t] = "malloc"] /\ arg' = [arg EXCEPT ![t] = r]
          /\ UNCHANGED <<used, arena, bytes, free_list, lock, held>>
      BY <1>2 DEF malloc, Goto
    <2> HIDE DEF r
    <2> QED BY <2>1, <2>2, CallStep
  <1>3. ASSUME NEW b \in held, Idle(b.addr)
        PROVE  b.addr \in Nat /\ b.addr # 0 /\ b.addr \in Addrs /\ b.text \in Seq(Int)
               /\ \A u \in Thread : arg[u].block # b.addr
    <2>1. b.addr \in Nat /\ b.text \in Seq(Int) /\ b.addr \in Addrs
      BY DEF IInv, TypeOK, Addrs
    <2>2. b.addr # 0
      BY <2>1, TakenValid DEF IInv, Taken
    <2> QED BY <1>3, <2>1, <2>2 DEF Idle
  <1>4. ASSUME NEW size \in Sizes, realloc(t, size) PROVE IInv'
    <2>1. PICK b \in held : /\ Idle(b.addr)
            /\ arg' = [arg EXCEPT ![t] = [size |-> size, block |-> b.addr, copy |-> b.text, new |-> 0]]
      BY <1>4 DEF realloc
    <2>2. b.addr \in Nat /\ b.addr # 0 /\ b.addr \in Addrs /\ b.text \in Seq(Int)
               /\ \A u \in Thread : arg[u].block # b.addr
      BY <1>3, <2>1
    <2> DEFINE r == [size |-> size, block |-> b.addr, copy |-> b.text, new |-> 0]
    <2>3. r \in [size : Nat, block : Nat, copy : Seq(Int), new : Nat] /\ r.size = size /\ r.block = b.addr
      BY <1>1, <2>2
    <2>4. pc[t] = "idle" /\ pc' = [pc EXCEPT ![t] = "malloc"] /\ arg' = [arg EXCEPT ![t] = r]
          /\ UNCHANGED <<used, arena, bytes, free_list, lock, held>>
      BY <1>4, <2>1 DEF realloc, Goto
    <2> HIDE DEF r
    <2> QED BY <2>2, <2>3, <2>4, CallStep
  <1>5. ASSUME NEW a \in Factors, NEW b \in Factors, calloc(t, a, b) PROVE IInv'
    <2>1. PICK size : malloc(t, size)
      BY <1>5 DEF calloc
    <2>2. size \in Sizes
      BY <2>1 DEF malloc
    <2> QED BY <1>2, <2>1, <2>2
  <1>6. ASSUME free(t) PROVE IInv'
    <2>1. PICK b \in held : /\ Idle(b.addr)
            /\ arg' = [arg EXCEPT ![t] = [size |-> 0, block |-> b.addr, copy |-> <<>>, new |-> 0]]
      BY <1>6 DEF free
    <2>2. b.addr \in Nat /\ b.addr # 0 /\ b.addr \in Addrs /\ b.text \in Seq(Int)
               /\ \A u \in Thread : arg[u].block # b.addr
      BY <1>3, <2>1
    <2> DEFINE r == [size |-> 0, block |-> b.addr, copy |-> <<>>, new |-> 0]
    <2>3. r \in [size : Nat, block : Nat, copy : Seq(Int), new : Nat] /\ r.block = b.addr
      BY <2>2
    <2>4. pc[t] = "idle" /\ pc' = [pc EXCEPT ![t] = "free"] /\ arg' = [arg EXCEPT ![t] = r]
          /\ UNCHANGED <<used, arena, bytes, free_list, lock, held>>
      BY <1>6, <2>1 DEF free, Goto
    <2> HIDE DEF r
    <2> QED BY <2>2, <2>3, <2>4, CallStep
  <1> QED BY <1>2, <1>4, <1>5, <1>6

\* The descriptor that a thread works with.
LEMMA OwnDesc ==
  ASSUME IInv, NEW t \in Thread
  PROVE  /\ pc[t] = "malloc" /\ Fits(arg[t].size) # {} => Desc(t) \in descs /\ arg[t].size <= Desc(t)
         /\ pc[t] = "pop" => Desc(t) \in descs /\ arg[t].size <= Desc(t)
         /\ pc[t] \in {"lock", "push", "test"} =>
              /\ Desc(t) = arena[block_to_arena(arg[t].block)].desc
              /\ Desc(t) \in descs
              /\ Valid(arg[t].block)
              /\ arg[t].block \in Nat
              /\ arg[t].block # 0
              /\ block_to_arena(arg[t].block) \in Arenas
         /\ pc[t] \in Locked => LockOf(t) \in descs /\ lock[LockOf(t)] = t
         /\ pc[t] \in {"pop", "push", "test"} => LockOf(t) = Desc(t)
  <1>1. TypeOK /\ ThreadOK(t) /\ LocksOK
    BY DEF IInv, ThreadsOK
  <1>2. ASSUME pc[t] \in {"malloc", "pop"}, Fits(arg[t].size) # {}
        PROVE  Desc(t) \in descs /\ arg[t].size <= Desc(t)
    <2>1. arg[t].size \in Nat
      BY <1>1 DEF TypeOK
    <2> QED BY <1>2, <2>1, FitsDesc DEF Desc
  <1>3. ASSUME pc[t] = "pop" PROVE Desc(t) \in descs /\ arg[t].size <= Desc(t)
    BY <1>1, <1>2, <1>3 DEF ThreadOK
  <1>4. ASSUME pc[t] \in {"lock", "push", "test"}
        PROVE  /\ Desc(t) = arena[block_to_arena(arg[t].block)].desc
               /\ Desc(t) \in descs
               /\ Valid(arg[t].block)
               /\ arg[t].block \in Nat
               /\ arg[t].block # 0
               /\ block_to_arena(arg[t].block) \in Arenas
    <2>1. arg[t].block \in Nat /\ Valid(arg[t].block) /\ arena[block_to_arena(arg[t].block)].desc # 0
      BY <1>1, <1>4 DEF TypeOK, ThreadOK
    <2>2. Desc(t) = arena[block_to_arena(arg[t].block)].desc
      BY <1>4 DEF Desc
    <2>3. block_to_arena(arg[t].block) \in Arenas /\ arg[t].block # 0
      BY <1>1, <2>1, ValidPlace
    <2>4. block_to_arena(arg[t].block) \in used
      BY <2>3 DEF Arenas
    <2>5. Desc(t) \in descs
      BY <1>1, <2>1, <2>2, <2>4, PageFacts
    <2> QED BY <2>1, <2>2, <2>3, <2>5
  <1>5. pc[t] \in {"pop", "push", "test"} => LockOf(t) = Desc(t)
    BY DEF LockOf
  <1>6. pc[t] \in Locked => LockOf(t) \in descs
    BY <1>1, <1>3, <1>4, <1>5 DEF Locked, ThreadOK, LockOf
  <1>7. pc[t] \in Locked => lock[LockOf(t)] = t
    BY <1>1, <1>6 DEF LocksOK
  <1> QED BY <1>2, <1>3, <1>4, <1>5, <1>6, <1>7

\* A thread that fails to allocate returns to its caller.
LEMMA FailsStep ==
  ASSUME IInv, NEW t \in Thread, MallocBigFails(t) \/ NewArenaFails(t)
  PROVE  IInv'
  <1>1. TypeOK /\ ClaimsOK /\ LocksOK
    BY DEF IInv
  <1>2. /\ pc' = [pc EXCEPT ![t] = "idle"] /\ arg' = [arg EXCEPT ![t] = NoArg]
        /\ UNCHANGED <<used, arena, bytes, free_list, held>>
    BY DEF MallocBigFails, NewArenaFails, Fail, Goto
  <1>3. pc' \in [Thread -> Label] /\ pc'[t] = "idle" /\ \A u \in Thread \ {t} : pc'[u] = pc[u]
    BY <1>1, <1>2, MovePc DEF Label
  <1>4. /\ arg' \in [Thread -> [size : Nat, block : Nat, copy : Seq(Int), new : Nat]]
        /\ arg'[t] = NoArg /\ \A u \in Thread \ {t} : arg'[u] = arg[u]
    BY <1>1, <1>2, MoveArg, NoArgType
  <1>5. Others(t)
    BY <1>3, <1>4 DEF Others
  <1>6. pc[t] \in {"malloc", "pop"}
    BY DEF MallocBigFails, NewArenaFails
  <1>7. Transit' = Transit
    BY <1>1, <1>3, <1>5, <1>6, TransitFrame
  <1>8. ClaimsOK'
    BY <1>1, <1>4, <1>5, NoArgType, ClaimsNew
  <1>9. ThreadOK(t)'
    BY <1>3, <1>4, NoArgType DEF ThreadOK
  <1>10. CASE MallocBigFails(t)
    <2>1. lock' = lock /\ pc[t] = "malloc"
      BY <1>10 DEF MallocBigFails
    <2>2. TypeOK'
      BY <1>1, <1>2, <1>3, <1>4, <2>1 DEF TypeOK
    <2>3. pc[t] \notin Locked /\ pc'[t] \notin Locked
      BY <1>3, <2>1 DEF Locked
    <2>4. LocksOK'
      BY <1>1, <1>2, <1>5, <2>1, <2>3, LocksSame
    <2>5. \A p : ~ Passing(p, t)
      BY <2>1 DEF Passing
    <2> QED BY <1>2, <1>5, <1>7, <1>8, <1>9, <2>1, <2>2, <2>4, <2>5, QuietStep
  <1>11. CASE NewArenaFails(t)
    <2> DEFINE d == Desc(t)
    <2>1. lock' = [lock EXCEPT ![d] = NULL] /\ pc[t] = "pop" /\ free_list[d] = <<>>
      BY <1>11 DEF NewArenaFails
    <2>2. pc[t] \in Locked /\ pc'[t] \notin Locked
      BY <1>3, <2>1 DEF Locked
    <2>3. d \in descs /\ LockOf(t) = d /\ lock[d] = t
      BY <2>1, <2>2, OwnDesc
    <2> HIDE DEF d
    <2>4. TypeOK'
      BY <1>1, <1>2, <1>3, <1>4, <2>1, <2>3 DEF TypeOK
    <2>5. LocksOK'
      BY <1>1, <1>2, <1>5, <2>1, <2>2, <2>3, LocksReleased
    <2>6. \A e \in descs : lock'[e] = lock[e] \/ lock[e] \in {NULL, t}
      BY <1>1, <2>1, <2>3 DEF TypeOK
    <2>7. ASSUME NEW p \in Arenas, Passing(p, t) PROVE FALSE
      <3>1. arena[p].desc \in descs
        BY FreeBlocks DEF IInv
      <3>2. arena[p].desc = d
        BY <1>1, <2>3, <2>7, <3>1 DEF Passing, LocksOK
      <3> QED BY <2>1, <2>7, <3>2 DEF Passing
    <2> QED BY <1>2, <1>5, <1>7, <1>8, <1>9, <2>4, <2>5, <2>6, <2>7, QuietStep
  <1> QED BY <1>10, <1>11

\* A descriptor's lock is taken.
LEMMA LockStep ==
  ASSUME IInv, NEW t \in Thread, MallocLock(t) \/ FreeLock(t)
  PROVE  IInv'
  <1>1. TypeOK /\ ClaimsOK /\ LocksOK /\ ThreadOK(t)
    BY DEF IInv, ThreadsOK
  <1> DEFINE d == Desc(t)
  <1>2. /\ lock[d] = NULL /\ lock' = [lock EXCEPT ![d] = t]
        /\ arg' = arg /\ UNCHANGED <<used, arena, bytes, free_list, held>>
    BY DEF MallocLock, FreeLock
  <1>3. PICK l \in {"pop", "push"} : /\ pc' = [pc EXCEPT ![t] = l]
                                     /\ l = "pop" => pc[t] = "malloc" /\ Fits(arg[t].size) # {}
                                     /\ l = "push" => pc[t] = "lock"
    BY DEF MallocLock, FreeLock, Goto
  <1>4. pc' \in [Thread -> Label] /\ pc'[t] = l /\ \A u \in Thread \ {t} : pc'[u] = pc[u]
    BY <1>1, <1>3, MovePc DEF Label
  <1>5. Others(t)
    BY <1>2, <1>4 DEF Others
  <1>6. Transit' = Transit
    BY <1>1, <1>2, <1>3, <1>4, <1>5, TransitFrame
  <1>7. ClaimsOK'
    BY <1>1, <1>2 DEF ClaimsOK
  <1>8. d \in descs
    BY <1>3, OwnDesc
  <1>9. LockOf(t)' = d
    BY <1>2, <1>3, <1>4 DEF LockOf, Desc, Smallest, Fits, descs
  <1>10. Addrs' = Addrs
    BY <1>2 DEF Addrs
  <1>11. Valid(arg[t].block)' = Valid(arg[t].block)
    BY <1>2 DEF Valid
  <1>12. ThreadOK(t)'
    BY <1>1, <1>2, <1>3, <1>4, <1>10, <1>11 DEF ThreadOK, Fits
  <1> HIDE DEF d
  <1>13. TypeOK'
    BY <1>1, <1>2, <1>4, <1>8 DEF TypeOK
  <1>14. pc[t] \notin Locked /\ pc'[t] \in Locked
    BY <1>3, <1>4 DEF Locked
  <1>15. LocksOK'
    BY <1>1, <1>2, <1>5, <1>8, <1>9, <1>14, LocksTaken
  <1>16. \A e \in descs : lock'[e] = lock[e] \/ lock[e] \in {NULL, t}
    BY <1>1, <1>2, <1>8 DEF TypeOK
  <1>17. \A p : ~ Passing(p, t)
    BY <1>3 DEF Passing
  <1> QED BY <1>2, <1>5, <1>6, <1>7, <1>12, <1>13, <1>15, <1>16, <1>17, QuietStep

\* The arena that a block went back to is still in use.
LEMMA KeepStep ==
  ASSUME IInv, NEW t \in Thread, KeepArena(t)
  PROVE  IInv'
  <1>1. TypeOK /\ ClaimsOK /\ LocksOK /\ ThreadOK(t)
    BY DEF IInv, ThreadsOK
  <1>2. /\ pc[t] = "test" /\ ~ EntirelyUnused(block_to_arena(arg[t].block), Desc(t))
        /\ arg' = [arg EXCEPT ![t] = [arg[t] EXCEPT !.block = 0, !.size = Desc(t)]]
        /\ pc' = [pc EXCEPT ![t] = "unlock"]
        /\ UNCHANGED <<used, arena, bytes, free_list, lock, held>>
    BY DEF KeepArena, Goto
  <1> DEFINE r == [arg[t] EXCEPT !.block = 0, !.size = Desc(t)]
  <1>3. Desc(t) \in descs /\ Desc(t) \in Nat
    BY <1>2, OwnDesc, DescSizes
  <1>4. r \in [size : Nat, block : Nat, copy : Seq(Int), new : Nat] /\ r.block = 0 /\ r.size = Desc(t)
    BY <1>1, <1>3 DEF TypeOK
  <1>5. arg' = [arg EXCEPT ![t] = r]
    BY <1>2
  <1> HIDE DEF r
  <1>6. pc' \in [Thread -> Label] /\ pc'[t] = "unlock" /\ \A u \in Thread \ {t} : pc'[u] = pc[u]
    BY <1>1, <1>2, MovePc DEF Label
  <1>7. /\ arg' \in [Thread -> [size : Nat, block : Nat, copy : Seq(Int), new : Nat]]
        /\ arg'[t] = r /\ \A u \in Thread \ {t} : arg'[u] = arg[u]
    BY <1>1, <1>4, <1>5, MoveArg
  <1>8. Others(t)
    BY <1>6, <1>7 DEF Others
  <1>9. Transit' = Transit
    BY <1>1, <1>2, <1>6, <1>8, TransitFrame
  <1>10. ClaimsOK'
    BY <1>1, <1>4, <1>7, <1>8, ClaimsNew
  <1>11. pc[t] \in Locked /\ pc'[t] \in Locked
    BY <1>2, <1>6 DEF Locked
  <1>12. LockOf(t) = Desc(t) /\ LockOf(t)' = Desc(t)
    BY <1>2, <1>4, <1>6, <1>7 DEF LockOf
  <1>13. LocksOK'
    BY <1>1, <1>2, <1>8, <1>11, <1>12, LocksSame
  <1>14. TypeOK'
    BY <1>1, <1>2, <1>6, <1>7 DEF TypeOK
  <1>15. ThreadOK(t)'
    BY <1>3, <1>4, <1>6, <1>7 DEF ThreadOK, descs
  <1>16. ASSUME NEW p \in Arenas, Passing(p, t)
         PROVE  \E b \in Taken : block_to_arena(b) = p
    <2>1. p = block_to_arena(arg[t].block)
      BY <1>2, <1>16 DEF Passing
    <2>2. ~ EntirelyUnused(p, arena[p].desc)
      BY <1>2, <2>1, OwnDesc
    <2> QED BY <2>2, Unused DEF IInv
  <1> QED BY <1>2, <1>8, <1>9, <1>10, <1>13, <1>14, <1>15, <1>16, QuietStep

-----------------------------------------------------------------------------
(***************************************************************************)
(* Giving a block back.                                                    *)
(***************************************************************************)
LEMMA WrittenAt ==
  ASSUME NEW mem \in [Address -> Int], NEW W, NEW v \in Int
  PROVE  /\ Written(mem, W, v) \in [Address -> Int]
         /\ \A x \in Address : Written(mem, W, v)[x] = IF x \in W THEN v ELSE mem[x]
  BY DEF Written

\* The caller fills its new block, of those that are kept.
LEMMA RefillEffect ==
  ASSUME IInv, NEW kept \in SUBSET held, NEW mem \in [Address -> Int], NEW b \in Nat,
         Refill(mem, kept, b),
         \A r \in kept : \A x \in Owned(r.addr) : mem[x] = bytes[x]
  PROVE  /\ held' \in SUBSET [addr : Nat, text : Seq(Int)]
         /\ bytes' \in [Address -> Int]
         /\ Addrs' = {r.addr : r \in kept}
         /\ \A s \in held' : \E r \in kept : s.addr = r.addr /\ Len(s.text) = Len(r.text)
         /\ \A r, s \in held' : r.addr = s.addr => r = s
         /\ \A s \in held' : \A i \in 1 .. Len(s.text) : bytes'[s.addr + i - 1] = s.text[i]
         /\ \A p \in Arenas : \A x \in Region(p * PGSIZE, ArenaSize) :
              x \in Address => bytes'[x] = mem[x]
  <1>1. TypeOK /\ PagesOK /\ HeldOK /\ BytesOK
    BY DEF IInv
  <1> DEFINE New(r) == IF r.addr = b THEN [r EXCEPT !.text = [i \in DOMAIN r.text |-> b]] ELSE r
             Filled(x) == \E r \in kept : r.addr = b /\ x \in Region(b, Len(r.text))
  <1>2. held' = {New(r) : r \in kept} /\ bytes' = [x \in Address |-> IF Filled(x) THEN b ELSE mem[x]]
    BY DEF Refill
  <1>3. \A r \in kept : r \in held /\ r \in [addr : Nat, text : Seq(Int)] /\ Valid(r.addr)
    BY <1>1 DEF TypeOK, HeldOK
  <1>4. ASSUME NEW r \in kept
        PROVE  /\ New(r) \in [addr : Nat, text : Seq(Int)]
               /\ New(r).addr = r.addr /\ Len(New(r).text) = Len(r.text)
               /\ r.addr = b => \A i \in 1 .. Len(r.text) : New(r).text[i] = b
               /\ r.addr # b => New(r) = r
    <2>1. CASE r.addr # b
      BY <1>3, <2>1
    <2>2. CASE r.addr = b
      <3> DEFINE text == [i \in DOMAIN r.text |-> b]
      <3>1. r.text \in Seq(Int) /\ DOMAIN r.text = 1 .. Len(r.text) /\ Len(r.text) \in Nat
        BY <1>3
      <3>2. text \in Seq(Int) /\ Len(text) = Len(r.text) /\ \A i \in 1 .. Len(r.text) : text[i] = b
        BY <3>1
      <3>3. New(r) = [r EXCEPT !.text = text]
        BY <2>2
      <3> HIDE DEF text, New
      <3>4. New(r) \in [addr : Nat, text : Seq(Int)] /\ New(r).addr = r.addr /\ New(r).text = text
        BY <1>3, <3>2, <3>3
      <3> QED BY <2>2, <3>2, <3>4
    <2> QED BY <2>1, <2>2
  <1> HIDE DEF New
  <1>5. ASSUME NEW x \in Address, Filled(x)
        PROVE  Valid(b) /\ x \in Owned(b)
    <2>1. PICK r \in kept : r.addr = b /\ x \in Region(b, Len(r.text))
      BY <1>5
    <2>2. Valid(b) /\ Len(r.text) <= Size(b) /\ Len(r.text) \in Nat
      BY <1>1, <1>3, <2>1 DEF HeldOK
    <2>3. Size(b) \in Nat
      BY <1>1, <2>2, OwnedPlace
    <2> QED BY <2>1, <2>2, <2>3 DEF Owned, Region
  <1>6. \A x \in Address : bytes'[x] = IF Filled(x) THEN b ELSE mem[x]
    BY <1>2
  <1>7. bytes' \in [Address -> Int]
    <2>1. \A x \in Address : (IF Filled(x) THEN b ELSE mem[x]) \in Int
      OBVIOUS
    <2> HIDE DEF Filled
    <2> QED BY <1>2, <2>1
  <1>8. ASSUME NEW r \in kept, NEW i \in 1 .. Len(r.text)
        PROVE  bytes'[r.addr + i - 1] = New(r).text[i]
    <2> DEFINE x == r.addr + i - 1
    <2>1. r \in held /\ r.addr \in Nat
      BY <1>3
    <2>2. x \in Region(r.addr, Len(r.text)) /\ x \in Owned(r.addr) /\ x \in Address
      BY <1>1, <2>1, TextPlace
    <2>3. bytes[x] = r.text[i]
      BY <1>1, <2>1 DEF BytesOK
    <2>4. mem[x] = r.text[i]
      BY <2>2, <2>3
    <2> HIDE DEF x
    <2>5. CASE r.addr = b
      <3>1. Filled(x)
        BY <2>2, <2>5
      <3> HIDE DEF Filled
      <3> QED BY <1>4, <1>6, <2>2, <2>5, <3>1 DEF x
    <2>6. CASE r.addr # b
      <3>1. ~ Filled(x)
        <4> SUFFICES ASSUME Filled(x) PROVE FALSE
          OBVIOUS
        <4>1. Valid(b) /\ x \in Owned(b)
          BY <1>5, <2>2
        <4>2. Valid(r.addr)
          BY <1>3
        <4> QED BY <1>1, <2>1, <2>2, <2>6, <4>1, <4>2, Apart
      <3> HIDE DEF Filled
      <3> QED BY <1>4, <1>6, <2>2, <2>4, <2>6, <3>1 DEF x
    <2> QED BY <2>5, <2>6
  <1>9. ASSUME NEW p \in Arenas, NEW x \in Region(p * PGSIZE, ArenaSize), x \in Address
        PROVE  bytes'[x] = mem[x]
    <2>1. ~ Filled(x)
      <3> SUFFICES ASSUME Filled(x) PROVE FALSE
        OBVIOUS
      <3>1. Valid(b) /\ x \in Owned(b)
        BY <1>5, <1>9
      <3> QED BY <1>1, <3>1, HeaderApart
    <2> QED BY <1>6, <1>9, <2>1
  <1> HIDE DEF Filled
  <1>10. held' \in SUBSET [addr : Nat, text : Seq(Int)]
    BY <1>2, <1>4
  <1>11. Addrs' = {r.addr : r \in kept}
    <2>1. Addrs' = {s.addr : s \in {New(r) : r \in kept}}
      BY <1>2 DEF Addrs
    <2> QED BY <1>4, <2>1
  <1>12. \A s \in held' : \E r \in kept : s.addr = r.addr /\ Len(s.text) = Len(r.text)
    BY <1>2, <1>4
  <1>13. \A r, s \in held' : r.addr = s.addr => r = s
    <2>1. \A r, s \in kept : r.addr = s.addr => r = s
      BY <1>1, <1>3 DEF HeldOK
    <2> QED BY <1>2, <1>4, <2>1
  <1>14. ASSUME NEW s \in held', NEW i \in 1 .. Len(s.text) PROVE bytes'[s.addr + i - 1] = s.text[i]
    <2>1. PICK r \in kept : s = New(r)
      BY <1>2
    <2>2. s.addr = r.addr /\ i \in 1 .. Len(r.text)
      BY <1>4, <2>1
    <2> QED BY <1>8, <2>1, <2>2
  <1> QED BY <1>7, <1>9, <1>10, <1>11, <1>12, <1>13, <1>14

\* free() releases the lock, and the call is over.
LEMMA UnlockStep ==
  ASSUME IInv, NEW t \in Thread, FreeUnlock(t)
  PROVE  IInv'
  <1>1. TypeOK /\ PagesOK /\ HeldOK /\ BytesOK /\ ClaimsOK /\ LocksOK /\ ThreadsOK
    BY DEF IInv
  <1> DEFINE d == arg[t].size
  <1>2. /\ pc[t] = "unlock" /\ lock' = [lock EXCEPT ![d] = NULL]
        /\ Refill(bytes, held, arg[t].new)
        /\ arg' = [arg EXCEPT ![t] = NoArg] /\ pc' = [pc EXCEPT ![t] = "idle"]
        /\ used' = used /\ arena' = arena /\ free_list' = free_list
    BY DEF FreeUnlock, Goto
  <1>3. pc[t] \in Locked /\ LockOf(t) = d
    BY <1>2 DEF Locked, LockOf
  <1>4. d \in descs /\ lock[d] = t
    BY <1>3, OwnDesc
  <1> HIDE DEF d
  <1>5. pc' \in [Thread -> Label] /\ pc'[t] = "idle" /\ \A u \in Thread \ {t} : pc'[u] = pc[u]
    BY <1>1, <1>2, MovePc DEF Label
  <1>6. /\ arg' \in [Thread -> [size : Nat, block : Nat, copy : Seq(Int), new : Nat]]
        /\ arg'[t] = NoArg /\ \A u \in Thread \ {t} : arg'[u] = arg[u]
    BY <1>1, <1>2, MoveArg, NoArgType
  <1>7. Others(t)
    BY <1>5, <1>6 DEF Others
  <1>8. arg[t].new \in Nat /\ bytes \in [Address -> Int] /\ held \in SUBSET held
    BY <1>1 DEF TypeOK
  <1>9. /\ held' \in SUBSET [addr : Nat, text : Seq(Int)]
        /\ bytes' \in [Address -> Int]
        /\ Addrs' = {r.addr : r \in held}
        /\ \A s \in held' : \E r \in held : s.addr = r.addr /\ Len(s.text) = Len(r.text)
        /\ \A r, s \in held' : r.addr = s.addr => r = s
        /\ \A s \in held' : \A i \in 1 .. Len(s.text) : bytes'[s.addr + i - 1] = s.text[i]
        /\ \A p \in Arenas : \A x \in Region(p * PGSIZE, ArenaSize) :
             x \in Address => bytes'[x] = bytes[x]
    BY <1>2, <1>8, RefillEffect
  <1>10. Addrs' = Addrs
    BY <1>9 DEF Addrs
  <1>11. Transit' = Transit
    BY <1>1, <1>2, <1>5, <1>7, TransitFrame
  <1>12. Taken' = Taken
    BY <1>10, <1>11 DEF Taken
  <1>13. /\ PagesOK' /\ ListsOK' /\ CountOK' /\ Arenas' = Arenas /\ BigHeads' = BigHeads
         /\ \A b \in Nat : Valid(b)' = Valid(b) /\ Size(b)' = Size(b)
    BY <1>2, <1>12, QuietFrame
  <1>14. TypeOK'
    BY <1>1, <1>2, <1>4, <1>5, <1>6, <1>9 DEF TypeOK
  <1>15. HeldOK'
    <2>1. ASSUME NEW s \in held' PROVE Valid(s.addr)' /\ Len(s.text) <= Size(s.addr)'
      <3>1. PICK r \in held : s.addr = r.addr /\ Len(s.text) = Len(r.text)
        BY <1>9
      <3>2. r.addr \in Nat /\ Valid(r.addr) /\ Len(r.text) <= Size(r.addr)
        BY <1>1 DEF TypeOK, HeldOK
      <3> QED BY <1>13, <3>1, <3>2
    <2>2. \A p \in BigHeads' : p * PGSIZE + ArenaSize \in Addrs'
      BY <1>1, <1>10, <1>13 DEF HeldOK
    <2> QED BY <1>9, <2>1, <2>2 DEF HeldOK
  <1>16. BytesOK'
    <2>1. ASSUME NEW p \in Arenas, NEW x \in Region(p * PGSIZE, ArenaSize) PROVE bytes'[x] = HEADER
      <3>1. bytes[x] = HEADER
        BY <1>1 DEF BytesOK
      <3>2. p \in Nat /\ p \in Page
        BY <1>1, PageFacts DEF Arenas
      <3>3. x \in Address
        BY <3>2, HeaderPage, PageAddress
      <3> QED BY <1>9, <3>1, <3>3
    <2> QED BY <1>9, <1>13, <2>1 DEF BytesOK
  <1>17. ThreadsOK'
    <2>1. ThreadOK(t)'
      BY <1>5, <1>6, NoArgType DEF ThreadOK
    <2>2. \A u \in Thread \ {t} : \A b \in Nat :
            pc[u] \in {"lock", "push", "test"} /\ b = arg[u].block =>
              Valid(b)' /\ arena'[block_to_arena(b)].desc # 0
      BY <1>1, <1>2, <1>13 DEF ThreadsOK, ThreadOK
    <2>3. \A u \in Thread \ {t} : pc[u] \in {"lock", "push"} => arg[u].block \notin Addrs'
      BY <1>1, <1>10 DEF ThreadsOK, ThreadOK
    <2> QED BY <1>1, <1>7, <1>10, <2>1, <2>2, <2>3, ThreadsFrame
  <1>18. ClaimsOK'
    BY <1>1, <1>6, <1>7, NoArgType, ClaimsNew
  <1>19. pc'[t] \notin Locked
    BY <1>5 DEF Locked
  <1>20. LocksOK'
    BY <1>1, <1>2, <1>3, <1>4, <1>7, <1>19, LocksReleased
  <1>21. \A e \in descs : lock'[e] = lock[e] \/ lock[e] \in {NULL, t}
    BY <1>1, <1>2, <1>4 DEF TypeOK
  <1>22. \A p : ~ Passing(p, t)
    BY <1>2 DEF Passing
  <1>23. InUse'
    BY <1>2, <1>7, <1>12, <1>21, <1>22, QuietInUse
  <1> QED BY <1>13, <1>14, <1>15, <1>16, <1>17, <1>18, <1>20, <1>23 DEF IInv

\* The block that a call of free() is about.
LEMMA FreedBlock ==
  ASSUME IInv, NEW t \in Thread, pc[t] = "free"
  PROVE  /\ arg[t].block \in Nat /\ arg[t].block # 0
         /\ arg[t].block \in Addrs /\ Valid(arg[t].block)
         /\ Desc(t) = arena[block_to_arena(arg[t].block)].desc
         /\ block_to_arena(arg[t].block) \in used
         /\ {r.addr : r \in StillHeld(t)} = Addrs \ {arg[t].block}
         /\ StillHeld(t) \in SUBSET held
         /\ \A u \in Thread \ {t} : arg[u].block # arg[t].block
  <1>1. TypeOK /\ HeldOK /\ ThreadsOK /\ ClaimsOK
    BY DEF IInv
  <1>2. arg[t].block \in Nat /\ arg[t].block # 0 /\ arg[t].block \in Addrs
    BY <1>1 DEF TypeOK, ThreadsOK, ThreadOK
  <1>3. Valid(arg[t].block)
    BY <1>1, <1>2, TakenValid DEF Taken
  <1>4. Desc(t) = arena[block_to_arena(arg[t].block)].desc
    BY DEF Desc
  <1>5. {r.addr : r \in StillHeld(t)} = Addrs \ {arg[t].block}
    BY DEF StillHeld, Addrs
  <1>6. \A u \in Thread \ {t} : arg[u].block # arg[t].block
    BY <1>1, <1>2 DEF ClaimsOK
  <1> QED BY <1>2, <1>3, <1>4, <1>5, <1>6 DEF Valid, StillHeld

\* A small block is overwritten and no longer the caller's.
LEMMA FillStep ==
  ASSUME IInv, NEW t \in Thread, FreeFill(t)
  PROVE  IInv'
  <1>1. TypeOK /\ PagesOK /\ HeldOK /\ BytesOK /\ ClaimsOK /\ LocksOK /\ ThreadsOK
    BY DEF IInv
  <1>2. PICK c : c = arg[t].block
    OBVIOUS
  <1>3. /\ pc[t] = "free" /\ Desc(t) # 0
        /\ bytes' = Written(bytes, Region(c, Desc(t)), CC)
        /\ held' = StillHeld(t) /\ pc' = [pc EXCEPT ![t] = "lock"]
        /\ used' = used /\ arena' = arena /\ free_list' = free_list /\ lock' = lock /\ arg' = arg
    BY <1>2 DEF FreeFill, Goto
  <1>4. /\ c \in Nat /\ c # 0 /\ c \in Addrs /\ Valid(c)
        /\ Desc(t) = arena[block_to_arena(c)].desc
        /\ {r.addr : r \in StillHeld(t)} = Addrs \ {c}
        /\ StillHeld(t) \in SUBSET held
        /\ \A u \in Thread \ {t} : arg[u].block # c
    BY <1>2, <1>3, FreedBlock
  <1>5. Region(c, Desc(t)) = Owned(c)
    BY <1>3, <1>4 DEF Owned, Size
  <1>6. Addrs' = Addrs \ {c}
    BY <1>3, <1>4 DEF Addrs
  <1>7. pc' \in [Thread -> Label] /\ pc'[t] = "lock" /\ \A u \in Thread \ {t} : pc'[u] = pc[u]
    BY <1>1, <1>3, MovePc DEF Label
  <1>8. Others(t)
    BY <1>3, <1>7 DEF Others
  <1>9. Transit' = Transit \union {c}
    <2>1. PICK S : /\ Transit = S \union (IF pc[t] \in {"lock", "push"} THEN {arg[t].block} ELSE {})
                   /\ Transit' = S \union (IF pc'[t] \in {"lock", "push"} THEN {arg'[t].block} ELSE {})
      BY <1>1, <1>8, TransitFrame
    <2>2. pc[t] \notin {"lock", "push"} /\ pc'[t] \in {"lock", "push"} /\ arg'[t].block = c
      BY <1>2, <1>3, <1>7
    <2> QED BY <2>1, <2>2
  <1>10. Taken' = Taken
    BY <1>4, <1>6, <1>9 DEF Taken
  <1>11. /\ PagesOK' /\ ListsOK' /\ CountOK' /\ Arenas' = Arenas /\ BigHeads' = BigHeads
         /\ \A b \in Nat : Valid(b)' = Valid(b) /\ Size(b)' = Size(b)
    BY <1>3, <1>10, QuietFrame
  <1>12. bytes' \in [Address -> Int] /\ \A x \in Address : x \notin Owned(c) => bytes'[x] = bytes[x]
    <2>1. bytes' = Written(bytes, Owned(c), CC)
      BY <1>3, <1>5, Zenon
    <2>2. CC \in Int /\ bytes \in [Address -> Int]
      BY <1>1 DEF TypeOK, CC
    <2> QED BY <2>1, <2>2, WrittenAt
  <1>13. TypeOK'
    BY <1>1, <1>3, <1>4, <1>7, <1>12 DEF TypeOK
  <1>14. \A r \in held' : r \in held /\ r.addr # c
    BY <1>2, <1>3 DEF StillHeld
  <1>15. HeldOK'
    <2>1. ASSUME NEW r \in held' PROVE Valid(r.addr)' /\ Len(r.text) <= Size(r.addr)'
      <3>1. r.addr \in Nat /\ Valid(r.addr) /\ Len(r.text) <= Size(r.addr)
        BY <1>1, <1>14 DEF TypeOK, HeldOK
      <3> QED BY <1>11, <3>1
    <2>2. \A r, s \in held' : r.addr = s.addr => r = s
      BY <1>1, <1>14 DEF HeldOK
    <2>3. ASSUME NEW p \in BigHeads PROVE p * PGSIZE + ArenaSize # c
      <3>1. p \in Nat /\ arena[p].desc = 0
        BY <1>1, PageFacts DEF BigHeads
      <3>2. block_to_arena(p * PGSIZE + ArenaSize) = p
        BY <3>1, AfterHeader
      <3> QED BY <1>3, <1>4, <3>1, <3>2
    <2>4. \A p \in BigHeads' : p * PGSIZE + ArenaSize \in Addrs'
      BY <1>1, <1>6, <1>11, <2>3 DEF HeldOK
    <2> QED BY <2>1, <2>2, <2>4 DEF HeldOK
  <1>16. BytesOK'
    <2>1. ASSUME NEW p \in Arenas, NEW x \in Region(p * PGSIZE, ArenaSize) PROVE bytes'[x] = HEADER
      <3>1. bytes[x] = HEADER
        BY <1>1 DEF BytesOK
      <3>2. p \in Nat /\ p \in Page
        BY <1>1, PageFacts DEF Arenas
      <3>3. x \in Address
        BY <3>2, HeaderPage, PageAddress
      <3>4. x \notin Owned(c)
        BY <1>1, <1>4, HeaderApart
      <3> QED BY <1>12, <3>1, <3>3, <3>4
    <2>2. ASSUME NEW r \in held', NEW i \in 1 .. Len(r.text) PROVE bytes'[r.addr + i - 1] = r.text[i]
      <3>1. r \in held /\ r.addr # c
        BY <1>14
      <3>2. bytes[r.addr + i - 1] = r.text[i]
        BY <1>1, <3>1 DEF BytesOK
      <3>3. r.addr \in Nat /\ Valid(r.addr) /\ r.addr + i - 1 \in Owned(r.addr) /\ r.addr + i - 1 \in Address
        BY <1>1, <3>1, TextPlace
      <3>4. Owned(r.addr) \cap Owned(c) = {}
        BY <1>1, <1>4, <3>1, <3>3, Apart
      <3> QED BY <1>12, <3>2, <3>3, <3>4
    <2> QED BY <1>11, <2>1, <2>2 DEF BytesOK
  <1>17. ThreadsOK'
    <2>1. ThreadOK(t)'
      <3>1. Valid(arg[t].block)'
        BY <1>2, <1>3, <1>4 DEF Valid
      <3> QED BY <1>2, <1>3, <1>4, <1>6, <1>7, <3>1 DEF ThreadOK
    <2>2. \A u \in Thread \ {t} : \A b \in Nat :
            pc[u] \in {"lock", "push", "test"} /\ b = arg[u].block =>
              Valid(b)' /\ arena'[block_to_arena(b)].desc # 0
      BY <1>1, <1>3, <1>11 DEF ThreadsOK, ThreadOK
    <2>3. \A u \in Thread \ {t} : pc[u] \in {"lock", "push"} => arg[u].block \notin Addrs'
      BY <1>1, <1>6 DEF ThreadsOK, ThreadOK
    <2>4. \A u \in Thread \ {t} : arg[u].block \in Addrs => arg[u].block \in Addrs'
      BY <1>4, <1>6
    <2> QED BY <1>1, <1>8, <2>1, <2>2, <2>3, <2>4, ThreadsFrame
  <1>18. ClaimsOK'
    BY <1>1, <1>3 DEF ClaimsOK
  <1>19. pc[t] \notin Locked /\ pc'[t] \notin Locked
    BY <1>3, <1>7 DEF Locked
  <1>20. LocksOK'
    BY <1>1, <1>3, <1>8, <1>19, LocksSame
  <1>21. \A p : ~ Passing(p, t)
    BY <1>3 DEF Passing
  <1>22. InUse'
    BY <1>3, <1>8, <1>10, <1>21, QuietInUse
  <1> QED BY <1>11, <1>13, <1>15, <1>16, <1>17, <1>18, <1>20, <1>22 DEF IInv

\* The pages of a header are given back.
LEMMA ShrinkFrame ==
  ASSUME TypeOK, PagesOK, NEW a \in Roots,
         used' = used \ Cover(a), arena' = [arena EXCEPT ![a] = NoHeader]
  PROVE  /\ PagesOK'
         /\ used' \in SUBSET Page
         /\ arena' \in [Page -> [desc : descs \union {0}, free_cnt : Int]]
         /\ Arenas' = Arenas \ {a} /\ BigHeads' = BigHeads \ {a}
         /\ \A p \in Page \ {a} : arena'[p] = arena[p]
         /\ \A b \in Nat : Valid(b) /\ block_to_arena(b) # a =>
              /\ Valid(b)' /\ Size(b)' = Size(b)
              /\ arena'[block_to_arena(b)] = arena[block_to_arena(b)]
              /\ \A x \in Owned(b) : block_to_arena(x) \notin Cover(a)
  <1>1. a \in used /\ a \in Page
    BY DEF TypeOK, Roots, Arenas, BigHeads
  <1>2. arena'[a] = NoHeader /\ \A p \in Page \ {a} : arena'[p] = arena[p]
    BY <1>1 DEF TypeOK
  <1>3. used' \in SUBSET Page /\ used' \subseteq used
    BY DEF TypeOK
  <1>4. arena' \in [Page -> [desc : descs \union {0}, free_cnt : Int]]
    BY <1>1 DEF TypeOK, NoHeader
  <1>5. a \in Cover(a)
    BY PageFacts DEF Roots, Arenas, BigHeads, Cover, Extent
  <1>6. \A q \in Cover(a) \ {a} : arena[q] = NoHeader
    BY DEF PagesOK, Roots, Arenas, Cover
  <1>7. \A p \in Roots \ {a} : p \notin Cover(a) /\ p \in used /\ p \in Page
    <2> TAKE p \in Roots \ {a}
    <2>1. p \in used
      BY DEF Roots, Arenas, BigHeads
    <2>2. p \in Cover(p)
      BY PageFacts DEF Roots, Arenas, BigHeads, Cover, Extent
    <2> QED BY <2>1, <2>2, RootsApart DEF TypeOK
  <1>8. Arenas' = Arenas \ {a} /\ BigHeads' = BigHeads \ {a}
    <2>1. \A p \in used' : p \in used /\ p # a /\ arena'[p] = arena[p]
      BY <1>2, <1>3, <1>5
    <2>2. \A p \in Roots \ {a} : p \in used' /\ arena'[p] = arena[p]
      BY <1>2, <1>7
    <2>3. Arenas' = Arenas \ {a}
      BY <2>1, <2>2 DEF Arenas, Roots
    <2>4. BigHeads' = BigHeads \ {a}
      BY <2>1, <2>2 DEF BigHeads, Roots
    <2> QED BY <2>3, <2>4
  <1>9. \A p \in BigHeads \ {a} : Extent(p)' = Extent(p) /\ Extent(p) \cap Cover(a) = {}
    <2> TAKE p \in BigHeads \ {a}
    <2>1. p \in Roots \ {a} /\ p \in Page \ {a} /\ arena[p].desc = 0
      BY <1>7 DEF Roots, BigHeads
    <2>2. Cover(p) \cap Cover(a) = {}
      BY <2>1, RootsApart
    <2> QED BY <1>2, <2>1, <2>2 DEF Cover, Extent
  <1>10. PagesOK'
    <2>1. \A p \in Page \ used' : arena'[p] = NoHeader
      BY <1>2, <1>6 DEF PagesOK
    <2>2. ASSUME NEW p \in BigHeads'
          PROVE  Extent(p)' \subseteq used' /\ \A q \in Extent(p)' \ {p} : arena'[q] = NoHeader
      <3>1. p \in BigHeads \ {a} /\ Extent(p)' = Extent(p) /\ Extent(p) \cap Cover(a) = {}
        BY <1>8, <1>9
      <3>2. Extent(p) \subseteq used /\ \A q \in Extent(p) \ {p} : arena[q] = NoHeader
        BY <3>1 DEF PagesOK
      <3>3. \A q \in Extent(p) : q \in Page
        BY <3>2 DEF TypeOK
      <3> QED BY <1>2, <3>1, <3>2, <3>3
    <2>3. ASSUME NEW p \in used' PROVE p \in Arenas' \/ \E q \in BigHeads' : p \in Extent(q)'
      <3>1. p \in used /\ p \notin Cover(a) /\ p # a
        BY <1>5
      <3>2. p \in Arenas \/ \E q \in BigHeads : p \in Extent(q)
        BY <3>1 DEF PagesOK
      <3>3. CASE p \in Arenas
        BY <1>8, <3>1, <3>3
      <3>4. ASSUME NEW q \in BigHeads, p \in Extent(q) PROVE \E s \in BigHeads' : p \in Extent(s)'
        <4>1. q # a
          BY <3>1, <3>4 DEF Cover, BigHeads
        <4> QED BY <1>8, <1>9, <3>4, <4>1
      <3> QED BY <3>2, <3>3, <3>4
    <2> QED BY <2>1, <2>2, <2>3 DEF PagesOK, Page
  <1>11. ASSUME NEW b \in Nat, Valid(b), block_to_arena(b) # a
         PROVE  /\ Valid(b)' /\ Size(b)' = Size(b)
                /\ arena'[block_to_arena(b)] = arena[block_to_arena(b)]
                /\ \A x \in Owned(b) : block_to_arena(x) \notin Cover(a)
    <2>1. block_to_arena(b) \in Roots \ {a}
      BY <1>11, ValidRoot
    <2>2. block_to_arena(b) \in used' /\ arena'[block_to_arena(b)] = arena[block_to_arena(b)]
      BY <1>2, <1>7, <2>1
    <2>3. Valid(b)' /\ Size(b)' = Size(b)
      BY <1>11, <2>2, ValidKept
    <2>4. Cover(block_to_arena(b)) \cap Cover(a) = {}
      BY <2>1, RootsApart
    <2>5. \A x \in Owned(b) : block_to_arena(x) \in Cover(block_to_arena(b))
      BY <1>11, OwnedPlace DEF Pages
    <2> QED BY <2>2, <2>3, <2>4, <2>5
  <1> QED BY <1>2, <1>3, <1>4, <1>8, <1>10, <1>11

\* The bytes of whole pages.
LEMMA PageBytes ==
  ASSUME NEW a \in Nat, NEW n \in Nat, NEW x \in Address,
         block_to_arena(x) \notin a .. a + n - 1
  PROVE  x \notin Region(a * PGSIZE, n * PGSIZE)
  <1>1. x \in Int
    BY HeapAssumption DEF Address
  <1> QED BY <1>1, PageSpan

\* A big block goes back to the page allocator.
LEMMA FreeBigStep ==
  ASSUME IInv, NEW t \in Thread, FreeBig(t)
  PROVE  IInv'
  <1>1. TypeOK /\ PagesOK /\ HeldOK /\ BytesOK /\ ListsOK /\ CountOK /\ ClaimsOK /\ LocksOK /\ ThreadsOK /\ InUse
    BY DEF IInv
  <1>2. PICK c : c = arg[t].block
    OBVIOUS
  <1>3. PICK a : a = block_to_arena(c)
    OBVIOUS
  <1>4. PICK n : n = arena[a].free_cnt
    OBVIOUS
  <1>5. PICK mem : mem = Written(bytes, Region(a * PGSIZE, n * PGSIZE), CC)
    OBVIOUS
  <1>6. /\ pc[t] = "free" /\ Desc(t) = 0
        /\ used' = used \ (a .. a + n - 1) /\ arena' = [arena EXCEPT ![a] = NoHeader]
        /\ Refill(mem, StillHeld(t), arg[t].new)
        /\ arg' = [arg EXCEPT ![t] = NoArg] /\ pc' = [pc EXCEPT ![t] = "idle"]
        /\ free_list' = free_list /\ lock' = lock
    BY <1>2, <1>3, <1>4, <1>5 DEF FreeBig, Goto
  <1>7. /\ c \in Nat /\ c # 0 /\ c \in Addrs /\ Valid(c)
        /\ Desc(t) = arena[a].desc
        /\ {r.addr : r \in StillHeld(t)} = Addrs \ {c}
        /\ StillHeld(t) \in SUBSET held
        /\ \A u \in Thread \ {t} : arg[u].block # c
    BY <1>2, <1>3, <1>6, FreedBlock
  <1>8. a \in BigHeads /\ a \in Roots /\ a \notin Arenas /\ c = a * PGSIZE + ArenaSize
    BY <1>1, <1>3, <1>6, <1>7, ValidPlace DEF Roots, Valid, Arenas
  <1>9. Cover(a) = a .. a + n - 1 /\ a \in Nat /\ n \in Nat
    BY <1>1, <1>4, <1>8, PageFacts DEF Cover, Extent, BigHeads
  <1>10. /\ PagesOK'
         /\ used' \in SUBSET Page
         /\ arena' \in [Page -> [desc : descs \union {0}, free_cnt : Int]]
         /\ Arenas' = Arenas /\ BigHeads' = BigHeads \ {a}
         /\ \A p \in Page \ {a} : arena'[p] = arena[p]
         /\ \A b \in Nat : Valid(b) /\ block_to_arena(b) # a =>
              /\ Valid(b)' /\ Size(b)' = Size(b)
              /\ arena'[block_to_arena(b)] = arena[block_to_arena(b)]
              /\ \A x \in Owned(b) : block_to_arena(x) \notin Cover(a)
    <2>1. used' = used \ Cover(a) /\ arena' = [arena EXCEPT ![a] = NoHeader]
      BY <1>6, <1>9
    <2>2. Arenas \ {a} = Arenas
      BY <1>8
    <2> QED BY <1>1, <1>8, <2>1, <2>2, ShrinkFrame
  <1>11. \A b \in Nat : Valid(b) /\ b # c => block_to_arena(b) # a
    BY <1>3, <1>6, <1>7, <1>8 DEF Valid
  <1>12. mem \in [Address -> Int] /\ \A x \in Address : block_to_arena(x) \notin Cover(a) => mem[x] = bytes[x]
    <2>1. CC \in Int /\ bytes \in [Address -> Int]
      BY <1>1 DEF TypeOK, CC
    <2> QED BY <1>5, <1>9, <2>1, WrittenAt, PageBytes
  <1>13. \A r \in StillHeld(t) : r \in held /\ r.addr \in Nat /\ Valid(r.addr) /\ r.addr # c /\ Len(r.text) <= Size(r.addr)
    BY <1>1, <1>2 DEF StillHeld, TypeOK, HeldOK
  <1>14. \A r \in StillHeld(t) : \A x \in Owned(r.addr) : mem[x] = bytes[x]
    <2> TAKE r \in StillHeld(t)
    <2> TAKE x \in Owned(r.addr)
    <2>1. x \in Address
      BY <1>1, <1>13, OwnedPlace
    <2>2. block_to_arena(x) \notin Cover(a)
      BY <1>10, <1>11, <1>13
    <2> QED BY <1>12, <2>1, <2>2
  <1>15. /\ held' \in SUBSET [addr : Nat, text : Seq(Int)]
         /\ bytes' \in [Address -> Int]
         /\ Addrs' = {r.addr : r \in StillHeld(t)}
         /\ \A s \in held' : \E r \in StillHeld(t) : s.addr = r.addr /\ Len(s.text) = Len(r.text)
         /\ \A r, s \in held' : r.addr = s.addr => r = s
         /\ \A s \in held' : \A i \in 1 .. Len(s.text) : bytes'[s.addr + i - 1] = s.text[i]
         /\ \A p \in Arenas : \A x \in Region(p * PGSIZE, ArenaSize) :
              x \in Address => bytes'[x] = mem[x]
    <2>1. arg[t].new \in Nat
      BY <1>1 DEF TypeOK
    <2> QED BY <1>6, <1>7, <1>12, <1>14, <2>1, RefillEffect
  <1>16. Addrs' = Addrs \ {c}
    BY <1>7, <1>15
  <1>17. pc' \in [Thread -> Label] /\ pc'[t] = "idle" /\ \A u \in Thread \ {t} : pc'[u] = pc[u]
    BY <1>1, <1>6, MovePc DEF Label
  <1>18. /\ arg' \in [Thread -> [size : Nat, block : Nat, copy : Seq(Int), new : Nat]]
         /\ arg'[t] = NoArg /\ \A u \in Thread \ {t} : arg'[u] = arg[u]
    BY <1>1, <1>6, MoveArg, NoArgType
  <1>19. Others(t)
    BY <1>17, <1>18 DEF Others
  <1>20. Transit' = Transit
    BY <1>1, <1>6, <1>17, <1>19, TransitFrame
  <1>21. \A b \in Taken : b # c => b \in Taken'
    BY <1>16, <1>20 DEF Taken
  <1>22. Taken' \subseteq Taken
    BY <1>16, <1>20 DEF Taken
  <1>23. TypeOK'
    BY <1>1, <1>6, <1>10, <1>15, <1>17, <1>18 DEF TypeOK
  <1>24. HeldOK'
    <2>1. ASSUME NEW s \in held' PROVE Valid(s.addr)' /\ Len(s.text) <= Size(s.addr)'
      <3>1. PICK r \in StillHeld(t) : s.addr = r.addr /\ Len(s.text) = Len(r.text)
        BY <1>15
      <3> QED BY <1>10, <1>11, <1>13, <3>1
    <2>2. ASSUME NEW p \in BigHeads' PROVE p * PGSIZE + ArenaSize \in Addrs'
      <3>1. p \in BigHeads /\ p # a /\ p \in Nat
        BY <1>1, <1>10, PageFacts DEF BigHeads
      <3>2. block_to_arena(p * PGSIZE + ArenaSize) = p
        BY <3>1, AfterHeader
      <3>3. p * PGSIZE + ArenaSize \in Addrs
        BY <1>1, <3>1 DEF HeldOK
      <3> QED BY <1>3, <1>16, <3>1, <3>2, <3>3
    <2> QED BY <1>15, <2>1, <2>2 DEF HeldOK
  <1>25. BytesOK'
    <2>1. ASSUME NEW p \in Arenas, NEW x \in Region(p * PGSIZE, ArenaSize) PROVE bytes'[x] = HEADER
      <3>1. bytes[x] = HEADER
        BY <1>1 DEF BytesOK
      <3>2. p \in Nat /\ p \in Page /\ p \in Roots /\ p # a
        BY <1>1, <1>8, PageFacts DEF Arenas, Roots
      <3>3. x \in Address /\ block_to_arena(x) = p
        BY <3>2, HeaderPage, PageAddress
      <3>4. p \in Cover(p)
        BY <1>1, PageFacts DEF Cover, Arenas
      <3>5. p \notin Cover(a)
        BY <1>1, <1>8, <3>2, <3>4, RootsApart
      <3> QED BY <1>12, <1>15, <3>1, <3>3, <3>5
    <2> QED BY <1>10, <1>15, <2>1 DEF BytesOK
  <1>26. \A d : Listed(d)' = Listed(d)
    BY <1>6 DEF Listed
  <1>27. \A p \in Arenas : p \in Page \ {a} /\ arena'[p] = arena[p] /\ arena[p].desc \in descs
    BY <1>1, <1>8, <1>10, PageFacts DEF Arenas
  <1>28. ListsOK'
    <2>1. ASSUME NEW d \in descs, NEW b \in Listed(d)
          PROVE  Valid(b)' /\ arena'[block_to_arena(b)].desc = d /\ b \notin Taken'
      <3>1. b \in Nat /\ Valid(b) /\ arena[block_to_arena(b)].desc = d /\ b \notin Taken
        BY <1>1, ListedNat DEF ListsOK
      <3>2. block_to_arena(b) # a
        BY <1>6, <1>7, <3>1, DescSizes
      <3> QED BY <1>10, <1>22, <3>1, <3>2
    <2>2. ASSUME NEW p \in Arenas, NEW b \in BlocksOf(p, arena[p].desc)
          PROVE  b \in Listed(arena[p].desc) \/ b \in Taken'
      <3>1. p \in Nat /\ arena[p].desc \in descs /\ p # a
        BY <1>1, <1>27, PageFacts DEF Arenas
      <3>2. block_to_arena(b) = p
        BY <3>1, BlockPlace
      <3> QED BY <1>1, <1>3, <1>21, <3>1, <3>2 DEF ListsOK
    <2>3. \A d \in descs : \A i, k \in DOMAIN free_list'[d] : free_list'[d][i] = free_list'[d][k] => i = k
      BY <1>1, <1>6 DEF ListsOK
    <2> QED BY <1>10, <1>26, <1>27, <2>1, <2>2, <2>3 DEF ListsOK, descs
  <1>29. CountOK'
    <2>1. \A p \in Arenas : FreeIn(p)' = FreeIn(p)
      BY <1>26, <1>27 DEF FreeIn
    <2> QED BY <1>1, <1>10, <1>27, <2>1 DEF CountOK
  <1>30. \A u \in Thread \ {t} : pc[u] \in {"lock", "push", "test"} =>
           /\ arg[u].block \in Nat /\ Valid(arg[u].block) /\ block_to_arena(arg[u].block) # a
           /\ arena[block_to_arena(arg[u].block)].desc # 0
    BY <1>6, <1>7, OwnDesc, DescSizes
  <1>31. ThreadsOK'
    <2>1. ThreadOK(t)'
      BY <1>17, <1>18, NoArgType DEF ThreadOK
    <2>2. \A u \in Thread \ {t} : \A b \in Nat :
            pc[u] \in {"lock", "push", "test"} /\ b = arg[u].block =>
              Valid(b)' /\ arena'[block_to_arena(b)].desc # 0
      BY <1>10, <1>30
    <2>3. \A u \in Thread \ {t} : pc[u] \in {"lock", "push"} => arg[u].block \notin Addrs'
      BY <1>1, <1>16 DEF ThreadsOK, ThreadOK
    <2>4. \A u \in Thread \ {t} : arg[u].block \in Addrs => arg[u].block \in Addrs'
      BY <1>7, <1>16
    <2> QED BY <1>1, <1>19, <2>1, <2>2, <2>3, <2>4, ThreadsFrame
  <1>32. ClaimsOK'
    BY <1>1, <1>18, <1>19, NoArgType, ClaimsNew
  <1>33. LocksOK'
    <2>1. pc[t] \notin Locked /\ pc'[t] \notin Locked
      BY <1>6, <1>17 DEF Locked
    <2>2. \A u \in Thread \ {t} : pc[u] \in {"push", "test"} =>
            arena'[block_to_arena(arg[u].block)].desc = arena[block_to_arena(arg[u].block)].desc
      BY <1>10, <1>30
    <2> QED BY <1>1, <1>6, <1>19, <2>1, <2>2, LocksSame
  <1>34. InUse'
    <2> SUFFICES ASSUME NEW p \in Arenas
                 PROVE  (\E b \in Taken' : block_to_arena(b) = p) \/ \E u \in Thread : Passing(p, u)'
      BY <1>10 DEF InUse
    <2>1. p # a
      BY <1>8
    <2>2. CASE \E b \in Taken : block_to_arena(b) = p
      BY <1>3, <1>21, <2>1, <2>2
    <2>3. CASE \E u \in Thread : Passing(p, u)
      <3>1. PICK u \in Thread : Passing(p, u)
        BY <2>3
      <3>2. u # t
        BY <1>6, <3>1 DEF Passing
      <3> QED BY <1>6, <1>19, <1>27, <3>1, <3>2, PassingKept
    <2> QED BY <1>1, <2>2, <2>3 DEF InUse
  <1> QED BY <1>10, <1>23, <1>24, <1>25, <1>28, <1>29, <1>31, <1>32, <1>33, <1>34 DEF IInv

\* A block more or less is free in an arena.
LEMMA CountFrame ==
  ASSUME TypeOK, PagesOK, NEW a \in Arenas, NEW k \in Int,
         used' = used, arena' = [arena EXCEPT ![a].free_cnt = k]
  PROVE  /\ PagesOK'
         /\ arena' \in [Page -> [desc : descs \union {0}, free_cnt : Int]]
         /\ Arenas' = Arenas /\ BigHeads' = BigHeads
         /\ arena'[a].free_cnt = k
         /\ \A p \in Page \ {a} : arena'[p] = arena[p]
         /\ \A p \in Page : arena'[p].desc = arena[p].desc
         /\ \A b \in Nat : Valid(b) => Valid(b)' /\ Size(b)' = Size(b)
  <1>1. a \in used /\ a \in Page /\ arena[a].desc # 0 /\ arena[a] \in [desc : descs \union {0}, free_cnt : Int]
    BY DEF TypeOK, Arenas
  <1>2. arena' = [arena EXCEPT ![a] = [arena[a] EXCEPT !.free_cnt = k]]
    OBVIOUS
  <1> DEFINE h == [arena[a] EXCEPT !.free_cnt = k]
  <1>3. h \in [desc : descs \union {0}, free_cnt : Int] /\ h.desc = arena[a].desc /\ h.free_cnt = k
    BY <1>1
  <1>4. arena' = [arena EXCEPT ![a] = h]
    BY <1>2
  <1> HIDE DEF h
  <1>5. /\ arena' \in [Page -> [desc : descs \union {0}, free_cnt : Int]]
        /\ arena'[a] = h /\ \A p \in Page \ {a} : arena'[p] = arena[p]
    BY <1>1, <1>3, <1>4 DEF TypeOK
  <1>6. \A p \in Page : arena'[p].desc = arena[p].desc /\ (arena[p].desc = 0 => arena'[p] = arena[p])
    BY <1>1, <1>3, <1>5
  <1>7. \A p \in used : p \in Page
    BY DEF TypeOK
  <1>8. Arenas' = Arenas
    BY <1>6, <1>7 DEF Arenas
  <1>9. BigHeads' = BigHeads
    BY <1>6, <1>7 DEF BigHeads
  <1>10. \A p \in BigHeads : Extent(p)' = Extent(p)
    BY <1>6, <1>7 DEF BigHeads, Extent
  <1>11. PagesOK'
    <2>1. \A p \in Page \ used' : arena'[p] = NoHeader
      BY <1>1, <1>5 DEF PagesOK
    <2>2. \A p \in BigHeads : \A q \in Extent(p) \ {p} : arena'[q] = NoHeader
      <3> TAKE p \in BigHeads
      <3> TAKE q \in Extent(p) \ {p}
      <3>1. arena[q] = NoHeader /\ q \in Page
        BY <1>7 DEF PagesOK
      <3> QED BY <1>6, <3>1 DEF NoHeader
    <2>3. \A p \in BigHeads : Extent(p) \subseteq used
      BY DEF PagesOK
    <2>4. \A p \in used : p \in Arenas \/ \E q \in BigHeads : p \in Extent(q)
      BY DEF PagesOK
    <2> QED BY <1>8, <1>9, <1>10, <2>1, <2>2, <2>3, <2>4 DEF PagesOK, Page
  <1>12. ASSUME NEW b \in Nat, Valid(b) PROVE Valid(b)' /\ Size(b)' = Size(b)
    <2>1. block_to_arena(b) \in used'
      BY <1>12 DEF Valid
    <2> QED BY <1>6, <1>7, <1>12, <2>1, ValidKept
  <1> QED BY <1>3, <1>5, <1>6, <1>8, <1>9, <1>11, <1>12

LEMMA PushSeq ==
  ASSUME NEW s \in Seq(Nat), NEW b \in Nat, b \notin Members(s), Distinct(s)
  PROVE  /\ <<b>> \o s \in Seq(Nat)
         /\ Members(<<b>> \o s) = Members(s) \union {b}
         /\ Distinct(<<b>> \o s)
  <1> DEFINE w == <<b>> \o s
  <1>1. w \in Seq(Nat) /\ Len(w) = Len(s) + 1 /\ Len(s) \in Nat
    OBVIOUS
  <1>2. w[1] = b /\ \A i \in 1 .. Len(s) : w[i + 1] = s[i]
    OBVIOUS
  <1>3. DOMAIN w = 1 .. Len(s) + 1 /\ DOMAIN s = 1 .. Len(s)
    BY <1>1
  <1>4. \A i \in DOMAIN w : i = 1 \/ \E k \in 1 .. Len(s) : i = k + 1
    <2> TAKE i \in DOMAIN w
    <2>1. CASE i # 1
      <3> DEFINE k == i - 1
      <3>1. k \in 1 .. Len(s) /\ i = k + 1
        BY <1>1, <1>3, <2>1
      <3> QED BY <3>1
    <2> QED BY <2>1
  <1> HIDE DEF w
  <1>5. \A i \in DOMAIN w : w[i] = b \/ \E k \in DOMAIN s : w[i] = s[k]
    <2> TAKE i \in DOMAIN w
    <2>1. CASE i = 1
      BY <1>2, <2>1
    <2>2. ASSUME NEW k \in 1 .. Len(s), i = k + 1 PROVE \E m \in DOMAIN s : w[i] = s[m]
      <3>1. k \in DOMAIN s /\ w[i] = s[k]
        BY <1>2, <1>3, <2>2
      <3> QED BY <3>1
    <2> QED BY <1>4, <2>1, <2>2
  <1>6. /\ \E i \in DOMAIN w : w[i] = b
        /\ \A k \in DOMAIN s : \E i \in DOMAIN w : w[i] = s[k]
    <2>1. 1 \in DOMAIN w /\ \A k \in 1 .. Len(s) : k + 1 \in DOMAIN w
      BY <1>1, <1>3
    <2> QED BY <1>2, <1>3, <2>1
  <1>7. Members(w) = Members(s) \union {b}
    <2>1. ASSUME NEW x \in Members(w) PROVE x \in Members(s) \union {b}
      <3>1. PICK i \in DOMAIN w : x = w[i]
        BY DEF Members
      <3> QED BY <1>5, <3>1 DEF Members
    <2>2. ASSUME NEW x \in Members(s) PROVE x \in Members(w)
      <3>1. PICK k \in DOMAIN s : x = s[k]
        BY DEF Members
      <3>2. PICK i \in DOMAIN w : w[i] = s[k]
        BY <1>6
      <3> QED BY <3>1, <3>2 DEF Members
    <2>3. b \in Members(w)
      <3>1. PICK i \in DOMAIN w : w[i] = b
        BY <1>6
      <3> QED BY <3>1 DEF Members
    <2> QED BY <2>1, <2>2, <2>3
  <1>8. ASSUME NEW i \in DOMAIN w, NEW k \in DOMAIN w, w[i] = w[k] PROVE i = k
    <2>1. i \in Nat /\ k \in Nat
      BY <1>1, <1>3
    <2>2. CASE i = 1
      <3>1. ASSUME NEW m \in 1 .. Len(s), k = m + 1 PROVE FALSE
        BY <1>2, <1>3, <1>8, <2>2, <3>1 DEF Members
      <3> QED BY <1>4, <2>2, <3>1
    <2>3. ASSUME NEW m \in 1 .. Len(s), i = m + 1 PROVE i = k
      <3>1. w[i] = s[m] /\ s[m] # b /\ m \in DOMAIN s
        BY <1>2, <1>3, <2>3 DEF Members
      <3>2. PICK n \in 1 .. Len(s) : k = n + 1
        BY <1>2, <1>4, <1>8, <3>1
      <3>3. w[k] = s[n] /\ n \in DOMAIN s
        BY <1>2, <1>3, <3>2
      <3>4. m = n
        BY <1>8, <3>1, <3>3 DEF Distinct
      <3> QED BY <2>3, <3>2, <3>4
    <2> QED BY <1>4, <2>2, <2>3
  <1>9. Distinct(w)
    BY <1>8 DEF Distinct
  <1> QED BY <1>1, <1>7, <1>9 DEF w

\* The list without its first element.
LEMMA TailSeq ==
  ASSUME NEW s \in Seq(Nat), s # <<>>, Distinct(s)
  PROVE  /\ Tail(s) \in Seq(Nat)
         /\ Head(s) \in Members(s)
         /\ Members(Tail(s)) = Members(s) \ {Head(s)}
         /\ Distinct(Tail(s))
  <1> DEFINE w == Tail(s)
  <1>1. w \in Seq(Nat) /\ Len(s) \in Nat /\ Len(s) > 0 /\ Len(w) = Len(s) - 1
    OBVIOUS
  <1>2. \A i \in 1 .. Len(s) - 1 : w[i] = s[i + 1]
    OBVIOUS
  <1>3. Head(s) = s[1]
    OBVIOUS
  <1>4. DOMAIN w = 1 .. Len(s) - 1 /\ DOMAIN s = 1 .. Len(s)
    BY <1>1
  <1>5. 1 \in DOMAIN s
    BY <1>1, <1>4
  <1> HIDE DEF w
  <1>6. \A i \in DOMAIN w : i + 1 \in DOMAIN s /\ i + 1 # 1 /\ w[i] = s[i + 1] /\ i \in Nat
    BY <1>1, <1>2, <1>4
  <1>7. \A k \in DOMAIN s : k # 1 => k - 1 \in DOMAIN w /\ w[k - 1] = s[k]
    <2> TAKE k \in DOMAIN s
    <2> HAVE k # 1
    <2>1. k - 1 \in DOMAIN w /\ (k - 1) + 1 = k
      BY <1>1, <1>4
    <2> QED BY <1>6, <2>1
  <1>8. Head(s) \in Members(s)
    BY <1>3, <1>5 DEF Members
  <1>9. Members(w) = Members(s) \ {Head(s)}
    <2>1. ASSUME NEW x \in Members(w) PROVE x \in Members(s) /\ x # Head(s)
      <3>1. PICK i \in DOMAIN w : x = w[i]
        BY DEF Members
      <3>2. i + 1 \in DOMAIN s /\ i + 1 # 1 /\ x = s[i + 1]
        BY <1>6, <3>1
      <3> QED BY <1>3, <1>5, <3>2 DEF Members, Distinct
    <2>2. ASSUME NEW x \in Members(s), x # Head(s) PROVE x \in Members(w)
      <3>1. PICK k \in DOMAIN s : x = s[k]
        BY DEF Members
      <3>2. k # 1
        BY <1>3, <2>2, <3>1
      <3>3. k - 1 \in DOMAIN w /\ w[k - 1] = x
        BY <1>7, <3>1, <3>2
      <3> QED BY <3>3 DEF Members
    <2> QED BY <2>1, <2>2
  <1>10. Distinct(w)
    <2> SUFFICES ASSUME NEW i \in DOMAIN w, NEW k \in DOMAIN w, w[i] = w[k] PROVE i = k
      BY DEF Distinct
    <2>1. i + 1 = k + 1
      BY <1>6 DEF Distinct
    <2> QED BY <1>6, <2>1
  <1> QED BY <1>1, <1>8, <1>9, <1>10 DEF w

\* One list changes.
LEMMA ListFrame ==
  ASSUME TypeOK, ListsOK, NEW d \in descs, NEW w \in Seq(Nat), Distinct(w),
         free_list' = [free_list EXCEPT ![d] = w]
  PROVE  /\ free_list' \in [descs -> Seq(Nat)]
         /\ free_list'[d] = w
         /\ Listed(d)' = Members(w)
         /\ \A e \in descs \ {d} : free_list'[e] = free_list[e] /\ Listed(e)' = Listed(e)
         /\ \A e \in descs : \A i, k \in DOMAIN free_list'[e] : free_list'[e][i] = free_list'[e][k] => i = k
  <1>1. /\ free_list' \in [descs -> Seq(Nat)] /\ free_list'[d] = w
        /\ \A e \in descs \ {d} : free_list'[e] = free_list[e]
    BY DEF TypeOK
  <1>2. Listed(d)' = Members(w)
    BY <1>1 DEF Listed, Members
  <1>3. \A e \in descs \ {d} : Listed(e)' = Listed(e)
    BY <1>1 DEF Listed
  <1>4. \A e \in descs : \A i, k \in DOMAIN free_list'[e] : free_list'[e][i] = free_list'[e][k] => i = k
    BY <1>1 DEF ListsOK, Distinct
  <1> QED BY <1>1, <1>2, <1>3, <1>4

\* The list of a descriptor.
LEMMA OldList ==
  ASSUME TypeOK, ListsOK, NEW d \in descs
  PROVE  free_list[d] \in Seq(Nat) /\ Distinct(free_list[d]) /\ Members(free_list[d]) = Listed(d)
  BY DEF TypeOK, ListsOK, Distinct, Members, Listed

\* The lists of the next state.
LEMMA ListsNext ==
  ASSUME \A e \in descs : \A i, k \in DOMAIN free_list'[e] : free_list'[e][i] = free_list'[e][k] => i = k,
         \A e \in descs : \A c \in Listed(e)' :
           Valid(c)' /\ arena'[block_to_arena(c)].desc = e /\ c \notin Taken',
         \A p \in Arenas' : \A e : e = arena'[p].desc =>
           \A c \in BlocksOf(p, e) : c \in Listed(e)' \/ c \in Taken'
  PROVE  ListsOK'
  <1>1. ASSUME NEW p \in Arenas', NEW c \in BlocksOf(p, arena'[p].desc)
        PROVE  (c \in Listed(arena[p].desc) \/ c \in Taken)'
    <2>1. PICK e : e = arena'[p].desc
      OBVIOUS
    <2>2. c \in Listed(e)' \/ c \in Taken'
      BY <2>1
    <2> QED BY <2>1, <2>2 DEF Listed
  <1> QED BY <1>1 DEF ListsOK, descs, BlocksOf, arena_to_block, blocks_per_arena, block_to_arena

\* A block goes to the front of its list.
LEMMA PushStep ==
  ASSUME IInv, NEW t \in Thread, PushBlock(t)
  PROVE  IInv'
  <1>1. TypeOK /\ PagesOK /\ HeldOK /\ BytesOK /\ ListsOK /\ CountOK /\ ClaimsOK /\ LocksOK /\ ThreadsOK /\ InUse
    BY DEF IInv
  <1>2. PICK b : b = arg[t].block
    OBVIOUS
  <1>3. PICK d : d = Desc(t)
    OBVIOUS
  <1>4. PICK a : a = block_to_arena(b)
    OBVIOUS
  <1>5. /\ pc[t] = "push" /\ free_list' = [free_list EXCEPT ![d] = <<b>> \o free_list[d]]
        /\ bytes' = Written(bytes, {b}, LINK)
        /\ arena' = [arena EXCEPT ![a].free_cnt = arena[a].free_cnt + 1]
        /\ pc' = [pc EXCEPT ![t] = "test"]
        /\ used' = used /\ lock' = lock /\ arg' = arg /\ held' = held
    BY <1>2, <1>3, <1>4 DEF PushBlock, Goto
  <1>6. d = arena[a].desc /\ d \in descs /\ Valid(b) /\ b \in Nat /\ b # 0 /\ a \in Arenas
    BY <1>2, <1>3, <1>4, <1>5, OwnDesc
  <1>7. LockOf(t) = d /\ lock[d] = t /\ pc[t] \in Locked
    BY <1>3, <1>5, OwnDesc DEF Locked
  <1>8. a \in Nat /\ a \in Page /\ arena[a].free_cnt \in Int /\ arena[a].free_cnt + 1 \in Int
    BY <1>1, <1>6, PageFacts DEF Arenas
  <1>9. /\ PagesOK'
        /\ arena' \in [Page -> [desc : descs \union {0}, free_cnt : Int]]
        /\ Arenas' = Arenas /\ BigHeads' = BigHeads
        /\ arena'[a].free_cnt = arena[a].free_cnt + 1
        /\ \A p \in Page \ {a} : arena'[p] = arena[p]
        /\ \A p \in Page : arena'[p].desc = arena[p].desc
        /\ \A c \in Nat : Valid(c) => Valid(c)' /\ Size(c)' = Size(c)
    BY <1>1, <1>5, <1>6, <1>8, CountFrame
  <1>10. pc' \in [Thread -> Label] /\ pc'[t] = "test" /\ \A u \in Thread \ {t} : pc'[u] = pc[u]
    BY <1>1, <1>5, MovePc DEF Label
  <1>11. Others(t)
    BY <1>5, <1>10 DEF Others
  <1>12. b \in Transit /\ b \notin Addrs /\ b \in Taken
    BY <1>1, <1>2, <1>5 DEF Transit, Taken, ThreadsOK, ThreadOK
  <1>13. Transit' = Transit \ {b}
    <2>1. PICK S : /\ Transit = S \union (IF pc[t] \in {"lock", "push"} THEN {arg[t].block} ELSE {})
                   /\ Transit' = S \union (IF pc'[t] \in {"lock", "push"} THEN {arg'[t].block} ELSE {})
                   /\ arg[t].block # 0 => arg[t].block \notin S
      BY <1>1, <1>11, TransitFrame
    <2>2. pc[t] \in {"lock", "push"} /\ pc'[t] \notin {"lock", "push"}
      BY <1>5, <1>10
    <2> QED BY <1>2, <1>6, <2>1, <2>2
  <1>14. Addrs' = Addrs
    BY <1>5 DEF Addrs
  <1>15. Taken' = Taken \ {b}
    BY <1>12, <1>13, <1>14 DEF Taken
  <1>16. b \notin Listed(d)
    BY <1>1, <1>6, <1>12 DEF ListsOK
  <1>17. /\ free_list' \in [descs -> Seq(Nat)]
         /\ Listed(d)' = Listed(d) \union {b}
         /\ \A e \in descs \ {d} : free_list'[e] = free_list[e] /\ Listed(e)' = Listed(e)
         /\ \A e \in descs : \A i, k \in DOMAIN free_list'[e] : free_list'[e][i] = free_list'[e][k] => i = k
    <2>1. PICK s : s = free_list[d]
      OBVIOUS
    <2>2. s \in Seq(Nat) /\ Distinct(s) /\ Members(s) = Listed(d)
      BY <1>1, <1>6, <2>1, OldList
    <2>3. PICK w : w = <<b>> \o s
      OBVIOUS
    <2>4. w \in Seq(Nat) /\ Members(w) = Listed(d) \union {b} /\ Distinct(w)
      BY <1>6, <1>16, <2>2, <2>3, PushSeq
    <2>5. free_list' = [free_list EXCEPT ![d] = w]
      BY <1>5, <2>1, <2>3
    <2> QED BY <1>1, <1>6, <2>4, <2>5, ListFrame
  <1>18. bytes' \in [Address -> Int] /\ \A x \in Address : x # b => bytes'[x] = bytes[x]
    <2>1. LINK \in Int /\ bytes \in [Address -> Int]
      BY <1>1 DEF TypeOK, LINK
    <2> QED BY <1>5, <2>1, WrittenAt
  <1>19. b \in Owned(b)
    <2>1. Size(b) \in Nat /\ Size(b) > 0
      BY <1>1, <1>6, OwnedPlace
    <2> QED BY <1>6, <2>1 DEF Owned, Region
  <1>20. TypeOK'
    BY <1>1, <1>5, <1>9, <1>10, <1>17, <1>18 DEF TypeOK
  <1>21. HeldOK'
    <2>1. ASSUME NEW r \in held PROVE Valid(r.addr)' /\ Len(r.text) <= Size(r.addr)'
      <3>1. r.addr \in Nat /\ Valid(r.addr) /\ Len(r.text) <= Size(r.addr)
        BY <1>1 DEF TypeOK, HeldOK
      <3> QED BY <1>9, <3>1
    <2>2. \A p \in BigHeads' : p * PGSIZE + ArenaSize \in Addrs'
      BY <1>1, <1>9, <1>14 DEF HeldOK
    <2>3. \A r, s \in held' : r.addr = s.addr => r = s
      BY <1>1, <1>5 DEF HeldOK
    <2> QED BY <1>5, <2>1, <2>2, <2>3 DEF HeldOK
  <1>22. BytesOK'
    <2>1. ASSUME NEW p \in Arenas, NEW x \in Region(p * PGSIZE, ArenaSize) PROVE bytes'[x] = HEADER
      <3>1. bytes[x] = HEADER
        BY <1>1 DEF BytesOK
      <3>2. p \in Nat /\ p \in Page
        BY <1>1, PageFacts DEF Arenas
      <3>3. x \in Address
        BY <3>2, HeaderPage, PageAddress
      <3>4. x # b
        BY <1>1, <1>6, <1>19, HeaderApart
      <3> QED BY <1>18, <3>1, <3>3, <3>4
    <2>2. ASSUME NEW r \in held, NEW i \in 1 .. Len(r.text) PROVE bytes'[r.addr + i - 1] = r.text[i]
      <3>1. r.addr \in Addrs
        BY DEF Addrs
      <3>2. bytes[r.addr + i - 1] = r.text[i]
        BY <1>1 DEF BytesOK
      <3>3. r.addr \in Nat /\ Valid(r.addr) /\ r.addr + i - 1 \in Owned(r.addr) /\ r.addr + i - 1 \in Address
        BY <1>1, TextPlace
      <3>4. Owned(r.addr) \cap Owned(b) = {}
        BY <1>1, <1>6, <1>12, <3>1, <3>3, Apart
      <3> QED BY <1>18, <1>19, <3>2, <3>3, <3>4
    <2> QED BY <1>5, <1>9, <2>1, <2>2 DEF BytesOK
  <1>23. \A p \in Arenas : p \in Page /\ p \in Nat /\ arena'[p].desc = arena[p].desc /\ arena[p].desc \in descs
    BY <1>1, <1>9, PageFacts DEF Arenas
  <1>24. \A c \in Nat : Valid(c) => arena'[block_to_arena(c)].desc = arena[block_to_arena(c)].desc
    BY <1>1, <1>9 DEF Valid, TypeOK
  <1>25. ListsOK'
    <2>1. ASSUME NEW e \in descs, NEW c \in Listed(e)'
          PROVE  Valid(c)' /\ arena'[block_to_arena(c)].desc = e /\ c \notin Taken'
      <3>1. CASE e = d /\ c = b
        BY <1>4, <1>6, <1>9, <1>15, <1>24, <3>1
      <3>2. CASE c \in Listed(e)
        <4>1. c \in Nat /\ Valid(c) /\ arena[block_to_arena(c)].desc = e /\ c \notin Taken
          BY <1>1, <3>2, ListedNat DEF ListsOK
        <4> QED BY <1>9, <1>15, <1>24, <4>1
      <3> QED BY <1>17, <3>1, <3>2
    <2>2. ASSUME NEW p \in Arenas, NEW e, e = arena[p].desc, NEW c \in BlocksOf(p, e)
          PROVE  c \in Listed(e)' \/ c \in Taken'
      <3>1. c \in Listed(e) \/ c \in Taken
        BY <1>1, <2>2 DEF ListsOK
      <3>2. CASE c = b
        <4>1. block_to_arena(c) = p
          BY <1>23, <2>2, BlockPlace
        <4> QED BY <1>4, <1>6, <1>17, <2>2, <3>2, <4>1
      <3>3. CASE c # b
        BY <1>15, <1>17, <1>23, <2>2, <3>1, <3>3
      <3> QED BY <3>2, <3>3
    <2> QED BY <1>17, <2>1, <2>2, <1>9, <1>23, ListsNext
  <1>26. CountOK'
    <2>1. ASSUME NEW p \in Arenas, p # a PROVE FreeIn(p)' = FreeIn(p) /\ arena'[p] = arena[p]
      <3>1. arena'[p] = arena[p]
        BY <1>9, <1>23, <2>1
      <3>2. FreeIn(p)' = {c \in Listed(arena[p].desc)' : block_to_arena(c) = p}
        BY <1>23 DEF FreeIn, Listed, block_to_arena
      <3>3. FreeIn(p) = {c \in Listed(arena[p].desc) : block_to_arena(c) = p}
        BY DEF FreeIn
      <3>4. FreeIn(p)' = FreeIn(p)
        BY <1>4, <1>17, <1>23, <2>1, <3>2, <3>3
      <3> QED BY <3>1, <3>4
    <2>2. FreeIn(a)' = FreeIn(a) \union {b}
      <3>1. FreeIn(a)' = {c \in Listed(d)' : block_to_arena(c) = a}
        BY <1>6, <1>23 DEF FreeIn, Listed, block_to_arena
      <3>2. FreeIn(a) = {c \in Listed(d) : block_to_arena(c) = a}
        BY <1>6 DEF FreeIn
      <3> QED BY <1>4, <1>17, <3>1, <3>2
    <2>3. b \notin FreeIn(a)
      BY <1>6, <1>16 DEF FreeIn
    <2>4. IsFiniteSet(FreeIn(a)) /\ arena[a].free_cnt = Cardinality(FreeIn(a))
      BY <1>1, <1>6, FreeBlocks DEF CountOK
    <2>5. Cardinality(FreeIn(a) \union {b}) = Cardinality(FreeIn(a)) + 1
      BY <2>3, <2>4, FS_AddElement
    <2>6. arena'[a].free_cnt = Cardinality(FreeIn(a)')
      BY <1>9, <2>2, <2>4, <2>5
    <2>7. ASSUME NEW p \in Arenas PROVE arena'[p].free_cnt = Cardinality(FreeIn(p)')
      <3>1. CASE p = a
        BY <2>6, <3>1
      <3>2. CASE p # a
        BY <1>1, <2>1, <3>2 DEF CountOK
      <3> QED BY <3>1, <3>2
    <2> QED BY <1>9, <2>7 DEF CountOK
  <1>27. ThreadsOK'
    <2>1. ThreadOK(t)'
      <3>1. Valid(b)' /\ arena'[block_to_arena(b)].desc # 0
        BY <1>4, <1>6, <1>9, <1>24, DescSizes
      <3>2. Valid(arg[t].block)' /\ arena'[block_to_arena(arg[t].block)].desc # 0
        BY <1>2, <1>5, <3>1 DEF Valid
      <3> QED BY <1>5, <1>10, <3>2 DEF ThreadOK
    <2>2. \A u \in Thread \ {t} : \A c \in Nat :
            pc[u] \in {"lock", "push", "test"} /\ c = arg[u].block =>
              Valid(c)' /\ arena'[block_to_arena(c)].desc # 0
      BY <1>1, <1>9, <1>24 DEF ThreadsOK, ThreadOK
    <2>3. \A u \in Thread \ {t} : pc[u] \in {"lock", "push"} => arg[u].block \notin Addrs'
      BY <1>1, <1>14 DEF ThreadsOK, ThreadOK
    <2> QED BY <1>1, <1>11, <1>14, <2>1, <2>2, <2>3, ThreadsFrame
  <1>28. ClaimsOK'
    BY <1>1, <1>5 DEF ClaimsOK
  <1>29. LocksOK'
    <2>1. pc'[t] \in Locked
      BY <1>10 DEF Locked
    <2>2. LockOf(t)' = d
      BY <1>2, <1>4, <1>5, <1>6, <1>8, <1>9, <1>10 DEF LockOf, Desc
    <2>3. \A u \in Thread \ {t} : pc[u] \in {"push", "test"} =>
            arena'[block_to_arena(arg[u].block)].desc = arena[block_to_arena(arg[u].block)].desc
      BY <1>24, OwnDesc
    <2> QED BY <1>1, <1>5, <1>7, <1>11, <2>1, <2>2, <2>3, LocksSame
  <1>30. InUse'
    <2> SUFFICES ASSUME NEW p \in Arenas
                 PROVE  (\E c \in Taken' : block_to_arena(c) = p) \/ \E u \in Thread : Passing(p, u)'
      BY <1>9 DEF InUse
    <2>1. CASE p = a
      <3>1. Passing(p, t)'
        BY <1>2, <1>4, <1>5, <1>6, <1>7, <1>10, <1>23, <2>1 DEF Passing
      <3> QED BY <3>1
    <2>2. CASE p # a /\ \E c \in Taken : block_to_arena(c) = p
      BY <1>4, <1>15, <2>2
    <2>3. CASE p # a /\ \E u \in Thread : Passing(p, u)
      <3>1. PICK u \in Thread : Passing(p, u)
        BY <2>3
      <3>2. u # t
        BY <1>5, <3>1 DEF Passing
      <3>3. arena[p].desc # d
        BY <1>7, <3>1, <3>2 DEF Passing
      <3>4. free_list'[arena[p].desc] = free_list[arena[p].desc]
        BY <1>17, <1>23, <3>3
      <3>5. Passing(p, u)'
        BY <1>5, <1>11, <1>23, <3>1, <3>2, <3>4, PassingKept
      <3> QED BY <3>5
    <2> QED BY <1>1, <2>1, <2>2, <2>3 DEF InUse
  <1> QED BY <1>9, <1>20, <1>21, <1>22, <1>25, <1>26, <1>27, <1>28, <1>29, <1>30 DEF IInv

\* An arena with no block in use is taken apart.
LEMMA FreeArenaStep ==
  ASSUME IInv, NEW t \in Thread, FreeArena(t)
  PROVE  IInv'
  <1>1. TypeOK /\ PagesOK /\ HeldOK /\ BytesOK /\ ListsOK /\ CountOK /\ ClaimsOK /\ LocksOK /\ ThreadsOK /\ InUse
    BY DEF IInv
  <1>2. PICK d : d = Desc(t)
    OBVIOUS
  <1>3. PICK a : a = block_to_arena(arg[t].block)
    OBVIOUS
  <1>4. PICK r : r = [arg[t] EXCEPT !.block = 0, !.size = d]
    OBVIOUS
  <1>5. /\ pc[t] = "test" /\ EntirelyUnused(a, d)
        /\ free_list' = [free_list EXCEPT ![d] = Without(free_list[d], BlocksOf(a, d))]
        /\ used' = used \ {a} /\ arena' = [arena EXCEPT ![a] = NoHeader]
        /\ bytes' = Written(bytes, Region(a * PGSIZE, PGSIZE), CC)
        /\ arg' = [arg EXCEPT ![t] = r] /\ pc' = [pc EXCEPT ![t] = "unlock"]
        /\ lock' = lock /\ held' = held
    BY <1>2, <1>3, <1>4 DEF FreeArena, Goto
  <1>6. d = arena[a].desc /\ d \in descs /\ a \in Arenas
    BY <1>2, <1>3, <1>5, OwnDesc
  <1>7. LockOf(t) = d /\ lock[d] = t /\ pc[t] \in Locked
    BY <1>2, <1>5, OwnDesc DEF Locked
  <1>8. a \in Nat /\ a \in Page /\ a \in Roots /\ a \notin BigHeads /\ arena[a].desc # 0 /\ d \in Nat
    BY <1>1, <1>6, PageFacts, DescSizes DEF Arenas, Roots, BigHeads
  <1>9. Cover(a) = {a}
    BY <1>8 DEF Cover
  <1>10. \A c \in Taken : c \in Nat /\ Valid(c) /\ block_to_arena(c) # a
    BY <1>1, <1>5, <1>6, Unused, TakenValid
  <1>11. /\ PagesOK'
         /\ used' \in SUBSET Page
         /\ arena' \in [Page -> [desc : descs \union {0}, free_cnt : Int]]
         /\ Arenas' = Arenas \ {a} /\ BigHeads' = BigHeads
         /\ \A p \in Page \ {a} : arena'[p] = arena[p]
         /\ \A b \in Nat : Valid(b) /\ block_to_arena(b) # a =>
              /\ Valid(b)' /\ Size(b)' = Size(b)
              /\ arena'[block_to_arena(b)] = arena[block_to_arena(b)]
              /\ \A x \in Owned(b) : block_to_arena(x) # a
    <2>1. used' = used \ Cover(a)
      BY <1>5, <1>9
    <2>2. BigHeads \ {a} = BigHeads
      BY <1>8
    <2> QED BY <1>1, <1>5, <1>8, <1>9, <2>1, <2>2, ShrinkFrame
  <1>12. bytes' \in [Address -> Int] /\ \A x \in Address : block_to_arena(x) # a => bytes'[x] = bytes[x]
    <2>1. CC \in Int /\ bytes \in [Address -> Int]
      BY <1>1 DEF TypeOK, CC
    <2>2. a .. a + 1 - 1 = {a} /\ 1 * PGSIZE = PGSIZE
      BY <1>8, HeapAssumption
    <2>3. \A x \in Address : block_to_arena(x) # a => x \notin Region(a * PGSIZE, PGSIZE)
      BY <1>8, <2>2, PageBytes
    <2> QED BY <1>5, <2>1, <2>3, WrittenAt
  <1>13. pc' \in [Thread -> Label] /\ pc'[t] = "unlock" /\ \A u \in Thread \ {t} : pc'[u] = pc[u]
    BY <1>1, <1>5, MovePc DEF Label
  <1>14. r \in [size : Nat, block : Nat, copy : Seq(Int), new : Nat] /\ r.block = 0 /\ r.size = d
    BY <1>1, <1>4, <1>8 DEF TypeOK
  <1>15. /\ arg' \in [Thread -> [size : Nat, block : Nat, copy : Seq(Int), new : Nat]]
         /\ arg'[t] = r /\ \A u \in Thread \ {t} : arg'[u] = arg[u]
    BY <1>1, <1>5, <1>14, MoveArg
  <1>16. Others(t)
    BY <1>13, <1>15 DEF Others
  <1>17. Transit' = Transit /\ Addrs' = Addrs /\ Taken' = Taken
    <2>1. Transit' = Transit
      BY <1>1, <1>5, <1>13, <1>16, TransitFrame
    <2>2. Addrs' = Addrs
      BY <1>5 DEF Addrs
    <2> QED BY <2>1, <2>2 DEF Taken
  <1>18. /\ free_list' \in [descs -> Seq(Nat)]
         /\ Listed(d)' = Listed(d) \ BlocksOf(a, d)
         /\ \A e \in descs \ {d} : free_list'[e] = free_list[e] /\ Listed(e)' = Listed(e)
         /\ \A e \in descs : \A i, k \in DOMAIN free_list'[e] : free_list'[e][i] = free_list'[e][k] => i = k
    <2>1. PICK s : s = free_list[d]
      OBVIOUS
    <2>2. s \in Seq(Nat) /\ Distinct(s) /\ Members(s) = Listed(d)
      BY <1>1, <1>6, <2>1, OldList
    <2>3. PICK w : w = Without(s, BlocksOf(a, d))
      OBVIOUS
    <2>4. w \in Seq(Nat) /\ Members(w) = Listed(d) \ BlocksOf(a, d) /\ Distinct(w)
      BY <2>2, <2>3, WithoutSeq
    <2>5. free_list' = [free_list EXCEPT ![d] = w]
      BY <1>5, <2>1, <2>3
    <2> QED BY <1>1, <1>6, <2>4, <2>5, ListFrame
  <1>19. TypeOK'
    BY <1>1, <1>5, <1>11, <1>12, <1>13, <1>15, <1>18 DEF TypeOK
  <1>20. \A s \in held : s.addr \in Nat /\ Valid(s.addr) /\ block_to_arena(s.addr) # a
    BY <1>10 DEF Taken, Addrs
  <1>21. HeldOK'
    <2>1. ASSUME NEW s \in held PROVE Valid(s.addr)' /\ Len(s.text) <= Size(s.addr)'
      BY <1>1, <1>11, <1>20 DEF HeldOK
    <2>2. \A p \in BigHeads' : p * PGSIZE + ArenaSize \in Addrs'
      BY <1>1, <1>11, <1>17 DEF HeldOK
    <2>3. \A q, s \in held' : q.addr = s.addr => q = s
      BY <1>1, <1>5 DEF HeldOK
    <2> QED BY <1>5, <2>1, <2>2, <2>3 DEF HeldOK
  <1>22. BytesOK'
    <2>1. ASSUME NEW p \in Arenas, p # a, NEW x \in Region(p * PGSIZE, ArenaSize) PROVE bytes'[x] = HEADER
      <3>1. bytes[x] = HEADER
        BY <1>1 DEF BytesOK
      <3>2. p \in Nat /\ p \in Page
        BY <1>1, PageFacts DEF Arenas
      <3>3. x \in Address /\ block_to_arena(x) = p
        BY <3>2, HeaderPage, PageAddress
      <3> QED BY <1>12, <2>1, <3>1, <3>3
    <2>2. ASSUME NEW s \in held, NEW i \in 1 .. Len(s.text) PROVE bytes'[s.addr + i - 1] = s.text[i]
      <3>1. bytes[s.addr + i - 1] = s.text[i]
        BY <1>1 DEF BytesOK
      <3>2. s.addr + i - 1 \in Owned(s.addr) /\ s.addr + i - 1 \in Address
        BY <1>1, TextPlace
      <3>3. block_to_arena(s.addr + i - 1) # a
        BY <1>11, <1>20, <3>2
      <3> QED BY <1>12, <3>1, <3>2, <3>3
    <2> QED BY <1>5, <1>11, <2>1, <2>2 DEF BytesOK
  <1>23. \A p \in Arenas \ {a} : p \in Page \ {a} /\ p \in Nat /\ arena'[p] = arena[p] /\ arena[p].desc \in descs
    BY <1>1, <1>11, PageFacts DEF Arenas
  <1>24. ASSUME NEW e \in descs, NEW c \in Listed(e)'
         PROVE  c \in Nat /\ c \in Listed(e) /\ Valid(c) /\ arena[block_to_arena(c)].desc = e
                /\ c \notin Taken /\ block_to_arena(c) # a
    <2>1. c \in Listed(e)
      BY <1>18
    <2>2. c \in Nat /\ Valid(c) /\ arena[block_to_arena(c)].desc = e /\ c \notin Taken
      BY <1>1, <2>1, ListedNat DEF ListsOK
    <2>3. CASE block_to_arena(c) = a
      <3>1. e = d
        BY <1>6, <2>2, <2>3
      <3>2. c \in BlocksOf(a, d)
        BY <1>8, <2>2, <2>3, <3>1 DEF Valid
      <3> QED BY <1>18, <3>1, <3>2
    <2> QED BY <2>1, <2>2, <2>3
  <1>25. ASSUME NEW e \in descs, NEW c \in Listed(e), block_to_arena(c) # a
         PROVE  c \in Listed(e)'
    <2>1. c \notin BlocksOf(a, d)
      BY <1>6, <1>8, <1>25, BlockPlace
    <2> QED BY <1>18, <2>1
  <1>26. ListsOK'
    <2>1. ASSUME NEW e \in descs, NEW c \in Listed(e)'
          PROVE  Valid(c)' /\ arena'[block_to_arena(c)].desc = e /\ c \notin Taken'
      BY <1>11, <1>17, <1>24
    <2>2. ASSUME NEW p \in Arenas \ {a}, NEW e, e = arena[p].desc, NEW c \in BlocksOf(p, e)
          PROVE  c \in Listed(e)' \/ c \in Taken'
      <3>1. c \in Listed(e) \/ c \in Taken
        BY <1>1, <2>2 DEF ListsOK
      <3>2. e \in descs /\ p # a /\ block_to_arena(c) = p
        BY <1>23, <2>2, BlockPlace
      <3> QED BY <1>17, <1>25, <3>1, <3>2
    <2> QED BY <1>11, <1>18, <1>23, <2>1, <2>2, ListsNext
  <1>27. CountOK'
    <2>1. ASSUME NEW p \in Arenas \ {a} PROVE FreeIn(p)' = FreeIn(p)
      <3>1. FreeIn(p)' = {c \in Listed(arena[p].desc)' : block_to_arena(c) = p}
        BY <1>23 DEF FreeIn, Listed, block_to_arena
      <3>2. FreeIn(p) = {c \in Listed(arena[p].desc) : block_to_arena(c) = p}
        BY DEF FreeIn
      <3>3. arena[p].desc \in descs /\ p # a
        BY <1>23
      <3>4. PICK e \in descs : e = arena[p].desc
        BY <3>3
      <3>5. FreeIn(p)' = {c \in Listed(e)' : block_to_arena(c) = p}
        BY <1>23, <3>4 DEF FreeIn, Listed, block_to_arena
      <3> QED BY <1>24, <1>25, <3>2, <3>3, <3>4, <3>5
    <2> QED BY <1>1, <1>11, <1>23, <2>1 DEF CountOK
  <1>28. \A u \in Thread \ {t} : pc[u] \in {"lock", "push", "test"} =>
           /\ arg[u].block \in Nat /\ Valid(arg[u].block) /\ block_to_arena(arg[u].block) # a
           /\ arena[block_to_arena(arg[u].block)].desc # 0
    <2> TAKE u \in Thread \ {t}
    <2> HAVE pc[u] \in {"lock", "push", "test"}
    <2>1. /\ arg[u].block \in Nat /\ Valid(arg[u].block)
          /\ Desc(u) = arena[block_to_arena(arg[u].block)].desc /\ Desc(u) \in descs
      BY OwnDesc
    <2>2. CASE pc[u] \in {"lock", "push"}
      <3>1. arg[u].block \in Taken
        BY <2>2 DEF Taken, Transit
      <3> QED BY <1>10, <2>1, <3>1, DescSizes
    <2>3. CASE pc[u] = "test"
      <3>1. lock[Desc(u)] = u
        BY <2>3, OwnDesc DEF Locked
      <3>2. Desc(u) # d
        BY <1>7, <3>1
      <3> QED BY <1>6, <2>1, <3>2, DescSizes
    <2> QED BY <2>2, <2>3
  <1>29. ThreadsOK'
    <2>1. ThreadOK(t)'
      BY <1>6, <1>13, <1>14, <1>15 DEF ThreadOK, descs
    <2>2. \A u \in Thread \ {t} : \A b \in Nat :
            pc[u] \in {"lock", "push", "test"} /\ b = arg[u].block =>
              Valid(b)' /\ arena'[block_to_arena(b)].desc # 0
      BY <1>11, <1>28
    <2>3. \A u \in Thread \ {t} : pc[u] \in {"lock", "push"} => arg[u].block \notin Addrs'
      BY <1>1, <1>17 DEF ThreadsOK, ThreadOK
    <2> QED BY <1>1, <1>16, <1>17, <2>1, <2>2, <2>3, ThreadsFrame
  <1>30. ClaimsOK'
    BY <1>1, <1>14, <1>15, <1>16, ClaimsNew
  <1>31. LocksOK'
    <2>1. pc'[t] \in Locked /\ LockOf(t)' = d
      BY <1>13, <1>14, <1>15 DEF Locked, LockOf
    <2>2. \A u \in Thread \ {t} : pc[u] \in {"push", "test"} =>
            arena'[block_to_arena(arg[u].block)].desc = arena[block_to_arena(arg[u].block)].desc
      BY <1>11, <1>28
    <2> QED BY <1>1, <1>5, <1>7, <1>16, <2>1, <2>2, LocksSame
  <1>32. InUse'
    <2> SUFFICES ASSUME NEW p \in Arenas \ {a}
                 PROVE  (\E c \in Taken' : block_to_arena(c) = p) \/ \E u \in Thread : Passing(p, u)'
      BY <1>11 DEF InUse
    <2>1. CASE \E c \in Taken : block_to_arena(c) = p
      BY <1>17, <2>1
    <2>2. CASE \E u \in Thread : Passing(p, u)
      <3>1. PICK u \in Thread : Passing(p, u)
        BY <2>2
      <3>2. u # t
        BY <1>3, <1>5, <3>1 DEF Passing
      <3>3. arena[p].desc # d
        BY <1>7, <3>1, <3>2 DEF Passing
      <3>4. free_list'[arena[p].desc] = free_list[arena[p].desc]
        BY <1>18, <1>23, <3>3
      <3>5. Passing(p, u)'
        BY <1>5, <1>16, <1>23, <3>1, <3>2, <3>4, PassingKept
      <3> QED BY <3>5
    <2> QED BY <1>1, <2>1, <2>2 DEF InUse
  <1> QED BY <1>11, <1>19, <1>21, <1>22, <1>26, <1>27, <1>29, <1>30, <1>31, <1>32 DEF IInv

-----------------------------------------------------------------------------
(***************************************************************************)
(* Obtaining a block.                                                      *)
(***************************************************************************)
\* New pages, with a header in the first.
LEMMA GrowFrame ==
  ASSUME TypeOK, PagesOK, NEW p \in Page, NEW P \in SUBSET (Page \ used), p \in P,
         NEW h \in [desc : descs \union {0}, free_cnt : Int],
         h.desc = 0 => h.free_cnt > 0 /\ P = p .. p + h.free_cnt - 1,
         h.desc # 0 => P = {p},
         used' = used \union P, arena' = [arena EXCEPT ![p] = h]
  PROVE  /\ PagesOK'
         /\ used' \in SUBSET Page
         /\ arena' \in [Page -> [desc : descs \union {0}, free_cnt : Int]]
         /\ Arenas' = IF h.desc = 0 THEN Arenas ELSE Arenas \union {p}
         /\ BigHeads' = IF h.desc = 0 THEN BigHeads \union {p} ELSE BigHeads
         /\ arena'[p] = h
         /\ \A q \in Page \ {p} : arena'[q] = arena[q]
         /\ \A b \in Nat : Valid(b) =>
              /\ Valid(b)' /\ Size(b)' = Size(b)
              /\ block_to_arena(b) \notin P
              /\ arena'[block_to_arena(b)] = arena[block_to_arena(b)]
              /\ \A x \in Owned(b) : block_to_arena(x) \notin P
  <1>1. arena'[p] = h /\ \A q \in Page \ {p} : arena'[q] = arena[q]
    BY DEF TypeOK
  <1>2. arena' \in [Page -> [desc : descs \union {0}, free_cnt : Int]] /\ used' \in SUBSET Page
    BY DEF TypeOK
  <1>3. \A q \in used : q \in Page \ {p} /\ q \notin P /\ q \in used' /\ arena'[q] = arena[q]
    BY <1>1 DEF TypeOK
  <1>4. \A q \in P \ {p} : arena'[q] = NoHeader /\ q \in Page
    BY <1>1 DEF PagesOK
  <1>5. Arenas' = IF h.desc = 0 THEN Arenas ELSE Arenas \union {p}
    <2>1. ASSUME NEW q \in Arenas' PROVE q \in Arenas \/ (q = p /\ h.desc # 0)
      <3>1. q \in used' /\ arena'[q].desc # 0
        BY DEF Arenas
      <3>2. q \in used \/ q = p
        BY <1>4, <3>1 DEF NoHeader
      <3> QED BY <1>1, <1>3, <3>1, <3>2 DEF Arenas
    <2>2. ASSUME NEW q \in Arenas PROVE q \in Arenas'
      BY <1>3 DEF Arenas
    <2>3. h.desc # 0 => p \in Arenas'
      BY <1>1 DEF Arenas
    <2> QED BY <2>1, <2>2, <2>3
  <1>6. BigHeads' = IF h.desc = 0 THEN BigHeads \union {p} ELSE BigHeads
    <2>1. ASSUME NEW q \in BigHeads' PROVE q \in BigHeads \/ (q = p /\ h.desc = 0)
      <3>1. q \in used' /\ arena'[q].desc = 0 /\ arena'[q].free_cnt > 0
        BY DEF BigHeads
      <3>2. q \in used \/ q = p
        BY <1>4, <3>1 DEF NoHeader
      <3> QED BY <1>1, <1>3, <3>1, <3>2 DEF BigHeads
    <2>2. ASSUME NEW q \in BigHeads PROVE q \in BigHeads'
      BY <1>3 DEF BigHeads
    <2>3. h.desc = 0 => p \in BigHeads'
      BY <1>1 DEF BigHeads
    <2> QED BY <2>1, <2>2, <2>3
  <1>7. \A q \in BigHeads : Extent(q)' = Extent(q) /\ Extent(q) \subseteq used
    <2>1. \A q \in BigHeads : q \in used
      BY DEF BigHeads
    <2> QED BY <1>3, <2>1 DEF Extent, PagesOK
  <1>8. h.desc = 0 => Extent(p)' = P
    BY <1>1 DEF Extent
  <1>9. PagesOK'
    <2>1. \A q \in Page \ used' : arena'[q] = NoHeader
      BY <1>1 DEF PagesOK
    <2>2. ASSUME NEW q \in BigHeads'
          PROVE  Extent(q)' \subseteq used' /\ \A s \in Extent(q)' \ {q} : arena'[s] = NoHeader
      <3>1. CASE q \in BigHeads
        <4>1. Extent(q)' = Extent(q) /\ Extent(q) \subseteq used /\ \A s \in Extent(q) \ {q} : arena[s] = NoHeader
          BY <1>7, <3>1 DEF PagesOK
        <4> QED BY <1>3, <4>1
      <3>2. CASE q = p /\ h.desc = 0
        BY <1>4, <1>8, <3>2
      <3> QED BY <1>6, <3>1, <3>2
    <2>3. ASSUME NEW q \in used' PROVE q \in Arenas' \/ \E s \in BigHeads' : q \in Extent(s)'
      <3>1. CASE q \in used
        <4>1. CASE q \in Arenas
          BY <1>5, <4>1
        <4>2. ASSUME NEW s \in BigHeads, q \in Extent(s) PROVE \E v \in BigHeads' : q \in Extent(v)'
          BY <1>6, <1>7, <4>2
        <4> QED BY <3>1, <4>1, <4>2 DEF PagesOK
      <3>2. CASE q \in P /\ h.desc = 0
        <4>1. p \in BigHeads' /\ q \in Extent(p)'
          BY <1>6, <1>8, <3>2
        <4> QED BY <4>1
      <3>3. CASE q \in P /\ h.desc # 0
        BY <1>5, <3>3
      <3> QED BY <3>1, <3>2, <3>3
    <2> QED BY <2>1, <2>2, <2>3 DEF PagesOK, Page
  <1>10. ASSUME NEW b \in Nat, Valid(b)
         PROVE  /\ Valid(b)' /\ Size(b)' = Size(b)
                /\ block_to_arena(b) \notin P
                /\ arena'[block_to_arena(b)] = arena[block_to_arena(b)]
                /\ \A x \in Owned(b) : block_to_arena(x) \notin P
    <2>1. block_to_arena(b) \in used
      BY <1>10 DEF Valid
    <2>2. Valid(b)' /\ Size(b)' = Size(b)
      BY <1>3, <1>10, <2>1, ValidKept
    <2>3. \A x \in Owned(b) : block_to_arena(x) \in used
      BY <1>10, OwnedPlace
    <2> QED BY <1>3, <2>1, <2>2, <2>3
  <1> QED BY <1>1, <1>2, <1>5, <1>6, <1>9, <1>10

\* The block is the caller's, and the call goes on or returns.
LEMMA HandEffect ==
  ASSUME TypeOK, HeldOK, ClaimsOK, ThreadsOK, NEW t \in Thread, pc[t] \in {"malloc", "pop"},
         NEW b \in Nat, b \notin Addrs, NEW size \in Nat, NEW mem \in [Address -> Int],
         Hand(t, mem, b, size), Obtained(t, b)
  PROVE  /\ held' \in SUBSET [addr : Nat, text : Seq(Int)]
         /\ bytes' \in [Address -> Int]
         /\ pc' \in [Thread -> Label] /\ pc'[t] \in {"idle", "free"}
         /\ arg' \in [Thread -> [size : Nat, block : Nat, copy : Seq(Int), new : Nat]]
         /\ Others(t) /\ ThreadOK(t)' /\ ClaimsOK'
         /\ Addrs' = Addrs \union {b} /\ Transit' = Transit /\ Taken' = Taken \union {b}
         /\ held \subseteq held'
         /\ \A s \in held' : s \in held \/ (s.addr = b /\ Len(s.text) = size)
         /\ \A r, s \in held' : r.addr = s.addr => r = s
         /\ \A x \in Address : x \notin Region(b, size) => bytes'[x] = mem[x]
         /\ \A s \in held' : s.addr = b => \A i \in 1 .. Len(s.text) :
              b + i - 1 \in Address => bytes'[b + i - 1] = s.text[i]
  <1>1. PICK old : old = arg[t].copy
    OBVIOUS
  <1>2. PICK text : text = [i \in 1 .. size |-> IF i <= Len(old) THEN old[i] ELSE b]
    OBVIOUS
  <1>3. PICK n : n = [addr |-> b, text |-> text]
    OBVIOUS
  <1>4. /\ held' = held \union {n}
        /\ bytes' = [x \in Address |-> IF x \in Region(b, size) THEN text[x - b + 1] ELSE mem[x]]
    BY <1>1, <1>2, <1>3 DEF Hand
  <1>5. text \in Seq(Int) /\ Len(text) = size
    <2>1. old \in Seq(Int) /\ Len(old) \in Nat /\ \A i \in 1 .. Len(old) : old[i] \in Int
      BY <1>1 DEF TypeOK
    <2>2. \A i \in 1 .. size : i <= Len(old) => old[i] \in Int
      BY <2>1
    <2>3. text \in [1 .. size -> Int]
      BY <1>2, <2>2
    <2> QED BY <2>3
  <1>6. n \in [addr : Nat, text : Seq(Int)] /\ n.addr = b /\ n.text = text
    BY <1>3, <1>5
  <1>7. held' \in SUBSET [addr : Nat, text : Seq(Int)]
    BY <1>4, <1>6 DEF TypeOK
  <1>8. \A x \in Address : x \in Region(b, size) => x - b + 1 \in 1 .. size /\ text[x - b + 1] \in Int
    <2> TAKE x \in Address
    <2> HAVE x \in Region(b, size)
    <2>1. x - b + 1 \in 1 .. size
      BY DEF Region
    <2> QED BY <1>5, <2>1
  <1>9. bytes' \in [Address -> Int]
    BY <1>4, <1>8
  <1>10. \A x \in Address : x \notin Region(b, size) => bytes'[x] = mem[x]
    BY <1>4
  <1>11. ASSUME NEW i \in 1 .. size, b + i - 1 \in Address PROVE bytes'[b + i - 1] = text[i]
    <2>1. b + i - 1 \in Region(b, size) /\ (b + i - 1) - b + 1 = i
      BY DEF Region
    <2> QED BY <1>4, <1>11, <2>1
  <1>12. Addrs' = Addrs \union {b}
    BY <1>4, <1>6 DEF Addrs
  <1>13. \A r \in held : r.addr # b
    BY DEF Addrs
  <1>14. \A r, s \in held' : r.addr = s.addr => r = s
    BY <1>4, <1>6, <1>13 DEF HeldOK
  <1>15. \A s \in held' : s \in held \/ (s.addr = b /\ Len(s.text) = size)
    BY <1>4, <1>5, <1>6
  <1>16. \A s \in held' : s.addr = b => s = n
    BY <1>4, <1>13
  <1>17. ASSUME NEW s \in held', s.addr = b, NEW i \in 1 .. Len(s.text), b + i - 1 \in Address
         PROVE  bytes'[b + i - 1] = s.text[i]
    BY <1>5, <1>6, <1>11, <1>16, <1>17
  <1>18. /\ pc' \in [Thread -> Label] /\ pc'[t] \in {"idle", "free"}
         /\ arg' \in [Thread -> [size : Nat, block : Nat, copy : Seq(Int), new : Nat]]
         /\ Others(t)
         /\ pc'[t] = "idle" => arg'[t].block = 0
         /\ pc'[t] = "free" => arg'[t].block = arg[t].block /\ arg[t].block # 0
    <2>1. CASE arg[t].block = 0
      <3>1. pc' = [pc EXCEPT ![t] = "idle"] /\ arg' = [arg EXCEPT ![t] = NoArg]
        BY <2>1 DEF Obtained, Goto
      <3>2. pc' \in [Thread -> Label] /\ pc'[t] = "idle" /\ \A u \in Thread \ {t} : pc'[u] = pc[u]
        BY <3>1, MovePc DEF Label
      <3>3. /\ arg' \in [Thread -> [size : Nat, block : Nat, copy : Seq(Int), new : Nat]]
            /\ arg'[t] = NoArg /\ \A u \in Thread \ {t} : arg'[u] = arg[u]
        BY <3>1, MoveArg, NoArgType
      <3> QED BY <3>2, <3>3, NoArgType DEF Others
    <2>2. CASE arg[t].block # 0
      <3>1. PICK r : r = [arg[t] EXCEPT !.new = b, !.copy = <<>>]
        OBVIOUS
      <3>2. pc' = [pc EXCEPT ![t] = "free"] /\ arg' = [arg EXCEPT ![t].new = b, ![t].copy = <<>>]
        BY <2>2 DEF Obtained, Goto
      <3>3. arg[t] \in [size : Nat, block : Nat, copy : Seq(Int), new : Nat]
        BY DEF TypeOK
      <3>4. r \in [size : Nat, block : Nat, copy : Seq(Int), new : Nat] /\ r.block = arg[t].block
        <4>1. PICK g : g = arg[t]
          OBVIOUS
        <4>2. PICK e : e = <<>>
          OBVIOUS
        <4>5. e \in Seq(Int)
          BY <4>2
        <4>3. g \in [size : Nat, block : Nat, copy : Seq(Int), new : Nat]
              /\ r = [g EXCEPT !.new = b, !.copy = e]
          BY <3>1, <3>3, <4>1, <4>2
        <4>4. r = [size |-> g.size, block |-> g.block, copy |-> e, new |-> b]
          BY <4>3
        <4> QED BY <4>1, <4>3, <4>4, <4>5
      <3>5. arg' = [arg EXCEPT ![t] = r]
        <4> DEFINE one == [arg EXCEPT ![t].new = b]
        <4>1. arg' = [one EXCEPT ![t].copy = <<>>]
          BY <3>2
        <4>2. one = [arg EXCEPT ![t] = [arg[t] EXCEPT !.new = b]]
          OBVIOUS
        <4>3. one[t] = [arg[t] EXCEPT !.new = b]
          BY <4>2 DEF TypeOK
        <4>4. r = [one[t] EXCEPT !.copy = <<>>]
          BY <3>1, <4>3
        <4> HIDE DEF one
        <4>5. arg' = [one EXCEPT ![t] = r]
          BY <4>1, <4>4
        <4> QED BY <4>2, <4>5 DEF TypeOK
      <3>6. pc' \in [Thread -> Label] /\ pc'[t] = "free" /\ \A u \in Thread \ {t} : pc'[u] = pc[u]
        BY <3>2, MovePc DEF Label
      <3>7. /\ arg' \in [Thread -> [size : Nat, block : Nat, copy : Seq(Int), new : Nat]]
            /\ arg'[t] = r /\ \A u \in Thread \ {t} : arg'[u] = arg[u]
        BY <3>4, <3>5, MoveArg
      <3> QED BY <2>2, <3>4, <3>6, <3>7 DEF Others
    <2> QED BY <2>1, <2>2
  <1>19. Transit' = Transit
    BY <1>18, TransitFrame
  <1>20. Taken' = Taken \union {b}
    BY <1>12, <1>19 DEF Taken
  <1>21. ThreadOK(t)'
    <2>1. ThreadOK(t)
      BY DEF ThreadsOK
    <2> QED BY <1>12, <1>18, <2>1 DEF ThreadOK
  <1>22. ClaimsOK'
    BY <1>18, ClaimsNew DEF ClaimsOK
  <1> QED BY <1>4, <1>7, <1>9, <1>10, <1>12, <1>14, <1>15, <1>17, <1>18, <1>19, <1>20, <1>21, <1>22

\* The first free block of a descriptor is the caller's.
LEMMA PopStep ==
  ASSUME IInv, NEW t \in Thread, PopBlock(t)
  PROVE  IInv'
  <1>1. TypeOK /\ PagesOK /\ HeldOK /\ BytesOK /\ ListsOK /\ CountOK /\ ClaimsOK /\ LocksOK /\ ThreadsOK /\ InUse
    BY DEF IInv
  <1>2. PICK d : d = Desc(t)
    OBVIOUS
  <1>3. PICK s : s = free_list[d]
    OBVIOUS
  <1>4. PICK b : b = Head(s)
    OBVIOUS
  <1>5. PICK a : a = block_to_arena(b)
    OBVIOUS
  <1>6. PICK size : size = arg[t].size
    OBVIOUS
  <1>7. /\ pc[t] = "pop" /\ s # <<>>
        /\ free_list' = [free_list EXCEPT ![d] = Tail(s)]
        /\ arena' = [arena EXCEPT ![a].free_cnt = arena[a].free_cnt - 1]
        /\ lock' = [lock EXCEPT ![d] = NULL]
        /\ Hand(t, bytes, b, size) /\ Obtained(t, b) /\ used' = used
    BY <1>2, <1>3, <1>4, <1>5, <1>6 DEF PopBlock
  <1>8. d \in descs /\ size <= d /\ LockOf(t) = d /\ lock[d] = t /\ pc[t] \in Locked
    BY <1>2, <1>6, <1>7, OwnDesc DEF Locked
  <1>9. d \in Nat /\ d # 0 /\ size \in Nat
    BY <1>1, <1>6, <1>8, DescSizes DEF TypeOK
  <1>10. s \in Seq(Nat) /\ Distinct(s) /\ Members(s) = Listed(d)
    BY <1>1, <1>3, <1>8, OldList
  <1>11. PICK w : w = Tail(s)
    OBVIOUS
  <1>12. w \in Seq(Nat) /\ b \in Listed(d) /\ Members(w) = Listed(d) \ {b} /\ Distinct(w)
    BY <1>4, <1>7, <1>10, <1>11, TailSeq
  <1>13. /\ free_list' \in [descs -> Seq(Nat)]
         /\ Listed(d)' = Listed(d) \ {b}
         /\ \A e \in descs \ {d} : free_list'[e] = free_list[e] /\ Listed(e)' = Listed(e)
         /\ \A e \in descs : \A i, k \in DOMAIN free_list'[e] : free_list'[e][i] = free_list'[e][k] => i = k
    BY <1>1, <1>7, <1>8, <1>11, <1>12, ListFrame
  <1>14. b \in Nat /\ Valid(b) /\ arena[a].desc = d /\ b \notin Taken /\ b \notin Addrs
    BY <1>1, <1>5, <1>8, <1>12, ListedNat DEF ListsOK, Taken
  <1>15. a \in Arenas
    BY <1>1, <1>5, <1>9, <1>14, ValidPlace
  <1>16. a \in Nat /\ a \in Page /\ arena[a].free_cnt \in Int /\ arena[a].free_cnt - 1 \in Int
    BY <1>1, <1>15, PageFacts DEF Arenas
  <1>17. /\ PagesOK'
         /\ arena' \in [Page -> [desc : descs \union {0}, free_cnt : Int]]
         /\ Arenas' = Arenas /\ BigHeads' = BigHeads
         /\ arena'[a].free_cnt = arena[a].free_cnt - 1
         /\ \A p \in Page \ {a} : arena'[p] = arena[p]
         /\ \A p \in Page : arena'[p].desc = arena[p].desc
         /\ \A c \in Nat : Valid(c) => Valid(c)' /\ Size(c)' = Size(c)
    BY <1>1, <1>7, <1>15, <1>16, CountFrame
  <1>18. bytes \in [Address -> Int]
    BY <1>1 DEF TypeOK
  <1>19. /\ held' \in SUBSET [addr : Nat, text : Seq(Int)]
         /\ bytes' \in [Address -> Int]
         /\ pc' \in [Thread -> Label] /\ pc'[t] \in {"idle", "free"}
         /\ arg' \in [Thread -> [size : Nat, block : Nat, copy : Seq(Int), new : Nat]]
         /\ Others(t) /\ ThreadOK(t)' /\ ClaimsOK'
         /\ Addrs' = Addrs \union {b} /\ Transit' = Transit /\ Taken' = Taken \union {b}
         /\ held \subseteq held'
         /\ \A q \in held' : q \in held \/ (q.addr = b /\ Len(q.text) = size)
         /\ \A r, q \in held' : r.addr = q.addr => r = q
         /\ \A x \in Address : x \notin Region(b, size) => bytes'[x] = bytes[x]
         /\ \A q \in held' : q.addr = b => \A i \in 1 .. Len(q.text) :
              b + i - 1 \in Address => bytes'[b + i - 1] = q.text[i]
    BY <1>1, <1>7, <1>9, <1>14, <1>18, HandEffect
  <1>20. Size(b) = d
    BY <1>5, <1>9, <1>14 DEF Size
  <1>21. \A x \in Region(b, size) : x \in Owned(b)
    BY <1>8, <1>9, <1>14, <1>20 DEF Owned, Region
  <1>22. lock' \in [descs -> Thread \union {NULL}] /\ \A e \in descs \ {d} : lock'[e] = lock[e]
    BY <1>1, <1>7 DEF TypeOK
  <1>23. TypeOK'
    BY <1>1, <1>7, <1>13, <1>17, <1>19, <1>22 DEF TypeOK
  <1>24. HeldOK'
    <2>1. ASSUME NEW q \in held' PROVE Valid(q.addr)' /\ Len(q.text) <= Size(q.addr)'
      <3>1. CASE q \in held
        <4>1. q.addr \in Nat /\ Valid(q.addr) /\ Len(q.text) <= Size(q.addr)
          BY <1>1, <3>1 DEF TypeOK, HeldOK
        <4> QED BY <1>17, <4>1
      <3>2. CASE q.addr = b /\ Len(q.text) = size
        BY <1>8, <1>14, <1>17, <1>20, <3>2
      <3> QED BY <1>19, <3>1, <3>2
    <2>2. \A p \in BigHeads' : p * PGSIZE + ArenaSize \in Addrs'
      BY <1>1, <1>17, <1>19 DEF HeldOK
    <2> QED BY <1>19, <2>1, <2>2 DEF HeldOK
  <1>25. BytesOK'
    <2>1. ASSUME NEW p \in Arenas, NEW x \in Region(p * PGSIZE, ArenaSize) PROVE bytes'[x] = HEADER
      <3>1. bytes[x] = HEADER
        BY <1>1 DEF BytesOK
      <3>2. p \in Nat /\ p \in Page
        BY <1>1, PageFacts DEF Arenas
      <3>3. x \in Address
        BY <3>2, HeaderPage, PageAddress
      <3>4. x \notin Region(b, size)
        BY <1>1, <1>14, <1>21, HeaderApart
      <3> QED BY <1>19, <3>1, <3>3, <3>4
    <2>2. ASSUME NEW q \in held', NEW i \in 1 .. Len(q.text) PROVE bytes'[q.addr + i - 1] = q.text[i]
      <3>1. CASE q \in held
        <4>1. q.addr \in Addrs
          BY <3>1 DEF Addrs
        <4>2. bytes[q.addr + i - 1] = q.text[i]
          BY <1>1, <3>1 DEF BytesOK
        <4>3. q.addr \in Nat /\ Valid(q.addr) /\ q.addr + i - 1 \in Owned(q.addr) /\ q.addr + i - 1 \in Address
          BY <1>1, <3>1, TextPlace
        <4>4. Owned(q.addr) \cap Owned(b) = {}
          BY <1>1, <1>14, <4>1, <4>3, Apart
        <4> QED BY <1>19, <1>21, <4>2, <4>3, <4>4
      <3>2. CASE q.addr = b /\ Len(q.text) = size
        <4>1. b + i - 1 \in Region(b, size)
          BY <1>9, <1>14, <3>2 DEF Region
        <4>2. b + i - 1 \in Address
          BY <1>1, <1>14, <1>21, <4>1, OwnedPlace
        <4> QED BY <1>19, <3>2, <4>2
      <3> QED BY <1>19, <3>1, <3>2
    <2> QED BY <1>17, <2>1, <2>2 DEF BytesOK
  <1>26. \A p \in Arenas : p \in Page /\ p \in Nat /\ arena'[p].desc = arena[p].desc /\ arena[p].desc \in descs
    BY <1>1, <1>17, PageFacts DEF Arenas
  <1>27. \A c \in Nat : Valid(c) => arena'[block_to_arena(c)].desc = arena[block_to_arena(c)].desc
    BY <1>1, <1>17 DEF Valid, TypeOK
  <1>28. ListsOK'
    <2>1. ASSUME NEW e \in descs, NEW c \in Listed(e)'
          PROVE  Valid(c)' /\ arena'[block_to_arena(c)].desc = e /\ c \notin Taken'
      <3>1. c \in Listed(e)
        BY <1>13
      <3>2. c \in Nat /\ Valid(c) /\ arena[block_to_arena(c)].desc = e /\ c \notin Taken
        BY <1>1, <3>1, ListedNat DEF ListsOK
      <3>3. c # b
        BY <1>5, <1>13, <1>14, <3>2
      <3> QED BY <1>17, <1>19, <1>27, <3>2, <3>3
    <2>2. ASSUME NEW p \in Arenas, NEW e, e = arena[p].desc, NEW c \in BlocksOf(p, e)
          PROVE  c \in Listed(e)' \/ c \in Taken'
      <3>1. c \in Listed(e) \/ c \in Taken
        BY <1>1, <2>2 DEF ListsOK
      <3>2. e \in descs
        BY <1>26, <2>2
      <3> QED BY <1>13, <1>19, <3>1, <3>2
    <2> QED BY <1>13, <1>17, <1>26, <2>1, <2>2, ListsNext
  <1>29. CountOK'
    <2>1. ASSUME NEW p \in Arenas, p # a PROVE FreeIn(p)' = FreeIn(p) /\ arena'[p] = arena[p]
      <3>1. arena'[p] = arena[p]
        BY <1>17, <1>26, <2>1
      <3>2. PICK e \in descs : e = arena[p].desc
        BY <1>26
      <3>3. FreeIn(p)' = {c \in Listed(e)' : block_to_arena(c) = p}
        BY <1>26, <3>2 DEF FreeIn, Listed, block_to_arena
      <3>4. FreeIn(p) = {c \in Listed(e) : block_to_arena(c) = p}
        BY <3>2 DEF FreeIn
      <3>5. \A c : c \in Listed(e)' <=> c \in Listed(e) /\ (e = d => c # b)
        BY <1>13
      <3>6. FreeIn(p)' = FreeIn(p)
        BY <1>5, <2>1, <3>3, <3>4, <3>5
      <3> QED BY <3>1, <3>6
    <2>2. FreeIn(a)' = FreeIn(a) \ {b}
      <3>1. FreeIn(a)' = {c \in Listed(d)' : block_to_arena(c) = a}
        BY <1>14, <1>15, <1>26 DEF FreeIn, Listed, block_to_arena
      <3>2. FreeIn(a) = {c \in Listed(d) : block_to_arena(c) = a}
        BY <1>14 DEF FreeIn
      <3> QED BY <1>13, <3>1, <3>2
    <2>3. b \in FreeIn(a)
      BY <1>5, <1>12, <1>14 DEF FreeIn
    <2>4. IsFiniteSet(FreeIn(a)) /\ arena[a].free_cnt = Cardinality(FreeIn(a))
      BY <1>1, <1>15, FreeBlocks DEF CountOK
    <2>5. Cardinality(FreeIn(a) \ {b}) = Cardinality(FreeIn(a)) - 1
      BY <2>3, <2>4, FS_RemoveElement
    <2>6. arena'[a].free_cnt = Cardinality(FreeIn(a)')
      BY <1>17, <2>2, <2>4, <2>5
    <2>7. ASSUME NEW p \in Arenas PROVE arena'[p].free_cnt = Cardinality(FreeIn(p)')
      <3>1. CASE p = a
        BY <2>6, <3>1
      <3>2. CASE p # a
        BY <1>1, <2>1, <3>2 DEF CountOK
      <3> QED BY <3>1, <3>2
    <2> QED BY <1>17, <2>7 DEF CountOK
  <1>30. ThreadsOK'
    <2>1. \A u \in Thread \ {t} : \A c \in Nat :
            pc[u] \in {"lock", "push", "test"} /\ c = arg[u].block =>
              Valid(c)' /\ arena'[block_to_arena(c)].desc # 0
      BY <1>1, <1>17, <1>27 DEF ThreadsOK, ThreadOK
    <2>2. \A u \in Thread \ {t} : pc[u] \in {"lock", "push"} => arg[u].block \notin Addrs'
      <3> TAKE u \in Thread \ {t}
      <3> HAVE pc[u] \in {"lock", "push"}
      <3>1. arg[u].block \in Taken
        BY DEF Taken, Transit
      <3>2. arg[u].block \notin Addrs
        BY <1>1 DEF ThreadsOK, ThreadOK
      <3> QED BY <1>14, <1>19, <3>1, <3>2
    <2> QED BY <1>1, <1>19, <2>1, <2>2, ThreadsFrame
  <1>31. LocksOK'
    <2>1. pc'[t] \notin Locked
      BY <1>19 DEF Locked
    <2>2. \A u \in Thread \ {t} : pc[u] \in {"push", "test"} =>
            arena'[block_to_arena(arg[u].block)].desc = arena[block_to_arena(arg[u].block)].desc
      BY <1>27, OwnDesc
    <2> QED BY <1>1, <1>7, <1>8, <1>19, <2>1, <2>2, LocksReleased
  <1>32. InUse'
    <2> SUFFICES ASSUME NEW p \in Arenas
                 PROVE  (\E c \in Taken' : block_to_arena(c) = p) \/ \E u \in Thread : Passing(p, u)'
      BY <1>17 DEF InUse
    <2>1. CASE p = a
      BY <1>5, <1>19, <2>1
    <2>2. CASE \E c \in Taken : block_to_arena(c) = p
      BY <1>19, <2>2
    <2>3. CASE p # a /\ \E u \in Thread : Passing(p, u)
      <3>1. PICK u \in Thread : Passing(p, u)
        BY <2>3
      <3>2. arena[p].desc \in descs
        BY <1>26
      <3>3. u # t
        <4> SUFFICES ASSUME u = t PROVE FALSE
          OBVIOUS
        <4>1. lock[arena[p].desc] = t /\ p = block_to_arena(Head(free_list[arena[p].desc]))
          BY <1>7, <3>1 DEF Passing
        <4>2. arena[p].desc = d
          BY <1>1, <1>8, <3>2, <4>1 DEF LocksOK
        <4> QED BY <1>3, <1>4, <1>5, <2>3, <4>1, <4>2
      <3>4. arena[p].desc # d
        BY <1>8, <3>1, <3>3 DEF Passing
      <3>5. free_list'[arena[p].desc] = free_list[arena[p].desc] /\ lock'[arena[p].desc] = lock[arena[p].desc]
        BY <1>13, <1>22, <3>2, <3>4
      <3>6. Passing(p, u)'
        BY <1>19, <1>26, <3>1, <3>3, <3>5, PassingKept
      <3> QED BY <3>6
    <2> QED BY <1>1, <2>1, <2>2, <2>3 DEF InUse
  <1> QED BY <1>17, <1>19, <1>23, <1>24, <1>25, <1>28, <1>29, <1>30, <1>31, <1>32 DEF IInv

LEMMA FunctionSeq ==
  ASSUME NEW n \in Nat, n >= 1, NEW w \in [1 .. n -> Nat]
  PROVE  w \in Seq(Nat) /\ DOMAIN w = 1 .. n /\ w # <<>> /\ Head(w) = w[1]
  <1>1. w \in Seq(Nat) /\ DOMAIN w = 1 .. n /\ Len(w) = n
    OBVIOUS
  <1> QED BY <1>1

\* The blocks of a new arena, in the order of their addresses.
LEMMA ArenaSeq ==
  ASSUME NEW p \in Nat, NEW d \in descs, NEW w,
         w = [i \in 1 .. blocks_per_arena(d) |-> arena_to_block(p, i - 1, d)]
  PROVE  /\ w \in Seq(Nat) /\ w # <<>>
         /\ Members(w) = BlocksOf(p, d)
         /\ Distinct(w)
         /\ Head(w) \in BlocksOf(p, d)
  <1> DEFINE n == blocks_per_arena(d)
  <1>1. n \in Nat /\ n >= 1 /\ PGSIZE \in Nat /\ ArenaSize \in Nat /\ d \in Nat \ {0}
    BY BlocksFit, HeapAssumption
  <1>2. \A i \in 0 .. n - 1 : arena_to_block(p, i, d) \in BlocksOf(p, d)
    BY DEF BlocksOf
  <1>3. \A b \in BlocksOf(p, d) : \E i \in 0 .. n - 1 : b = arena_to_block(p, i, d)
    BY DEF BlocksOf
  <1>4. \A b \in BlocksOf(p, d) : b \in Nat
    BY BlockPlace
  <1>5. w = [i \in 1 .. n |-> arena_to_block(p, i - 1, d)]
    OBVIOUS
  <1> HIDE DEF n
  <1>6. \A i \in 1 .. n : w[i] = arena_to_block(p, i - 1, d) /\ w[i] \in BlocksOf(p, d)
    <2> TAKE i \in 1 .. n
    <2>1. i - 1 \in 0 .. n - 1
      BY <1>1
    <2> QED BY <1>2, <1>5, <2>1
  <1>7. w \in [1 .. n -> Nat]
    BY <1>4, <1>5, <1>6
  <1>8. w \in Seq(Nat) /\ DOMAIN w = 1 .. n /\ w # <<>> /\ Head(w) = w[1]
    BY <1>1, <1>7, FunctionSeq
  <1>9. 1 \in 1 .. n
    BY <1>1
  <1>10. Members(w) = BlocksOf(p, d)
    <2>1. ASSUME NEW b \in BlocksOf(p, d) PROVE b \in Members(w)
      <3>1. PICK i \in 0 .. n - 1 : b = arena_to_block(p, i, d)
        BY <1>3
      <3>2. i + 1 \in 1 .. n /\ (i + 1) - 1 = i
        BY <1>1
      <3>3. w[i + 1] = b
        BY <1>6, <3>1, <3>2
      <3> QED BY <1>8, <3>2, <3>3 DEF Members
    <2>2. ASSUME NEW b \in Members(w) PROVE b \in BlocksOf(p, d)
      BY <1>6, <1>8 DEF Members
    <2> QED BY <2>1, <2>2
  <1>11. Distinct(w)
    <2> SUFFICES ASSUME NEW i \in 1 .. n, NEW k \in 1 .. n, w[i] = w[k] PROVE i = k
      BY <1>8 DEF Distinct
    <2>1. i - 1 \in Nat /\ k - 1 \in Nat /\ p * PGSIZE \in Nat
      BY <1>1
    <2>2. PICK x \in Nat : x = i - 1
      BY <2>1
    <2>3. PICK y \in Nat : y = k - 1
      BY <2>1
    <2>4. p * PGSIZE + ArenaSize + x * d = p * PGSIZE + ArenaSize + y * d
      BY <1>6, <2>2, <2>3 DEF arena_to_block
    <2>5. x * d \in Nat /\ y * d \in Nat
      BY <1>1
    <2>6. x * d = y * d
      BY <1>1, <2>1, <2>4, <2>5
    <2>7. (x < y => x * d < y * d) /\ (y < x => y * d < x * d)
      BY <1>1
    <2>8. x = y
      BY <2>5, <2>6, <2>7
    <2> QED BY <2>2, <2>3, <2>8
  <1> QED BY <1>6, <1>8, <1>9, <1>10, <1>11

\* A page becomes an arena and its blocks free ones.
LEMMA NewArenaStep ==
  ASSUME IInv, NEW t \in Thread, NewArena(t)
  PROVE  IInv'
  <1>1. TypeOK /\ PagesOK /\ HeldOK /\ BytesOK /\ ListsOK /\ CountOK /\ ClaimsOK /\ LocksOK /\ ThreadsOK /\ InUse
    BY DEF IInv
  <1>2. PICK d : d = Desc(t)
    OBVIOUS
  <1>3. PICK n : n = blocks_per_arena(d)
    OBVIOUS
  <1>4. PICK p \in Groups(1) :
          /\ used' = used \union {p}
          /\ arena' = [arena EXCEPT ![p] = [desc |-> d, free_cnt |-> n]]
          /\ free_list' = [free_list EXCEPT ![d] = [i \in 1 .. blocks_per_arena(d) |-> arena_to_block(p, i - 1, d)]]
          /\ bytes' = Written(Written(bytes, Region(p * PGSIZE, ArenaSize), HEADER), BlocksOf(p, d), LINK)
    BY <1>2, <1>3 DEF NewArena
  <1>5. PICK w : w = [i \in 1 .. blocks_per_arena(d) |-> arena_to_block(p, i - 1, d)]
    OBVIOUS
  <1>6. PICK h : h = [desc |-> d, free_cnt |-> n]
    OBVIOUS
  <1>7. /\ pc[t] = "pop" /\ free_list[d] = <<>>
        /\ lock' = lock /\ pc' = pc /\ arg' = arg /\ held' = held
    BY <1>2 DEF NewArena
  <1>8. d \in descs /\ LockOf(t) = d /\ lock[d] = t /\ pc[t] \in Locked
    BY <1>2, <1>7, OwnDesc DEF Locked
  <1>9. d \in Nat /\ d # 0 /\ n \in Nat
    BY <1>3, <1>8, DescSizes, BlocksFit
  <1>10. p \in Page /\ p \in Nat /\ p \notin used
    <2>1. p \in Page /\ (p .. p + 1 - 1) \cap used = {}
      BY <1>4 DEF Groups
    <2>2. p \in Nat
      BY <2>1, HeapAssumption DEF Page
    <2>3. p \in p .. p + 1 - 1
      BY <2>2
    <2> QED BY <2>1, <2>2, <2>3
  <1>11. /\ PagesOK'
         /\ used' \in SUBSET Page
         /\ arena' \in [Page -> [desc : descs \union {0}, free_cnt : Int]]
         /\ Arenas' = Arenas \union {p}
         /\ BigHeads' = BigHeads
         /\ arena'[p] = h
         /\ \A q \in Page \ {p} : arena'[q] = arena[q]
         /\ \A b \in Nat : Valid(b) =>
              /\ Valid(b)' /\ Size(b)' = Size(b)
              /\ block_to_arena(b) # p
              /\ arena'[block_to_arena(b)] = arena[block_to_arena(b)]
              /\ \A x \in Owned(b) : block_to_arena(x) # p
    <2>1. h \in [desc : descs \union {0}, free_cnt : Int] /\ h.desc = d
      BY <1>6, <1>8, <1>9
    <2>2. PICK P : P = {p}
      OBVIOUS
    <2>3. P \in SUBSET (Page \ used) /\ p \in P /\ used' = used \union P /\ arena' = [arena EXCEPT ![p] = h]
      BY <1>4, <1>6, <1>10, <2>2
    <2>4. h.desc # 0
      BY <1>9, <2>1
    <2>5. /\ PagesOK'
          /\ used' \in SUBSET Page
          /\ arena' \in [Page -> [desc : descs \union {0}, free_cnt : Int]]
          /\ Arenas' = IF h.desc = 0 THEN Arenas ELSE Arenas \union {p}
          /\ BigHeads' = IF h.desc = 0 THEN BigHeads \union {p} ELSE BigHeads
          /\ arena'[p] = h
          /\ \A q \in Page \ {p} : arena'[q] = arena[q]
          /\ \A b \in Nat : Valid(b) =>
               /\ Valid(b)' /\ Size(b)' = Size(b)
               /\ block_to_arena(b) \notin P
               /\ arena'[block_to_arena(b)] = arena[block_to_arena(b)]
               /\ \A x \in Owned(b) : block_to_arena(x) \notin P
      <3>1. h.desc = 0 => h.free_cnt > 0 /\ P = p .. p + h.free_cnt - 1
        BY <2>4
      <3>2. h.desc # 0 => P = {p}
        BY <2>2
      <3> QED BY <1>1, <1>10, <2>1, <2>3, <3>1, <3>2, GrowFrame
    <2> QED BY <2>2, <2>4, <2>5
  <1>12. w \in Seq(Nat) /\ w # <<>> /\ Members(w) = BlocksOf(p, d) /\ Distinct(w) /\ Head(w) \in BlocksOf(p, d)
    BY <1>5, <1>8, <1>10, ArenaSeq
  <1>13. /\ free_list' \in [descs -> Seq(Nat)]
         /\ free_list'[d] = w
         /\ Listed(d)' = BlocksOf(p, d)
         /\ \A e \in descs \ {d} : free_list'[e] = free_list[e] /\ Listed(e)' = Listed(e)
         /\ \A e \in descs : \A i, k \in DOMAIN free_list'[e] : free_list'[e][i] = free_list'[e][k] => i = k
    <2>1. free_list' = [free_list EXCEPT ![d] = w]
      BY <1>4, <1>5
    <2> QED BY <1>1, <1>8, <1>12, <2>1, ListFrame
  <1>14. Listed(d) = {}
    BY <1>7 DEF Listed
  <1>15. \A c \in BlocksOf(p, d) : c \in Nat /\ block_to_arena(c) = p /\ p * PGSIZE + ArenaSize <= c
    BY <1>8, <1>10, BlockPlace
  <1>16. bytes' \in [Address -> Int] /\ (\A x \in Address : block_to_arena(x) # p => bytes'[x] = bytes[x])
         /\ \A x \in Address : x \in Region(p * PGSIZE, ArenaSize) => bytes'[x] = HEADER
    <2>1. HEADER \in Int /\ LINK \in Int /\ bytes \in [Address -> Int]
      BY <1>1 DEF TypeOK, HEADER, LINK
    <2>2. PICK mem : mem = Written(bytes, Region(p * PGSIZE, ArenaSize), HEADER)
      OBVIOUS
    <2>3. /\ mem \in [Address -> Int]
          /\ \A x \in Address : mem[x] = IF x \in Region(p * PGSIZE, ArenaSize) THEN HEADER ELSE bytes[x]
      BY <2>1, <2>2, WrittenAt
    <2>4. bytes' = Written(mem, BlocksOf(p, d), LINK)
      BY <1>4, <2>2
    <2>5. /\ bytes' \in [Address -> Int]
          /\ \A x \in Address : bytes'[x] = IF x \in BlocksOf(p, d) THEN LINK ELSE mem[x]
      BY <2>1, <2>3, <2>4, WrittenAt
    <2>6. ASSUME NEW x \in Address, block_to_arena(x) # p PROVE bytes'[x] = bytes[x]
      <3>1. x \notin BlocksOf(p, d) /\ x \notin Region(p * PGSIZE, ArenaSize)
        BY <1>10, <1>15, <2>6, HeaderPage
      <3> QED BY <2>3, <2>5, <3>1
    <2>7. ASSUME NEW x \in Address, x \in Region(p * PGSIZE, ArenaSize) PROVE bytes'[x] = HEADER
      <3>1. x \in Nat /\ x < p * PGSIZE + ArenaSize /\ p * PGSIZE + ArenaSize \in Nat
        BY <1>10, <2>7, HeaderPage, AfterHeader
      <3>2. x \notin BlocksOf(p, d)
        BY <1>15, <3>1
      <3> QED BY <2>3, <2>5, <2>7, <3>2
    <2> QED BY <2>5, <2>6, <2>7
  <1>17. Others(t)
    BY <1>7 DEF Others
  <1>18. Transit' = Transit /\ Addrs' = Addrs /\ Taken' = Taken
    BY <1>7 DEF Transit, Addrs, Taken
  <1>19. TypeOK'
    BY <1>1, <1>7, <1>11, <1>13, <1>16 DEF TypeOK
  <1>20. HeldOK'
    <2>1. ASSUME NEW s \in held PROVE Valid(s.addr)' /\ Len(s.text) <= Size(s.addr)'
      <3>1. s.addr \in Nat /\ Valid(s.addr) /\ Len(s.text) <= Size(s.addr)
        BY <1>1 DEF TypeOK, HeldOK
      <3> QED BY <1>11, <3>1
    <2>2. \A q \in BigHeads' : q * PGSIZE + ArenaSize \in Addrs'
      BY <1>1, <1>11, <1>18 DEF HeldOK
    <2>3. \A q, s \in held' : q.addr = s.addr => q = s
      BY <1>1, <1>7 DEF HeldOK
    <2> QED BY <1>7, <2>1, <2>2, <2>3 DEF HeldOK
  <1>21. \A q \in Arenas : q \in Page \ {p} /\ q \in Nat /\ arena'[q] = arena[q] /\ arena[q].desc \in descs
    BY <1>1, <1>10, <1>11, PageFacts DEF Arenas
  <1>22. BytesOK'
    <2>1. ASSUME NEW q \in Arenas \union {p}, NEW x \in Region(q * PGSIZE, ArenaSize) PROVE bytes'[x] = HEADER
      <3>1. q \in Nat /\ q \in Page
        BY <1>10, <1>21
      <3>2. x \in Address /\ block_to_arena(x) = q
        BY <3>1, HeaderPage, PageAddress
      <3>3. CASE q = p
        BY <1>16, <2>1, <3>2, <3>3
      <3>4. CASE q \in Arenas
        <4>1. bytes[x] = HEADER /\ q # p
          BY <1>1, <1>21, <3>4 DEF BytesOK
        <4> QED BY <1>16, <3>2, <4>1
      <3> QED BY <3>3, <3>4
    <2>2. ASSUME NEW s \in held, NEW i \in 1 .. Len(s.text) PROVE bytes'[s.addr + i - 1] = s.text[i]
      <3>1. bytes[s.addr + i - 1] = s.text[i]
        BY <1>1 DEF BytesOK
      <3>2. s.addr \in Nat /\ Valid(s.addr) /\ s.addr + i - 1 \in Owned(s.addr) /\ s.addr + i - 1 \in Address
        BY <1>1, TextPlace
      <3>3. block_to_arena(s.addr + i - 1) # p
        BY <1>11, <3>2
      <3> QED BY <1>16, <3>1, <3>2, <3>3
    <2> QED BY <1>7, <1>11, <2>1, <2>2 DEF BytesOK
  <1>23. p \in used' /\ arena'[p].desc = d /\ arena'[p].free_cnt = n
    BY <1>4, <1>6, <1>11
  <1>24. ListsOK'
    <2>1. ASSUME NEW e \in descs, NEW c \in Listed(e)'
          PROVE  Valid(c)' /\ arena'[block_to_arena(c)].desc = e /\ c \notin Taken'
      <3>1. CASE e = d
        <4>1. c \in BlocksOf(p, d) /\ c \in Nat /\ block_to_arena(c) = p
          BY <1>13, <1>15, <3>1
        <4>2. Valid(c)'
          BY <1>9, <1>23, <4>1 DEF Valid, block_to_arena, BlocksOf, arena_to_block, blocks_per_arena
        <4>3. c \notin Taken
          BY <1>1, <1>11, <4>1, TakenValid
        <4> QED BY <1>18, <1>23, <3>1, <4>1, <4>2, <4>3
      <3>2. CASE e # d
        <4>1. c \in Listed(e)
          BY <1>13, <3>2
        <4>2. c \in Nat /\ Valid(c) /\ arena[block_to_arena(c)].desc = e /\ c \notin Taken
          BY <1>1, <4>1, ListedNat DEF ListsOK
        <4> QED BY <1>11, <1>18, <4>2
      <3> QED BY <3>1, <3>2
    <2>2. ASSUME NEW q \in Arenas \union {p}, NEW e, e = arena'[q].desc, NEW c \in BlocksOf(q, e)
          PROVE  c \in Listed(e)' \/ c \in Taken'
      <3>1. CASE q = p
        BY <1>13, <1>23, <2>2, <3>1
      <3>2. CASE q \in Arenas
        <4>1. e = arena[q].desc /\ e \in descs
          BY <1>21, <2>2, <3>2
        <4>2. c \in Listed(e) \/ c \in Taken
          BY <1>1, <2>2, <3>2, <4>1 DEF ListsOK
        <4> QED BY <1>13, <1>14, <1>18, <4>1, <4>2
      <3> QED BY <3>1, <3>2
    <2> QED BY <1>11, <1>13, <2>1, <2>2, ListsNext
  <1>25. CountOK'
    <2>1. ASSUME NEW q \in Arenas PROVE FreeIn(q)' = FreeIn(q) /\ arena'[q] = arena[q]
      <3>1. arena'[q] = arena[q] /\ q # p
        BY <1>21
      <3>2. PICK e \in descs : e = arena[q].desc
        BY <1>21
      <3>3. FreeIn(q)' = {c \in Listed(e)' : block_to_arena(c) = q}
        BY <1>21, <3>2 DEF FreeIn, Listed, block_to_arena
      <3>4. FreeIn(q) = {c \in Listed(e) : block_to_arena(c) = q}
        BY <3>2 DEF FreeIn
      <3>5. CASE e = d
        BY <1>13, <1>14, <1>15, <3>1, <3>3, <3>4, <3>5
      <3>6. CASE e # d
        BY <1>13, <3>1, <3>3, <3>4, <3>6
      <3> QED BY <3>1, <3>5, <3>6
    <2>2. FreeIn(p)' = BlocksOf(p, d)
      <3>1. FreeIn(p)' = {c \in Listed(d)' : block_to_arena(c) = p}
        BY <1>23 DEF FreeIn, Listed, block_to_arena
      <3> QED BY <1>13, <1>15, <3>1
    <2>3. Cardinality(BlocksOf(p, d)) = n
      BY <1>3, <1>8, <1>10, BlocksCount
    <2>4. ASSUME NEW q \in Arenas \union {p} PROVE arena'[q].free_cnt = Cardinality(FreeIn(q)')
      <3>1. CASE q = p
        BY <1>23, <2>2, <2>3, <3>1
      <3>2. CASE q \in Arenas
        BY <1>1, <2>1, <3>2 DEF CountOK
      <3> QED BY <3>1, <3>2
    <2> QED BY <1>11, <2>4 DEF CountOK
  <1>26. ThreadsOK'
    <2>1. ThreadOK(t)'
      <3>1. ThreadOK(t)
        BY <1>1 DEF ThreadsOK
      <3> QED BY <1>7, <1>18, <3>1 DEF ThreadOK, Fits, descs
    <2>2. \A u \in Thread \ {t} : \A c \in Nat :
            pc[u] \in {"lock", "push", "test"} /\ c = arg[u].block =>
              Valid(c)' /\ arena'[block_to_arena(c)].desc # 0
      BY <1>1, <1>11 DEF ThreadsOK, ThreadOK
    <2>3. \A u \in Thread \ {t} : pc[u] \in {"lock", "push"} => arg[u].block \notin Addrs'
      BY <1>1, <1>18 DEF ThreadsOK, ThreadOK
    <2> QED BY <1>1, <1>17, <1>18, <2>1, <2>2, <2>3, ThreadsFrame
  <1>27. ClaimsOK'
    BY <1>1, <1>7 DEF ClaimsOK
  <1>28. LocksOK'
    <2>1. LockOf(t)' = LockOf(t)
      BY <1>7, <1>8, LockOfKept
    <2>2. \A u \in Thread \ {t} : pc[u] \in {"push", "test"} =>
            arena'[block_to_arena(arg[u].block)].desc = arena[block_to_arena(arg[u].block)].desc
      BY <1>11, OwnDesc
    <2> QED BY <1>1, <1>7, <1>17, <2>1, <2>2, LocksSame
  <1>29. InUse'
    <2> SUFFICES ASSUME NEW q \in Arenas \union {p}
                 PROVE  (\E c \in Taken' : block_to_arena(c) = q) \/ \E u \in Thread : Passing(q, u)'
      BY <1>11 DEF InUse
    <2>1. CASE q = p
      <3>1. p = block_to_arena(Head(w))
        BY <1>12, <1>15
      <3>2. lock'[arena'[q].desc] = t /\ pc'[t] = "pop" /\ free_list'[arena'[q].desc] = w
        BY <1>7, <1>8, <1>13, <1>23, <2>1
      <3>3. Passing(q, t)'
        BY <1>12, <2>1, <3>1, <3>2 DEF Passing
      <3> QED BY <3>3
    <2>2. CASE q \in Arenas /\ \E c \in Taken : block_to_arena(c) = q
      BY <1>18, <2>2
    <2>3. CASE q \in Arenas /\ \E u \in Thread : Passing(q, u)
      <3>1. PICK u \in Thread : Passing(q, u)
        BY <2>3
      <3>2. arena[q].desc \in descs
        BY <1>21, <2>3
      <3>3. u # t
        <4> SUFFICES ASSUME u = t PROVE FALSE
          OBVIOUS
        <4>1. lock[arena[q].desc] = t /\ free_list[arena[q].desc] # <<>>
          BY <1>7, <3>1 DEF Passing
        <4>2. arena[q].desc = d
          BY <1>1, <1>8, <3>2, <4>1 DEF LocksOK
        <4> QED BY <1>7, <4>1, <4>2
      <3>4. arena[q].desc # d
        BY <1>8, <3>1, <3>3 DEF Passing
      <3>5. free_list'[arena[q].desc] = free_list[arena[q].desc] /\ lock'[arena[q].desc] = lock[arena[q].desc]
        BY <1>7, <1>13, <3>2, <3>4
      <3>6. Passing(q, u)'
        BY <1>17, <1>21, <2>3, <3>1, <3>3, <3>5, PassingKept
      <3> QED BY <3>6
    <2> QED BY <1>1, <2>1, <2>2, <2>3 DEF InUse
  <1> QED BY <1>11, <1>19, <1>20, <1>22, <1>24, <1>25, <1>26, <1>27, <1>28, <1>29 DEF IInv

\* Whole pages for a block that no descriptor fits.
LEMMA MallocBigStep ==
  ASSUME IInv, NEW t \in Thread, MallocBig(t)
  PROVE  IInv'
  <1>1. TypeOK /\ PagesOK /\ HeldOK /\ BytesOK /\ ListsOK /\ CountOK /\ ClaimsOK /\ LocksOK /\ ThreadsOK /\ InUse
    BY DEF IInv
  <1>2. PICK size : size = arg[t].size
    OBVIOUS
  <1>3. PICK n : n = BigPages(size)
    OBVIOUS
  <1>4. PICK p \in Groups(n) :
          /\ used' = used \union (p .. p + n - 1)
          /\ arena' = [arena EXCEPT ![p] = [desc |-> 0, free_cnt |-> n]]
          /\ Hand(t, Written(bytes, Region(p * PGSIZE, ArenaSize), HEADER), p * PGSIZE + ArenaSize, size)
          /\ Obtained(t, p * PGSIZE + ArenaSize)
    BY <1>2, <1>3 DEF MallocBig
  <1>5. pc[t] = "malloc" /\ free_list' = free_list /\ lock' = lock
    BY DEF MallocBig
  <1>6. PICK P : P = p .. p + n - 1
    OBVIOUS
  <1>7. PICK h : h = [desc |-> 0, free_cnt |-> n]
    OBVIOUS
  <1>8. PICK b : b = p * PGSIZE + ArenaSize
    OBVIOUS
  <1>9. PICK mem : mem = Written(bytes, Region(p * PGSIZE, ArenaSize), HEADER)
    OBVIOUS
  <1>10. size \in Sizes
    BY <1>1, <1>2, <1>5 DEF ThreadsOK, ThreadOK
  <1>11. n \in Nat /\ n >= 1 /\ size + ArenaSize <= n * PGSIZE /\ size \in Nat
    BY <1>3, <1>10, BigFits, HeapAssumption
  <1>12. p \in Page /\ p \in Nat /\ p > 0 /\ p \in P /\ P \in SUBSET (Page \ used)
    <2>1. p \in Page /\ p + n - 1 <= PageCnt /\ P \cap used = {}
      BY <1>4, <1>6 DEF Groups
    <2>2. p \in Nat /\ p > 0 /\ PageCnt \in Nat
      BY <2>1, HeapAssumption DEF Page
    <2>3. p \in P /\ \A q \in P : q \in Page
      BY <1>6, <1>11, <2>1, <2>2 DEF Page
    <2> QED BY <2>1, <2>2, <2>3
  <1>13. /\ PagesOK'
         /\ used' \in SUBSET Page
         /\ arena' \in [Page -> [desc : descs \union {0}, free_cnt : Int]]
         /\ Arenas' = Arenas
         /\ BigHeads' = BigHeads \union {p}
         /\ arena'[p] = h
         /\ \A q \in Page \ {p} : arena'[q] = arena[q]
         /\ \A c \in Nat : Valid(c) =>
              /\ Valid(c)' /\ Size(c)' = Size(c)
              /\ block_to_arena(c) \notin P
              /\ arena'[block_to_arena(c)] = arena[block_to_arena(c)]
              /\ \A x \in Owned(c) : block_to_arena(x) \notin P
    <2>1. h \in [desc : descs \union {0}, free_cnt : Int] /\ h.desc = 0 /\ h.free_cnt = n
      BY <1>7, <1>11
    <2>2. h.desc = 0 => h.free_cnt > 0 /\ P = p .. p + h.free_cnt - 1
      BY <1>6, <1>11, <2>1
    <2>3. h.desc # 0 => P = {p}
      BY <2>1
    <2>4. used' = used \union P /\ arena' = [arena EXCEPT ![p] = h]
      BY <1>4, <1>6, <1>7
    <2>5. /\ PagesOK'
          /\ used' \in SUBSET Page
          /\ arena' \in [Page -> [desc : descs \union {0}, free_cnt : Int]]
          /\ Arenas' = IF h.desc = 0 THEN Arenas ELSE Arenas \union {p}
          /\ BigHeads' = IF h.desc = 0 THEN BigHeads \union {p} ELSE BigHeads
          /\ arena'[p] = h
          /\ \A q \in Page \ {p} : arena'[q] = arena[q]
          /\ \A c \in Nat : Valid(c) =>
               /\ Valid(c)' /\ Size(c)' = Size(c)
               /\ block_to_arena(c) \notin P
               /\ arena'[block_to_arena(c)] = arena[block_to_arena(c)]
               /\ \A x \in Owned(c) : block_to_arena(x) \notin P
      BY <1>1, <1>12, <2>1, <2>2, <2>3, <2>4, GrowFrame
    <2> QED BY <2>1, <2>5
  <1>14. b \in Nat /\ block_to_arena(b) = p
    BY <1>8, <1>12, AfterHeader
  <1>15. p \in used' /\ arena'[p].desc = 0 /\ arena'[p].free_cnt = n
    BY <1>4, <1>6, <1>7, <1>12, <1>13
  <1>16. Valid(b)' /\ Size(b)' = n * PGSIZE - ArenaSize
    <2>1. Valid(b)'
      BY <1>8, <1>11, <1>14, <1>15 DEF Valid, block_to_arena
    <2>2. Size(b)' = n * PGSIZE - ArenaSize
      BY <1>14, <1>15 DEF Size, block_to_arena
    <2> QED BY <2>1, <2>2
  <1>17. b \notin Taken /\ b \notin Addrs
    <2>1. \A c \in Taken : c # b
      BY <1>1, <1>12, <1>13, <1>14, TakenValid
    <2> QED BY <2>1 DEF Taken
  <1>18. /\ mem \in [Address -> Int]
         /\ \A x \in Address : mem[x] = IF x \in Region(p * PGSIZE, ArenaSize) THEN HEADER ELSE bytes[x]
    <2>1. HEADER \in Int /\ bytes \in [Address -> Int]
      BY <1>1 DEF TypeOK, HEADER
    <2> QED BY <1>9, <2>1, WrittenAt
  <1>19. /\ held' \in SUBSET [addr : Nat, text : Seq(Int)]
         /\ bytes' \in [Address -> Int]
         /\ pc' \in [Thread -> Label] /\ pc'[t] \in {"idle", "free"}
         /\ arg' \in [Thread -> [size : Nat, block : Nat, copy : Seq(Int), new : Nat]]
         /\ Others(t) /\ ThreadOK(t)' /\ ClaimsOK'
         /\ Addrs' = Addrs \union {b} /\ Transit' = Transit /\ Taken' = Taken \union {b}
         /\ held \subseteq held'
         /\ \A q \in held' : q \in held \/ (q.addr = b /\ Len(q.text) = size)
         /\ \A r, q \in held' : r.addr = q.addr => r = q
         /\ \A x \in Address : x \notin Region(b, size) => bytes'[x] = mem[x]
         /\ \A q \in held' : q.addr = b => \A i \in 1 .. Len(q.text) :
              b + i - 1 \in Address => bytes'[b + i - 1] = q.text[i]
    <2>1. Hand(t, mem, b, size) /\ Obtained(t, b)
      BY <1>4, <1>8, <1>9
    <2> QED BY <1>1, <1>5, <1>11, <1>14, <1>17, <1>18, <2>1, HandEffect
  <1>20. TypeOK'
    BY <1>1, <1>5, <1>13, <1>19 DEF TypeOK
  \* The bytes written are in the new pages.
  <1>21. ASSUME NEW x \in Region(b, size) PROVE x \in Address /\ block_to_arena(x) \in P
    <2>1. PGSIZE \in Nat /\ ArenaSize \in Nat /\ p * PGSIZE \in Nat /\ n * PGSIZE \in Nat
      BY <1>11, <1>12, HeapAssumption
    <2>2. x \in Nat /\ x \in Region(p * PGSIZE, n * PGSIZE)
      BY <1>8, <1>11, <1>14, <2>1 DEF Region
    <2>3. x \in Int /\ block_to_arena(x) \in P
      BY <1>6, <1>11, <1>12, <2>2, PageSpan
    <2> QED BY <1>12, <2>2, <2>3, PageAddress
  <1>22. \A x \in Address : block_to_arena(x) \notin P => bytes'[x] = bytes[x]
    <2> TAKE x \in Address
    <2> HAVE block_to_arena(x) \notin P
    <2>1. x \notin Region(b, size)
      BY <1>21
    <2>2. x \notin Region(p * PGSIZE, ArenaSize)
      BY <1>12, HeaderPage
    <2> QED BY <1>18, <1>19, <2>1, <2>2
  <1>23. HeldOK'
    <2>1. ASSUME NEW q \in held' PROVE Valid(q.addr)' /\ Len(q.text) <= Size(q.addr)'
      <3>1. CASE q \in held
        <4>1. q.addr \in Nat /\ Valid(q.addr) /\ Len(q.text) <= Size(q.addr)
          BY <1>1, <3>1 DEF TypeOK, HeldOK
        <4> QED BY <1>13, <4>1
      <3>2. CASE q.addr = b /\ Len(q.text) = size
        <4>1. ArenaSize \in Nat /\ n * PGSIZE \in Nat
          BY <1>11, HeapAssumption
        <4>2. size <= n * PGSIZE - ArenaSize
          BY <1>11, <4>1
        <4> QED BY <1>16, <3>2, <4>2
      <3> QED BY <1>19, <3>1, <3>2
    <2>2. \A q \in BigHeads' : q * PGSIZE + ArenaSize \in Addrs'
      BY <1>1, <1>8, <1>13, <1>19 DEF HeldOK
    <2> QED BY <1>19, <2>1, <2>2 DEF HeldOK
  <1>24. \A q \in Arenas : q \in Page \ {p} /\ q \in Nat /\ q \notin P /\ arena'[q] = arena[q] /\ arena[q].desc \in descs
    BY <1>1, <1>12, <1>13, PageFacts DEF Arenas
  <1>25. BytesOK'
    <2>1. ASSUME NEW q \in Arenas, NEW x \in Region(q * PGSIZE, ArenaSize) PROVE bytes'[x] = HEADER
      <3>1. bytes[x] = HEADER
        BY <1>1 DEF BytesOK
      <3>2. q \in Nat /\ q \in Page /\ q \notin P
        BY <1>24
      <3>3. x \in Address /\ block_to_arena(x) = q
        BY <3>2, HeaderPage, PageAddress
      <3> QED BY <1>22, <3>1, <3>2, <3>3
    <2>2. ASSUME NEW q \in held', NEW i \in 1 .. Len(q.text) PROVE bytes'[q.addr + i - 1] = q.text[i]
      <3>1. CASE q \in held
        <4>1. bytes[q.addr + i - 1] = q.text[i]
          BY <1>1, <3>1 DEF BytesOK
        <4>2. q.addr \in Nat /\ Valid(q.addr) /\ q.addr + i - 1 \in Owned(q.addr) /\ q.addr + i - 1 \in Address
          BY <1>1, <3>1, TextPlace
        <4>3. block_to_arena(q.addr + i - 1) \notin P
          BY <1>13, <4>2
        <4> QED BY <1>22, <4>1, <4>2, <4>3
      <3>2. CASE q.addr = b /\ Len(q.text) = size
        <4>1. b + i - 1 \in Region(b, size)
          BY <1>11, <1>14, <3>2 DEF Region
        <4>2. b + i - 1 \in Address
          BY <1>21, <4>1
        <4> QED BY <1>19, <3>2, <4>2
      <3> QED BY <1>19, <3>1, <3>2
    <2> QED BY <1>13, <2>1, <2>2 DEF BytesOK
  <1>26. \A e : Listed(e)' = Listed(e)
    BY <1>5 DEF Listed
  <1>27. ListsOK'
    <2>1. ASSUME NEW e \in descs, NEW c \in Listed(e)'
          PROVE  Valid(c)' /\ arena'[block_to_arena(c)].desc = e /\ c \notin Taken'
      <3>1. c \in Listed(e)
        BY <1>26
      <3>2. c \in Nat /\ Valid(c) /\ arena[block_to_arena(c)].desc = e /\ c \notin Taken
        BY <1>1, <3>1, ListedNat DEF ListsOK
      <3>3. c # b
        BY <1>12, <1>13, <1>14, <3>2
      <3> QED BY <1>13, <1>19, <3>2, <3>3
    <2>2. ASSUME NEW q \in Arenas, NEW e, e = arena[q].desc, NEW c \in BlocksOf(q, e)
          PROVE  c \in Listed(e)' \/ c \in Taken'
      <3>1. c \in Listed(e) \/ c \in Taken
        BY <1>1, <2>2 DEF ListsOK
      <3> QED BY <1>19, <1>26, <3>1
    <2>3. \A e \in descs : \A i, k \in DOMAIN free_list'[e] : free_list'[e][i] = free_list'[e][k] => i = k
      BY <1>1, <1>5 DEF ListsOK
    <2> QED BY <1>13, <1>24, <2>1, <2>2, <2>3, ListsNext
  <1>28. CountOK'
    <2>1. \A q \in Arenas : FreeIn(q)' = FreeIn(q)
      BY <1>24, <1>26 DEF FreeIn
    <2> QED BY <1>1, <1>13, <1>24, <2>1 DEF CountOK
  <1>29. ThreadsOK'
    <2>1. \A u \in Thread \ {t} : \A c \in Nat :
            pc[u] \in {"lock", "push", "test"} /\ c = arg[u].block =>
              Valid(c)' /\ arena'[block_to_arena(c)].desc # 0
      BY <1>1, <1>13 DEF ThreadsOK, ThreadOK
    <2>2. \A u \in Thread \ {t} : pc[u] \in {"lock", "push"} => arg[u].block \notin Addrs'
      <3> TAKE u \in Thread \ {t}
      <3> HAVE pc[u] \in {"lock", "push"}
      <3>1. arg[u].block \in Taken
        BY DEF Taken, Transit
      <3>2. arg[u].block \notin Addrs
        BY <1>1 DEF ThreadsOK, ThreadOK
      <3> QED BY <1>17, <1>19, <3>1, <3>2
    <2> QED BY <1>1, <1>19, <2>1, <2>2, ThreadsFrame
  <1>30. LocksOK'
    <2>1. pc[t] \notin Locked /\ pc'[t] \notin Locked
      BY <1>5, <1>19 DEF Locked
    <2>2. \A u \in Thread \ {t} : pc[u] \in {"push", "test"} =>
            arena'[block_to_arena(arg[u].block)].desc = arena[block_to_arena(arg[u].block)].desc
      BY <1>13, OwnDesc
    <2> QED BY <1>1, <1>5, <1>19, <2>1, <2>2, LocksSame
  <1>31. InUse'
    <2> SUFFICES ASSUME NEW q \in Arenas
                 PROVE  (\E c \in Taken' : block_to_arena(c) = q) \/ \E u \in Thread : Passing(q, u)'
      BY <1>13 DEF InUse
    <2>1. CASE \E c \in Taken : block_to_arena(c) = q
      BY <1>19, <2>1
    <2>2. CASE \E u \in Thread : Passing(q, u)
      <3>1. PICK u \in Thread : Passing(q, u)
        BY <2>2
      <3>2. u # t
        BY <1>5, <3>1 DEF Passing
      <3>3. Passing(q, u)'
        BY <1>5, <1>19, <1>24, <3>1, <3>2, PassingKept
      <3> QED BY <3>3
    <2> QED BY <1>1, <2>1, <2>2 DEF InUse
  <1> QED BY <1>13, <1>19, <1>20, <1>23, <1>25, <1>27, <1>28, <1>29, <1>30, <1>31 DEF IInv
-----------------------------------------------------------------------------
LEMMA NextIInv == IInv /\ [Next]_vars => IInv'
  <1> SUFFICES ASSUME IInv, [Next]_vars PROVE IInv'
    OBVIOUS
  <1>1. CASE UNCHANGED vars
    <2>1. /\ used' = used /\ arena' = arena /\ bytes' = bytes /\ free_list' = free_list
          /\ lock' = lock /\ pc' = pc /\ arg' = arg /\ held' = held
      BY <1>1 DEF vars
    <2>2. Taken' = Taken /\ Addrs' = Addrs
      BY <2>1 DEF Taken, Addrs, Transit
    <2>3. PagesOK' /\ ListsOK' /\ CountOK' /\ HeldOK' /\ BytesOK' /\ Arenas' = Arenas
      BY <2>1, <2>2, QuietFrame, QuietHeld
    <2>4. TypeOK' /\ ClaimsOK'
      BY <2>1 DEF IInv, TypeOK, ClaimsOK
    <2>5. ThreadsOK'
      BY <2>1, <2>2 DEF IInv, ThreadsOK, ThreadOK, Valid
    <2>6. LocksOK'
      BY <2>1 DEF IInv, LocksOK, LockOf, Desc
    <2>7. InUse'
      BY <2>1, <2>2, <2>3 DEF IInv, InUse, Passing
    <2> QED BY <2>3, <2>4, <2>5, <2>6, <2>7 DEF IInv
  <1>2. ASSUME NEW t \in Thread, Step(t) PROVE IInv'
    BY <1>2, BeginStep, MallocBigStep, FailsStep, LockStep, NewArenaStep, PopStep, FreeBigStep, FillStep,
       PushStep, FreeArenaStep, KeepStep, UnlockStep DEF Step
  <1> QED BY <1>1, <1>2 DEF Next

\* The invariant holds in every state of the heap.
THEOREM Invariance == Spec => []IInv
  BY InitIInv, NextIInv, PTL DEF Spec

LEMMA KeepBytes == IInv => BlocksKeepTheirBytes
  <1> SUFFICES ASSUME IInv PROVE BlocksKeepTheirBytes
    OBVIOUS
  <1>1. TypeOK /\ PagesOK /\ HeldOK /\ BytesOK
    BY DEF IInv
  <1>2. ASSUME NEW b \in held
        PROVE  /\ b.addr \in Nat /\ Valid(b.addr)
               /\ DOMAIN b.text = 1 .. Len(b.text)
               /\ \A x \in Region(b.addr, Len(b.text)) : x \in Owned(b.addr)
    <2>1. b.addr \in Nat /\ Valid(b.addr) /\ Len(b.text) <= Size(b.addr) /\ b.text \in Seq(Int)
      BY <1>1 DEF TypeOK, HeldOK
    <2>2. Size(b.addr) \in Nat /\ Len(b.text) \in Nat /\ DOMAIN b.text = 1 .. Len(b.text)
      BY <1>1, <2>1, OwnedPlace
    <2> QED BY <2>1, <2>2 DEF Owned, Region
  <1>3. \A b \in held : \A i \in DOMAIN b.text : bytes[b.addr + i - 1] = b.text[i]
    BY <1>1, <1>2 DEF BytesOK
  <1>4. ASSUME NEW b \in held, NEW c \in held, b # c
        PROVE  Region(b.addr, Len(b.text)) \cap Region(c.addr, Len(c.text)) = {}
    <2>1. b.addr # c.addr
      BY <1>1, <1>4 DEF HeldOK
    <2>2. Owned(b.addr) \cap Owned(c.addr) = {}
      BY <1>1, <1>2, <2>1, Apart
    <2> QED BY <1>2, <2>2
  <1>5. ASSUME NEW b \in held, NEW x \in Region(b.addr, Len(b.text)) PROVE x \div PGSIZE \in used
    <2>1. block_to_arena(x) \in used
      BY <1>1, <1>2, OwnedPlace
    <2> QED BY <2>1 DEF block_to_arena
  <1> QED BY <1>3, <1>4, <1>5 DEF BlocksKeepTheirBytes

\* What a caller wrote into its block stays there until it frees the block, and
\* no other block, link, header or page overlaps it, for any number of threads,
\* pages and block sizes that malloc_init() can have set up.
THEOREM BytesKept == Spec => []BlocksKeepTheirBytes
  BY Invariance, KeepBytes, PTL

LEMMA BusyTaken ==
  ASSUME NEW p
  PROVE  Busy(p) = {b \in Taken : block_to_arena(b) = p}
  BY DEF Busy, Taken, Addrs, Transit

\* The positions of an arena's blocks in the list are as many as the blocks.
Within(s, p) == {b \in Members(s) : block_to_arena(b) = p}
Places(s, p) == {i \in DOMAIN s : block_to_arena(s[i]) = p}

LEMMA IndexCount ==
  ASSUME NEW s \in Seq(Nat), Distinct(s), NEW p
  PROVE  /\ Cardinality(Within(s, p)) = Cardinality(Places(s, p))
         /\ {s[i] : i \in Places(s, p)} = Within(s, p)
  <1> DEFINE B == Within(s, p)
             I == Places(s, p)
  <1> USE DEF Within, Places
  <1> DEFINE f == [i \in I |-> s[i]]
  <1>1. \A i \in I : i \in DOMAIN s /\ s[i] \in B
    BY DEF Members
  <1>2. \A b \in B : \E i \in I : s[i] = b
    BY DEF Members
  <1>3. f \in [I -> B]
    BY <1>1
  <1>4. f \in Bijection(I, B)
    <2>1. \A i \in I : f[i] = s[i]
      OBVIOUS
    <2>2. \A i, k \in I : f[i] = f[k] => i = k
      BY <1>1, <2>1 DEF Distinct
    <2>3. \A b \in B : \E i \in I : f[i] = b
      BY <1>2, <2>1
    <2> HIDE DEF f
    <2> QED BY <1>3, <2>2, <2>3 DEF Bijection, Injection, Surjection, IsInjective
  <1>5. DOMAIN s = 1 .. Len(s) /\ Len(s) \in Nat
    OBVIOUS
  <1>6. IsFiniteSet(1 .. Len(s)) /\ I \in SUBSET (1 .. Len(s))
    BY <1>1, <1>5, FS_Interval
  <1>7. IsFiniteSet(I)
    BY <1>6, FS_Subset
  <1> HIDE DEF f
  <1>8. Cardinality(B) = Cardinality(I)
    BY <1>4, <1>7, FS_Bijection DEF ExistsBijection
  <1>9. {s[i] : i \in I} = B
    BY <1>1, <1>2
  <1> QED BY <1>8, <1>9

LEMMA Exact == IInv => ArenasAreExact
  <1> SUFFICES ASSUME IInv PROVE ArenasAreExact
    OBVIOUS
  <1>1. TypeOK /\ PagesOK /\ HeldOK /\ BytesOK /\ ListsOK /\ CountOK /\ InUse
    BY DEF IInv
  <1> DEFINE Owns(b, p) == /\ arena[block_to_arena(b.addr)].desc = 0
                           /\ p - block_to_arena(b.addr) \in
                                0 .. arena[block_to_arena(b.addr)].free_cnt - 1
             Index(d, p) == {i \in DOMAIN free_list[d] : block_to_arena(free_list[d][i]) = p}
  <1>2. \A d \in descs : \A i, k \in DOMAIN free_list[d] : i # k => free_list[d][i] # free_list[d][k]
    BY <1>1 DEF ListsOK
  <1>3. ASSUME NEW d \in descs, NEW i \in DOMAIN free_list[d]
        PROVE  block_to_arena(free_list[d][i]) \in used /\ arena[block_to_arena(free_list[d][i])].desc = d
    <2>1. free_list[d][i] \in Listed(d)
      BY DEF Listed
    <2> QED BY <1>1, <2>1 DEF ListsOK, Valid
  <1>4. ASSUME NEW p \in used, ~ \E b \in held : Owns(b, p) PROVE p \in Arenas
    <2> SUFFICES ASSUME NEW q \in BigHeads, p \in Extent(q) PROVE FALSE
      BY <1>1 DEF PagesOK
    <2>1. q \in Nat /\ q \in used /\ arena[q].desc = 0 /\ arena[q].free_cnt \in Int
      BY <1>1, PageFacts DEF BigHeads
    <2>2. PICK b \in held : b.addr = q * PGSIZE + ArenaSize
      BY <1>1 DEF HeldOK, Addrs
    <2>3. block_to_arena(b.addr) = q
      BY <2>1, <2>2, AfterHeader
    <2>4. p \in Nat /\ q <= p /\ p <= q + arena[q].free_cnt - 1
      BY <2>1 DEF Extent
    <2>5. p - q \in 0 .. arena[q].free_cnt - 1
      BY <2>1, <2>4
    <2>6. Owns(b, p)
      BY <2>1, <2>3, <2>5
    <2> QED BY <1>4, <2>6
  <1>5. ASSUME NEW p \in Arenas, NEW d, d = arena[p].desc
        PROVE  /\ d # 0
               /\ \A x \in Region(p * PGSIZE, ArenaSize) : bytes[x] = HEADER
               /\ arena[p].free_cnt = Cardinality(Index(d, p))
               /\ {free_list[d][i] : i \in Index(d, p)} = BlocksOf(p, d) \ Busy(p)
               /\ lock[d] = NULL => Busy(p) # {}
    <2>1. d # 0 /\ d \in descs /\ p \in Nat /\ FreeIn(p) = BlocksOf(p, d) \ Taken
      BY <1>1, <1>5, FreeBlocks DEF Arenas
    <2>2. \A x \in Region(p * PGSIZE, ArenaSize) : bytes[x] = HEADER
      BY <1>1 DEF BytesOK
    <2>3. free_list[d] \in Seq(Nat) /\ Distinct(free_list[d]) /\ Members(free_list[d]) = Listed(d)
      BY <1>1, <2>1, OldList
    <2>4. FreeIn(p) = {b \in Listed(d) : block_to_arena(b) = p}
      BY <1>5 DEF FreeIn
    <2>5. Cardinality(FreeIn(p)) = Cardinality(Index(d, p)) /\ {free_list[d][i] : i \in Index(d, p)} = FreeIn(p)
      <3>1. FreeIn(p) = Within(free_list[d], p)
        BY <2>3, <2>4 DEF Within
      <3>2. Index(d, p) = Places(free_list[d], p)
        BY DEF Places
      <3> HIDE DEF Index
      <3> QED BY <2>3, <3>1, <3>2, IndexCount
    <2>6. arena[p].free_cnt = Cardinality(FreeIn(p))
      BY <1>1 DEF CountOK
    <2>7. \A b \in BlocksOf(p, d) : block_to_arena(b) = p
      BY <2>1, BlockPlace
    <2>8. BlocksOf(p, d) \ Taken = BlocksOf(p, d) \ Busy(p)
      BY <2>7, BusyTaken
    <2>9. ASSUME lock[d] = NULL PROVE Busy(p) # {}
      <3>1. ~ \E t \in Thread : Passing(p, t)
        BY <1>5, <2>9, HeapAssumption DEF Passing
      <3>2. PICK b \in Taken : block_to_arena(b) = p
        BY <1>1, <3>1 DEF InUse
      <3> QED BY <3>2, BusyTaken
    <2> HIDE DEF Index
    <2> QED BY <2>1, <2>2, <2>5, <2>6, <2>8, <2>9
  <1>6. ASSUME NEW p \in used
        PROVE  IF \E b \in held : Owns(b, p)
               THEN TRUE
               ELSE /\ arena[p].desc # 0
                    /\ \A x \in Region(p * PGSIZE, ArenaSize) : bytes[x] = HEADER
                    /\ arena[p].free_cnt = Cardinality(Index(arena[p].desc, p))
                    /\ {free_list[arena[p].desc][i] : i \in Index(arena[p].desc, p)}
                         = BlocksOf(p, arena[p].desc) \ Busy(p)
                    /\ lock[arena[p].desc] = NULL => Busy(p) # {}
    <2>1. CASE \E b \in held : Owns(b, p)
      BY <2>1
    <2>2. CASE ~ \E b \in held : Owns(b, p)
      <3>1. p \in Arenas
        BY <1>4, <2>2
      <3> HIDE DEF Owns, Index
      <3> QED BY <1>5, <2>2, <3>1
    <2> QED BY <2>1, <2>2
  <1> QED BY <1>2, <1>3, <1>6 DEF ArenasAreExact

\* Every page the heap has belongs to a big block or to an arena whose free
\* blocks are listed once each and counted by free_cnt, and an arena with no
\* block in use was given back, unless a thread is at its descriptor.
THEOREM ArenasExact == Spec => []ArenasAreExact
  BY Invariance, Exact, PTL

-----------------------------------------------------------------------------
(***************************************************************************)
(* The page pool.                                                          *)
(***************************************************************************)
\* Every call is about some pages, and its position is within the group.
Positions ==
  \A t \in PoolThread :
    /\ pool_pc[t] # "idle" => cnt[t] >= 1
    /\ pool_pc[t] \in {"scan", "flip", "clear"} => j[t] < cnt[t]

\* The lock is held exactly from the start of the scan to the last flip.
LockDiscipline ==
  \A t \in PoolThread : pool_lock = t <=> pool_pc[t] \in {"scan", "flip"}

\* What the scan has found free is still free: bits are set only under the
\* lock, and the threads that clear bits need none.
SeenIsFree ==
  \A t \in PoolThread :
    /\ pool_pc[t] = "scan" => Pool!Group(idx[t], j[t]) \cap used_map = {}
    /\ pool_pc[t] = "flip" =>
         (idx[t] + j[t] .. idx[t] + cnt[t] - 1) \cap used_map = {}

\* Every group the scan has passed had a used page when the lock was taken.
PassedWithReason ==
  \A t \in PoolThread : pool_pc[t] = "scan" =>
    /\ snap \cap used_map = {}
    /\ \A p \in Pool!Page : p < idx[t] => ~ (Pool!Group(p, cnt[t]) \subseteq snap)

\* The inductive invariant.
PoolIInv ==
  /\ Pool!TypeOK
  /\ Positions
  /\ LockDiscipline
  /\ Pool!NoDoubleAllocation
  /\ Pool!UsedMapExact
  /\ SeenIsFree
  /\ PassedWithReason
  /\ Pool!ZeroedPagesStayZeroed

LEMMA PoolInit == Pool!Init => PoolIInv
  <1> SUFFICES ASSUME Pool!Init PROVE PoolIInv
    OBVIOUS
  <1> USE PoolAssumption DEF Pool!Init
  <1>1. Pool!TypeOK /\ Positions /\ LockDiscipline /\ SeenIsFree /\ PassedWithReason
    BY DEF Pool!TypeOK, Positions, LockDiscipline, SeenIsFree, PassedWithReason
  <1>2. \A t \in PoolThread : Pool!Claim(t) = {}
    BY DEF Pool!Claim
  <1>3. Pool!NoDoubleAllocation /\ Pool!UsedMapExact /\ Pool!ZeroedPagesStayZeroed
    BY <1>2 DEF Pool!NoDoubleAllocation, Pool!UsedMapExact, Pool!ZeroedPagesStayZeroed
  <1> QED BY <1>1, <1>3 DEF PoolIInv

\* The small facts: types, positions and the lock.
LEMMA PoolSmallStep == PoolIInv /\ [Pool!Next]_(Pool!vars) => (Pool!TypeOK /\ Positions /\ LockDiscipline)'
  <1> SUFFICES ASSUME PoolIInv, [Pool!Next]_(Pool!vars)
               PROVE  (Pool!TypeOK /\ Positions /\ LockDiscipline)'
    OBVIOUS
  <1> DEFINE Goal == (Pool!TypeOK /\ Positions /\ LockDiscipline)'
  <1> USE PoolAssumption
          DEF PoolIInv, Pool!TypeOK, Positions, LockDiscipline, Pool!Page
  <1>1. ASSUME NEW t \in PoolThread, NEW n \in 1 .. PoolPages, Pool!palloc_get_multiple(t, n)
        PROVE  Goal
    BY <1>1 DEF Pool!palloc_get_multiple, Pool!PoolLockFree
  <1>2. ASSUME NEW t \in PoolThread, Pool!ScanNext(t) PROVE Goal
    BY <1>2 DEF Pool!ScanNext, Pool!last
  <1>3. ASSUME NEW t \in PoolThread, Pool!ScanFail(t) PROVE Goal
    BY <1>3 DEF Pool!ScanFail
  <1>4. ASSUME NEW t \in PoolThread, Pool!ScanFree(t) PROVE Goal
    <2>1. Pool!TypeOK'
      <3>1. j' \in [PoolThread -> Nat]
        BY <1>4 DEF Pool!ScanFree, Pool!GroupTested
      <3>2. pool_pc' \in [PoolThread -> {"idle", "scan", "flip", "zero", "own", "clear"}]
        BY <1>4 DEF Pool!ScanFree, Pool!GroupTested
      <3>3. used_map' \in SUBSET Pool!Page
        BY <1>4 DEF Pool!ScanFree, Pool!GroupTested
      <3>4. \A u \in PoolThread : pool_pc'[u] # "idle" => pool_pc[u] # "idle"
        BY <1>4 DEF Pool!ScanFree, Pool!GroupTested
      <3>5. /\ cnt' = cnt /\ idx' = idx /\ contents' = contents /\ snap' = snap
            /\ pool_lock' \in {pool_lock, NULL}
        BY <1>4 DEF Pool!ScanFree, Pool!GroupTested
      <3> HIDE DEF Pool!Page
      <3> QED BY <3>1, <3>2, <3>3, <3>4, <3>5
    <2>2. Positions'
      BY <1>4 DEF Pool!ScanFree, Pool!GroupTested
    <2>3. LockDiscipline'
      BY <1>4 DEF Pool!ScanFree, Pool!GroupTested
    <2> QED BY <2>1, <2>2, <2>3
  <1>5. ASSUME NEW t \in PoolThread, Pool!FlipBit(t) PROVE Goal
    <2>1. Pool!TypeOK'
      <3>1. j' \in [PoolThread -> Nat]
        BY <1>5 DEF Pool!FlipBit
      <3>2. pool_pc' \in [PoolThread -> {"idle", "scan", "flip", "zero", "own", "clear"}]
        BY <1>5 DEF Pool!FlipBit
      <3>3. used_map' \in SUBSET Pool!Page
        <4>1. pool_pc[t] = "flip" /\ used_map' = used_map \union {idx[t] + j[t]}
          BY <1>5 DEF Pool!FlipBit
        <4>2. j[t] < cnt[t] /\ idx[t] + cnt[t] <= PoolPages
          BY <4>1
        <4>3. j[t] \in Nat /\ idx[t] \in Nat /\ cnt[t] \in Nat /\ PoolPages \in Nat
          OBVIOUS
        <4>4. idx[t] + j[t] \in Pool!Page
          BY <4>2, <4>3
        <4> QED BY <4>1, <4>4
      <3>4. \A u \in PoolThread : pool_pc'[u] # "idle" => pool_pc[u] # "idle"
        BY <1>5 DEF Pool!FlipBit
      <3>5. /\ cnt' = cnt /\ idx' = idx /\ contents' = contents /\ snap' = snap
            /\ pool_lock' \in {pool_lock, NULL}
        BY <1>5 DEF Pool!FlipBit
      <3> HIDE DEF Pool!Page
      <3> QED BY <3>1, <3>2, <3>3, <3>4, <3>5
    <2>2. Positions'
      BY <1>5 DEF Pool!FlipBit
    <2>3. LockDiscipline'
      BY <1>5 DEF Pool!FlipBit
    <2> QED BY <2>1, <2>2, <2>3
  <1>6. ASSUME NEW t \in PoolThread, Pool!Zero(t) PROVE Goal
    BY <1>6 DEF Pool!Zero
  <1>7. ASSUME NEW t \in PoolThread, Pool!palloc_free_multiple(t) PROVE Goal
    <2>1. Pool!TypeOK'
      BY <1>7 DEF Pool!palloc_free_multiple
    <2>2. Positions'
      BY <1>7 DEF Pool!palloc_free_multiple
    <2>3. LockDiscipline'
      BY <1>7 DEF Pool!palloc_free_multiple
    <2> QED BY <2>1, <2>2, <2>3
  <1>8. ASSUME NEW t \in PoolThread, Pool!ClearBit(t) PROVE Goal
    <2>1. Pool!TypeOK'
      <3>1. j' \in [PoolThread -> Nat]
        BY <1>8 DEF Pool!ClearBit, Pool!BlockCleared
      <3>2. pool_pc' \in [PoolThread -> {"idle", "scan", "flip", "zero", "own", "clear"}]
        BY <1>8 DEF Pool!ClearBit, Pool!BlockCleared
      <3>3. used_map' \in SUBSET Pool!Page
        BY <1>8 DEF Pool!ClearBit, Pool!BlockCleared
      <3>4. \A u \in PoolThread : pool_pc'[u] # "idle" => pool_pc[u] # "idle"
        BY <1>8 DEF Pool!ClearBit, Pool!BlockCleared
      <3>5. /\ cnt' = cnt /\ idx' = idx /\ contents' = contents /\ snap' = snap
            /\ pool_lock' \in {pool_lock, NULL}
        BY <1>8 DEF Pool!ClearBit, Pool!BlockCleared
      <3> HIDE DEF Pool!Page
      <3> QED BY <3>1, <3>2, <3>3, <3>4, <3>5
    <2>2. Positions'
      BY <1>8 DEF Pool!ClearBit, Pool!BlockCleared
    <2>3. LockDiscipline'
      BY <1>8 DEF Pool!ClearBit, Pool!BlockCleared
    <2> QED BY <2>1, <2>2, <2>3
  <1>9. CASE UNCHANGED Pool!vars
    BY <1>9 DEF Pool!vars
  <1> QED BY <1>1, <1>2, <1>3, <1>4, <1>5, <1>6, <1>7, <1>8, <1>9 DEF Pool!Next

\* A thread's claim is settled by its own variables.
LEMMA OtherClaims ==
  ASSUME NEW u \in PoolThread, pool_pc'[u] = pool_pc[u], cnt'[u] = cnt[u],
         idx'[u] = idx[u], j'[u] = j[u]
  PROVE  Pool!Claim(u)' = Pool!Claim(u)
  BY DEF Pool!Claim, Pool!Group

\* What each place of a call means for the pages it claims.
LEMMA ClaimAt ==
  ASSUME PoolIInv, NEW t \in PoolThread
  PROVE  /\ pool_pc[t] \in {"idle", "scan"} => Pool!Claim(t) = {}
         /\ pool_pc[t] = "flip" => Pool!Claim(t) = idx[t] .. idx[t] + j[t] - 1
         /\ pool_pc[t] \in {"zero", "own"} => Pool!Claim(t) = idx[t] .. idx[t] + cnt[t] - 1
         /\ pool_pc[t] = "clear" => Pool!Claim(t) = idx[t] + j[t] .. idx[t] + cnt[t] - 1
  BY DEF Pool!Claim, Pool!Group

LEMMA ClaimAtNext ==
  ASSUME NEW t \in PoolThread
  PROVE  /\ pool_pc'[t] \in {"idle", "scan"} => Pool!Claim(t)' = {}
         /\ pool_pc'[t] = "flip" => Pool!Claim(t)' = idx'[t] .. idx'[t] + j'[t] - 1
         /\ pool_pc'[t] \in {"zero", "own"} => Pool!Claim(t)' = idx'[t] .. idx'[t] + cnt'[t] - 1
         /\ pool_pc'[t] = "clear" => Pool!Claim(t)' = idx'[t] + j'[t] .. idx'[t] + cnt'[t] - 1
  BY DEF Pool!Claim, Pool!Group

\* How a step changes the claims and the bitmap: not at all; or one thread
\* sets the bit of a free page and claims it; or one thread clears the bit of
\* a page of its claim and gives it up.
LEMMA ClaimsChange ==
  ASSUME PoolIInv, [Pool!Next]_(Pool!vars)
  PROVE  \/ used_map' = used_map /\ \A u \in PoolThread : Pool!Claim(u)' = Pool!Claim(u)
         \/ \E t \in PoolThread, p \in Pool!Page :
              /\ p \notin used_map
              /\ used_map' = used_map \union {p}
              /\ Pool!Claim(t)' = Pool!Claim(t) \union {p}
              /\ \A u \in PoolThread \ {t} : Pool!Claim(u)' = Pool!Claim(u)
         \/ \E t \in PoolThread, p \in Pool!Page :
              /\ p \in Pool!Claim(t)
              /\ used_map' = used_map \ {p}
              /\ Pool!Claim(t)' = Pool!Claim(t) \ {p}
              /\ \A u \in PoolThread \ {t} : Pool!Claim(u)' = Pool!Claim(u)
  <1> DEFINE Same == used_map' = used_map /\ \A u \in PoolThread : Pool!Claim(u)' = Pool!Claim(u)
  <1> USE PoolAssumption
  <1>a. ASSUME NEW t \in PoolThread, used_map' = used_map, Pool!Claim(t)' = Pool!Claim(t),
               \A u \in PoolThread \ {t} : /\ pool_pc'[u] = pool_pc[u] /\ cnt'[u] = cnt[u]
                                       /\ idx'[u] = idx[u] /\ j'[u] = j[u]
        PROVE  Same
    BY <1>a, OtherClaims
  <1>1. ASSUME NEW t \in PoolThread, NEW n \in 1 .. PoolPages, Pool!palloc_get_multiple(t, n)
        PROVE  Same
    BY <1>1, <1>a, ClaimAt, ClaimAtNext DEF Pool!palloc_get_multiple, PoolIInv, Pool!TypeOK
  <1>2. ASSUME NEW t \in PoolThread, Pool!ScanNext(t) PROVE Same
    BY <1>2, <1>a, ClaimAt, ClaimAtNext DEF Pool!ScanNext, PoolIInv, Pool!TypeOK
  <1>3. ASSUME NEW t \in PoolThread, Pool!ScanFail(t) PROVE Same
    BY <1>3, <1>a, ClaimAt, ClaimAtNext DEF Pool!ScanFail, PoolIInv, Pool!TypeOK
  <1>4. ASSUME NEW t \in PoolThread, Pool!ScanFree(t) PROVE Same
    <2>1. Pool!Claim(t) = {}
      BY <1>4, ClaimAt DEF Pool!ScanFree
    <2>2. CASE pool_pc' = pool_pc
      BY <1>4, <2>1, <2>2, <1>a, ClaimAtNext DEF Pool!ScanFree, PoolIInv, Pool!TypeOK
    <2>3. CASE pool_pc' = [pool_pc EXCEPT ![t] = "flip"] /\ j' = [j EXCEPT ![t] = 0]
      <3>1. Pool!Claim(t)' = idx[t] .. idx[t] - 1
        BY <1>4, <2>3, ClaimAtNext DEF Pool!ScanFree, PoolIInv, Pool!TypeOK
      <3>2. Pool!Claim(t)' = {}
        BY <3>1 DEF PoolIInv, Pool!TypeOK
      <3> QED BY <1>4, <2>1, <2>3, <3>2, <1>a DEF Pool!ScanFree, PoolIInv, Pool!TypeOK
    <2> QED BY <1>4, <2>2, <2>3 DEF Pool!ScanFree
  <1>5. ASSUME NEW t \in PoolThread, Pool!FlipBit(t)
        PROVE  \E p \in Pool!Page :
                 /\ p \notin used_map
                 /\ used_map' = used_map \union {p}
                 /\ Pool!Claim(t)' = Pool!Claim(t) \union {p}
                 /\ \A u \in PoolThread \ {t} : Pool!Claim(u)' = Pool!Claim(u)
    <2> DEFINE p == idx[t] + j[t]
    <2>1. /\ idx[t] \in Nat /\ j[t] \in Nat /\ cnt[t] \in Nat /\ PoolPages \in Nat
          /\ pool_pc[t] = "flip" /\ j[t] < cnt[t] /\ idx[t] + cnt[t] <= PoolPages
      BY <1>5 DEF Pool!FlipBit, PoolIInv, Pool!TypeOK, Positions
    <2>2. p \in Pool!Page /\ p \notin used_map
      <3>1. (idx[t] + j[t] .. idx[t] + cnt[t] - 1) \cap used_map = {}
        BY <2>1 DEF PoolIInv, SeenIsFree
      <3> QED BY <2>1, <3>1 DEF Pool!Page
    <2>3. Pool!Claim(t) = idx[t] .. idx[t] + j[t] - 1
      BY <2>1, ClaimAt
    <2>4. Pool!Claim(t)' = idx[t] .. idx[t] + j[t]
      <3>1. /\ idx'[t] = idx[t] /\ cnt'[t] = cnt[t] /\ j'[t] = j[t] + 1
            /\ \/ pool_pc'[t] = "flip"
               \/ pool_pc'[t] = "zero" /\ cnt[t] = j[t] + 1
        BY <1>5 DEF Pool!FlipBit, PoolIInv, Pool!TypeOK
      <3>2. CASE pool_pc'[t] = "flip"
        BY <2>1, <3>1, <3>2, ClaimAtNext
      <3>3. CASE pool_pc'[t] = "zero" /\ cnt[t] = j[t] + 1
        BY <2>1, <3>1, <3>3, ClaimAtNext
      <3> QED BY <3>1, <3>2, <3>3
    <2>5. Pool!Claim(t)' = Pool!Claim(t) \union {p}
      BY <2>1, <2>3, <2>4
    <2>6. \A u \in PoolThread \ {t} : Pool!Claim(u)' = Pool!Claim(u)
      BY <1>5, OtherClaims DEF Pool!FlipBit, PoolIInv, Pool!TypeOK
    <2> QED BY <1>5, <2>2, <2>5, <2>6 DEF Pool!FlipBit
  <1>6. ASSUME NEW t \in PoolThread, Pool!Zero(t) PROVE Same
    BY <1>6, <1>a, ClaimAt, ClaimAtNext DEF Pool!Zero, PoolIInv, Pool!TypeOK
  <1>7. ASSUME NEW t \in PoolThread, Pool!palloc_free_multiple(t) PROVE Same
    <2>1. /\ pool_pc'[t] = "clear" /\ j'[t] = 0 /\ idx'[t] = idx[t] /\ cnt'[t] = cnt[t]
          /\ idx[t] \in Nat /\ pool_pc[t] = "own"
      BY <1>7 DEF Pool!palloc_free_multiple, PoolIInv, Pool!TypeOK
    <2>2. Pool!Claim(t)' = Pool!Claim(t)
      BY <2>1, ClaimAt, ClaimAtNext
    <2> QED BY <1>7, <2>2, <1>a DEF Pool!palloc_free_multiple, PoolIInv, Pool!TypeOK
  <1>8. ASSUME NEW t \in PoolThread, Pool!ClearBit(t)
        PROVE  \E p \in Pool!Page :
                 /\ p \in Pool!Claim(t)
                 /\ used_map' = used_map \ {p}
                 /\ Pool!Claim(t)' = Pool!Claim(t) \ {p}
                 /\ \A u \in PoolThread \ {t} : Pool!Claim(u)' = Pool!Claim(u)
    <2> DEFINE p == idx[t] + j[t]
    <2>1. /\ idx[t] \in Nat /\ j[t] \in Nat /\ cnt[t] \in Nat /\ PoolPages \in Nat
          /\ pool_pc[t] = "clear" /\ j[t] < cnt[t] /\ idx[t] + cnt[t] <= PoolPages
      BY <1>8 DEF Pool!ClearBit, PoolIInv, Pool!TypeOK, Positions
    <2>2. Pool!Claim(t) = p .. idx[t] + cnt[t] - 1
      BY <2>1, ClaimAt
    <2>3. p \in Pool!Page /\ p \in Pool!Claim(t)
      BY <2>1, <2>2 DEF Pool!Page
    <2>4. Pool!Claim(t)' = Pool!Claim(t) \ {p}
      <3>1. /\ idx'[t] = idx[t] /\ cnt'[t] = cnt[t] /\ j'[t] = j[t] + 1
            /\ \/ pool_pc'[t] = "clear"
               \/ pool_pc'[t] = "idle" /\ cnt[t] = j[t] + 1
        BY <1>8, <2>1 DEF Pool!ClearBit, Pool!BlockCleared, PoolIInv, Pool!TypeOK
      <3>2. CASE pool_pc'[t] = "clear"
        <4>1. Pool!Claim(t)' = p + 1 .. idx[t] + cnt[t] - 1
          <5>1. Pool!Claim(t)' = idx[t] + (j[t] + 1) .. idx[t] + cnt[t] - 1
            BY <3>1, <3>2, ClaimAtNext
          <5> QED BY <2>1, <5>1
        <4> QED BY <2>1, <2>2, <4>1
      <3>3. CASE pool_pc'[t] = "idle" /\ cnt[t] = j[t] + 1
        BY <2>1, <2>2, <3>1, <3>3, ClaimAtNext
      <3> QED BY <3>1, <3>2, <3>3
    <2>5. \A u \in PoolThread \ {t} : Pool!Claim(u)' = Pool!Claim(u)
      BY <1>8, OtherClaims DEF Pool!ClearBit, PoolIInv, Pool!TypeOK
    <2> QED BY <1>8, <2>3, <2>4, <2>5 DEF Pool!ClearBit
  <1>9. CASE UNCHANGED Pool!vars
    BY <1>9, OtherClaims DEF Pool!vars
  <1> QED BY <1>1, <1>2, <1>3, <1>4, <1>5, <1>6, <1>7, <1>8, <1>9 DEF Pool!Next

\* Every step keeps the claims disjoint and the bitmap exact.
LEMMA PoolClaimsStep ==
  PoolIInv /\ [Pool!Next]_(Pool!vars) => (Pool!NoDoubleAllocation /\ Pool!UsedMapExact)'
  <1> SUFFICES ASSUME PoolIInv, [Pool!Next]_(Pool!vars)
               PROVE  (Pool!NoDoubleAllocation /\ Pool!UsedMapExact)'
    OBVIOUS
  <1> USE DEF Pool!NoDoubleAllocation, Pool!UsedMapExact
  <1>0. Pool!NoDoubleAllocation /\ Pool!UsedMapExact
    BY DEF PoolIInv
  <1>1. CASE used_map' = used_map /\ \A u \in PoolThread : Pool!Claim(u)' = Pool!Claim(u)
    BY <1>0, <1>1 DEF Pool!Page
  <1>2. ASSUME NEW t \in PoolThread, NEW p \in Pool!Page,
               p \notin used_map,
               used_map' = used_map \union {p},
               Pool!Claim(t)' = Pool!Claim(t) \union {p},
               \A u \in PoolThread \ {t} : Pool!Claim(u)' = Pool!Claim(u)
        PROVE  (Pool!NoDoubleAllocation /\ Pool!UsedMapExact)'
    <2>1. \A u \in PoolThread : p \notin Pool!Claim(u)
      BY <1>0, <1>2
    <2>2. Pool!NoDoubleAllocation'
      BY <1>0, <1>2, <2>1
    <2>3. Pool!UsedMapExact'
      BY <1>0, <1>2 DEF Pool!Page
    <2> QED BY <2>2, <2>3
  <1>3. ASSUME NEW t \in PoolThread, NEW p \in Pool!Page,
               p \in Pool!Claim(t),
               used_map' = used_map \ {p},
               Pool!Claim(t)' = Pool!Claim(t) \ {p},
               \A u \in PoolThread \ {t} : Pool!Claim(u)' = Pool!Claim(u)
        PROVE  (Pool!NoDoubleAllocation /\ Pool!UsedMapExact)'
    <2>1. \A u \in PoolThread \ {t} : p \notin Pool!Claim(u)
      BY <1>0, <1>3
    <2>2. Pool!NoDoubleAllocation'
      BY <1>0, <1>3
    <2>3. Pool!UsedMapExact'
      BY <1>0, <1>3, <2>1 DEF Pool!Page
    <2> QED BY <2>2, <2>3
  <1> QED BY <1>1, <1>2, <1>3, ClaimsChange

\* Every step keeps what a scan has learnt true.
LEMMA PoolScanStep == PoolIInv /\ [Pool!Next]_(Pool!vars) => (SeenIsFree /\ PassedWithReason)'
  <1> SUFFICES ASSUME PoolIInv, [Pool!Next]_(Pool!vars)
               PROVE  (SeenIsFree /\ PassedWithReason)'
    OBVIOUS
  <1> DEFINE Goal == (SeenIsFree /\ PassedWithReason)'
  <1> USE PoolAssumption DEF PoolIInv, SeenIsFree, PassedWithReason
  <1>a. ASSUME NEW t \in PoolThread,
               used_map' \subseteq used_map,
               snap' = snap,
               pool_pc'[t] \notin {"scan", "flip"},
               \A u \in PoolThread \ {t} : /\ pool_pc'[u] = pool_pc[u] /\ cnt'[u] = cnt[u]
                                       /\ idx'[u] = idx[u] /\ j'[u] = j[u]
        PROVE  Goal
    BY <1>a DEF Pool!Group, Pool!Page
  <1>b. ASSUME NEW t \in PoolThread, pool_lock' = t PROVE
          \A u \in PoolThread \ {t} : pool_pc'[u] \notin {"scan", "flip"}
    BY <1>b, PoolSmallStep DEF LockDiscipline
  <1>1. ASSUME NEW t \in PoolThread, NEW n \in 1 .. PoolPages, Pool!palloc_get_multiple(t, n)
        PROVE  Goal
    <2>1. /\ pool_pc'[t] = "scan" /\ idx'[t] = 0 /\ j'[t] = 0 /\ pool_lock' = t
          /\ used_map' = used_map /\ snap' = Pool!Page \ used_map
      BY <1>1 DEF Pool!palloc_get_multiple, Pool!TypeOK
    <2>2. Pool!Group(idx'[t], j'[t]) = {}
      BY <2>1 DEF Pool!Group
    <2> QED BY <1>b, <2>1, <2>2 DEF Pool!Page
  <1>2. ASSUME NEW t \in PoolThread, Pool!ScanNext(t) PROVE Goal
    <2>1. /\ pool_pc[t] = "scan" /\ pool_lock = t /\ pool_lock' = pool_lock
          /\ idx[t] + j[t] \in used_map
          /\ pool_pc' = pool_pc /\ cnt' = cnt /\ snap' = snap /\ used_map' = used_map
          /\ idx'[t] = idx[t] + 1 /\ j'[t] = 0
          /\ idx[t] \in Nat /\ j[t] \in Nat /\ cnt[t] \in Nat /\ j[t] < cnt[t]
      BY <1>2 DEF Pool!ScanNext, Pool!TypeOK, LockDiscipline, Positions
    <2>2. Pool!Group(idx'[t], j'[t]) = {}
      BY <2>1 DEF Pool!Group
    <2>3. idx[t] + j[t] \in Pool!Group(idx[t], cnt[t]) /\ idx[t] + j[t] \notin snap
      BY <2>1 DEF Pool!Group
    <2>4. ASSUME NEW p \in Pool!Page, p < idx[t] + 1
          PROVE  ~ (Pool!Group(p, cnt[t]) \subseteq snap)
      <3>1. CASE p = idx[t]
        BY <2>3, <3>1
      <3>2. CASE p < idx[t]
        BY <2>1, <3>2
      <3> QED BY <2>1, <2>4, <3>1, <3>2 DEF Pool!Page
    <2>5. snap \cap used_map = {}
      BY <2>1
    <2> QED BY <1>b, <2>1, <2>2, <2>4, <2>5 DEF Pool!Page
  <1>3. ASSUME NEW t \in PoolThread, Pool!ScanFail(t) PROVE Goal
    BY <1>3, <1>a DEF Pool!ScanFail, Pool!TypeOK
  <1>4. ASSUME NEW t \in PoolThread, Pool!ScanFree(t) PROVE Goal
    <2>1. /\ pool_pc[t] = "scan" /\ pool_lock = t /\ pool_lock' = pool_lock
          /\ idx[t] + j[t] \notin used_map
          /\ cnt' = cnt /\ snap' = snap /\ used_map' = used_map /\ idx' = idx
          /\ idx[t] \in Nat /\ j[t] \in Nat /\ cnt[t] \in Nat
      BY <1>4 DEF Pool!ScanFree, Pool!TypeOK, LockDiscipline
    <2>2. Pool!Group(idx[t], j[t]) \cap used_map = {}
      BY <2>1
    <2>3. Pool!Group(idx[t], j[t] + 1) \cap used_map = {}
      BY <2>1, <2>2 DEF Pool!Group
    <2>4. CASE pool_pc' = pool_pc /\ j' = [j EXCEPT ![t] = @ + 1]
      <3>1. pool_pc'[t] = "scan" /\ j'[t] = j[t] + 1
        BY <2>1, <2>4 DEF Pool!TypeOK
      <3> QED BY <1>b, <2>1, <2>3, <3>1 DEF Pool!Page
    <2>5. CASE /\ pool_pc' = [pool_pc EXCEPT ![t] = "flip"] /\ j' = [j EXCEPT ![t] = 0]
               /\ j[t] + 1 = cnt[t]
      <3>1. pool_pc'[t] = "flip" /\ j'[t] = 0
        BY <2>5 DEF Pool!TypeOK
      <3>2. (idx[t] + 0 .. idx[t] + cnt[t] - 1) \cap used_map = {}
        BY <2>1, <2>3, <2>5 DEF Pool!Group
      <3> QED BY <1>b, <2>1, <3>1, <3>2
    <2> QED BY <1>4, <2>4, <2>5 DEF Pool!ScanFree, Pool!GroupTested
  <1>5. ASSUME NEW t \in PoolThread, Pool!FlipBit(t) PROVE Goal
    <2>1. /\ pool_pc[t] = "flip" /\ pool_lock = t
          /\ used_map' = used_map \union {idx[t] + j[t]}
          /\ idx'[t] = idx[t] /\ cnt'[t] = cnt[t] /\ j'[t] = j[t] + 1
          /\ pool_pc'[t] # "scan"
          /\ idx[t] \in Nat /\ j[t] \in Nat /\ cnt[t] \in Nat
      BY <1>5 DEF Pool!FlipBit, Pool!TypeOK, LockDiscipline
    <2>2. \A u \in PoolThread \ {t} : pool_pc'[u] \notin {"scan", "flip"}
      BY <1>5, <2>1 DEF Pool!FlipBit, Pool!TypeOK, LockDiscipline
    <2>3. (idx[t] + j[t] .. idx[t] + cnt[t] - 1) \cap used_map = {}
      BY <2>1
    <2>4. (idx[t] + (j[t] + 1) .. idx[t] + cnt[t] - 1) \cap used_map' = {}
      BY <2>1, <2>3
    <2> QED BY <2>1, <2>2, <2>4
  <1>6. ASSUME NEW t \in PoolThread, Pool!Zero(t) PROVE Goal
    BY <1>6, <1>a DEF Pool!Zero, Pool!TypeOK
  <1>7. ASSUME NEW t \in PoolThread, Pool!palloc_free_multiple(t) PROVE Goal
    BY <1>7, <1>a DEF Pool!palloc_free_multiple, Pool!TypeOK
  <1>8. ASSUME NEW t \in PoolThread, Pool!ClearBit(t) PROVE Goal
    BY <1>8, <1>a DEF Pool!ClearBit, Pool!TypeOK
  <1>9. CASE UNCHANGED Pool!vars
    BY <1>9 DEF Pool!vars, Pool!Group, Pool!Page
  <1> QED BY <1>1, <1>2, <1>3, <1>4, <1>5, <1>6, <1>7, <1>8, <1>9 DEF Pool!Next

\* Every step leaves the pages that are handed out as they were zeroed.
LEMMA PoolZeroedStep == PoolIInv /\ [Pool!Next]_(Pool!vars) => Pool!ZeroedPagesStayZeroed'
  <1> SUFFICES ASSUME PoolIInv, [Pool!Next]_(Pool!vars), NEW u \in PoolThread, pool_pc'[u] = "own",
                      NEW p \in Pool!Claim(u)'
               PROVE  contents'[p] = "zero"
    BY DEF Pool!ZeroedPagesStayZeroed
  <1>0. Pool!TypeOK /\ Pool!ZeroedPagesStayZeroed /\ Pool!NoDoubleAllocation
    BY DEF PoolIInv
  <1>p. p \in Pool!Page
    BY PoolSmallStep, PoolAssumption DEF Pool!TypeOK, Pool!Page, Pool!Claim, Pool!Group
  <1>a. ASSUME contents' = contents, pool_pc[u] = "own", cnt'[u] = cnt[u],
               idx'[u] = idx[u], j'[u] = j[u]
        PROVE  contents'[p] = "zero"
    BY <1>0, <1>a, OtherClaims DEF Pool!ZeroedPagesStayZeroed
  <1>1. ASSUME NEW t \in PoolThread, NEW n \in 1 .. PoolPages, Pool!palloc_get_multiple(t, n)
        PROVE  contents'[p] = "zero"
    BY <1>0, <1>1, <1>a DEF Pool!palloc_get_multiple, Pool!TypeOK
  <1>2. ASSUME NEW t \in PoolThread, Pool!ScanNext(t) PROVE contents'[p] = "zero"
    BY <1>0, <1>2, <1>a DEF Pool!ScanNext, Pool!TypeOK
  <1>3. ASSUME NEW t \in PoolThread, Pool!ScanFail(t) PROVE contents'[p] = "zero"
    BY <1>0, <1>3, <1>a DEF Pool!ScanFail, Pool!TypeOK
  <1>4. ASSUME NEW t \in PoolThread, Pool!ScanFree(t) PROVE contents'[p] = "zero"
    BY <1>0, <1>4, <1>a DEF Pool!ScanFree, Pool!TypeOK
  <1>5. ASSUME NEW t \in PoolThread, Pool!FlipBit(t) PROVE contents'[p] = "zero"
    BY <1>0, <1>5, <1>a DEF Pool!FlipBit, Pool!TypeOK
  <1>6. ASSUME NEW t \in PoolThread, Pool!Zero(t) PROVE contents'[p] = "zero"
    <2>1. CASE u = t
      <3>1. Pool!Claim(t)' = Pool!Group(idx[t], cnt[t])
        BY <1>0, <1>6, ClaimAtNext DEF Pool!Zero, Pool!TypeOK, Pool!Group
      <3> QED BY <1>p, <1>6, <2>1, <3>1 DEF Pool!Zero
    <2>2. CASE u # t
      <3>1. pool_pc[u] = "own" /\ Pool!Claim(u)' = Pool!Claim(u)
        BY <1>0, <1>6, <2>2, OtherClaims DEF Pool!Zero, Pool!TypeOK
      <3>2. contents[p] = "zero"
        BY <1>0, <3>1 DEF Pool!ZeroedPagesStayZeroed
      <3> QED BY <1>p, <1>6, <3>2 DEF Pool!Zero
    <2> QED BY <2>1, <2>2
  <1>7. ASSUME NEW t \in PoolThread, Pool!palloc_free_multiple(t) PROVE contents'[p] = "zero"
    <2>1. u # t
      BY <1>0, <1>7 DEF Pool!palloc_free_multiple, Pool!TypeOK
    <2>2. pool_pc[u] = "own" /\ Pool!Claim(u)' = Pool!Claim(u)
      BY <1>0, <1>7, <2>1, OtherClaims DEF Pool!palloc_free_multiple, Pool!TypeOK
    <2>3. Pool!Claim(t) = Pool!Group(idx[t], cnt[t])
      BY <1>7, ClaimAt DEF Pool!palloc_free_multiple, Pool!Group
    <2>4. p \notin Pool!Group(idx[t], cnt[t]) /\ contents[p] = "zero"
      BY <1>0, <2>1, <2>2, <2>3 DEF Pool!ZeroedPagesStayZeroed, Pool!NoDoubleAllocation
    <2> QED BY <1>p, <1>7, <2>4 DEF Pool!palloc_free_multiple
  <1>8. ASSUME NEW t \in PoolThread, Pool!ClearBit(t) PROVE contents'[p] = "zero"
    BY <1>0, <1>8, <1>a DEF Pool!ClearBit, Pool!TypeOK
  <1>9. CASE UNCHANGED Pool!vars
    BY <1>9, <1>a DEF Pool!vars
  <1> QED BY <1>1, <1>2, <1>3, <1>4, <1>5, <1>6, <1>7, <1>8, <1>9 DEF Pool!Next

\* The invariant holds in every reachable state of the pool.
THEOREM PoolInvariance == Pool!Spec => []PoolIInv
  <1>1. Pool!Init => PoolIInv
    BY PoolInit
  <1>2. PoolIInv /\ [Pool!Next]_(Pool!vars) => PoolIInv'
    BY PoolSmallStep, PoolClaimsStep, PoolScanStep, PoolZeroedStep DEF PoolIInv
  <1> QED BY <1>1, <1>2, PTL DEF Pool!Spec

\* Types hold and every index palloc.c passes to bitmap_set() is in range.
THEOREM PoolTypeCorrect == Pool!Spec => []Pool!TypeOK
  BY PoolInvariance, PTL DEF PoolIInv

\* No page is given to two callers of palloc_get_multiple(), and the bitmap
\* says exactly which pages are in use: none leaks, and the assertion in
\* palloc_free_multiple() holds.
THEOREM PagesAreExclusive == Pool!Spec => []PoolIsExact
  BY PoolInvariance, PTL DEF PoolIInv, PoolIsExact, Pool!PoolIsExact

\* A page stays zero until the caller that asked for it frees it.
THEOREM PagesStayZeroed == Pool!Spec => []ZeroedPagesStayZeroed
  BY PoolInvariance, PTL DEF PoolIInv, ZeroedPagesStayZeroed

\* An allocation fails only if no group of that many pages was free when the
\* pool's lock was taken.
THEOREM FailureIsJustified == Pool!Spec => FailsOnlyWithoutRoom
  <1> DEFINE A == \A t \in PoolThread : pool_pc[t] = "scan" /\ pool_pc'[t] = "idle" =>
                   \A p \in Pool!Page : p + cnt[t] <= PoolPages =>
                                     ~ (Pool!Group(p, cnt[t]) \subseteq snap)
  <1>1. PoolIInv /\ [Pool!Next]_(Pool!vars) => [A]_(Pool!vars)
    <2> SUFFICES ASSUME PoolIInv, [Pool!Next]_(Pool!vars), NEW t \in PoolThread,
                        pool_pc[t] = "scan", pool_pc'[t] = "idle",
                        NEW p \in Pool!Page, p + cnt[t] <= PoolPages
                 PROVE  ~ (Pool!Group(p, cnt[t]) \subseteq snap)
      OBVIOUS
    <2> USE PoolAssumption
    <2>1. Pool!ScanFail(t)
      BY DEF Pool!Next, Pool!vars, PoolIInv, Pool!TypeOK, Pool!palloc_get_multiple, Pool!ScanNext, Pool!ScanFail,
             Pool!ScanFree, Pool!FlipBit, Pool!Zero, Pool!palloc_free_multiple, Pool!ClearBit
    <2>2. /\ idx[t] + j[t] \in used_map /\ idx[t] >= PoolPages - cnt[t]
          /\ idx[t] \in Nat /\ cnt[t] \in Nat /\ j[t] \in Nat /\ p \in Nat
          /\ j[t] < cnt[t]
      BY <2>1 DEF Pool!ScanFail, Pool!last, PoolIInv, Pool!TypeOK, Positions, Pool!Page
    <2>3. /\ snap \cap used_map = {}
          /\ p < idx[t] => ~ (Pool!Group(p, cnt[t]) \subseteq snap)
      BY DEF PoolIInv, PassedWithReason
    <2>4. CASE p = idx[t]
      <3>1. idx[t] + j[t] \in Pool!Group(p, cnt[t]) /\ idx[t] + j[t] \notin snap
        BY <2>2, <2>3, <2>4 DEF Pool!Group
      <3> QED BY <3>1
    <2> QED BY <2>2, <2>3, <2>4
  <1> QED BY <1>1, PoolInvariance, PTL DEF Pool!Spec, FailsOnlyWithoutRoom, Pool!FailsOnlyWithoutRoom
=============================================================================
