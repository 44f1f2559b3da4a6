----------------------------- MODULE TrieProofs -----------------------------
(***************************************************************************)
(* What the operations on one trie do, for every BP_BITS and every size:   *)
(* which nodes they write, what every path and every element is            *)
(* afterwards.  A trie has the shape IsHeap and IsVec describe; an         *)
(* operation is an edit (Edits) of it, and what it does to the elements is *)
(* Filled for set, push_back and the iterators, Spliced for assign.        *)
(***************************************************************************)
EXTENDS Trie, FiniteSetTheorems, TLAPS

USE BPBitsAssumption

(* Every nonempty set of natural numbers has a least element. *)
LEMMA LeastNumber ==
  ASSUME NEW T, T \subseteq Nat, T # {}
  PROVE  \E x \in T : \A y \in T : x <= y
  <1>. DEFINE R == StrictSubsetOrdering(Nat)
              F == FiniteSubsetsOf(Nat)
              U == {0 .. x - 1 : x \in T}
  <1>1. U \subseteq F
    <2>1. \A x \in T : 0 .. x - 1 \in F
      BY FS_Interval DEF FiniteSubsetsOf
    <2>. QED
      BY <2>1
  <1>2. PICK u \in U : \A v \in U : ~(<<v, u>> \in R)
    <2>1. U # {}
      OBVIOUS
    <2>2. IsWellFoundedOn(R, F)
      BY FS_StrictSubsetOrderingWellFounded
    <2>. HIDE DEF R, F, U
    <2>. QED
      BY <2>1, <2>2, <1>1, WFMin
  <1>3. PICK x \in T : u = 0 .. x - 1
    OBVIOUS
  <1>4. ASSUME NEW y \in T, ~(x <= y)
        PROVE  FALSE
    <2>1. y < x /\ x \in Nat /\ y \in Nat
      BY <1>4
    <2>2. 0 .. y - 1 \subseteq 0 .. x - 1 /\ 0 .. y - 1 # 0 .. x - 1
      <3>1. y \in 0 .. x - 1 /\ y \notin 0 .. y - 1
        BY <2>1
      <3>. QED
        BY <2>1, <3>1
    <2>3. 0 .. y - 1 \in U
      OBVIOUS
    <2>. QED
      BY <1>1, <1>2, <1>3, <2>2, <2>3 DEF StrictSubsetOrdering, FiniteSubsetsOf
  <1>. QED
    BY <1>4

-----------------------------------------------------------------------------
(* Powers of two. *)

\* f starts with z and goes on by g
Iteration(f, S, z, g) ==
  /\ f \in [Nat -> S]
  /\ f[0] = z
  /\ \A k \in Nat : f[k + 1] = g[k + 1][f[k]]

(* A function on the natural numbers is given by its first value and a step. *)
LEMMA Iterate ==
  ASSUME NEW S, NEW z \in S, NEW g \in [Nat -> [S -> S]]
  PROVE  \E f : Iteration(f, S, z, g)
  <1>. DEFINE Is(f, n) == /\ f \in [0 .. n -> S]
                          /\ f[0] = z
                          /\ \A k \in 0 .. n : k # 0 => f[k] = g[k][f[k - 1]]
              Good(n)  == \E f : Is(f, n)
              Bad      == {n \in Nat : ~Good(n)}
              pick(n)  == CHOOSE f : Is(f, n)
              F        == [n \in Nat |-> pick(n)[n]]
  <1>1. Good(0)
    <2>1. Is([k \in 0 .. 0 |-> z], 0)
      OBVIOUS
    <2>. QED
      BY <2>1
  <1>2. ASSUME NEW n \in Nat, n # 0, Good(n - 1)
        PROVE  Good(n)
    <2>1. PICK f : Is(f, n - 1)
      BY <1>2
    <2>. DEFINE e == [k \in 0 .. n |-> IF k = n THEN g[n][f[n - 1]] ELSE f[k]]
    <2>2. n - 1 \in 0 .. n - 1 /\ f[n - 1] \in S /\ g[n] \in [S -> S]
      BY <1>2, <2>1
    <2>3. g[n][f[n - 1]] \in S
      BY <2>2
    <2>4. e \in [0 .. n -> S]
      BY <2>1, <2>3
    <2>5. e[0] = z
      BY <1>2, <2>1
    <2>6. ASSUME NEW k \in 0 .. n, k # 0
          PROVE  e[k] = g[k][e[k - 1]]
      <3>1. k - 1 \in 0 .. n /\ k - 1 # n /\ e[k - 1] = f[k - 1]
        BY <2>6
      <3>2. CASE k = n
        BY <3>1, <3>2
      <3>3. CASE k # n
        <4>1. k \in 0 .. n - 1 /\ e[k] = f[k]
          BY <2>6, <3>3
        <4>. QED
          BY <2>1, <2>6, <3>1, <4>1
      <3>. QED
        BY <3>2, <3>3
    <2>. HIDE DEF e
    <2>. QED
      BY <2>4, <2>5, <2>6
  <1>3. Bad = {}
    <2>. HIDE DEF Good
    <2>. SUFFICES ASSUME Bad # {}
                  PROVE  FALSE
      OBVIOUS
    <2>1. PICK n \in Bad : \A k \in Bad : n <= k
      <3>1. Bad \subseteq Nat
        OBVIOUS
      <3>. HIDE DEF Bad
      <3>. QED
        BY <3>1, LeastNumber
    <2>2. n \in Nat /\ n # 0 /\ n - 1 \in Nat /\ n - 1 \notin Bad
      BY <1>1, <2>1
    <2>. QED
      BY <1>2, <2>1, <2>2
  <1>4. \A n \in Nat : Is(pick(n), n)
    <2>1. \A n \in Nat : \E f : Is(f, n)
      BY <1>3
    <2>. HIDE DEF Is
    <2>. QED
      BY <2>1
  <1>5. ASSUME NEW n \in Nat, NEW e, NEW f, Is(e, n), Is(f, n + 1)
        PROVE  e[n] = f[n]
    <2>. DEFINE T == {k \in 0 .. n : e[k] # f[k]}
    <2>. SUFFICES ASSUME T # {}
                  PROVE  FALSE
      OBVIOUS
    <2>1. PICK k \in T : \A j \in T : k <= j
      <3>1. T \subseteq Nat
        OBVIOUS
      <3>. HIDE DEF T
      <3>. QED
        BY <3>1, LeastNumber
    <2>2. k \in 0 .. n /\ k \in 0 .. n + 1 /\ e[k] # f[k]
      BY <2>1
    <2>3. k # 0
      BY <1>5, <2>2
    <2>4. k - 1 \in 0 .. n /\ e[k - 1] = f[k - 1]
      BY <2>1, <2>2, <2>3
    <2>. QED
      BY <1>5, <2>2, <2>3, <2>4
  <1>6. F[0] = z
    BY <1>4
  <1>7. ASSUME NEW k \in Nat
        PROVE  F[k] \in S /\ F[k + 1] = g[k + 1][F[k]]
    <2>1. Is(pick(k), k) /\ Is(pick(k + 1), k + 1)
      <3>. HIDE DEF Is, pick
      <3>1. k + 1 \in Nat
        OBVIOUS
      <3>. QED
        BY <1>4, <3>1
    <2>. HIDE DEF pick
    <2>2. pick(k)[k] = pick(k + 1)[k]
      <3>. HIDE DEF Is
      <3>. QED
        BY <1>5, <2>1
    <2>3. pick(k + 1)[k + 1] = g[k + 1][pick(k + 1)[k]]
      <3>1. k + 1 \in 0 .. k + 1 /\ k + 1 # 0 /\ (k + 1) - 1 = k
        OBVIOUS
      <3>. QED
        BY <2>1, <3>1
    <2>4. pick(k)[k] \in S
      BY <2>1
    <2>. QED
      BY <2>2, <2>3, <2>4
  <1>. HIDE DEF F
  <1>8. F \in [Nat -> S]
    <2>. USE DEF F
    <2>1. \A k \in Nat : F[k] \in S
      BY <1>7
    <2>. QED
      BY <2>1
  <1>. QED
    BY <1>6, <1>7, <1>8 DEF Iteration

(* 1 << n by its recursion.                                                *)
LEMMA TwoRec ==
  /\ Two[0] = 1
  /\ \A n \in Nat : Two[n] \in Nat \ {0} /\ Two[n + 1] = 2 * Two[n]
  <1>. DEFINE S == Nat \ {0}
              g == [k \in Nat |-> [x \in S |-> 2 * x]]
              body(f, n) == IF n = 0 THEN 1 ELSE 2 * f[n - 1]
  <1>1. PICK f : f \in [Nat -> S] /\ f[0] = 1 /\ \A k \in Nat : f[k + 1] = g[k + 1][f[k]]
    <2>1. g \in [Nat -> [S -> S]] /\ 1 \in S
      OBVIOUS
    <2>. HIDE DEF S, g
    <2>2. PICK f : Iteration(f, S, 1, g)
      BY <2>1, Iterate
    <2>. QED
      BY <2>2 DEF Iteration
  <1>2. f = [n \in Nat |-> body(f, n)]
    <2>1. ASSUME NEW n \in Nat
          PROVE  f[n] = body(f, n)
      <3>1. CASE n = 0
        BY <1>1, <3>1
      <3>2. CASE n # 0
        <4>1. n - 1 \in Nat /\ (n - 1) + 1 = n
          BY <3>2
        <4>. QED
          BY <1>1, <3>2, <4>1
      <3>. QED
        BY <3>1, <3>2
    <2>. HIDE DEF body
    <2>. QED
      BY <1>1, <2>1
  <1>3. Two = CHOOSE e : e = [n \in Nat |-> body(e, n)]
    BY DEF Two
  <1>4. Two = [n \in Nat |-> body(Two, n)]
    <2>. HIDE DEF body
    <2>. QED
      BY <1>2, <1>3, Zenon
  <1>5. \A n \in Nat : Two[n + 1] = 2 * Two[n]
    BY <1>4
  <1>6. Two[0] = 1
    BY <1>4
  <1>. DEFINE N == {n \in Nat : Two[n] \notin Nat \ {0}}
  <1>7. N = {}
    <2>. SUFFICES ASSUME N # {}
                  PROVE  FALSE
      OBVIOUS
    <2>1. PICK n \in N : \A k \in N : n <= k
      <3>1. N \subseteq Nat
        OBVIOUS
      <3>. HIDE DEF N
      <3>. QED
        BY <3>1, LeastNumber
    <2>2. n # 0
      BY <2>1, <1>6
    <2>3. n - 1 \in Nat /\ n - 1 \notin N /\ (n - 1) + 1 = n
      BY <2>1, <2>2
    <2>4. Two[n] = 2 * Two[n - 1]
      BY <2>3, <1>5
    <2>. QED
      BY <2>1, <2>3, <2>4
  <1>. QED
    BY <1>5, <1>6, <1>7

(* A power of a sum.                                                       *)
LEMMA TwoSum ==
  ASSUME NEW a \in Nat, NEW b \in Nat
  PROVE  Two[a + b] = Two[a] * Two[b]
  <1>. DEFINE T == {n \in Nat : Two[a + n] # Two[a] * Two[n]}
  <1>. SUFFICES ASSUME T # {}
                PROVE  FALSE
    OBVIOUS
  <1>1. PICK n \in T : \A k \in T : n <= k
    <2>1. T \subseteq Nat
      OBVIOUS
    <2>. HIDE DEF T
    <2>. QED
      BY <2>1, LeastNumber
  <1>2. Two[a] \in Nat /\ Two[0] = 1 /\ n \in Nat
    BY <1>1, TwoRec
  <1>3. n # 0
    BY <1>1, <1>2
  <1>4. n - 1 \in Nat /\ Two[a + (n - 1)] = Two[a] * Two[n - 1]
    BY <1>1, <1>2, <1>3
  <1>5. Two[n] = 2 * Two[n - 1] /\ Two[n - 1] \in Nat
    <2>1. (n - 1) + 1 = n
      BY <1>2
    <2>. QED
      BY <1>4, <2>1, TwoRec
  <1>6. Two[a + n] = 2 * Two[a + (n - 1)]
    <2>1. a + (n - 1) \in Nat /\ (a + (n - 1)) + 1 = a + n
      BY <1>2, <1>4
    <2>. QED
      BY <2>1, TwoRec
  <1>7. 2 * (Two[a] * Two[n - 1]) = Two[a] * (2 * Two[n - 1])
    BY <1>2, <1>5
  <1>. QED
    BY <1>1, <1>4, <1>5, <1>6, <1>7

(* The widths of subtrees: powers of BP_WIDTH.                             *)
LEMMA WidthFacts ==
  /\ BP_WIDTH \in Nat /\ BP_WIDTH >= 2
  /\ Width(0) = 1 /\ Width(1) = BP_WIDTH
  /\ \A k \in Nat : Width(k) \in Nat \ {0} /\ Width(k + 1) = BP_WIDTH * Width(k)
  <1>1. BP_WIDTH \in Nat /\ BP_WIDTH >= 2
    <2>1. BP_BITS - 1 \in Nat /\ (BP_BITS - 1) + 1 = BP_BITS
      OBVIOUS
    <2>2. Two[BP_BITS] = 2 * Two[BP_BITS - 1] /\ Two[BP_BITS - 1] \in Nat \ {0}
      BY <2>1, TwoRec
    <2>. QED
      BY <2>2 DEF BP_WIDTH
  <1>2. Width(0) = 1 /\ Width(1) = BP_WIDTH
    BY TwoRec DEF Width, BP_WIDTH
  <1>3. ASSUME NEW k \in Nat
        PROVE  Width(k) \in Nat \ {0} /\ Width(k + 1) = BP_WIDTH * Width(k)
    <2>1. k * BP_BITS \in Nat /\ (k + 1) * BP_BITS = BP_BITS + k * BP_BITS
      OBVIOUS
    <2>. QED
      <3>1. Two[BP_BITS + k * BP_BITS] = Two[BP_BITS] * Two[k * BP_BITS]
        BY <2>1, TwoSum
      <3>2. Two[k * BP_BITS] \in Nat \ {0}
        BY <2>1, TwoRec
      <3>3. Two[(k + 1) * BP_BITS] = Two[BP_BITS + k * BP_BITS]
        BY <2>1
      <3>. QED
        BY <3>1, <3>2, <3>3 DEF Width, BP_WIDTH
  <1>. QED
    BY <1>1, <1>2, <1>3

(* Division with remainder. *)
LEMMA Divide ==
  ASSUME NEW a \in Nat, NEW b \in Nat \ {0}
  PROVE  /\ a \div b \in Nat /\ a % b \in 0 .. b - 1
         /\ a = b * (a \div b) + (a % b)
  OBVIOUS

(* Quotient and remainder are the only ones. *)
LEMMA Quotient ==
  ASSUME NEW b \in Nat \ {0}, NEW q \in Nat, NEW r \in 0 .. b - 1
  PROVE  (b * q + r) \div b = q /\ (b * q + r) % b = r
  OBVIOUS

(* A smaller number has no larger quotient. *)
LEMMA DivideMono ==
  ASSUME NEW a \in Nat, NEW c \in Nat, a <= c, NEW b \in Nat \ {0}
  PROVE  a \div b <= c \div b
  OBVIOUS

(* Dividing twice is dividing by the product. *)
LEMMA DivDiv ==
  ASSUME NEW a \in Nat, NEW b \in Nat \ {0}, NEW c \in Nat \ {0}
  PROVE  a \div (b * c) = (a \div b) \div c
  <1>. DEFINE q == a \div b
              r == a % b
              p == q \div c
              s == q % c
  <1>1. q \in Nat /\ r \in 0 .. b - 1 /\ a = b * q + r
    BY Divide
  <1>. HIDE DEF q, r
  <1>2. p \in Nat /\ s \in 0 .. c - 1 /\ q = c * p + s
    BY <1>1, Divide
  <1>. HIDE DEF p, s
  <1>3. a = (b * c) * p + (b * s + r)
    <2>1. b * (c * p + s) = (b * c) * p + b * s
      BY <1>2
    <2>. QED
      BY <1>1, <1>2, <2>1
  <1>4. b * c \in Nat \ {0} /\ b * s + r \in 0 .. (b * c) - 1
    <2>1. b * s <= b * (c - 1) /\ b * (c - 1) = b * c - b /\ 0 <= b * s
      BY <1>2
    <2>. QED
      BY <2>1, <1>1, <1>2
  <1>5. a \div (b * c) = p
    BY <1>2, <1>3, <1>4, Quotient
  <1>. QED
    BY <1>5 DEF p, q

-----------------------------------------------------------------------------
(* Blocks: the elements under one node of height e - 1, or in one slot of a node of height e *)

\* the number of the block of Width(e) elements that i is in
Blk(i, e) == i \div Width(e)

(* The width of a subtree is that of its nodes times that of theirs.       *)
LEMMA WidthSum ==
  ASSUME NEW a \in Nat, NEW b \in Nat
  PROVE  Width(a + b) = Width(a) * Width(b)
  <1>1. a * BP_BITS \in Nat /\ b * BP_BITS \in Nat
    OBVIOUS
  <1>2. (a + b) * BP_BITS = a * BP_BITS + b * BP_BITS
    OBVIOUS
  <1>. QED
    BY <1>1, <1>2, TwoSum DEF Width

(* The block of width BP_WIDTH^(e+1) is found from that of width BP_WIDTH^e. *)
LEMMA Blocks ==
  ASSUME NEW i \in Nat, NEW e \in Nat
  PROVE  /\ Blk(i, e) \in Nat
         /\ Blk(i, 0) = i
         /\ Blk(i, e) % BP_WIDTH \in Slot
         /\ Blk(i, e + 1) = Blk(i, e) \div BP_WIDTH
         /\ Blk(i, e) = BP_WIDTH * Blk(i, e + 1) + (Blk(i, e) % BP_WIDTH)
         /\ Digit(i, e * BP_BITS) = Blk(i, e) % BP_WIDTH
  <1>1. /\ Width(e) \in Nat \ {0} /\ BP_WIDTH \in Nat \ {0}
        /\ Width(e + 1) = Width(e) * BP_WIDTH /\ Width(0) = 1
    BY WidthFacts
  <1>2. Blk(i, e) \in Nat
    BY <1>1, Divide DEF Blk
  <1>3. Blk(i, 0) = i
    BY <1>1 DEF Blk
  <1>4. Blk(i, e + 1) = Blk(i, e) \div BP_WIDTH
    BY <1>1, DivDiv DEF Blk
  <1>5. /\ Blk(i, e) % BP_WIDTH \in Slot
        /\ Blk(i, e) = BP_WIDTH * Blk(i, e + 1) + (Blk(i, e) % BP_WIDTH)
    BY <1>1, <1>2, <1>4, Divide DEF Slot
  <1>6. Digit(i, e * BP_BITS) = Blk(i, e) % BP_WIDTH
    BY DEF Digit, Blk, Width
  <1>. QED
    BY <1>2, <1>3, <1>4, <1>5, <1>6

(* Elements in one block are in one block of every larger width. *)
LEMMA BlocksNest ==
  ASSUME NEW i \in Nat, NEW j \in Nat, NEW e \in Nat, NEW f \in Nat,
         Blk(i, e) = Blk(j, e), e <= f
  PROVE  Blk(i, f) = Blk(j, f)
  <1>1. f - e \in Nat /\ e + (f - e) = f
    OBVIOUS
  <1>2. Width(f) = Width(e) * Width(f - e)
    BY <1>1, WidthSum
  <1>3. Width(e) \in Nat \ {0} /\ Width(f - e) \in Nat \ {0}
    BY <1>1, WidthFacts
  <1>4. Blk(i, f) = Blk(i, e) \div Width(f - e) /\ Blk(j, f) = Blk(j, e) \div Width(f - e)
    BY <1>2, <1>3, DivDiv DEF Blk
  <1>. QED
    BY <1>4

(* The members of a block are the numbers from its multiple of the width on. *)
LEMMA BlockIs ==
  ASSUME NEW i \in Nat, NEW e \in Nat, NEW q \in Nat
  PROVE  Blk(i, e) = q <=> Width(e) * q <= i /\ i < Width(e) * (q + 1)
  <1>. DEFINE w == Width(e)
  <1>1. w \in Nat \ {0}
    BY WidthFacts
  <1>2. Blk(i, e) = i \div w
    BY DEF Blk
  <1>. HIDE DEF w
  <1>3. w * (q + 1) = w * q + w
    BY <1>1
  <1>4. ASSUME i \div w = q
        PROVE  w * q <= i /\ i < w * (q + 1)
    BY <1>1, <1>3, <1>4, Divide
  <1>5. ASSUME w * q <= i, i < w * (q + 1)
        PROVE  i \div w = q
    <2>1. w * q \in Nat /\ i - w * q \in 0 .. w - 1 /\ i = w * q + (i - w * q)
      BY <1>1, <1>3, <1>5
    <2>. DEFINE r == i - w * q
    <2>. HIDE DEF r
    <2>2. (w * q + r) \div w = q
      BY <1>1, <2>1, Quotient DEF r
    <2>. QED
      BY <2>1, <2>2 DEF r
  <1>. QED
    BY <1>2, <1>4, <1>5 DEF w

(* The first block is that of the numbers below its width. *)
LEMMA BlockZero ==
  ASSUME NEW i \in Nat, NEW e \in Nat
  PROVE  Blk(i, e) = 0 <=> i < Width(e)
  <1>. DEFINE w == Width(e)
  <1>1. w \in Nat \ {0}
    BY WidthFacts
  <1>2. Blk(i, e) = 0 <=> w * 0 <= i /\ i < w * (0 + 1)
    BY BlockIs
  <1>. HIDE DEF w
  <1>3. w * 0 = 0 /\ w * (0 + 1) = w
    BY <1>1
  <1>. QED
    BY <1>2, <1>3 DEF w

(* A smaller number is in no later block. *)
LEMMA BlocksMono ==
  ASSUME NEW i \in Nat, NEW j \in Nat, i <= j, NEW e \in Nat
  PROVE  Blk(i, e) <= Blk(j, e)
  BY WidthFacts, DivideMono DEF Blk

(* Larger nodes cover more elements. *)
LEMMA WidthMono ==
  ASSUME NEW e \in Nat, NEW f \in Nat, e <= f
  PROVE  Width(e) <= Width(f)
  <1>1. f - e \in Nat /\ e + (f - e) = f
    OBVIOUS
  <1>2. Width(f) = Width(e) * Width(f - e)
    BY <1>1, WidthSum
  <1>3. Width(e) \in Nat \ {0} /\ Width(f - e) \in Nat \ {0}
    BY <1>1, WidthFacts
  <1>. DEFINE a == Width(e)
              b == Width(f - e)
  <1>. HIDE DEF a, b
  <1>4. a \in Nat \ {0} /\ b \in Nat \ {0} => a <= a * b
    OBVIOUS
  <1>. QED
    BY <1>2, <1>3, <1>4 DEF a, b

-----------------------------------------------------------------------------
(* The shape of tries. A place function gives every node the height it has *)
(* in every trie, 0 for leaves, and the number of the block under it.      *)

\* the height of the root
Lv(v) == v.shift \div BP_BITS

\* the elements of v's trie
Room(v) == 0 .. Width(Lv(v) + 1) - 1

\* the node of height e on the path to j
On(h, v, j, e) == Walk(h, v, j, Lv(v) - e)

\* a heap whose nodes are at the places P
IsHeap(h, P) ==
  /\ h \in Seq(Node)
  /\ P \in [DOMAIN h -> Nat \X Nat]
  /\ \A n \in DOMAIN h : h[n].type = IF P[n][1] = 0 THEN "leaves" ELSE "branches"
  /\ \A n \in DOMAIN h : P[n][1] # 0 =>
       \A s \in Slot : h[n].slot[s] # Null =>
         /\ h[n].slot[s] \in DOMAIN h
         /\ P[h[n].slot[s]] = <<P[n][1] - 1, BP_WIDTH * P[n][2] + s>>

\* a vector whose root is at the top of a trie large enough
IsVec(h, P, v) ==
  /\ v \in Vector
  /\ v.shift = Lv(v) * BP_BITS
  /\ v.root \in DOMAIN h
  /\ P[v.root] = <<Lv(v), 0>>
  /\ v.sz <= Width(Lv(v) + 1)

(* Depth and capacity by the height of the root.                           *)
LEMMA Levels ==
  ASSUME NEW v \in Vector
  PROVE  Lv(v) \in Nat /\ calc_depth(v) = Lv(v) + 1 /\ capacity(v) = Width(Lv(v) + 1)
  BY Divide DEF Vector, Lv, calc_depth, capacity

(* Shifting by whole levels.                                               *)
LEMMA Shifted ==
  ASSUME NEW k \in Nat
  PROVE  (k * BP_BITS) \div BP_BITS = k
  <1>1. k * BP_BITS = BP_BITS * k + 0 /\ 0 \in 0 .. BP_BITS - 1
    OBVIOUS
  <1>. QED
    BY <1>1, Quotient

(* The elements of a trie are those of the one block at its root.          *)
LEMMA RoomFacts ==
  ASSUME NEW v \in Vector
  PROVE  /\ Lv(v) \in Nat /\ 0 \in Room(v) /\ Room(v) \subseteq Nat
         /\ \A i \in Nat : i \in Room(v) <=> Blk(i, Lv(v) + 1) = 0
         /\ \A i \in Nat : i \in Room(v) <=> i < Width(Lv(v) + 1)
  <1>1. Lv(v) \in Nat /\ Lv(v) + 1 \in Nat
    BY Levels
  <1>2. Width(Lv(v) + 1) \in Nat \ {0}
    BY <1>1, WidthFacts
  <1>. QED
    BY <1>1, <1>2, BlockZero DEF Room

(* The path goes from the root down, by the digits of the element's number. *)
LEMMA Path ==
  ASSUME NEW h \in Seq(Node), NEW v \in Vector, v.shift = Lv(v) * BP_BITS, NEW j \in Nat
  PROVE  /\ On(h, v, j, Lv(v)) = v.root
         /\ \A e \in 0 .. Lv(v) - 1 :
              On(h, v, j, e) = Child(h, On(h, v, j, e + 1), Blk(j, e + 1) % BP_WIDTH)
         /\ \A e \in 0 .. Lv(v) : On(h, v, j, e) \in Int
  <1>. DEFINE L == Lv(v)
              body(f, k) == IF k = 0 THEN v.root
                            ELSE Child(h, f[k-1], Digit(j, v.shift - (k-1) * BP_BITS))
              at == CHOOSE f : f = [k \in 0 .. L |-> body(f, k)]
              dig(k) == Digit(j, v.shift - (k-1) * BP_BITS)
              g == [k \in Nat |-> [x \in Int |->
                      IF k \in 1 .. L THEN Child(h, x, dig(k)) ELSE 0]]
  <1>1. L \in Nat /\ calc_depth(v) - 1 = L
    BY Levels
  <1>2. ASSUME NEW d \in 0 .. L
        PROVE  Walk(h, v, j, d) = at[d]
    BY <1>1 DEF Walk
  <1>3. ASSUME NEW k \in 1 .. L
        PROVE  dig(k) = Blk(j, L - k + 1) % BP_WIDTH /\ dig(k) \in Slot
    <2>1. v.shift - (k-1) * BP_BITS = (L - k + 1) * BP_BITS /\ L - k + 1 \in Nat
      BY <1>1
    <2>2. dig(k) = Digit(j, (L - k + 1) * BP_BITS)
      BY <2>1
    <2>. HIDE DEF dig, L
    <2>. QED
      BY <2>1, <2>2, Blocks
  <1>. HIDE DEF dig
  <1>4. ASSUME NEW n \in Int, NEW s \in Slot
        PROVE  Child(h, n, s) \in Int
    <2>1. CASE n \in DOMAIN h
      <3>1. h[n] \in Node
        BY <2>1
      <3>2. h[n].slot \in [Slot -> Int]
        BY <3>1 DEF Node
      <3>. QED
        BY <2>1, <3>2 DEF Child
    <2>2. CASE n \notin DOMAIN h
      BY <2>2 DEF Child, Null
    <2>. QED
      BY <2>1, <2>2
  <1>5. g \in [Nat -> [Int -> Int]]
    <2>1. ASSUME NEW k \in Nat, NEW x \in Int
          PROVE  (IF k \in 1 .. L THEN Child(h, x, dig(k)) ELSE 0) \in Int
      BY <1>3, <1>4
    <2>. QED
      BY <2>1
  <1>6. PICK f : Iteration(f, Int, v.root, g)
    <2>1. v.root \in Int
      BY DEF Vector
    <2>. HIDE DEF g
    <2>. QED
      BY <1>5, <2>1, Iterate
  <1>7. f \in [Nat -> Int] /\ f[0] = v.root
    BY <1>6 DEF Iteration
  <1>8. ASSUME NEW k \in 1 .. L
        PROVE  f[k] = Child(h, f[k-1], dig(k))
    <2>1. k - 1 \in Nat /\ (k - 1) + 1 = k /\ k \in Nat
      BY <1>1
    <2>2. f[k] = g[k][f[k-1]] /\ f[k-1] \in Int
      BY <1>6, <1>7, <2>1 DEF Iteration
    <2>. QED
      BY <2>1, <2>2
  <1>. DEFINE e == [k \in 0 .. L |-> f[k]]
  <1>9. e = [k \in 0 .. L |-> body(e, k)]
    <2>1. ASSUME NEW k \in 0 .. L
          PROVE  e[k] = body(e, k)
      <3>1. CASE k = 0
        BY <1>1, <1>7, <3>1
      <3>2. CASE k # 0
        <4>1. k \in 1 .. L /\ k - 1 \in 0 .. L
          BY <1>1, <3>2
        <4>. QED
          BY <1>8, <3>2, <4>1 DEF dig
      <3>. QED
        BY <3>1, <3>2
    <2>. HIDE DEF body
    <2>. QED
      BY <2>1
  <1>10. at = [k \in 0 .. L |-> body(at, k)]
    <2>. HIDE DEF body, e
    <2>. QED
      BY <1>9, Zenon
  <1>. HIDE DEF at, body
  <1>11. at[0] = v.root
    BY <1>1, <1>10 DEF body
  <1>12. ASSUME NEW k \in 1 .. L
         PROVE  at[k] = Child(h, at[k-1], dig(k))
    <2>1. k \in 0 .. L /\ k # 0
      BY <1>1
    <2>. QED
      BY <1>10, <2>1 DEF body, dig
  <1>13. On(h, v, j, L) = v.root
    BY <1>1, <1>2, <1>11 DEF On
  <1>14. ASSUME NEW d \in 0 .. L - 1
         PROVE  On(h, v, j, d) = Child(h, On(h, v, j, d + 1), Blk(j, d + 1) % BP_WIDTH)
    <2>1. /\ L - d \in 1 .. L /\ L - d \in 0 .. L /\ L - (d + 1) \in 0 .. L
          /\ (L - d) - 1 = L - (d + 1) /\ L - (L - d) + 1 = d + 1
      BY <1>1
    <2>2. On(h, v, j, d) = at[L - d] /\ On(h, v, j, d + 1) = at[(L - d) - 1]
      BY <1>2, <2>1 DEF On
    <2>. QED
      BY <1>3, <1>12, <2>1, <2>2
  <1>. DEFINE Bad == {k \in 0 .. L : at[k] \notin Int}
  <1>15. Bad = {}
    <2>. SUFFICES ASSUME Bad # {}
                  PROVE  FALSE
      OBVIOUS
    <2>1. PICK k \in Bad : \A i \in Bad : k <= i
      <3>1. Bad \subseteq Nat
        BY <1>1
      <3>. HIDE DEF Bad
      <3>. QED
        BY <3>1, LeastNumber
    <2>2. k # 0
      BY <1>11, <2>1 DEF Vector
    <2>3. k \in 1 .. L /\ k - 1 \in 0 .. L /\ k - 1 \notin Bad
      BY <1>1, <2>1, <2>2
    <2>. QED
      BY <1>3, <1>4, <1>12, <2>1, <2>3
  <1>16. ASSUME NEW d \in 0 .. L
         PROVE  On(h, v, j, d) \in Int
    <2>1. L - d \in 0 .. L
      BY <1>1
    <2>. QED
      BY <1>2, <1>15, <2>1 DEF On
  <1>. QED
    BY <1>13, <1>14, <1>16

(* Below a node the path goes on through its slots. *)
LEMMA PathStep ==
  ASSUME NEW h, NEW P, IsHeap(h, P), NEW v, IsVec(h, P, v), NEW j \in Nat,
         NEW e \in 0 .. Lv(v) - 1
  PROVE  /\ e + 1 \in 0 .. Lv(v) /\ Blk(j, e + 1) % BP_WIDTH \in Slot
         /\ On(h, v, j, e + 1) = Null => On(h, v, j, e) = Null
         /\ On(h, v, j, e + 1) \in DOMAIN h =>
              On(h, v, j, e) = h[On(h, v, j, e + 1)].slot[Blk(j, e + 1) % BP_WIDTH]
  <1>1. h \in Seq(Node) /\ v \in Vector /\ v.shift = Lv(v) * BP_BITS
    BY DEF IsHeap, IsVec
  <1>2. Lv(v) \in Nat
    BY <1>1, Levels
  <1>3. On(h, v, j, e) = Child(h, On(h, v, j, e + 1), Blk(j, e + 1) % BP_WIDTH)
    BY <1>1, Path
  <1>4. Null \notin DOMAIN h
    BY <1>1 DEF Null
  <1>5. e + 1 \in 0 .. Lv(v) /\ e + 1 \in Nat
    BY <1>2
  <1>6. Blk(j, e + 1) % BP_WIDTH \in Slot
    BY <1>5, Blocks
  <1>. QED
    BY <1>3, <1>4, <1>5, <1>6 DEF Child

(* Every node on a path has the place that its height and the element say. *)
LEMMA OnPlace ==
  ASSUME NEW h, NEW P, IsHeap(h, P), NEW v, IsVec(h, P, v), NEW j \in Room(v),
         NEW e \in 0 .. Lv(v), On(h, v, j, e) # Null
  PROVE  /\ On(h, v, j, e) \in DOMAIN h
         /\ P[On(h, v, j, e)] = <<e, Blk(j, e + 1)>>
         /\ P[On(h, v, j, e)][1] = e /\ P[On(h, v, j, e)][2] = Blk(j, e + 1)
  <1>. DEFINE L == Lv(v)
              Ok(f) == On(h, v, j, f) # Null =>
                         On(h, v, j, f) \in DOMAIN h /\ P[On(h, v, j, f)] = <<f, Blk(j, f + 1)>>
              Bad == {d \in 0 .. L : ~Ok(L - d)}
  <1>1. h \in Seq(Node) /\ v \in Vector /\ v.shift = L * BP_BITS /\ L \in Nat
    BY Levels DEF IsHeap, IsVec
  <1>2. j \in Nat /\ Blk(j, L + 1) = 0
    BY <1>1, RoomFacts
  <1>3. Ok(L)
    BY <1>1, <1>2, Path DEF IsVec
  <1>4. ASSUME NEW f \in 0 .. L - 1, Ok(f + 1)
        PROVE  Ok(f)
    <2>. DEFINE n == On(h, v, j, f + 1)
                s == Blk(j, f + 1) % BP_WIDTH
    <2>1. s \in Slot /\ (n = Null => On(h, v, j, f) = Null)
          /\ (n \in DOMAIN h => On(h, v, j, f) = h[n].slot[s])
      BY <1>2, PathStep
    <2>. HIDE DEF n, s
    <2>2. ASSUME On(h, v, j, f) # Null
          PROVE  On(h, v, j, f) \in DOMAIN h /\ P[On(h, v, j, f)] = <<f, Blk(j, f + 1)>>
      <3>1. n \in DOMAIN h /\ P[n] = <<f + 1, Blk(j, (f + 1) + 1)>>
        BY <1>4, <2>1, <2>2 DEF n
      <3>2. P[n][1] = f + 1 /\ P[n][2] = Blk(j, (f + 1) + 1) /\ f + 1 # 0 /\ (f + 1) - 1 = f
        BY <1>1, <3>1
      <3>3. /\ h[n].slot[s] \in DOMAIN h
            /\ P[h[n].slot[s]] = <<f, BP_WIDTH * Blk(j, (f + 1) + 1) + s>>
        BY <2>1, <2>2, <3>1, <3>2 DEF IsHeap
      <3>4. Blk(j, f + 1) = BP_WIDTH * Blk(j, (f + 1) + 1) + s
        BY <1>1, <1>2, Blocks DEF s
      <3>. QED
        BY <2>1, <3>1, <3>3, <3>4
    <2>. QED
      BY <2>2
  <1>5. Bad = {}
    <2>. HIDE DEF Ok
    <2>. SUFFICES ASSUME Bad # {}
                  PROVE  FALSE
      OBVIOUS
    <2>1. PICK d \in Bad : \A i \in Bad : d <= i
      <3>1. Bad \subseteq Nat
        BY <1>1
      <3>. HIDE DEF Bad
      <3>. QED
        BY <3>1, LeastNumber
    <2>2. d \in 0 .. L /\ d # 0
      BY <1>1, <1>3, <2>1
    <2>3. d - 1 \in 0 .. L /\ d - 1 \notin Bad /\ L - (d - 1) = (L - d) + 1 /\ L - d \in 0 .. L - 1
      BY <1>1, <2>1, <2>2
    <2>4. Ok((L - d) + 1)
      BY <2>3
    <2>. QED
      BY <1>4, <2>1, <2>3, <2>4
  <1>6. Ok(e)
    <2>1. L - e \in 0 .. L /\ L - (L - e) = e
      BY <1>1
    <2>. HIDE DEF Ok
    <2>. QED
      BY <1>5, <2>1
  <1>. QED
    BY <1>6

(* Nothing hangs below a null: a path that ends in a leaf has all its nodes. *)
LEMMA OnAbove ==
  ASSUME NEW h, NEW P, IsHeap(h, P), NEW v, IsVec(h, P, v), NEW j \in Nat,
         NEW e \in 0 .. Lv(v), On(h, v, j, e) # Null
  PROVE  \A f \in e .. Lv(v) : On(h, v, j, f) # Null
  <1>. DEFINE Bad == {f \in e .. Lv(v) : On(h, v, j, f) = Null}
  <1>1. Lv(v) \in Nat
    BY Levels DEF IsVec
  <1>2. Bad = {}
    <2>. SUFFICES ASSUME Bad # {}
                  PROVE  FALSE
      OBVIOUS
    <2>1. PICK f \in Bad : \A i \in Bad : f <= i
      <3>1. Bad \subseteq Nat
        BY <1>1
      <3>. HIDE DEF Bad
      <3>. QED
        BY <3>1, LeastNumber
    <2>2. f # e /\ f - 1 \in e .. Lv(v) /\ f - 1 \in 0 .. Lv(v) - 1 /\ (f - 1) + 1 = f
          /\ f - 1 \notin Bad
      BY <1>1, <2>1
    <2>. QED
      BY <2>1, <2>2, PathStep
  <1>. QED
    BY <1>2

(* Elements of one block have their paths in common down to its node. *)
LEMMA OnSame ==
  ASSUME NEW h, NEW P, IsHeap(h, P), NEW v, IsVec(h, P, v), NEW i \in Nat, NEW j \in Nat,
         NEW e \in 0 .. Lv(v), Blk(i, e + 1) = Blk(j, e + 1)
  PROVE  On(h, v, i, e) = On(h, v, j, e)
  <1>. DEFINE L == Lv(v)
              Bad == {d \in 0 .. L - e : On(h, v, i, L - d) # On(h, v, j, L - d)}
  <1>1. L \in Nat /\ h \in Seq(Node) /\ v \in Vector /\ v.shift = L * BP_BITS
    BY Levels DEF IsHeap, IsVec
  <1>2. Bad = {}
    <2>. SUFFICES ASSUME Bad # {}
                  PROVE  FALSE
      OBVIOUS
    <2>1. PICK d \in Bad : \A k \in Bad : d <= k
      <3>1. Bad \subseteq Nat
        BY <1>1
      <3>. HIDE DEF Bad
      <3>. QED
        BY <3>1, LeastNumber
    <2>2. d \in 0 .. L - e /\ d # 0
      <3>1. On(h, v, i, L) = On(h, v, j, L)
        BY <1>1, Path
      <3>2. d \in 0 .. L - e /\ On(h, v, i, L - d) # On(h, v, j, L - d)
        BY <2>1
      <3>3. d = 0 => L - d = L
        BY <1>1
      <3>. HIDE DEF L
      <3>. QED
        BY <3>1, <3>2, <3>3
    <2>. DEFINE f == L - d
    <2>3. /\ f \in 0 .. L - 1 /\ e <= f /\ f + 1 = L - (d - 1) /\ d - 1 \in 0 .. L - e
          /\ d - 1 \notin Bad
      <3>1. f \in 0 .. L - 1 /\ e <= f /\ f + 1 = L - (d - 1)
        BY <1>1, <2>2
      <3>2. d - 1 \in 0 .. L - e /\ ~(d <= d - 1)
        BY <1>1, <2>2
      <3>3. d - 1 \notin Bad
        <4>. HIDE DEF Bad
        <4>. QED
          BY <2>1, <3>2
      <3>. QED
        BY <3>1, <3>2, <3>3
    <2>4. On(h, v, i, f + 1) = On(h, v, j, f + 1)
      BY <2>3
    <2>5. On(h, v, i, f) # On(h, v, j, f)
      BY <2>1
    <2>. HIDE DEF f
    <2>6. Blk(i, f + 1) = Blk(j, f + 1)
      <3>1. e + 1 \in Nat /\ f + 1 \in Nat /\ e + 1 <= f + 1
        BY <1>1, <2>3
      <3>. QED
        BY <3>1, BlocksNest
    <2>. QED
      BY <1>1, <2>3, <2>4, <2>5, <2>6, Path
  <1>3. L - e \in 0 .. L - e /\ L - (L - e) = e
    BY <1>1
  <1>. QED
    BY <1>2, <1>3

\* node n has the same slots in both heaps
Kept(h, h2, n) ==
  /\ n \in DOMAIN h <=> n \in DOMAIN h2
  /\ n \in DOMAIN h => h2[n].slot = h[n].slot

\* the nodes of heights b+1..e on the path to j have the same slots in both heaps
KeptOn(h, h2, u, j, b, e) == \A f \in b + 1 .. e : Kept(h, h2, On(h, u, j, f))

\* the paths have the nodes of heights b..e in common
Meet(h, u, h2, v, j, b, e) == \A f \in b .. e : On(h2, v, j, f) = On(h, u, j, f)

(* Two paths that meet at a node stay together as long as its slots, and   *)
(* those of the nodes below, are the same.                                 *)
LEMMA OnFrame ==
  ASSUME NEW h \in Seq(Node), NEW h2 \in Seq(Node), NEW u \in Vector, NEW v \in Vector,
         u.shift = Lv(u) * BP_BITS, v.shift = Lv(v) * BP_BITS, NEW j \in Nat,
         NEW e \in 0 .. Lv(u), e <= Lv(v), NEW b \in 0 .. e,
         On(h2, v, j, e) = On(h, u, j, e),
         KeptOn(h, h2, u, j, b, e)
  PROVE  Meet(h, u, h2, v, j, b, e)
  <1>. DEFINE Bad == {d \in 0 .. e - b : On(h2, v, j, e - d) # On(h, u, j, e - d)}
  <1>1. Lv(u) \in Nat /\ Lv(v) \in Nat
    BY Levels
  <1>2. Bad = {}
    <2>. SUFFICES ASSUME Bad # {}
                  PROVE  FALSE
      OBVIOUS
    <2>1. PICK d \in Bad : \A k \in Bad : d <= k
      <3>1. Bad \subseteq Nat
        BY <1>1
      <3>. HIDE DEF Bad
      <3>. QED
        BY <3>1, LeastNumber
    <2>2. d \in 0 .. e - b /\ d # 0
      BY <1>1, <2>1
    <2>. DEFINE f == e - d
    <2>3. /\ f \in 0 .. Lv(u) - 1 /\ f \in 0 .. Lv(v) - 1 /\ f + 1 = e - (d - 1) /\ d - 1 \in 0 .. e - b
          /\ d - 1 \notin Bad /\ f + 1 \in b + 1 .. e
      <3>1. f \in 0 .. Lv(u) - 1 /\ f \in 0 .. Lv(v) - 1 /\ f + 1 = e - (d - 1) /\ f + 1 \in b + 1 .. e
        BY <1>1, <2>2
      <3>2. d - 1 \in 0 .. e - b /\ ~(d <= d - 1)
        BY <1>1, <2>2
      <3>3. d - 1 \notin Bad
        <4>. HIDE DEF Bad
        <4>. QED
          BY <2>1, <3>2
      <3>. QED
        BY <3>1, <3>2, <3>3
    <2>4. On(h2, v, j, f + 1) = On(h, u, j, f + 1)
      BY <2>3
    <2>5. On(h2, v, j, f) # On(h, u, j, f)
      BY <2>1
    <2>. HIDE DEF f
    <2>. DEFINE n == On(h, u, j, f + 1)
                s == Blk(j, f + 1) % BP_WIDTH
    <2>6. On(h2, v, j, f) = Child(h2, n, s) /\ On(h, u, j, f) = Child(h, n, s)
      BY <2>3, <2>4, Path
    <2>7. Kept(h, h2, n)
      BY <2>3 DEF KeptOn
    <2>. HIDE DEF n, s
    <2>. QED
      BY <2>5, <2>6, <2>7 DEF Child, Kept
  <1>3. ASSUME NEW f \in b .. e
        PROVE  On(h2, v, j, f) = On(h, u, j, f)
    <2>1. e - f \in 0 .. e - b /\ e - (e - f) = f
      BY <1>1
    <2>. QED
      BY <1>2, <2>1
  <1>. QED
    BY <1>3 DEF Meet

-----------------------------------------------------------------------------
(* What an operation takes and returns, and its two primitive writes *)

\* what the operations of Trie take and return
Record == [h: Seq(Node), v: Vector, ub: BOOLEAN]

\* a record with a trie in its heap
Fits(m, P) == m \in Record /\ IsHeap(m.h, P) /\ IsVec(m.h, P, m.v)

\* node n of h gets x in slot s
Poked(h, h2, n, s, x) ==
  /\ h2 \in Seq(Node)
  /\ DOMAIN h2 = DOMAIN h /\ Len(h2) = Len(h)
  /\ \A y \in DOMAIN h \ {n} : h2[y] = h[y]
  /\ h2[n].type = h[n].type /\ h2[n].id = h[n].id
  /\ h2[n].slot = [h[n].slot EXCEPT ![s] = x]

(* Writing one slot writes nothing else.                                   *)
LEMMA Poke ==
  ASSUME NEW h \in Seq(Node), NEW n \in DOMAIN h, NEW s \in Slot, NEW x \in Int
  PROVE  Poked(h, [h EXCEPT ![n].slot[s] = x], n, s, x)
  <1>. DEFINE g == [h[n] EXCEPT !.slot[s] = x]
              h2 == [h EXCEPT ![n] = g]
  <1>1. h[n] \in Node
    OBVIOUS
  <1>2. /\ h[n] \in [type: {"branches", "leaves"}, id: Int, slot: [Slot -> Int]]
        /\ h[n].slot \in [Slot -> Int]
    BY <1>1 DEF Node
  <1>3. g.type = h[n].type /\ g.id = h[n].id /\ g.slot = [h[n].slot EXCEPT ![s] = x]
    BY <1>2
  <1>4. g \in Node
    BY <1>2 DEF Node
  <1>. HIDE DEF g
  <1>5. h2 \in Seq(Node) /\ DOMAIN h2 = DOMAIN h /\ Len(h2) = Len(h)
    BY <1>4
  <1>6. h2[n] = g /\ \A y \in DOMAIN h \ {n} : h2[y] = h[y]
    OBVIOUS
  <1>7. [h EXCEPT ![n].slot[s] = x] = h2
    BY DEF g
  <1>. HIDE DEF h2
  <1>. QED
    BY <1>3, <1>5, <1>6, <1>7 DEF Poked

\* the node of height e on the path to i gets x where the path goes on
PutAt(m, m2, i, e, x) ==
  /\ m2 \in Record /\ m2.v = m.v /\ m2.ub = m.ub
  /\ Poked(m.h, m2.h, On(m.h, m.v, i, e), Blk(i, e) % BP_WIDTH, x)

(* Put writes the slot of the node of height e on the path to i. *)
LEMMA PutIs ==
  ASSUME NEW m, m \in Record, m.v.shift = Lv(m.v) * BP_BITS, NEW i \in Nat,
         NEW e \in 0 .. Lv(m.v), On(m.h, m.v, i, e) \in DOMAIN m.h, NEW x \in Int,
         NEW d, d = Lv(m.v) - e, NEW m2, m2 = Put(m, i, d, x)
  PROVE  PutAt(m, m2, i, e, x)
  <1>. DEFINE n == On(m.h, m.v, i, e)
              s == Blk(i, e) % BP_WIDTH
              h2 == [m.h EXCEPT ![n].slot[s] = x]
  <1>1. m.h \in Seq(Node) /\ m.v \in Vector /\ m.ub \in BOOLEAN /\ Lv(m.v) \in Nat
    BY Levels DEF Record
  <1>2. n = Walk(m.h, m.v, i, d)
    BY DEF On
  <1>3. Digit(i, m.v.shift - d * BP_BITS) = s /\ s \in Slot
    <2>1. m.v.shift - d * BP_BITS = e * BP_BITS /\ e \in Nat
      BY <1>1
    <2>. HIDE DEF s
    <2>. QED
      BY <2>1, Blocks DEF s
  <1>4. m2 = [m EXCEPT !.h = h2]
    <2>1. m2 = [m EXCEPT !.h[Walk(m.h, m.v, i, d)].slot[Digit(i, m.v.shift - d * BP_BITS)] = x]
      BY DEF Put
    <2>. HIDE DEF n, s
    <2>2. m2 = [m EXCEPT !.h[n].slot[s] = x]
      BY <1>2, <1>3, <2>1
    <2>. QED
      BY <2>2
  <1>5. Poked(m.h, h2, n, s, x)
    <2>. HIDE DEF s
    <2>. QED
      BY <1>1, <1>3, Poke
  <1>. HIDE DEF h2, n, s
  <1>6. h2 \in Seq(Node)
    BY <1>5 DEF Poked
  <1>7. m2 \in Record /\ m2.v = m.v /\ m2.ub = m.ub /\ m2.h = h2
    BY <1>4, <1>6 DEF Record
  <1>. QED
    BY <1>3, <1>5, <1>7 DEF n, s, PutAt

\* a new node becomes the node of height e on the path to i
Hung(m, m2, i, e, node) ==
  LET n == Len(m.h) + 1
      p == On(m.h, m.v, i, e + 1)
  IN  /\ m2 \in Record
      /\ m2.ub = m.ub
      /\ m2.v = [m.v EXCEPT !.root = IF e = Lv(m.v) THEN n ELSE @]
      /\ Len(m2.h) = n
      /\ m2.h[n] = node
      /\ \A y \in DOMAIN m.h : m2.h[y].type = m.h[y].type /\ m2.h[y].id = m.h[y].id
      /\ \A y \in DOMAIN m.h : e = Lv(m.v) \/ y # p => m2.h[y] = m.h[y]
      /\ e # Lv(m.v) =>
           m2.h[p].slot = [m.h[p].slot EXCEPT ![Blk(i, e + 1) % BP_WIDTH] = n]

(* Hang appends a node and writes the slot above it, or the root.          *)
LEMMA HangIs ==
  ASSUME NEW m, NEW P, Fits(m, P), NEW i \in Room(m.v), NEW e \in 0 .. Lv(m.v),
         e # Lv(m.v) => On(m.h, m.v, i, e + 1) \in DOMAIN m.h,
         NEW node \in Node, NEW d, d = Lv(m.v) - e, NEW m2, m2 = Hang(m, i, d, node)
  PROVE  Hung(m, m2, i, e, node)
  <1>. DEFINE g == [m EXCEPT !.h = Append(@, node)]
              n == Len(m.h) + 1
              p == On(m.h, m.v, i, e + 1)
              L == Lv(m.v)
  <1>1. /\ m \in Record /\ m.h \in Seq(Node) /\ m.v \in Vector /\ L \in Nat
        /\ m.v.shift = L * BP_BITS
    BY Levels DEF Fits, IsVec, Record
  <1>. i \in Nat
    BY <1>1, RoomFacts
  <1>2. g \in Record /\ g.h = Append(m.h, node) /\ g.v = m.v /\ g.ub = m.ub
    BY <1>1 DEF Record
  <1>3. /\ g.h \in Seq(Node) /\ Len(g.h) = n /\ g.h[n] = node /\ n \in DOMAIN g.h /\ n \in Nat
        /\ \A y \in DOMAIN m.h : y \in DOMAIN g.h /\ g.h[y] = m.h[y]
    BY <1>1, <1>2
  <1>4. CASE e = L
    <2>1. m2 = [g EXCEPT !.v.root = n]
      BY <1>1, <1>4 DEF Hang
    <2>2. [g.v EXCEPT !.root = n] \in Vector
      BY <1>2, <1>1, <1>3 DEF Vector
    <2>. HIDE DEF g, n
    <2>3. m2 \in Record /\ m2.h = g.h /\ m2.v = [m.v EXCEPT !.root = n] /\ m2.ub = m.ub
      BY <1>2, <2>1, <2>2 DEF Record
    <2>. QED
      BY <1>3, <1>4, <2>3 DEF Hung, n
  <1>5. CASE e # L
    <2>. DEFINE q == e + 1
    <2>1. q \in 0 .. L /\ d - 1 = L - q /\ d # 0 /\ q \in Nat
      BY <1>1, <1>5
    <2>2. m2 = Put(g, i, d - 1, n)
      BY <2>1 DEF Hang
    <2>3. p \in DOMAIN m.h /\ p # n /\ p # Null /\ n \in Int /\ p \in DOMAIN g.h
      BY <1>1, <1>3, <1>5 DEF Null
    <2>. HIDE DEF g, n, q
    <2>4. On(g.h, m.v, i, q) = On(m.h, m.v, i, q)
      <3>1. On(g.h, m.v, i, L) = m.v.root /\ On(m.h, m.v, i, L) = m.v.root
        BY <1>1, <1>3, Path
      <3>2. ASSUME NEW f \in q + 1 .. L
            PROVE  Kept(m.h, g.h, On(m.h, m.v, i, f))
        <4>1. f \in q .. L /\ f \in 0 .. L
          BY <1>1, <2>1
        <4>2. On(m.h, m.v, i, f) # Null
          BY <2>1, <2>3, <4>1, OnAbove DEF Fits, q
        <4>3. On(m.h, m.v, i, f) \in DOMAIN m.h
          BY <4>1, <4>2, OnPlace DEF Fits
        <4>. QED
          BY <1>3, <4>3 DEF Kept
      <3>3. L \in 0 .. L /\ L <= L /\ q \in q .. L /\ q \in 0 .. L
        BY <1>1, <2>1
      <3>4. \A f \in q .. L : On(g.h, m.v, i, f) = On(m.h, m.v, i, f)
        <4>1. KeptOn(m.h, g.h, m.v, i, q, L)
          BY <3>2 DEF KeptOn
        <4>2. Meet(m.h, m.v, g.h, m.v, i, q, L)
          BY <1>1, <1>3, <3>1, <3>3, <4>1, OnFrame
        <4>. QED
          BY <4>2 DEF Meet
      <3>. QED
        BY <3>3, <3>4
    <2>5. /\ m2 \in Record /\ m2.v = m.v /\ m2.ub = m.ub
          /\ Poked(g.h, m2.h, p, Blk(i, e + 1) % BP_WIDTH, n)
      <3>1. g.v.shift = Lv(g.v) * BP_BITS /\ q \in 0 .. Lv(g.v) /\ d - 1 = Lv(g.v) - q
        BY <1>1, <1>2, <2>1
      <3>2. p = On(g.h, g.v, i, q)
        BY <1>2, <2>4 DEF q
      <3>. HIDE DEF p
      <3>3. PutAt(g, m2, i, q, n)
        BY <1>2, <2>2, <2>3, <3>1, <3>2, PutIs
      <3>. QED
        BY <1>2, <3>2, <3>3 DEF q, PutAt
    <2>7. m2.v = [m.v EXCEPT !.root = IF e = L THEN n ELSE @]
      BY <1>1, <1>5, <2>5 DEF Vector
    <2>. HIDE DEF p, L
    <2>8. Len(m2.h) = n /\ m2.h[n] = node
      BY <1>3, <2>3, <2>5 DEF Poked, n
    <2>9. \A y \in DOMAIN m.h : y # p => m2.h[y] = m.h[y]
      BY <1>3, <2>3, <2>5 DEF Poked
    <2>10. m2.h[p].slot = [m.h[p].slot EXCEPT ![Blk(i, e + 1) % BP_WIDTH] = n]
           /\ m2.h[p].type = m.h[p].type /\ m2.h[p].id = m.h[p].id
      BY <1>3, <2>3, <2>5 DEF Poked, n
    <2>. QED
      BY <1>5, <2>5, <2>7, <2>8, <2>9, <2>10 DEF Hung, n, p, L
  <1>. QED
    BY <1>4, <1>5

\* a node that may stand at height e over block b
NodeFits(h, P, node, e, b) ==
  /\ node \in Node
  /\ node.type = IF e = 0 THEN "leaves" ELSE "branches"
  /\ e # 0 => \A s \in Slot : node.slot[s] # Null =>
       node.slot[s] \in DOMAIN h /\ P[node.slot[s]] = <<e - 1, BP_WIDTH * b + s>>

\* the places with node n added at height e over block b
Grafted(P, n, e, b) == [x \in 1 .. n |-> IF x = n THEN <<e, b>> ELSE P[x]]

\* a node may hang at height e on the path to i
MayHang(m, P, i, e, node) ==
  /\ i \in Room(m.v)
  /\ e \in 0 .. Lv(m.v)
  /\ e # Lv(m.v) => On(m.h, m.v, i, e + 1) # Null
  /\ NodeFits(m.h, P, node, e, Blk(i, e + 1))

(* The types of a record with a trie.                                      *)
LEMMA FitsFacts ==
  ASSUME NEW m, NEW P, Fits(m, P)
  PROVE  /\ m \in Record /\ m.h \in Seq(Node) /\ m.v \in Vector /\ m.ub \in BOOLEAN
         /\ Lv(m.v) \in Nat /\ m.v.shift = Lv(m.v) * BP_BITS
         /\ Len(m.h) \in Nat /\ DOMAIN m.h = 1 .. Len(m.h) /\ Null \notin DOMAIN m.h
         /\ IsHeap(m.h, P) /\ IsVec(m.h, P, m.v)
         /\ Room(m.v) \subseteq Nat /\ 0 \in Room(m.v)
  BY Levels, RoomFacts DEF Fits, IsVec, Record, Null

\* what hanging a node leaves of the rest
HangFacts(m, m2, P, i, e, node, n, p) ==
  /\ m2.h \in Seq(Node) /\ m2.v \in Vector /\ Lv(m2.v) = Lv(m.v)
  /\ m2.v.shift = Lv(m.v) * BP_BITS /\ Room(m2.v) = Room(m.v) /\ m2.v.sz = m.v.sz
  /\ n \in Nat /\ DOMAIN m2.h = 1 .. n /\ DOMAIN m.h = 1 .. n - 1 /\ m2.h[n] = node
  /\ e # Lv(m.v) => /\ p \in DOMAIN m.h /\ m2.v.root = m.v.root
                    /\ e + 1 \in 0 .. Lv(m.v)
                    /\ P[p] = <<e + 1, Blk(i, e + 1 + 1)>>
                    /\ P[p][1] = e + 1 /\ P[p][2] = Blk(i, e + 1 + 1)
                    /\ m2.h[p].slot = [m.h[p].slot EXCEPT ![Blk(i, e + 1) % BP_WIDTH] = n]
  /\ e = Lv(m.v) => m2.v.root = n

(* What is known of the new node and the one above it.                     *)
LEMMA HangKnown ==
  ASSUME NEW m, NEW P, Fits(m, P), NEW i, NEW e, NEW node, MayHang(m, P, i, e, node),
         NEW m2, Hung(m, m2, i, e, node)
  PROVE  HangFacts(m, m2, P, i, e, node, Len(m.h) + 1, On(m.h, m.v, i, e + 1))
  <1>. DEFINE n == Len(m.h) + 1
              p == On(m.h, m.v, i, e + 1)
              L == Lv(m.v)
  <1>1. /\ m.h \in Seq(Node) /\ m.v \in Vector /\ L \in Nat /\ m.v.shift = L * BP_BITS
        /\ Len(m.h) \in Nat /\ DOMAIN m.h = 1 .. Len(m.h)
        /\ IsHeap(m.h, P) /\ IsVec(m.h, P, m.v)
    BY FitsFacts
  <1>2. m2.h \in Seq(Node) /\ m2.v \in Vector
    BY DEF Hung, Record
  <1>3. m2.v = [m.v EXCEPT !.root = IF e = L THEN n ELSE @]
    BY DEF Hung
  <1>4. /\ m2.v.shift = m.v.shift /\ m2.v.sz = m.v.sz
        /\ m2.v.root = IF e = L THEN n ELSE m.v.root
    BY <1>1, <1>3 DEF Vector
  <1>5. Lv(m2.v) = L /\ Room(m2.v) = Room(m.v)
    BY <1>4 DEF Lv, Room
  <1>6. n \in Nat /\ DOMAIN m.h = 1 .. n - 1 /\ DOMAIN m2.h = 1 .. n /\ m2.h[n] = node
    BY <1>1, <1>2 DEF Hung
  <1>7. ASSUME e # L
        PROVE  /\ p \in DOMAIN m.h /\ e + 1 \in 0 .. L
               /\ P[p] = <<e + 1, Blk(i, e + 1 + 1)>>
               /\ P[p][1] = e + 1 /\ P[p][2] = Blk(i, e + 1 + 1)
               /\ m2.h[p].slot = [m.h[p].slot EXCEPT ![Blk(i, e + 1) % BP_WIDTH] = n]
    <2>1. e + 1 \in 0 .. L /\ p # Null /\ i \in Room(m.v)
      BY <1>1, <1>7 DEF MayHang
    <2>2. m2.h[p].slot = [m.h[p].slot EXCEPT ![Blk(i, e + 1) % BP_WIDTH] = n]
      BY <1>7 DEF Hung
    <2>. QED
      BY <1>1, <2>1, <2>2, OnPlace
  <1>. HIDE DEF n, p, L
  <1>8. HangFacts(m, m2, P, i, e, node, n, p)
    BY <1>1, <1>2, <1>4, <1>5, <1>6, <1>7 DEF HangFacts, L
  <1>. QED
    BY <1>8 DEF n, p

(* A new node that fits into its place leaves a trie.                      *)
LEMMA HangFits ==
  ASSUME NEW m, NEW P, Fits(m, P), NEW i, NEW e, NEW node, MayHang(m, P, i, e, node),
         NEW m2, Hung(m, m2, i, e, node)
  PROVE  Fits(m2, Grafted(P, Len(m.h) + 1, e, Blk(i, e + 1)))
  <1>. DEFINE n == Len(m.h) + 1
              p == On(m.h, m.v, i, e + 1)
              b == Blk(i, e + 1)
              s0 == b % BP_WIDTH
              Q == Grafted(P, n, e, b)
  <1>1. HangFacts(m, m2, P, i, e, node, n, p)
    BY HangKnown
  <1>2. /\ m2 \in Record
        /\ \A y \in DOMAIN m.h : m2.h[y].type = m.h[y].type
        /\ \A y \in DOMAIN m.h : e = Lv(m.v) \/ y # p => m2.h[y] = m.h[y]
    BY DEF Hung
  <1>3. /\ m.h \in Seq(Node) /\ m.v \in Vector /\ Lv(m.v) \in Nat /\ IsHeap(m.h, P)
        /\ IsVec(m.h, P, m.v)
    BY FitsFacts
  <1>4. i \in Nat /\ e \in Nat /\ i \in Room(m.v) /\ e <= Lv(m.v) /\ NodeFits(m.h, P, node, e, b)
    BY <1>3, RoomFacts DEF MayHang
  <1>5. b \in Nat /\ s0 \in Slot /\ b = BP_WIDTH * Blk(i, e + 1 + 1) + s0
        /\ (e = Lv(m.v) => b = 0)
    <2>1. e + 1 \in Nat
      BY <1>4
    <2>2. e = Lv(m.v) => b = 0
      BY <1>3, <1>4, RoomFacts
    <2>. QED
      BY <1>4, <2>1, <2>2, Blocks
  <1>6. n \in Nat /\ DOMAIN m2.h = 1 .. n /\ DOMAIN m.h = 1 .. n - 1
    BY <1>1 DEF HangFacts
  <1>. HIDE DEF n, p, b, s0
  <1>7. Q \in [DOMAIN m2.h -> Nat \X Nat] /\ Q[n] = <<e, b>> /\ \A y \in DOMAIN m.h : Q[y] = P[y]
    <2>1. \A y \in DOMAIN m.h : P[y] \in Nat \X Nat
      BY <1>3 DEF IsHeap
    <2>2. \A x \in 1 .. n : x = n \/ x \in DOMAIN m.h
      BY <1>6
    <2>3. \A x \in 1 .. n : (IF x = n THEN <<e, b>> ELSE P[x]) \in Nat \X Nat
      BY <1>4, <1>5, <2>1, <2>2
    <2>4. n \in 1 .. n \/ n = 0
      BY <1>6
    <2>5. n # 0
      BY <1>3 DEF n
    <2>. QED
      BY <1>6, <2>3, <2>4, <2>5 DEF Grafted
  <1>8. Q[n][1] = e /\ Q[n][2] = b
    BY <1>7
  <1>. HIDE DEF Q
  <1>9. ASSUME NEW y \in DOMAIN m2.h
        PROVE  m2.h[y].type = IF Q[y][1] = 0 THEN "leaves" ELSE "branches"
    <2>1. CASE y = n
      BY <1>1, <1>4, <1>8, <2>1 DEF HangFacts, NodeFits
    <2>2. CASE y # n
      <3>1. y \in DOMAIN m.h
        BY <1>6, <2>2
      <3>. QED
        BY <1>2, <1>3, <1>7, <3>1 DEF IsHeap
    <2>. QED
      BY <2>1, <2>2
  <1>10. ASSUME NEW y \in DOMAIN m2.h, Q[y][1] # 0, NEW s \in Slot, m2.h[y].slot[s] # Null
         PROVE  /\ m2.h[y].slot[s] \in DOMAIN m2.h
                /\ Q[m2.h[y].slot[s]] = <<Q[y][1] - 1, BP_WIDTH * Q[y][2] + s>>
    <2>1. \A z \in DOMAIN m.h : z \in DOMAIN m2.h
      BY <1>6
    <2>2. CASE y = n
      <3>1. node.slot[s] \in DOMAIN m.h /\ P[node.slot[s]] = <<e - 1, BP_WIDTH * b + s>>
        BY <1>1, <1>4, <1>8, <1>10, <2>2 DEF HangFacts, NodeFits
      <3>. QED
        BY <1>1, <1>7, <1>8, <2>1, <2>2, <3>1 DEF HangFacts
    <2>3. CASE y # n /\ (m2.h[y] = m.h[y] \/ s # s0)
      <3>1. y \in DOMAIN m.h
        BY <1>6, <2>3
      <3>2. m2.h[y].slot[s] = m.h[y].slot[s]
        <4>1. CASE m2.h[y] = m.h[y]
          BY <4>1
        <4>2. CASE m2.h[y] # m.h[y]
          <5>1. e # Lv(m.v) /\ y = p
            BY <1>2, <3>1, <4>2
          <5>2. m2.h[p].slot = [m.h[p].slot EXCEPT ![s0] = n]
            BY <1>1, <5>1 DEF HangFacts, b, s0
          <5>3. m.h[p].slot \in [Slot -> Int]
            <6>1. m.h[p] \in Node
              BY <1>3, <3>1, <5>1
            <6>. QED
              BY <6>1 DEF Node
          <5>. QED
            BY <2>3, <4>2, <5>1, <5>2, <5>3
        <4>. QED
          BY <4>1, <4>2
      <3>3. Q[y] = P[y]
        BY <1>7, <3>1
      <3>4. /\ m.h[y].slot[s] \in DOMAIN m.h
            /\ P[m.h[y].slot[s]] = <<P[y][1] - 1, BP_WIDTH * P[y][2] + s>>
        BY <1>3, <1>10, <3>1, <3>2, <3>3 DEF IsHeap
      <3>. QED
        BY <1>7, <2>1, <3>2, <3>3, <3>4
    <2>4. CASE y # n /\ m2.h[y] # m.h[y] /\ s = s0
      <3>1. y \in DOMAIN m.h /\ e # Lv(m.v) /\ y = p
        BY <1>2, <1>6, <2>4
      <3>2. m2.h[p].slot = [m.h[p].slot EXCEPT ![s0] = n]
        BY <1>1, <3>1 DEF HangFacts, b, s0
      <3>3. m.h[p].slot \in [Slot -> Int]
        <4>1. m.h[p] \in Node
          BY <1>3, <3>1
        <4>. QED
          BY <4>1 DEF Node
      <3>4. m2.h[y].slot[s] = n
        BY <1>5, <2>4, <3>1, <3>2, <3>3
      <3>5. Q[y] = P[y] /\ P[p][1] = e + 1 /\ P[p][2] = Blk(i, e + 1 + 1)
        BY <1>1, <1>7, <3>1 DEF HangFacts
      <3>6. Q[y][1] - 1 = e /\ BP_WIDTH * Q[y][2] + s = b
        BY <1>4, <1>5, <2>4, <3>1, <3>5
      <3>7. n \in DOMAIN m2.h
        BY <1>6, <3>1
      <3>. QED
        BY <1>7, <3>4, <3>6, <3>7
    <2>. QED
      BY <2>2, <2>3, <2>4
  <1>11. IsHeap(m2.h, Q)
    BY <1>2, <1>7, <1>9, <1>10 DEF IsHeap, Record
  <1>12. IsVec(m2.h, Q, m2.v)
    <2>1. CASE e = Lv(m.v)
      <3>1. m2.v.root = n /\ n \in DOMAIN m2.h /\ Q[n] = <<Lv(m.v), 0>>
        BY <1>1, <1>5, <1>6, <1>7, <2>1 DEF HangFacts, n
      <3>. QED
        BY <1>1, <1>3, <3>1 DEF HangFacts, IsVec
    <2>2. CASE e # Lv(m.v)
      <3>1. m2.v.root = m.v.root /\ m.v.root \in DOMAIN m2.h /\ Q[m.v.root] = <<Lv(m.v), 0>>
        <4>1. m2.v.root = m.v.root
          BY <1>1, <2>2 DEF HangFacts
        <4>2. m.v.root \in DOMAIN m.h /\ P[m.v.root] = <<Lv(m.v), 0>>
          BY <1>3 DEF IsVec
        <4>3. m.v.root \in DOMAIN m2.h
          BY <1>6, <4>2
        <4>. QED
          BY <1>7, <4>1, <4>2, <4>3
      <3>. QED
        BY <1>1, <1>3, <3>1 DEF HangFacts, IsVec
    <2>. QED
      BY <2>1, <2>2
  <1>. QED
    BY <1>2, <1>11, <1>12 DEF Fits, Q, n, b

\* the paths after a node was hung at height e on the path to i
HangWalks(m, m2, i, e, node) ==
  /\ \A j \in Room(m.v), f \in 0 .. Lv(m.v) :
       f > e \/ Blk(j, e + 1) # Blk(i, e + 1) => On(m2.h, m2.v, j, f) = On(m.h, m.v, j, f)
  /\ \A j \in Room(m.v) : Blk(j, e + 1) = Blk(i, e + 1) =>
       /\ On(m2.h, m2.v, j, e) = Len(m.h) + 1
       /\ e # 0 => On(m2.h, m2.v, j, e - 1) = node.slot[Blk(j, e) % BP_WIDTH]

\* the paths go on below the new node as they did below the one it replaces
HangBelow(m, m2, e) ==
  \A j \in Room(m.v), f \in 0 .. Lv(m.v) :
    f < e => On(m2.h, m2.v, j, f) = On(m.h, m.v, j, f)

(* The paths after a node was hung.                                        *)
LEMMA HangPaths ==
  ASSUME NEW m, NEW P, Fits(m, P), NEW i, NEW e, NEW node, MayHang(m, P, i, e, node),
         NEW m2, Hung(m, m2, i, e, node)
  PROVE  /\ HangWalks(m, m2, i, e, node)
         /\ On(m.h, m.v, i, e) # Null /\ node.slot = m.h[On(m.h, m.v, i, e)].slot
              => HangBelow(m, m2, e)
  <1>. DEFINE n == Len(m.h) + 1
              p == On(m.h, m.v, i, e + 1)
              L == Lv(m.v)
              h == m.h
              v == m.v
              h2 == m2.h
              v2 == m2.v
              x == On(m.h, m.v, i, e)
  <1>1. HangFacts(m, m2, P, i, e, node, n, p)
    BY HangKnown
  <1>2. \A y \in DOMAIN h : e = L \/ y # p => h2[y] = h[y]
    BY DEF Hung
  <1>3. /\ h \in Seq(Node) /\ v \in Vector /\ L \in Nat /\ v.shift = L * BP_BITS
        /\ IsHeap(h, P) /\ IsVec(h, P, v) /\ Null \notin DOMAIN h /\ Room(v) \subseteq Nat
    BY FitsFacts
  <1>4. i \in Nat /\ e \in 0 .. L /\ i \in Room(v) /\ e + 1 \in Nat /\ Blk(i, L + 1) = 0
    BY <1>3, RoomFacts DEF MayHang
  <1>5. /\ h2 \in Seq(Node) /\ v2 \in Vector /\ Lv(v2) = L /\ v2.shift = Lv(v2) * BP_BITS
        /\ n \in Nat /\ DOMAIN h2 = 1 .. n /\ DOMAIN h = 1 .. n - 1 /\ h2[n] = node
        /\ Null \notin DOMAIN h2
    BY <1>1, <1>3 DEF HangFacts, Null
  <1>6. /\ e # L => /\ p \in DOMAIN h /\ v2.root = v.root
                    /\ e + 1 \in 0 .. L
                    /\ P[p][1] = e + 1 /\ P[p][2] = Blk(i, e + 1 + 1)
                    /\ h2[p].slot = [h[p].slot EXCEPT ![Blk(i, e + 1) % BP_WIDTH] = n]
        /\ e = L => v2.root = n
    BY <1>1 DEF HangFacts
  <1>. Lv(v) = L
    OBVIOUS
  <1>. HIDE DEF h, v, h2, v2, n, p, L
  <1>7. ASSUME NEW j \in Room(v), NEW f \in 0 .. L, f # e + 1
        PROVE  Kept(h, h2, On(h, v, j, f))
    <2>. DEFINE y == On(h, v, j, f)
    <2>1. CASE y = Null
      BY <1>3, <1>5, <2>1 DEF Kept
    <2>2. CASE y # Null
      <3>1. y \in DOMAIN h /\ P[y][1] = f
        BY <1>3, <2>2, OnPlace
      <3>2. h2[y] = h[y]
        <4>1. e = L \/ y # p
          BY <1>6, <1>7, <3>1
        <4>. QED
          BY <1>2, <3>1, <4>1
      <3>3. y \in DOMAIN h2
        BY <1>5, <3>1
      <3>. QED
        BY <3>1, <3>2, <3>3 DEF Kept
    <2>. QED
      BY <2>1, <2>2
  <1>8. ASSUME NEW j \in Room(v), e # L
        PROVE  \A f \in e + 1 .. L : On(h2, v2, j, f) = On(h, v, j, f)
    <2>1. j \in Nat
      BY <1>3
    <2>2. On(h2, v2, j, L) = On(h, v, j, L)
      <3>1. On(h, v, j, Lv(v)) = v.root
        BY <1>3, <2>1, Path
      <3>2. On(h2, v2, j, Lv(v2)) = v2.root
        BY <1>5, <2>1, Path
      <3>. QED
        BY <1>5, <1>6, <1>8, <3>1, <3>2
    <2>. DEFINE q == e + 1
    <2>3. q \in 0 .. L /\ L \in 0 .. L
      BY <1>3, <1>6, <1>8
    <2>4. KeptOn(h, h2, v, j, q, L)
      <3>1. \A f \in q + 1 .. L : f \in 0 .. L /\ f # e + 1
        BY <1>3, <1>4
      <3>. QED
        BY <1>7, <3>1 DEF KeptOn
    <2>. HIDE DEF q
    <2>5. Meet(h, v, h2, v2, j, q, L)
      <3>1. L \in 0 .. Lv(v) /\ L <= Lv(v2) /\ q \in 0 .. L
        BY <1>3, <1>5, <2>3
      <3>2. v.shift = Lv(v) * BP_BITS
        BY <1>3
      <3>. QED
        BY <1>3, <1>5, <2>1, <2>2, <2>4, <3>1, <3>2, OnFrame
    <2>. QED
      BY <2>5 DEF Meet, q
  <1>9. ASSUME NEW j \in Room(v), Blk(j, e + 1) # Blk(i, e + 1)
        PROVE  \A f \in 0 .. e : On(h2, v2, j, f) = On(h, v, j, f)
    <2>1. j \in Nat /\ Blk(j, L + 1) = 0 /\ e # L
      BY <1>3, <1>4, <1>9, RoomFacts
    <2>. DEFINE y == On(h, v, j, e + 1)
                s == Blk(j, e + 1) % BP_WIDTH
                s0 == Blk(i, e + 1) % BP_WIDTH
    <2>2. On(h2, v2, j, e + 1) = y
      BY <1>6, <1>8, <2>1
    <2>3. On(h2, v2, j, e) = Child(h2, y, s) /\ On(h, v, j, e) = Child(h, y, s)
      <3>1. e \in 0 .. Lv(v) - 1 /\ e \in 0 .. Lv(v2) - 1 /\ v.shift = Lv(v) * BP_BITS
        BY <1>3, <1>4, <1>5, <2>1
      <3>. QED
        BY <1>3, <1>5, <2>1, <2>2, <3>1, Path
    <2>4. Child(h2, y, s) = Child(h, y, s)
      <3>1. CASE y = Null
        BY <1>3, <1>5, <3>1 DEF Child
      <3>2. CASE y # Null /\ y # p
        <4>1. y \in DOMAIN h
          BY <1>3, <1>6, <2>1, <3>2, OnPlace
        <4>2. y \in DOMAIN h2 /\ h2[y] = h[y]
          BY <1>2, <1>5, <3>2, <4>1
        <4>. QED
          BY <4>1, <4>2 DEF Child
      <3>3. CASE y # Null /\ y = p
        <4>1. P[y][2] = Blk(j, e + 1 + 1)
          BY <1>3, <1>6, <2>1, <3>3, OnPlace
        <4>2. Blk(j, e + 1 + 1) = Blk(i, e + 1 + 1)
          BY <1>6, <2>1, <3>3, <4>1
        <4>3. s # s0
          <5>1. /\ Blk(j, e + 1) = BP_WIDTH * Blk(j, e + 1 + 1) + s
                /\ Blk(i, e + 1) = BP_WIDTH * Blk(i, e + 1 + 1) + s0
            BY <1>4, <2>1, Blocks
          <5>. HIDE DEF s, s0
          <5>. QED
            BY <1>9, <4>2, <5>1
        <4>4. s \in Slot /\ s0 \in Slot
          BY <1>4, <2>1, Blocks
        <4>5. h[p].slot \in [Slot -> Int] /\ p \in DOMAIN h /\ p \in DOMAIN h2
          <5>1. p \in DOMAIN h
            BY <1>6, <2>1
          <5>2. h[p] \in Node
            BY <1>3, <5>1
          <5>. QED
            BY <1>5, <5>1, <5>2 DEF Node
        <4>6. h2[p].slot = [h[p].slot EXCEPT ![s0] = n]
          BY <1>6, <2>1
        <4>. HIDE DEF s, s0
        <4>7. h2[p].slot[s] = h[p].slot[s]
          BY <4>3, <4>4, <4>5, <4>6
        <4>. QED
          BY <3>3, <4>5, <4>7 DEF Child
      <3>. QED
        BY <3>1, <3>2, <3>3
    <2>5. KeptOn(h, h2, v, j, 0, e)
      <3>1. \A f \in 0 + 1 .. e : f \in 0 .. L /\ f # e + 1
        BY <1>3, <1>4
      <3>. QED
        BY <1>7, <3>1 DEF KeptOn
    <2>6. Meet(h, v, h2, v2, j, 0, e)
      <3>1. e \in 0 .. Lv(v) /\ e <= Lv(v2) /\ 0 \in 0 .. e /\ v.shift = Lv(v) * BP_BITS
        BY <1>3, <1>4, <1>5
      <3>2. On(h2, v2, j, e) = On(h, v, j, e)
        BY <2>3, <2>4
      <3>. QED
        BY <1>3, <1>5, <2>1, <2>5, <3>1, <3>2, OnFrame
    <2>. QED
      BY <2>6 DEF Meet
  <1>10. ASSUME NEW j \in Room(v), Blk(j, e + 1) = Blk(i, e + 1)
         PROVE  /\ On(h2, v2, j, e) = n
                /\ e # 0 => On(h2, v2, j, e - 1) = node.slot[Blk(j, e) % BP_WIDTH]
    <2>1. j \in Nat
      BY <1>3
    <2>2. On(h2, v2, j, e) = n
      <3>1. CASE e = L
        BY <1>5, <1>6, <2>1, <3>1, Path
      <3>2. CASE e # L
        <4>. DEFINE s0 == Blk(i, e + 1) % BP_WIDTH
        <4>1. Blk(j, e + 1 + 1) = Blk(i, e + 1 + 1)
          <5>1. e + 1 + 1 \in Nat /\ e + 1 <= e + 1 + 1
            BY <1>4
          <5>. QED
            BY <1>4, <1>10, <2>1, <5>1, BlocksNest
        <4>2. On(h, v, j, e + 1) = p
          <5>1. e + 1 \in 0 .. Lv(v) /\ p = On(h, v, i, e + 1)
            BY <1>6, <3>2 DEF L, p, h, v
          <5>. QED
            BY <1>3, <1>4, <2>1, <4>1, <5>1, OnSame
        <4>3. On(h2, v2, j, e + 1) = p
          BY <1>6, <1>8, <3>2, <4>2
        <4>4. On(h2, v2, j, e) = Child(h2, p, s0)
          <5>1. e \in 0 .. Lv(v2) - 1
            BY <1>3, <1>4, <1>5, <3>2
          <5>. QED
            BY <1>5, <1>10, <2>1, <4>3, <5>1, Path
        <4>5. h[p].slot \in [Slot -> Int] /\ p \in DOMAIN h /\ p \in DOMAIN h2
          <5>1. p \in DOMAIN h
            BY <1>6, <3>2
          <5>2. h[p] \in Node
            BY <1>3, <5>1
          <5>. QED
            BY <1>5, <5>1, <5>2 DEF Node
        <4>6. s0 \in Slot
          BY <1>4, Blocks
        <4>7. h2[p].slot = [h[p].slot EXCEPT ![s0] = n]
          BY <1>6, <3>2
        <4>. HIDE DEF s0
        <4>8. h2[p].slot[s0] = n
          BY <4>5, <4>6, <4>7
        <4>. QED
          BY <4>4, <4>5, <4>8 DEF Child
      <3>. QED
        BY <3>1, <3>2
    <2>3. ASSUME e # 0
          PROVE  On(h2, v2, j, e - 1) = node.slot[Blk(j, e) % BP_WIDTH]
      <3>. DEFINE r == e - 1
      <3>1. r \in 0 .. Lv(v2) - 1 /\ r + 1 = e
        BY <1>3, <1>4, <1>5, <2>3
      <3>. HIDE DEF r
      <3>2. On(h2, v2, j, r) = Child(h2, On(h2, v2, j, e), Blk(j, e) % BP_WIDTH)
        BY <1>5, <2>1, <3>1, Path
      <3>3. n \in DOMAIN h2
        <4>1. n # 0
          BY <1>3 DEF n, h
        <4>. QED
          BY <1>5, <4>1
      <3>. QED
        BY <1>5, <2>2, <3>2, <3>3 DEF Child, r
    <2>. QED
      BY <2>2, <2>3
  <1>11. HangWalks(m, m2, i, e, node)
    <2>1. ASSUME NEW j \in Room(v), NEW f \in 0 .. L, f > e \/ Blk(j, e + 1) # Blk(i, e + 1)
          PROVE  On(h2, v2, j, f) = On(h, v, j, f)
      <3>1. CASE f > e
        <4>1. e # L /\ f \in e + 1 .. L
          BY <1>3, <1>4, <3>1
        <4>. QED
          BY <1>8, <4>1
      <3>2. CASE ~(f > e)
        <4>1. f \in 0 .. e
          BY <1>3, <1>4, <3>2
        <4>. QED
          BY <1>9, <2>1, <3>2, <4>1
      <3>. QED
        BY <3>1, <3>2
    <2>. QED
      BY <1>10, <2>1 DEF HangWalks, h, v, h2, v2, n, L
  <1>12. ASSUME x # Null, node.slot = h[x].slot
         PROVE  HangBelow(m, m2, e)
    <2>1. ASSUME NEW j \in Room(v), NEW f \in 0 .. L, f < e
          PROVE  On(h2, v2, j, f) = On(h, v, j, f)
      <3>1. j \in Nat
        BY <1>3
      <3>. DEFINE r == e - 1
      <3>2. CASE Blk(j, e + 1) # Blk(i, e + 1)
        BY <1>4, <1>9, <2>1, <3>2
      <3>3. CASE Blk(j, e + 1) = Blk(i, e + 1)
        <4>1. /\ e # 0 /\ r \in 0 .. Lv(v) - 1 /\ r + 1 = e /\ r \in 0 .. Lv(v) /\ r <= Lv(v2)
              /\ f \in 0 .. r /\ r \in 0 .. L
          BY <1>3, <1>4, <1>5, <2>1
        <4>2. On(h, v, j, e) = x
          <5>1. x = On(h, v, i, e) /\ e \in 0 .. Lv(v)
            BY <1>4 DEF h, v, L
          <5>. QED
            BY <1>3, <1>4, <3>1, <3>3, <5>1, OnSame
        <4>3. x \in DOMAIN h
          <5>1. x = On(h, v, i, e) /\ e \in 0 .. Lv(v)
            BY <1>4 DEF h, v, L
          <5>. QED
            BY <1>3, <1>4, <1>12, <5>1, OnPlace
        <4>. HIDE DEF r, x
        <4>4. On(h, v, j, r) = Child(h, x, Blk(j, e) % BP_WIDTH)
          <5>1. v.shift = Lv(v) * BP_BITS
            BY <1>3
          <5>. QED
            BY <1>3, <3>1, <4>1, <4>2, <5>1, Path
        <4>5. On(h2, v2, j, r) = On(h, v, j, r)
          BY <1>10, <1>12, <3>3, <4>1, <4>3, <4>4 DEF Child, r
        <4>6. KeptOn(h, h2, v, j, 0, r)
          <5>1. \A g \in 0 + 1 .. r : g \in 0 .. L /\ g # e + 1
            BY <1>3, <1>4, <4>1
          <5>. QED
            BY <1>7, <5>1 DEF KeptOn
        <4>7. Meet(h, v, h2, v2, j, 0, r)
          <5>1. v.shift = Lv(v) * BP_BITS /\ 0 \in 0 .. r
            BY <1>3, <4>1
          <5>. QED
            BY <1>3, <1>5, <3>1, <4>1, <4>5, <4>6, <5>1, OnFrame
        <4>. QED
          BY <4>1, <4>7 DEF Meet
      <3>. QED
        BY <3>2, <3>3
    <2>. QED
      BY <2>1 DEF HangBelow, h, v, h2, v2, L
  <1>. QED
    BY <1>11, <1>12 DEF h

-----------------------------------------------------------------------------
(* Edits: operations on a vector that write nodes of its own and copy the  *)
(* others. A node is the vector's own when it is newer than n0, the heap   *)
(* before the program's operation, or when its id is in keep. The vectors  *)
(* in W are those whose nodes may be taken over.                           *)

\* the nodes a vector reaches
Nodes(h, v) == {On(h, v, j, e) : j \in Room(v), e \in 0 .. Lv(v)} \ {Null}

\* element j
Cell(h, v, j) == h[On(h, v, j, 0)].slot[j % BP_WIDTH]

\* node n may be written
Mine(h, n, n0, keep) == n > n0 \/ h[n].id \in keep

\* m2 is m after such an operation
Edits(m, P, m2, P2, n0, keep, W) ==
  /\ Fits(m2, P2) /\ (W = {} => m2.ub = m.ub)
  /\ m2.v = [m.v EXCEPT !.root = m2.v.root]
  /\ Len(m.h) <= Len(m2.h)
  /\ \A n \in DOMAIN m.h : P2[n] = P[n] /\ m2.h[n].id = m.h[n].id
  /\ \A n \in DOMAIN m.h : m2.h[n] # m.h[n] =>
       Mine(m.h, n, n0, keep) /\ (n \in Nodes(m.h, m.v) \/ \E w \in W : n \in Nodes(m.h, w))
  /\ \A n \in Len(m.h) + 1 .. Len(m2.h) : m2.h[n].id = m.v.id
  /\ \A j \in Room(m.v), e \in 0 .. Lv(m.v) :
       \/ On(m2.h, m2.v, j, e) = On(m.h, m.v, j, e)
       \/ On(m2.h, m2.v, j, e) > Len(m.h)
       \/ \E w \in W : On(m2.h, m2.v, j, e) = On(m.h, w, j, e)

\* the vectors in W have the shape of v and own no node of its
Elsewhere(h, P, v, n0, keep, W) ==
  \A w \in W : /\ IsVec(h, P, w) /\ Lv(w) = Lv(v)
               /\ \A n \in Nodes(h, w) : ~Mine(h, n, n0, keep)

\* all paths are the same in both heaps
SamePaths(h, v, h2, v2) ==
  \A j \in Room(v), e \in 0 .. Lv(v) : On(h2, v2, j, e) = On(h, v, j, e)

(* A vector whose nodes were not written has its old paths. *)
LEMMA Untouched ==
  ASSUME NEW h, NEW P, IsHeap(h, P), NEW v, IsVec(h, P, v), NEW h2 \in Seq(Node),
         Len(h) <= Len(h2), \A n \in Nodes(h, v) : h2[n] = h[n]
  PROVE  SamePaths(h, v, h2, v)
  <1>1. /\ h \in Seq(Node) /\ v \in Vector /\ Lv(v) \in Nat /\ v.shift = Lv(v) * BP_BITS
        /\ Room(v) \subseteq Nat /\ Len(h) \in Nat /\ DOMAIN h = 1 .. Len(h)
        /\ Len(h2) \in Nat /\ DOMAIN h2 = 1 .. Len(h2)
    BY Levels, RoomFacts DEF IsHeap, IsVec
  <1>2. ASSUME NEW j \in Room(v), NEW f \in 0 .. Lv(v)
        PROVE  Kept(h, h2, On(h, v, j, f))
    <2>. DEFINE y == On(h, v, j, f)
    <2>1. CASE y = Null
      BY <1>1, <2>1 DEF Kept, Null
    <2>2. CASE y # Null
      <3>1. y \in DOMAIN h
        BY <2>2, OnPlace
      <3>2. y \in Nodes(h, v)
        BY <2>2 DEF Nodes
      <3>. QED
        BY <1>1, <3>1, <3>2 DEF Kept
    <2>. QED
      BY <2>1, <2>2
  <1>3. ASSUME NEW j \in Room(v)
        PROVE  Meet(h, v, h2, v, j, 0, Lv(v))
    <2>. DEFINE L == Lv(v)
    <2>1. j \in Nat /\ L \in 0 .. Lv(v) /\ L <= Lv(v) /\ 0 \in 0 .. L
      BY <1>1
    <2>2. On(h, v, j, L) = v.root /\ On(h2, v, j, L) = v.root
      BY <1>1, <2>1, Path
    <2>3. KeptOn(h, h2, v, j, 0, L)
      <3>1. \A f \in 0 + 1 .. L : f \in 0 .. Lv(v)
        BY <1>1
      <3>. QED
        BY <1>2, <3>1 DEF KeptOn
    <2>. HIDE DEF L
    <2>4. Meet(h, v, h2, v, j, 0, L)
      BY <1>1, <2>1, <2>2, <2>3, OnFrame
    <2>. QED
      BY <2>4 DEF L
  <1>. QED
    BY <1>3 DEF SamePaths, Meet

(* The types after an edit.                                                *)
LEMMA EditsFacts ==
  ASSUME NEW m, NEW P, NEW m2, NEW P2, NEW n0, NEW keep, NEW W, Fits(m, P),
         Edits(m, P, m2, P2, n0, keep, W)
  PROVE  /\ Fits(m2, P2) /\ m2.h \in Seq(Node) /\ m2.v \in Vector
         /\ Lv(m2.v) = Lv(m.v) /\ Room(m2.v) = Room(m.v)
         /\ m2.v.sz = m.v.sz /\ m2.v.id = m.v.id /\ m2.v.kind = m.v.kind /\ m2.v.shift = m.v.shift
         /\ Len(m.h) \in Nat /\ Len(m2.h) \in Nat /\ Len(m.h) <= Len(m2.h)
         /\ DOMAIN m.h = 1 .. Len(m.h) /\ DOMAIN m2.h = 1 .. Len(m2.h)
  <1>1. m.v \in Vector /\ Len(m.h) \in Nat /\ DOMAIN m.h = 1 .. Len(m.h)
    BY FitsFacts
  <1>2. /\ Fits(m2, P2) /\ m2.v = [m.v EXCEPT !.root = m2.v.root]
        /\ Len(m.h) <= Len(m2.h)
    BY DEF Edits
  <1>3. m2.h \in Seq(Node) /\ m2.v \in Vector /\ Len(m2.h) \in Nat /\ DOMAIN m2.h = 1 .. Len(m2.h)
    BY <1>2, FitsFacts
  <1>4. /\ m2.v.sz = m.v.sz /\ m2.v.id = m.v.id /\ m2.v.kind = m.v.kind
        /\ m2.v.shift = m.v.shift
    BY <1>1, <1>2 DEF Vector
  <1>. QED
    BY <1>1, <1>2, <1>3, <1>4 DEF Lv, Room

(* Doing nothing is an edit.                                               *)
LEMMA EditsRefl ==
  ASSUME NEW m, NEW P, Fits(m, P), NEW n0, NEW keep, NEW W
  PROVE  Edits(m, P, m, P, n0, keep, W)
  <1>1. m.v \in Vector /\ Len(m.h) \in Nat
    BY FitsFacts
  <1>2. m.v = [m.v EXCEPT !.root = m.v.root]
    BY <1>1 DEF Vector
  <1>. QED
    BY <1>1, <1>2 DEF Edits

(* One edit after another is an edit. *)
LEMMA EditsTrans ==
  ASSUME NEW m, NEW P, Fits(m, P), NEW m1, NEW P1, NEW m2, NEW P2, NEW n0, NEW keep, NEW W,
         Elsewhere(m.h, P, m.v, n0, keep, W),
         Edits(m, P, m1, P1, n0, keep, W), Edits(m1, P1, m2, P2, n0, keep, W)
  PROVE  Edits(m, P, m2, P2, n0, keep, W)
  <1>1. /\ m.h \in Seq(Node) /\ m.v \in Vector /\ IsHeap(m.h, P) /\ IsVec(m.h, P, m.v)
        /\ Lv(m.v) \in Nat /\ Null \notin DOMAIN m.h
    BY FitsFacts
  <1>2. /\ Fits(m1, P1) /\ m1.h \in Seq(Node) /\ m1.v \in Vector
        /\ Lv(m1.v) = Lv(m.v) /\ Room(m1.v) = Room(m.v) /\ m1.v.id = m.v.id
        /\ Len(m.h) \in Nat /\ Len(m1.h) \in Nat /\ Len(m.h) <= Len(m1.h)
        /\ DOMAIN m.h = 1 .. Len(m.h) /\ DOMAIN m1.h = 1 .. Len(m1.h)
    BY EditsFacts
  <1>3. /\ Fits(m2, P2) /\ Len(m2.h) \in Nat /\ Len(m1.h) <= Len(m2.h)
        /\ DOMAIN m2.h = 1 .. Len(m2.h)
    BY <1>2, EditsFacts
  <1>4. ASSUME NEW w \in W
        PROVE  SamePaths(m.h, w, m1.h, w) /\ Lv(w) = Lv(m.v) /\ Room(w) = Room(m.v)
    <2>1. IsVec(m.h, P, w) /\ Lv(w) = Lv(m.v)
      BY DEF Elsewhere
    <2>2. ASSUME NEW n \in Nodes(m.h, w)
          PROVE  m1.h[n] = m.h[n]
      <3>1. ~Mine(m.h, n, n0, keep)
        BY DEF Elsewhere
      <3>2. n \in DOMAIN m.h
        BY <1>1, <2>1, OnPlace DEF Nodes
      <3>. QED
        BY <3>1, <3>2 DEF Edits
    <2>3. SamePaths(m.h, w, m1.h, w)
      BY <1>1, <1>2, <2>1, <2>2, Untouched
    <2>. QED
      BY <2>1, <2>3 DEF Room
  <1>5. m2.v = [m.v EXCEPT !.root = m2.v.root]
    <2>1. m1.v = [m.v EXCEPT !.root = m1.v.root] /\ m2.v = [m1.v EXCEPT !.root = m2.v.root]
      BY DEF Edits
    <2>. DEFINE r == m1.v.root
    <2>2. m1.v = [m.v EXCEPT !.root = r]
      BY <2>1
    <2>. HIDE DEF r
    <2>3. [m1.v EXCEPT !.root = m2.v.root] = [m.v EXCEPT !.root = m2.v.root]
      BY <1>1, <2>2 DEF Vector
    <2>. QED
      BY <2>1, <2>3
  <1>6. ASSUME NEW n \in DOMAIN m.h
        PROVE  P2[n] = P[n] /\ m2.h[n].id = m.h[n].id
    <2>1. n \in DOMAIN m1.h
      BY <1>2
    <2>. QED
      BY <2>1 DEF Edits
  <1>7. ASSUME NEW j \in Room(m.v), NEW e \in 0 .. Lv(m.v)
        PROVE  \/ On(m2.h, m2.v, j, e) = On(m.h, m.v, j, e)
               \/ On(m2.h, m2.v, j, e) > Len(m.h)
               \/ \E w \in W : On(m2.h, m2.v, j, e) = On(m.h, w, j, e)
    <2>1. \/ On(m1.h, m1.v, j, e) = On(m.h, m.v, j, e)
          \/ On(m1.h, m1.v, j, e) > Len(m.h)
          \/ \E w \in W : On(m1.h, m1.v, j, e) = On(m.h, w, j, e)
      BY DEF Edits
    <2>2. \/ On(m2.h, m2.v, j, e) = On(m1.h, m1.v, j, e)
          \/ On(m2.h, m2.v, j, e) > Len(m1.h)
          \/ \E w \in W : On(m2.h, m2.v, j, e) = On(m1.h, w, j, e)
      BY <1>2 DEF Edits
    <2>3. CASE On(m2.h, m2.v, j, e) = On(m1.h, m1.v, j, e)
      BY <2>1, <2>3
    <2>4. CASE On(m2.h, m2.v, j, e) > Len(m1.h)
      <3>1. On(m2.h, m2.v, j, e) \in Int
        <4>1. m2.v.shift = Lv(m2.v) * BP_BITS /\ m2.h \in Seq(Node) /\ m2.v \in Vector
          BY <1>3, FitsFacts
        <4>2. j \in Nat /\ e \in 0 .. Lv(m2.v)
          BY <1>1, <1>2, <1>3, EditsFacts, RoomFacts
        <4>. QED
          BY <4>1, <4>2, Path
      <3>. QED
        BY <1>2, <2>4, <3>1
    <2>5. CASE \E w \in W : On(m2.h, m2.v, j, e) = On(m1.h, w, j, e)
      BY <1>4, <2>5 DEF SamePaths
    <2>. QED
      BY <2>2, <2>3, <2>4, <2>5
  <1>8. ASSUME NEW n \in DOMAIN m.h, m2.h[n] # m.h[n]
        PROVE  Mine(m.h, n, n0, keep) /\ (n \in Nodes(m.h, m.v) \/ \E w \in W : n \in Nodes(m.h, w))
    <2>1. CASE m1.h[n] # m.h[n]
      BY <2>1 DEF Edits
    <2>2. CASE m1.h[n] = m.h[n]
      <3>1. n \in DOMAIN m1.h /\ m2.h[n] # m1.h[n]
        BY <1>2, <1>8, <2>2
      <3>2. Mine(m1.h, n, n0, keep) /\ (n \in Nodes(m1.h, m1.v) \/ \E w \in W : n \in Nodes(m1.h, w))
        BY <3>1 DEF Edits
      <3>3. Mine(m.h, n, n0, keep)
        BY <2>2, <3>2 DEF Mine
      <3>4. CASE n \in Nodes(m1.h, m1.v)
        <4>1. PICK j \in Room(m.v), e \in 0 .. Lv(m.v) : n = On(m1.h, m1.v, j, e)
          BY <1>2, <3>4 DEF Nodes
        <4>2. ~(n > Len(m.h)) /\ n # Null
          BY <1>1, <1>2
        <4>3. n = On(m.h, m.v, j, e) \/ \E w \in W : n = On(m.h, w, j, e)
          BY <4>1, <4>2 DEF Edits
        <4>. QED
          BY <1>4, <3>3, <4>2, <4>3 DEF Nodes
      <3>5. CASE \E w \in W : n \in Nodes(m1.h, w)
        <4>1. PICK w \in W : n \in Nodes(m1.h, w)
          BY <3>5
        <4>2. n \in Nodes(m.h, w)
          BY <1>4, <4>1 DEF Nodes, SamePaths
        <4>. QED
          BY <3>3, <4>2
      <3>. QED
        BY <3>2, <3>4, <3>5
    <2>. QED
      BY <2>1, <2>2
  <1>9. ASSUME NEW n \in Len(m.h) + 1 .. Len(m2.h)
        PROVE  m2.h[n].id = m.v.id
    <2>1. CASE n \in DOMAIN m1.h
      <3>1. n \in Len(m.h) + 1 .. Len(m1.h)
        BY <1>2, <2>1
      <3>. QED
        BY <2>1, <3>1 DEF Edits
    <2>2. CASE n \notin DOMAIN m1.h
      <3>1. n \in Len(m1.h) + 1 .. Len(m2.h)
        BY <1>2, <1>3, <2>2
      <3>. QED
        BY <1>2, <3>1 DEF Edits
    <2>. QED
      BY <2>1, <2>2
  <1>10. (W = {} => m2.ub = m.ub) /\ Len(m.h) <= Len(m2.h)
    BY <1>2, <1>3 DEF Edits
  <1>. QED
    BY <1>3, <1>5, <1>6, <1>7, <1>8, <1>9, <1>10 DEF Edits

(* operator[] reads the slot at the end of a path.                         *)
LEMMA ReadIs ==
  ASSUME NEW m, m.v \in Vector, NEW j \in Nat
  PROVE  Read(m, j) = Cell(m.h, m.v, j)
  <1>1. Leaf(m) = Lv(m.v) /\ Lv(m.v) - 0 = Lv(m.v)
    BY Levels DEF Leaf
  <1>2. Digit(j, 0) = j % BP_WIDTH
    <2>1. 0 * BP_BITS = 0 /\ 0 \in Nat
      OBVIOUS
    <2>. QED
      BY <2>1, Blocks
  <1>. QED
    BY <1>1, <1>2 DEF Read, Cell, On

(* An edit that takes over nothing is one that could.                      *)
LEMMA EditsWiden ==
  ASSUME NEW m, NEW P, NEW m2, NEW P2, NEW n0, NEW keep, NEW W,
         Edits(m, P, m2, P2, n0, keep, {})
  PROVE  Edits(m, P, m2, P2, n0, keep, W)
  BY DEF Edits

\* every element that has a leaf keeps its value
SameCells(m, m2) ==
  \A j \in Room(m.v) : On(m.h, m.v, j, 0) # Null =>
    Cell(m2.h, m2.v, j) = Cell(m.h, m.v, j)

(* An edit loses no node of a path. *)
LEMMA EditsKeep ==
  ASSUME NEW m, NEW P, Fits(m, P), NEW m2, NEW P2, NEW n0, NEW keep,
         Edits(m, P, m2, P2, n0, keep, {}), NEW j \in Room(m.v), NEW e \in 0 .. Lv(m.v),
         On(m.h, m.v, j, e) # Null
  PROVE  On(m2.h, m2.v, j, e) # Null
  BY FitsFacts DEF Edits, Null

\* the node of height e on the path to i is the vector's own, and nothing else changed
OwnsNode(m, P, m2, i, e, n0, keep) ==
  /\ \E P2 : Edits(m, P, m2, P2, n0, keep, {})
  /\ SameCells(m, m2)
  /\ Mine(m2.h, On(m2.h, m2.v, i, e), n0, keep)
  /\ \A f \in 0 .. Lv(m.v) : f > e => On(m2.h, m2.v, i, f) = On(m.h, m.v, i, f)
  /\ \A n \in DOMAIN m.h : m2.h[n] # m.h[n] =>
       e # Lv(m.v) /\ n = On(m.h, m.v, i, e + 1)

(* OwnNode makes one node of a path the vector's own.                      *)
LEMMA OwnNodeIs ==
  ASSUME NEW m, NEW P, Fits(m, P), NEW n0 \in Nat, n0 <= Len(m.h), NEW keep,
         NEW i \in Room(m.v), NEW e \in 0 .. Lv(m.v), On(m.h, m.v, i, e) # Null,
         e # Lv(m.v) => Mine(m.h, On(m.h, m.v, i, e + 1), n0, keep),
         NEW k, k = Lv(m.v) - e, NEW m2, m2 = OwnNode(m, i, k, keep)
  PROVE  OwnsNode(m, P, m2, i, e, n0, keep)
  <1>. DEFINE L == Lv(m.v)
              x == On(m.h, m.v, i, e)
              node == [m.h[x] EXCEPT !.id = m.v.id]
              n == Len(m.h) + 1
              p == On(m.h, m.v, i, e + 1)
  <1>1. /\ m \in Record /\ m.h \in Seq(Node) /\ m.v \in Vector /\ L \in Nat
        /\ IsHeap(m.h, P) /\ IsVec(m.h, P, m.v) /\ Null \notin DOMAIN m.h
        /\ DOMAIN m.h = 1 .. Len(m.h) /\ Len(m.h) \in Nat /\ Room(m.v) \subseteq Nat
    BY FitsFacts
  <1>2. x \in DOMAIN m.h /\ P[x] = <<e, Blk(i, e + 1)>> /\ P[x][1] = e /\ P[x][2] = Blk(i, e + 1)
    BY <1>1, OnPlace
  <1>3. Walk(m.h, m.v, i, L - e) = x
    BY DEF On
  <1>4. CASE m.h[x].id \in keep
    <2>1. m2 = m
      BY <1>3, <1>4 DEF OwnNode
    <2>. QED
      BY <2>1, <1>4, EditsRefl DEF OwnsNode, SameCells, Mine
  <1>5. CASE m.h[x].id \notin keep
    <2>1. m2 = Hang(m, i, L - e, node)
      BY <1>3, <1>5 DEF OwnNode
    <2>2. m.h[x] \in Node
      BY <1>1, <1>2
    <2>3. /\ node \in Node /\ node.type = m.h[x].type /\ node.slot = m.h[x].slot
          /\ node.id = m.v.id
      <3>1. m.v.id \in Int
        BY <1>1 DEF Vector
      <3>. DEFINE nx == m.h[x]
                  id == m.v.id
      <3>2. nx \in Node /\ id \in Int
        BY <2>2, <3>1
      <3>. HIDE DEF nx, id, x
      <3>3. nx \in [type : {"branches", "leaves"}, id : Int, slot : [Slot -> Int]]
        BY <3>2 DEF Node
      <3>. DEFINE ny == [nx EXCEPT !.id = id]
      <3>4. ny \in [type : {"branches", "leaves"}, id : Int, slot : [Slot -> Int]]
            /\ ny.type = nx.type /\ ny.slot = nx.slot /\ ny.id = id
        BY <3>2, <3>3
      <3>. HIDE DEF ny
      <3>5. ny \in Node
        BY <3>4 DEF Node
      <3>6. node = ny
        BY DEF ny, nx, id
      <3>. QED
        BY <3>4, <3>5, <3>6 DEF nx, id
    <2>4. NodeFits(m.h, P, node, e, Blk(i, e + 1))
      <3>. HIDE DEF node
      <3>. QED
        BY <1>1, <1>2, <2>3 DEF NodeFits, IsHeap
    <2>5. e # L => p # Null /\ p \in DOMAIN m.h
      <3>. SUFFICES ASSUME e # L
                    PROVE  p # Null /\ p \in DOMAIN m.h
        OBVIOUS
      <3>1. e + 1 \in e .. L /\ e + 1 \in 0 .. L /\ i \in Nat
        BY <1>1
      <3>2. p # Null
        BY <1>1, <3>1, OnAbove
      <3>. QED
        BY <1>1, <3>1, <3>2, OnPlace
    <2>. HIDE DEF node
    <2>6. MayHang(m, P, i, e, node)
      BY <2>4, <2>5 DEF MayHang
    <2>7. Hung(m, m2, i, e, node)
      BY <2>1, <2>3, <2>5, HangIs
    <2>. DEFINE P2 == Grafted(P, n, e, Blk(i, e + 1))
    <2>8. Fits(m2, P2)
      BY <2>6, <2>7, HangFits
    <2>9. HangWalks(m, m2, i, e, node) /\ HangBelow(m, m2, e)
      BY <1>1, <2>3, <2>6, <2>7, HangPaths
    <2>10. HangFacts(m, m2, P, i, e, node, n, p)
      BY <2>6, <2>7, HangKnown
    <2>11. /\ n \in Nat /\ DOMAIN m2.h = 1 .. n /\ Len(m2.h) = n /\ m2.h[n] = node
           /\ m2.ub = m.ub
           /\ m2.v = [m.v EXCEPT !.root = IF e = L THEN n ELSE @]
           /\ \A y \in DOMAIN m.h : m2.h[y].id = m.h[y].id
           /\ \A y \in DOMAIN m.h : e = L \/ y # p => m2.h[y] = m.h[y]
      BY <2>7, <2>10 DEF Hung, HangFacts
    <2>12. m2.v = [m.v EXCEPT !.root = m2.v.root]
      <3>1. m2.v.root = IF e = L THEN n ELSE m.v.root
        BY <1>1, <2>11 DEF Vector
      <3>. QED
        BY <1>1, <2>11, <3>1 DEF Vector
    <2>13. ASSUME NEW y \in DOMAIN m.h
           PROVE  P2[y] = P[y]
      BY <1>1 DEF Grafted
    <2>14. ASSUME NEW y \in DOMAIN m.h, m2.h[y] # m.h[y]
           PROVE  Mine(m.h, y, n0, keep) /\ y \in Nodes(m.h, m.v) /\ e # L /\ y = p
      <3>1. e # L /\ y = p
        BY <2>11, <2>14
      <3>2. e + 1 \in 0 .. L
        BY <1>1, <3>1
      <3>. QED
        BY <2>5, <3>1, <3>2 DEF Nodes
    <2>15. ASSUME NEW j \in Room(m.v), NEW f \in 0 .. L
           PROVE  On(m2.h, m2.v, j, f) = On(m.h, m.v, j, f)
                  \/ (f = e /\ Blk(j, e + 1) = Blk(i, e + 1) /\ On(m2.h, m2.v, j, f) = n)
      <3>1. CASE f > e \/ Blk(j, e + 1) # Blk(i, e + 1)
        BY <2>9, <3>1 DEF HangWalks
      <3>2. CASE f < e
        BY <2>9, <3>2 DEF HangBelow
      <3>3. CASE f = e /\ Blk(j, e + 1) = Blk(i, e + 1)
        BY <2>9, <3>3 DEF HangWalks
      <3>. QED
        BY <1>1, <3>1, <3>2, <3>3
    <2>16. n > Len(m.h) /\ n > n0
      BY <1>1
    <2>17. Edits(m, P, m2, P2, n0, keep, {})
      <3>1. \A y \in Len(m.h) + 1 .. Len(m2.h) : m2.h[y].id = m.v.id
        BY <1>1, <2>3, <2>11
      <3>2. Len(m.h) <= Len(m2.h)
        BY <1>1, <2>11
      <3>3. ASSUME NEW j \in Room(m.v), NEW f \in 0 .. L
            PROVE  On(m2.h, m2.v, j, f) = On(m.h, m.v, j, f) \/ On(m2.h, m2.v, j, f) > Len(m.h)
        BY <2>15, <2>16
      <3>. HIDE DEF P2, n
      <3>. QED
        BY <2>8, <2>11, <2>12, <2>13, <2>14, <3>1, <3>2, <3>3 DEF Edits
    <2>18. SameCells(m, m2)
      <3>1. ASSUME NEW j \in Room(m.v), On(m.h, m.v, j, 0) # Null
            PROVE  m2.h[On(m2.h, m2.v, j, 0)].slot = m.h[On(m.h, m.v, j, 0)].slot
        <4>. DEFINE y == On(m.h, m.v, j, 0)
        <4>1. 0 \in 0 .. L /\ j \in Nat
          BY <1>1
        <4>2. y \in DOMAIN m.h /\ P[y][1] = 0
          BY <1>1, <3>1, <4>1, OnPlace
        <4>3. CASE On(m2.h, m2.v, j, 0) = y
          <5>1. e = L \/ y # p
            <6>1. e # L => P[p][1] = e + 1
              BY <2>10 DEF HangFacts
            <6>. QED
              BY <1>1, <4>2, <6>1
          <5>. QED
            BY <2>11, <4>2, <4>3, <5>1
        <4>4. CASE 0 = e /\ Blk(j, e + 1) = Blk(i, e + 1) /\ On(m2.h, m2.v, j, 0) = n
          <5>1. y = x
            BY <1>1, <4>1, <4>4, OnSame
          <5>. QED
            BY <2>3, <2>11, <4>4, <5>1
        <4>. QED
          BY <2>15, <4>1, <4>3, <4>4
      <3>. QED
        BY <3>1 DEF SameCells, Cell
    <2>19. On(m2.h, m2.v, i, e) = n
      BY <2>9 DEF HangWalks
    <2>20. \A f \in 0 .. L : f > e => On(m2.h, m2.v, i, f) = On(m.h, m.v, i, f)
      BY <2>9 DEF HangWalks
    <2>. HIDE DEF P2, n
    <2>. QED
      BY <2>14, <2>16, <2>17, <2>18, <2>19, <2>20 DEF OwnsNode, Mine
  <1>. QED
    BY <1>4, <1>5

\* the nodes of the heights from e up on the path to i are the vector's own
Owned(m, P, m2, i, e, n0, keep) ==
  /\ m2 \in Record
  /\ \E P2 : Edits(m, P, m2, P2, n0, keep, {})
  /\ SameCells(m, m2)
  /\ \A f \in 0 .. Lv(m.v) : f >= e => Mine(m2.h, On(m2.h, m2.v, i, f), n0, keep)
  /\ \A n \in DOMAIN m.h : m2.h[n] # m.h[n] =>
       \E f \in 0 .. Lv(m.v) :
         f > e /\ n = On(m.h, m.v, i, f) /\ n = On(m2.h, m2.v, i, f)

(* Keeping every element is transitive.                                    *)
LEMMA SameCellsTrans ==
  ASSUME NEW m, NEW P, Fits(m, P), NEW m1, NEW P1, NEW n0, NEW keep,
         Edits(m, P, m1, P1, n0, keep, {}), SameCells(m, m1),
         NEW m2, SameCells(m1, m2)
  PROVE  SameCells(m, m2)
  <1>1. Room(m1.v) = Room(m.v) /\ Lv(m.v) \in Nat
    BY EditsFacts, FitsFacts
  <1>2. ASSUME NEW j \in Room(m.v), On(m.h, m.v, j, 0) # Null
        PROVE  Cell(m2.h, m2.v, j) = Cell(m.h, m.v, j)
    <2>1. On(m1.h, m1.v, j, 0) # Null
      <3>1. 0 \in 0 .. Lv(m.v)
        BY <1>1
      <3>. QED
        BY <1>2, <3>1, EditsKeep
    <2>2. Cell(m1.h, m1.v, j) = Cell(m.h, m.v, j)
      BY <1>2 DEF SameCells
    <2>3. Cell(m2.h, m2.v, j) = Cell(m1.h, m1.v, j)
      BY <1>1, <2>1 DEF SameCells
    <2>. QED
      BY <2>2, <2>3
  <1>. QED
    BY <1>2 DEF SameCells

(* The first node of a path becomes the vector's own.                      *)
LEMMA OwnFirst ==
  ASSUME NEW m, NEW P, Fits(m, P), NEW n0 \in Nat, n0 <= Len(m.h), NEW keep,
         NEW i \in Room(m.v), NEW m2, m2 = OwnNode(m, i, 0, keep)
  PROVE  Owned(m, P, m2, i, Lv(m.v), n0, keep)
  <1>. DEFINE L == Lv(m.v)
  <1>1. L \in Nat /\ L \in 0 .. L /\ 0 = L - L /\ i \in Nat /\ m.v.root # Null
    BY FitsFacts DEF IsVec
  <1>2. On(m.h, m.v, i, L) # Null
    <2>1. m.h \in Seq(Node) /\ m.v \in Vector /\ m.v.shift = Lv(m.v) * BP_BITS
      BY FitsFacts
    <2>2. On(m.h, m.v, i, Lv(m.v)) = m.v.root
      BY <1>1, <2>1, Path
    <2>. QED
      BY <1>1, <2>2
  <1>3. OwnsNode(m, P, m2, i, L, n0, keep)
    <2>. DEFINE k == L - L
    <2>1. k = L - L /\ m2 = OwnNode(m, i, k, keep)
      BY <1>1
    <2>. HIDE DEF k
    <2>. QED
      BY <1>1, <1>2, <2>1, OwnNodeIs
  <1>4. m2 \in Record
    BY <1>3, EditsFacts DEF OwnsNode, Fits
  <1>5. \A f \in 0 .. L : f >= L => f = L
    BY <1>1
  <1>. HIDE DEF L
  <1>. QED
    BY <1>3, <1>4, <1>5 DEF Owned, OwnsNode, L

(* Then the next one does.                                                 *)
LEMMA OwnNext ==
  ASSUME NEW m, NEW P, Fits(m, P), NEW n0 \in Nat, n0 <= Len(m.h), NEW keep,
         NEW i \in Room(m.v), NEW e \in 0 .. Lv(m.v), e # Lv(m.v), On(m.h, m.v, i, e) # Null,
         NEW x, Owned(m, P, x, i, e + 1, n0, keep),
         NEW k, k = Lv(m.v) - e, NEW m2, m2 = OwnNode(x, i, k, keep)
  PROVE  Owned(m, P, m2, i, e, n0, keep)
  <1>. DEFINE L == Lv(m.v)
  <1>1. PICK P1 : Edits(m, P, x, P1, n0, keep, {})
    BY DEF Owned
  <1>2. /\ Fits(x, P1) /\ Lv(x.v) = L /\ Room(x.v) = Room(m.v) /\ Len(m.h) <= Len(x.h)
        /\ Len(m.h) \in Nat /\ Len(x.h) \in Nat /\ DOMAIN m.h = 1 .. Len(m.h)
        /\ DOMAIN x.h = 1 .. Len(x.h)
        /\ L \in Nat /\ e + 1 \in 0 .. L
    BY <1>1, EditsFacts, FitsFacts
  <1>3. On(x.h, x.v, i, e) # Null
    BY <1>1, EditsKeep
  <1>4. Mine(x.h, On(x.h, x.v, i, e + 1), n0, keep)
    BY <1>2 DEF Owned
  <1>5. OwnsNode(x, P1, m2, i, e, n0, keep)
    <2>1. /\ n0 <= Len(x.h) /\ i \in Room(x.v) /\ e \in 0 .. Lv(x.v) /\ k = Lv(x.v) - e
          /\ Fits(x, P1)
      BY <1>2
    <2>. HIDE DEF L
    <2>. QED
      BY <1>3, <1>4, <2>1, OwnNodeIs
  <1>6. PICK P2 : Edits(x, P1, m2, P2, n0, keep, {})
    BY <1>5 DEF OwnsNode
  <1>7. Edits(m, P, m2, P2, n0, keep, {})
    BY <1>1, <1>6, EditsTrans DEF Elsewhere
  <1>8. SameCells(m, m2)
    BY <1>1, <1>5, SameCellsTrans DEF Owned, OwnsNode
  <1>9. m2 \in Record
    BY <1>6 DEF Edits, Fits
  <1>10. \A f \in 0 .. L : f > e => On(m2.h, m2.v, i, f) = On(x.h, x.v, i, f)
    BY <1>2, <1>5 DEF OwnsNode
  <1>11. ASSUME NEW f \in 0 .. L, f >= e
         PROVE  Mine(m2.h, On(m2.h, m2.v, i, f), n0, keep)
    <2>1. CASE f = e
      BY <1>5, <2>1 DEF OwnsNode
    <2>2. CASE f # e
      <3>. DEFINE y == On(x.h, x.v, i, f)
      <3>1. f > e /\ f >= e + 1
        BY <1>2, <1>11, <2>2
      <3>2. Mine(x.h, y, n0, keep)
        BY <3>1 DEF Owned
      <3>3. y # Null
        <4>1. f \in e .. Lv(x.v) /\ i \in Nat
          BY <1>2, <1>11, FitsFacts
        <4>. QED
          BY <1>2, <1>3, <4>1, OnAbove, FitsFacts
      <3>4. y \in DOMAIN x.h
        BY <1>2, <3>3, OnPlace, FitsFacts
      <3>5. m2.h[y].id = x.h[y].id
        BY <1>6, <3>4 DEF Edits
      <3>. QED
        BY <1>10, <3>1, <3>2, <3>5 DEF Mine
    <2>. QED
      BY <2>1, <2>2
  <1>12. ASSUME NEW n \in DOMAIN m.h, m2.h[n] # m.h[n]
         PROVE  \E f \in 0 .. L :
                  f > e /\ n = On(m.h, m.v, i, f) /\ n = On(m2.h, m2.v, i, f)
    <2>1. CASE x.h[n] # m.h[n]
      <3>1. PICK f \in 0 .. L : f > e + 1 /\ n = On(m.h, m.v, i, f) /\ n = On(x.h, x.v, i, f)
        BY <2>1 DEF Owned
      <3>2. f > e
        BY <1>2, <3>1
      <3>. QED
        BY <1>10, <3>1, <3>2
    <2>2. CASE x.h[n] = m.h[n]
      <3>1. n \in DOMAIN x.h /\ n <= Len(m.h)
        BY <1>2
      <3>2. n = On(x.h, x.v, i, e + 1)
        BY <1>12, <2>2, <3>1, <1>5 DEF OwnsNode
      <3>3. n = On(m.h, m.v, i, e + 1)
        <4>1. On(x.h, x.v, i, e + 1) = On(m.h, m.v, i, e + 1) \/ On(x.h, x.v, i, e + 1) > Len(m.h)
          BY <1>1, <1>2 DEF Edits
        <4>. QED
          BY <1>2, <3>1, <3>2, <4>1
      <3>4. e + 1 > e
        BY <1>2
      <3>. QED
        BY <1>2, <1>10, <3>2, <3>3, <3>4
    <2>. QED
      BY <2>1, <2>2
  <1>. QED
    BY <1>7, <1>8, <1>9, <1>11, <1>12 DEF Owned

(* Own: the path to i, down to a node that is there, becomes the vector's own. *)
LEMMA OwnIs ==
  ASSUME NEW m, NEW P, Fits(m, P), NEW n0 \in Nat, n0 <= Len(m.h), NEW keep,
         NEW i \in Room(m.v), NEW e \in 0 .. Lv(m.v), On(m.h, m.v, i, e) # Null,
         NEW d, d = Lv(m.v) - e
  PROVE  Owned(m, P, Own(m, i, d, keep), i, e, n0, keep)
  <1>. DEFINE L == Lv(m.v)
              Good(x, k) == k \in 0 .. d /\ Owned(m, P, x, i, L - k, n0, keep)
              NextOf(k, x) == IF k \in 1 .. d /\ Good(x, k - 1) THEN OwnNode(x, i, k, keep) ELSE x
              g == [k \in Nat |-> [x \in Record |-> NextOf(k, x)]]
              z == OwnNode(m, i, 0, keep)
  <1>1. /\ L \in Nat /\ d \in Nat /\ d <= L /\ Fits(m, P) /\ i \in Nat
        /\ e = L - d
    BY FitsFacts
  <1>2. Good(z, 0)
    <2>1. Owned(m, P, z, i, L, n0, keep)
      BY OwnFirst
    <2>2. L - 0 = L /\ 0 \in 0 .. d
      BY <1>1
    <2>. QED
      BY <2>1, <2>2
  <1>3. ASSUME NEW k \in 1 .. d, NEW x, Good(x, k - 1)
        PROVE  Good(OwnNode(x, i, k, keep), k)
    <2>. DEFINE f == L - k
    <2>1. f \in 0 .. L /\ f # L /\ k = L - f /\ L - (k - 1) = f + 1 /\ k \in 0 .. d
      BY <1>1
    <2>2. On(m.h, m.v, i, f) # Null
      <3>1. f \in e .. L
        BY <1>1, <2>1
      <3>. QED
        BY <1>1, <3>1, OnAbove, FitsFacts
    <2>3. Owned(m, P, x, i, f + 1, n0, keep)
      BY <1>3, <2>1
    <2>. HIDE DEF f
    <2>4. Owned(m, P, OwnNode(x, i, k, keep), i, f, n0, keep)
      BY <2>1, <2>2, <2>3, OwnNext
    <2>. QED
      BY <2>1, <2>4 DEF f
  <1>4. \A x, k : Good(x, k) => x \in Record
    BY DEF Owned
  <1>. HIDE DEF Good
  <1>5. g \in [Nat -> [Record -> Record]]
    <2>1. ASSUME NEW k \in Nat, NEW x \in Record
          PROVE  NextOf(k, x) \in Record
      <3>1. CASE k \in 1 .. d /\ Good(x, k - 1)
        <4>1. Good(OwnNode(x, i, k, keep), k)
          BY <3>1, <1>3
        <4>. QED
          BY <3>1, <4>1, <1>4
      <3>. QED
        BY <3>1
    <2>. HIDE DEF NextOf
    <2>. QED
      BY <2>1
  <1>6. z \in Record
    BY <1>2, <1>4
  <1>. HIDE DEF z, g
  <1>7. PICK q : Iteration(q, Record, z, g)
    BY <1>5, <1>6, Iterate
  <1>8. /\ q[0] = z
        /\ \A k \in Nat : q[k] \in Record
        /\ \A k \in Nat : q[k + 1] = NextOf(k + 1, q[k])
    <2>1. \A k \in Nat : k + 1 \in Nat
      OBVIOUS
    <2>2. \A k \in Nat : g[k] = [x \in Record |-> NextOf(k, x)]
      BY DEF g
    <2>. HIDE DEF NextOf
    <2>3. /\ q[0] = z /\ q \in [Nat -> Record]
          /\ \A k \in Nat : q[k + 1] = g[k + 1][q[k]]
      BY <1>7 DEF Iteration
    <2>4. \A k \in Nat : q[k] \in Record
      BY <2>3
    <2>5. ASSUME NEW k \in Nat
          PROVE  q[k + 1] = NextOf(k + 1, q[k])
      <3>1. q[k + 1] = g[k + 1][q[k]] /\ g[k + 1] = [x \in Record |-> NextOf(k + 1, x)]
        BY <2>1, <2>2, <2>3
      <3>2. q[k] \in Record
        BY <2>4
      <3>. QED
        BY <3>1, <3>2
    <2>. QED
      BY <2>3, <2>4, <2>5
  <1>. HIDE DEF NextOf
  <1>9. \A k \in Nat : k <= d => Good(q[k], k)
    <2>. DEFINE Bad == {k \in Nat : k <= d /\ ~Good(q[k], k)}
    <2>1. SUFFICES ASSUME Bad # {} PROVE FALSE
      OBVIOUS
    <2>2. PICK k \in Bad : \A y \in Bad : k <= y
      <3>1. Bad \subseteq Nat
        OBVIOUS
      <3>. HIDE DEF Bad
      <3>. QED
        BY <2>1, <3>1, LeastNumber
    <2>3. k \in Nat /\ k <= d /\ ~Good(q[k], k)
      OBVIOUS
    <2>4. k # 0
      BY <1>2, <1>8, <2>3
    <2>5. k - 1 \in Nat /\ k - 1 <= d /\ k - 1 < k /\ k = (k - 1) + 1 /\ k \in 1 .. d
      BY <1>1, <2>3, <2>4
    <2>6. k - 1 \notin Bad
      <3>. HIDE DEF Bad
      <3>. QED
        BY <2>2, <2>3, <2>5
    <2>7. Good(q[k-1], k - 1)
      BY <2>5, <2>6
    <2>8. q[k] = NextOf(k, q[k-1])
      BY <1>8, <2>5
    <2>9. q[k] = OwnNode(q[k-1], i, k, keep)
      BY <2>5, <2>7, <2>8 DEF NextOf
    <2>. QED
      BY <1>3, <2>3, <2>5, <2>7, <2>9
  <1>. DEFINE Defines(f) == f = [k \in 0 .. d |-> OwnNode(IF k = 0 THEN m ELSE f[k-1], i, k, keep)]
              path == CHOOSE f : Defines(f)
              r == [k \in 0 .. d |-> q[k]]
  <1>10. Defines(r)
    <2>1. ASSUME NEW k \in 0 .. d
          PROVE  q[k] = OwnNode(IF k = 0 THEN m ELSE r[k-1], i, k, keep)
      <3>1. CASE k = 0
        BY <3>1, <1>8 DEF z
      <3>2. CASE k # 0
        <4>1. k - 1 \in Nat /\ k - 1 <= d /\ k = (k - 1) + 1 /\ k \in 1 .. d /\ k - 1 \in 0 .. d
          BY <1>1, <3>2
        <4>2. q[k] = NextOf(k, q[k-1])
          BY <1>8, <4>1
        <4>3. Good(q[k-1], k - 1)
          BY <1>9, <4>1
        <4>4. r[k-1] = q[k-1]
          BY <4>1
        <4>5. q[k] = OwnNode(q[k-1], i, k, keep)
          BY <4>1, <4>2, <4>3 DEF NextOf
        <4>. QED
          BY <3>2, <4>4, <4>5
      <3>. QED
        BY <3>1, <3>2
    <2>. QED
      BY <2>1, Zenon
  <1>11. Defines(path)
    <2>. HIDE DEF Defines
    <2>. QED
      BY <1>10, Zenon
  <1>12. Own(m, i, d, keep) = path[d]
    BY DEF Own
  <1>13. \A k \in Nat : k <= d => path[k] = q[k]
    <2>1. \A k \in 0 .. d : path[k] = OwnNode(IF k = 0 THEN m ELSE path[k-1], i, k, keep)
      BY <1>11, Zenon
    <2>2. \A k \in 0 .. d : r[k] = OwnNode(IF k = 0 THEN m ELSE r[k-1], i, k, keep)
      BY <1>10, Zenon
    <2>. HIDE DEF path, r
    <2>. DEFINE Bad == {k \in Nat : k <= d /\ path[k] # r[k]}
    <2>3. ASSUME Bad # {} PROVE FALSE
      <3>1. PICK k \in Bad : \A y \in Bad : k <= y
        <4>1. Bad \subseteq Nat
          OBVIOUS
        <4>. HIDE DEF Bad
        <4>. QED
          BY <2>3, <4>1, LeastNumber
      <3>2. k \in Nat /\ k <= d /\ path[k] # r[k] /\ k \in 0 .. d
        BY <1>1
      <3>3. CASE k = 0
        BY <3>2, <3>3, <2>1, <2>2
      <3>4. CASE k # 0
        <4>1. k - 1 \in Nat /\ k - 1 <= d /\ k - 1 < k
          BY <1>1, <3>2, <3>4
        <4>2. k - 1 \notin Bad
          <5>. HIDE DEF Bad
          <5>. QED
            BY <3>1, <3>2, <4>1
        <4>3. path[k-1] = r[k-1]
          BY <4>1, <4>2
        <4>. QED
          BY <3>2, <3>4, <4>3, <2>1, <2>2
      <3>. QED
        BY <3>3, <3>4
    <2>4. \A k \in Nat : k <= d => path[k] = r[k]
      BY <2>3
    <2>. QED
      BY <1>1, <2>4 DEF r
  <1>14. Good(path[d], d)
    BY <1>1, <1>9, <1>13
  <1>. HIDE DEF path
  <1>. QED
    BY <1>1, <1>12, <1>14 DEF Good

(* What holds of 0 and of the successors up to d holds up to d. *)
LEMMA Induct ==
  ASSUME NEW d \in Nat, NEW T, 0 \in T, \A k \in 1 .. d : k - 1 \in T => k \in T
  PROVE  \A k \in 0 .. d : k \in T
  <1>. DEFINE Bad == {k \in Nat : k <= d /\ k \notin T}
  <1>1. ASSUME Bad # {} PROVE FALSE
    <2>1. PICK k \in Bad : \A y \in Bad : k <= y
      <3>1. Bad \subseteq Nat
        OBVIOUS
      <3>. HIDE DEF Bad
      <3>. QED
        BY <1>1, <3>1, LeastNumber
    <2>2. k \in 1 .. d /\ k - 1 \in Nat /\ k - 1 <= d /\ k - 1 < k
      <3>1. k \in Nat /\ k <= d /\ k \notin T
        OBVIOUS
      <3>. QED
        BY <3>1
    <2>3. k - 1 \notin Bad
      <3>. HIDE DEF Bad
      <3>. QED
        BY <2>1, <2>2
    <2>4. k - 1 \in T
      BY <2>2, <2>3
    <2>. QED
      BY <2>2, <2>4
  <1>. QED
    BY <1>1

\* f goes from z on by the steps g
Course(f, d, S, z, g, T) ==
  /\ f \in [0 .. d -> S]
  /\ f[0] = z
  /\ \A k \in 1 .. d : f[k] = g[k][f[k - 1]]
  /\ \A k \in 0 .. d : f[k] \in T[k]

(* Steps that lead from the states of one stage into those of the next *)
(* make a course.                                                      *)
LEMMA Courses ==
  ASSUME NEW d \in Nat, NEW S, NEW T \in [0 .. d -> SUBSET S], NEW z \in T[0], NEW g,
         \A k \in 1 .. d : \A x \in T[k - 1] : g[k][x] \in T[k]
  PROVE  \E f : Course(f, d, S, z, g, T)
  <1>. DEFINE Go(k, x) == IF k \in 1 .. d /\ x \in T[k - 1] THEN g[k][x] ELSE x
              G == [k \in Nat |-> [x \in S |-> Go(k, x)]]
  <1>0. \A k \in 0 .. d : T[k] \subseteq S
    OBVIOUS
  <1>1. z \in S /\ 0 \in 0 .. d
    BY <1>0
  <1>2. \A k \in 1 .. d : k - 1 \in 0 .. d /\ k \in 0 .. d /\ k \in Nat /\ k - 1 \in Nat /\ k = (k - 1) + 1
    OBVIOUS
  <1>3. G \in [Nat -> [S -> S]]
    <2>1. ASSUME NEW k \in Nat, NEW x \in S
          PROVE  Go(k, x) \in S
      <3>1. CASE k \in 1 .. d /\ x \in T[k - 1]
        <4>1. g[k][x] \in T[k] /\ k \in 0 .. d
          BY <1>2, <3>1
        <4>. QED
          BY <1>0, <3>1, <4>1
      <3>. QED
        BY <3>1
    <2>. HIDE DEF Go
    <2>. QED
      BY <2>1
  <1>4. PICK q : Iteration(q, S, z, G)
    <2>. HIDE DEF G
    <2>. QED
      BY <1>1, <1>3, Iterate
  <1>5. /\ q[0] = z
        /\ \A k \in Nat : q[k] \in S
        /\ \A k \in Nat : q[k + 1] = Go(k + 1, q[k])
    <2>1. \A k \in Nat : k + 1 \in Nat
      OBVIOUS
    <2>2. \A k \in Nat : G[k] = [x \in S |-> Go(k, x)]
      BY DEF G
    <2>. HIDE DEF Go
    <2>3. /\ q[0] = z /\ q \in [Nat -> S]
          /\ \A k \in Nat : q[k + 1] = G[k + 1][q[k]]
      BY <1>4 DEF Iteration
    <2>4. \A k \in Nat : q[k] \in S
      BY <2>3
    <2>5. ASSUME NEW k \in Nat
          PROVE  q[k + 1] = Go(k + 1, q[k])
      <3>1. q[k + 1] = G[k + 1][q[k]] /\ G[k + 1] = [x \in S |-> Go(k + 1, x)]
        BY <2>1, <2>2, <2>3
      <3>2. q[k] \in S
        BY <2>4
      <3>. QED
        BY <3>1, <3>2
    <2>. QED
      BY <2>3, <2>4, <2>5
  <1>6. \A k \in 1 .. d : q[k] = Go(k, q[k - 1])
    <2>. HIDE DEF Go
    <2>. QED
      BY <1>2, <1>5
  <1>7. \A k \in 0 .. d : q[k] \in T[k]
    <2>. DEFINE U == {k \in 0 .. d : q[k] \in T[k]}
    <2>1. 0 \in U
      BY <1>1, <1>5
    <2>2. ASSUME NEW k \in 1 .. d, k - 1 \in U
          PROVE  k \in U
      <3>1. q[k - 1] \in T[k - 1] /\ q[k] = Go(k, q[k - 1])
        BY <1>6, <2>2
      <3>2. q[k] = g[k][q[k - 1]]
        BY <3>1
      <3>. QED
        BY <1>2, <3>1, <3>2
    <2>. HIDE DEF U
    <2>3. \A k \in 0 .. d : k \in U
      BY <2>1, <2>2, Induct
    <2>. QED
      BY <2>3 DEF U
  <1>8. \A k \in 1 .. d : q[k] = g[k][q[k - 1]]
    BY <1>2, <1>6, <1>7
  <1>. DEFINE f == [k \in 0 .. d |-> q[k]]
  <1>9. f \in [0 .. d -> S] /\ f[0] = z
    <2>1. \A k \in 0 .. d : q[k] \in S
      <3>1. ASSUME NEW k \in 0 .. d
            PROVE  q[k] \in S
        <4>1. k \in Nat
          OBVIOUS
        <4>. QED
          BY <1>5, <4>1
      <3>. QED
        BY <3>1
    <2>. QED
      BY <1>1, <1>5, <2>1
  <1>10. \A k \in 1 .. d : f[k] = g[k][f[k - 1]]
    BY <1>2, <1>8
  <1>11. Course(f, d, S, z, g, T)
    BY <1>7, <1>9, <1>10 DEF Course
  <1>. QED
    BY <1>11

-----------------------------------------------------------------------------
\* element i becomes x, through a path of the vector's own nodes
Wrote(m, P, m2, i, x, n0, keep) ==
  /\ m2 \in Record
  /\ \E P2 : Edits(m, P, m2, P2, n0, keep, {})
  /\ \A j \in Room(m.v) : On(m.h, m.v, j, 0) # Null =>
       Cell(m2.h, m2.v, j) = IF j = i THEN x ELSE Cell(m.h, m.v, j)
  /\ \A n \in DOMAIN m.h : m2.h[n] # m.h[n] =>
       \E f \in 0 .. Lv(m.v) : n = On(m.h, m.v, i, f) /\ n = On(m2.h, m2.v, i, f)
  /\ \A f \in 0 .. Lv(m.v) : Mine(m2.h, On(m2.h, m2.v, i, f), n0, keep)

\* what a write into a leaf changes
PutLeafFacts(m, P, m2, i, x) ==
  /\ Fits(m2, P) /\ m2.v = m.v /\ m2.ub = m.ub
  /\ Len(m2.h) = Len(m.h)
  /\ \A n \in DOMAIN m.h : m2.h[n].id = m.h[n].id
  /\ \A n \in DOMAIN m.h : n # On(m.h, m.v, i, 0) => m2.h[n] = m.h[n]
  /\ SamePaths(m.h, m.v, m2.h, m2.v)
  /\ \A j \in Room(m.v) : On(m.h, m.v, j, 0) # Null =>
       Cell(m2.h, m2.v, j) = IF j = i THEN x ELSE Cell(m.h, m.v, j)

(* Writing a slot of a leaf changes one element.                           *)
LEMMA PutLeaf ==
  ASSUME NEW m, NEW P, Fits(m, P), NEW i \in Room(m.v), On(m.h, m.v, i, 0) # Null,
         NEW x \in Int, NEW m2, PutAt(m, m2, i, 0, x)
  PROVE  PutLeafFacts(m, P, m2, i, x)
  <1>. DEFINE y == On(m.h, m.v, i, 0)
              L == Lv(m.v)
  <1>1. /\ m.h \in Seq(Node) /\ m.v \in Vector /\ L \in Nat /\ IsHeap(m.h, P)
        /\ IsVec(m.h, P, m.v) /\ Room(m.v) \subseteq Nat /\ i \in Nat /\ 0 \in 0 .. L
        /\ m.v.shift = Lv(m.v) * BP_BITS /\ DOMAIN m.h = 1 .. Len(m.h) /\ Len(m.h) \in Nat
    BY FitsFacts
  <1>2. y \in DOMAIN m.h /\ P[y][1] = 0 /\ P[y][2] = Blk(i, 0 + 1)
    BY <1>1, OnPlace
  <1>3. Blk(i, 0) = i /\ i % BP_WIDTH \in Slot /\ i \div BP_WIDTH = Blk(i, 0 + 1)
    BY <1>1, Blocks
  <1>4. /\ m2 \in Record /\ m2.v = m.v /\ m2.ub = m.ub
        /\ Poked(m.h, m2.h, y, i % BP_WIDTH, x)
    BY <1>3 DEF PutAt
  <1>5. /\ m2.h \in Seq(Node) /\ DOMAIN m2.h = DOMAIN m.h /\ Len(m2.h) = Len(m.h)
        /\ \A n \in DOMAIN m.h \ {y} : m2.h[n] = m.h[n]
        /\ m2.h[y].type = m.h[y].type /\ m2.h[y].id = m.h[y].id
        /\ m2.h[y].slot = [m.h[y].slot EXCEPT ![i % BP_WIDTH] = x]
    BY <1>4 DEF Poked
  <1>6. IsHeap(m2.h, P)
    <2>1. ASSUME NEW n \in DOMAIN m2.h
          PROVE  m2.h[n].type = IF P[n][1] = 0 THEN "leaves" ELSE "branches"
      <3>1. m.h[n].type = IF P[n][1] = 0 THEN "leaves" ELSE "branches"
        BY <1>1, <1>5 DEF IsHeap
      <3>. QED
        BY <1>5, <3>1
    <2>2. ASSUME NEW n \in DOMAIN m2.h, P[n][1] # 0, NEW s \in Slot, m2.h[n].slot[s] # Null
          PROVE  /\ m2.h[n].slot[s] \in DOMAIN m2.h
                 /\ P[m2.h[n].slot[s]] = <<P[n][1] - 1, BP_WIDTH * P[n][2] + s>>
      <3>1. n # y /\ m2.h[n] = m.h[n]
        BY <1>2, <1>5, <2>2
      <3>. QED
        BY <1>1, <1>5, <2>2, <3>1 DEF IsHeap
    <2>. QED
      BY <1>1, <1>5, <2>1, <2>2 DEF IsHeap
  <1>7. Fits(m2, P)
    <2>1. IsVec(m2.h, P, m2.v)
      BY <1>1, <1>4, <1>5 DEF IsVec
    <2>. QED
      BY <1>4, <1>6, <2>1 DEF Fits
  <1>8. ASSUME NEW j \in Room(m.v)
        PROVE  Meet(m.h, m.v, m2.h, m2.v, j, 0, L)
    <2>1. KeptOn(m.h, m2.h, m.v, j, 0, L)
      <3>1. ASSUME NEW f \in 0 + 1 .. L
            PROVE  Kept(m.h, m2.h, On(m.h, m.v, j, f))
        <4>1. f \in 0 .. L /\ f # 0
          BY <1>1
        <4>2. On(m.h, m.v, j, f) # y
          <5>1. CASE On(m.h, m.v, j, f) = Null
            BY <1>1, <1>2, <5>1 DEF Null
          <5>2. CASE On(m.h, m.v, j, f) # Null
            <6>1. P[On(m.h, m.v, j, f)][1] = f
              BY <1>1, <4>1, <5>2, OnPlace
            <6>. QED
              BY <1>2, <4>1, <6>1
          <5>. QED
            BY <5>1, <5>2
        <4>. QED
          BY <1>5, <4>2 DEF Kept
      <3>. QED
        BY <3>1 DEF KeptOn
    <2>2. On(m2.h, m2.v, j, L) = On(m.h, m.v, j, L)
      <3>. HIDE DEF L
      <3>2. j \in Nat
        BY <1>1
      <3>3. On(m.h, m.v, j, Lv(m.v)) = m.v.root
        BY <1>1, <3>2, Path
      <3>4. On(m2.h, m.v, j, Lv(m.v)) = m.v.root
        BY <1>1, <1>5, <3>2, Path
      <3>1. On(m.h, m.v, j, L) = m.v.root /\ On(m2.h, m.v, j, L) = m.v.root
        BY <3>3, <3>4 DEF L
      <3>. QED
        BY <1>4, <3>1
    <2>3. L \in 0 .. Lv(m.v) /\ L <= Lv(m2.v) /\ 0 \in 0 .. L /\ j \in Nat
          /\ m2.v \in Vector /\ m2.v.shift = Lv(m2.v) * BP_BITS
      BY <1>1, <1>4
    <2>. HIDE DEF L
    <2>. QED
      BY <1>1, <1>5, <2>1, <2>2, <2>3, OnFrame
  <1>9. SamePaths(m.h, m.v, m2.h, m2.v)
    BY <1>8 DEF SamePaths, Meet
  <1>10. ASSUME NEW j \in Room(m.v), On(m.h, m.v, j, 0) # Null
         PROVE  Cell(m2.h, m2.v, j) = IF j = i THEN x ELSE Cell(m.h, m.v, j)
    <2>. DEFINE q == On(m.h, m.v, j, 0)
    <2>1. On(m2.h, m2.v, j, 0) = q
      BY <1>1, <1>9 DEF SamePaths
    <2>2. q \in DOMAIN m.h /\ P[q][2] = Blk(j, 0 + 1) /\ j \in Nat
      BY <1>1, <1>10, OnPlace
    <2>3. Blk(j, 0) = j /\ j % BP_WIDTH \in Slot
          /\ j = BP_WIDTH * Blk(j, 0 + 1) + (j % BP_WIDTH)
      BY <2>2, Blocks
    <2>4. i = BP_WIDTH * Blk(i, 0 + 1) + (i % BP_WIDTH)
      BY <1>1, <1>3, Blocks
    <2>5. Cell(m2.h, m2.v, j) = m2.h[q].slot[j % BP_WIDTH]
          /\ Cell(m.h, m.v, j) = m.h[q].slot[j % BP_WIDTH]
      BY <2>1 DEF Cell
    <2>6. m.h[y].slot \in [Slot -> Int]
      <3>1. m.h[y] \in Node
        BY <1>1, <1>2
      <3>. HIDE DEF y
      <3>. QED
        BY <3>1 DEF Node
    <2>7. CASE q # y
      <3>1. j # i
        BY <2>7
      <3>. QED
        BY <1>5, <2>2, <2>5, <2>7, <3>1
    <2>8. CASE q = y
      <3>1. Blk(j, 0 + 1) = Blk(i, 0 + 1)
        BY <1>2, <2>2, <2>8
      <3>2. j % BP_WIDTH = i % BP_WIDTH <=> j = i
        BY <2>3, <2>4, <3>1
      <3>. QED
        BY <1>3, <1>5, <2>3, <2>5, <2>6, <2>8, <3>2
    <2>. QED
      BY <2>7, <2>8
  <1>. QED
    BY <1>1, <1>4, <1>5, <1>7, <1>9, <1>10 DEF PutLeafFacts

(* It is an edit when the leaf is the vector's own.                        *)
LEMMA PutLeafEdits ==
  ASSUME NEW m, NEW P, Fits(m, P), NEW i \in Room(m.v), On(m.h, m.v, i, 0) # Null,
         NEW x, NEW m2, PutLeafFacts(m, P, m2, i, x), NEW n0, NEW keep,
         Mine(m.h, On(m.h, m.v, i, 0), n0, keep)
  PROVE  Edits(m, P, m2, P, n0, keep, {})
  <1>1. 0 \in 0 .. Lv(m.v) /\ Len(m.h) \in Nat /\ m.v \in Vector
    BY FitsFacts
  <1>2. m2.v = [m.v EXCEPT !.root = m2.v.root]
    BY <1>1 DEF Vector, PutLeafFacts
  <1>3. \A n \in DOMAIN m.h : m2.h[n] # m.h[n] => Mine(m.h, n, n0, keep) /\ n \in Nodes(m.h, m.v)
    BY <1>1 DEF PutLeafFacts, Nodes
  <1>4. Len(m.h) <= Len(m2.h) /\ Len(m.h) + 1 .. Len(m2.h) = {}
    BY <1>1 DEF PutLeafFacts
  <1>5. \A j \in Room(m.v), e \in 0 .. Lv(m.v) : On(m2.h, m2.v, j, e) = On(m.h, m.v, j, e)
    BY DEF PutLeafFacts, SamePaths
  <1>. QED
    BY <1>2, <1>3, <1>4, <1>5 DEF PutLeafFacts, Edits

(* Write: one element gets a new value and the others of the vector keep theirs. *)
LEMMA WriteIs ==
  ASSUME NEW m, NEW P, Fits(m, P), NEW n0 \in Nat, n0 <= Len(m.h), NEW keep,
         NEW i \in Room(m.v), On(m.h, m.v, i, 0) # Null, NEW x \in Int
  PROVE  Wrote(m, P, Write(m, i, x, keep), i, x, n0, keep)
  <1>. DEFINE L == Lv(m.v)
              o == Own(m, i, Leaf(m), keep)
              m2 == Write(m, i, x, keep)
  <1>1. Leaf(m) = L /\ L \in Nat /\ L = L - 0 /\ 0 \in 0 .. L /\ i \in Nat
    BY FitsFacts, Levels DEF Leaf
  <1>2. Owned(m, P, o, i, 0, n0, keep)
    <2>. DEFINE d == Leaf(m)
    <2>1. d = Lv(m.v) - 0
      BY <1>1
    <2>. HIDE DEF d
    <2>2. Owned(m, P, Own(m, i, d, keep), i, 0, n0, keep)
      BY <1>1, <2>1, OwnIs
    <2>. QED
      BY <2>2 DEF d
  <1>3. m2 = Put(o, i, L, x)
    BY <1>1 DEF Write
  <1>. HIDE DEF o, m2
  <1>4. PICK P1 : Edits(m, P, o, P1, n0, keep, {})
    BY <1>2 DEF Owned
  <1>5. /\ Fits(o, P1) /\ Lv(o.v) = L /\ Room(o.v) = Room(m.v) /\ o \in Record
        /\ Len(m.h) <= Len(o.h) /\ DOMAIN m.h = 1 .. Len(m.h) /\ DOMAIN o.h = 1 .. Len(o.h)
        /\ Len(m.h) \in Nat /\ Len(o.h) \in Nat /\ o.v.shift = Lv(o.v) * BP_BITS
    BY <1>4, EditsFacts, FitsFacts
  <1>6. On(o.h, o.v, i, 0) # Null
    <2>1. 0 \in 0 .. Lv(m.v)
      BY <1>1
    <2>. HIDE DEF L
    <2>. QED
      BY <1>4, <2>1, EditsKeep
  <1>7. On(o.h, o.v, i, 0) \in DOMAIN o.h
    <2>1. i \in Room(o.v) /\ 0 \in 0 .. Lv(o.v) /\ IsHeap(o.h, P1) /\ IsVec(o.h, P1, o.v)
      BY <1>1, <1>5, FitsFacts
    <2>. QED
      BY <1>6, <2>1, OnPlace
  <1>8. PutAt(o, m2, i, 0, x)
    <2>1. L = Lv(o.v) - 0 /\ 0 \in 0 .. Lv(o.v)
      BY <1>1, <1>5
    <2>. HIDE DEF L
    <2>. QED
      BY <1>1, <1>3, <1>5, <1>7, <2>1, PutIs
  <1>9. PutLeafFacts(o, P1, m2, i, x)
    BY <1>5, <1>6, <1>8, PutLeaf
  <1>10. Mine(o.h, On(o.h, o.v, i, 0), n0, keep)
    BY <1>1, <1>2 DEF Owned
  <1>11. Edits(o, P1, m2, P1, n0, keep, {})
    BY <1>5, <1>6, <1>9, <1>10, PutLeafEdits
  <1>12. Edits(m, P, m2, P1, n0, keep, {})
    BY <1>4, <1>11, EditsTrans DEF Elsewhere
  <1>13. m2 \in Record
    BY <1>12 DEF Edits, Fits
  <1>14. ASSUME NEW j \in Room(m.v), On(m.h, m.v, j, 0) # Null
         PROVE  Cell(m2.h, m2.v, j) = IF j = i THEN x ELSE Cell(m.h, m.v, j)
    <2>1. On(o.h, o.v, j, 0) # Null
      BY <1>1, <1>4, <1>14, EditsKeep
    <2>2. Cell(o.h, o.v, j) = Cell(m.h, m.v, j)
      BY <1>2, <1>14 DEF Owned, SameCells
    <2>3. Cell(m2.h, m2.v, j) = IF j = i THEN x ELSE Cell(o.h, o.v, j)
      BY <1>5, <1>9, <2>1 DEF PutLeafFacts
    <2>. QED
      BY <2>2, <2>3
  <1>15. \A f \in 0 .. L : On(m2.h, m2.v, i, f) = On(o.h, o.v, i, f)
    BY <1>5, <1>9 DEF PutLeafFacts, SamePaths
  <1>16. ASSUME NEW n \in DOMAIN m.h, m2.h[n] # m.h[n]
         PROVE  \E f \in 0 .. L : n = On(m.h, m.v, i, f) /\ n = On(m2.h, m2.v, i, f)
    <2>1. CASE o.h[n] # m.h[n]
      <3>1. PICK f \in 0 .. L : n = On(m.h, m.v, i, f) /\ n = On(o.h, o.v, i, f)
        BY <1>2, <2>1 DEF Owned
      <3>. QED
        BY <1>15, <3>1
    <2>2. CASE o.h[n] = m.h[n]
      <3>1. n \in DOMAIN o.h /\ ~(n > Len(m.h))
        BY <1>5
      <3>2. n = On(o.h, o.v, i, 0)
        BY <1>9, <1>16, <2>2, <3>1 DEF PutLeafFacts
      <3>3. n = On(m.h, m.v, i, 0)
        <4>1. On(o.h, o.v, i, 0) = On(m.h, m.v, i, 0) \/ On(o.h, o.v, i, 0) > Len(m.h)
          BY <1>1, <1>4 DEF Edits
        <4>. QED
          BY <3>1, <3>2, <4>1
      <3>. QED
        BY <1>1, <1>15, <3>2, <3>3
    <2>. QED
      BY <2>1, <2>2
  <1>17. ASSUME NEW f \in 0 .. L
         PROVE  Mine(m2.h, On(m2.h, m2.v, i, f), n0, keep)
    <2>. DEFINE p == On(o.h, o.v, i, f)
    <2>1. f \in 0 .. Lv(o.v) /\ f \in Nat /\ f >= 0 /\ i \in Room(o.v) /\ 0 \in 0 .. Lv(o.v)
      BY <1>1, <1>5
    <2>2. IsHeap(o.h, P1) /\ IsVec(o.h, P1, o.v)
      BY <1>5, FitsFacts
    <2>3. p # Null
      <3>1. f \in 0 .. Lv(o.v)
        BY <2>1
      <3>. QED
        BY <1>1, <1>6, <2>1, <2>2, OnAbove
    <2>4. p \in DOMAIN o.h
      BY <2>1, <2>2, <2>3, OnPlace
    <2>5. Mine(o.h, p, n0, keep)
      BY <1>2, <2>1 DEF Owned
    <2>6. m2.h[p].id = o.h[p].id
      BY <1>9, <2>4 DEF PutLeafFacts
    <2>. QED
      BY <1>15, <2>5, <2>6 DEF Mine
  <1>. QED
    BY <1>12, <1>13, <1>14, <1>16, <1>17 DEF Wrote, m2

-----------------------------------------------------------------------------
(* Growing. Sprout: new nodes hang on the path to i from height E - 1 down *)
(* to height f.                                                            *)
Sprout(m, P, x, P2, i, E, f, nid) ==
  /\ Fits(x, P2) /\ x.v = m.v /\ x.ub = m.ub
  /\ Len(m.h) <= Len(x.h)
  /\ \A n \in DOMAIN m.h : P2[n] = P[n] /\ x.h[n].id = m.h[n].id
  /\ \A n \in DOMAIN m.h : x.h[n] # m.h[n] => n = On(m.h, m.v, i, E)
  /\ \A n \in Len(m.h) + 1 .. Len(x.h) : x.h[n].id = nid
  /\ \A j \in Room(m.v), e \in 0 .. Lv(m.v) :
       e >= E \/ Blk(j, E) # Blk(i, E) => On(x.h, x.v, j, e) = On(m.h, m.v, j, e)
  /\ f # E => \A j \in Room(m.v), e \in 0 .. Lv(m.v) :
       e < E /\ Blk(j, E) = Blk(i, E) =>
         On(x.h, x.v, j, e) > Len(m.h) \/ On(x.h, x.v, j, e) = Null
  /\ \A e \in 0 .. Lv(m.v) : f <= e /\ e < E => On(x.h, x.v, i, e) > Len(m.h)

(* A constructed node fits anywhere: it has no children.                   *)
LEMMA NewNodeFits ==
  ASSUME NEW h, NEW P, NEW nid \in Int, NEW e \in Nat, NEW b
  PROVE  /\ NewNode(IF e = 0 THEN "leaves" ELSE "branches", nid) \in Node
         /\ NodeFits(h, P, NewNode(IF e = 0 THEN "leaves" ELSE "branches", nid), e, b)
         /\ NewNode(IF e = 0 THEN "leaves" ELSE "branches", nid).id = nid
         /\ \A s \in Slot : NewNode(IF e = 0 THEN "leaves" ELSE "branches", nid).slot[s] = Null
  <1>. DEFINE t == IF e = 0 THEN "leaves" ELSE "branches"
              node == NewNode(t, nid)
  <1>1. t \in {"branches", "leaves"}
    OBVIOUS
  <1>. HIDE DEF t
  <1>2. Zeroes \in [Slot -> Int] /\ \A s \in Slot : Zeroes[s] = 0
    BY DEF Zeroes
  <1>3. node.id = nid /\ node.slot = Zeroes /\ node.type = t
    BY DEF NewNode
  <1>4. node \in Node
    BY <1>1, <1>2 DEF NewNode, Node
  <1>5. \A s \in Slot : node.slot[s] = Null
    BY <1>2, <1>3 DEF Null
  <1>. HIDE DEF node
  <1>6. NodeFits(h, P, node, e, b)
    BY <1>3, <1>4, <1>5 DEF NodeFits, t
  <1>. QED
    BY <1>3, <1>4, <1>5, <1>6 DEF node, t

(* One more node of the path below a node of height E.                     *)
LEMMA SproutNext ==
  ASSUME NEW m, NEW P, Fits(m, P), NEW i \in Room(m.v), NEW E \in 1 .. Lv(m.v),
         On(m.h, m.v, i, E) # Null, NEW nid \in Int, NEW f \in 0 .. E - 1,
         NEW x, NEW P1, Sprout(m, P, x, P1, i, E, f + 1, nid),
         NEW d, d = Lv(m.v) - f, NEW node,
         node = NewNode(IF f = 0 THEN "leaves" ELSE "branches", nid),
         NEW m2, m2 = Hang(x, i, d, node)
  PROVE  Sprout(m, P, m2, Grafted(P1, Len(x.h) + 1, f, Blk(i, f + 1)), i, E, f, nid)
  <1>. DEFINE L == Lv(m.v)
              p == On(x.h, x.v, i, f + 1)
              n2 == Len(x.h) + 1
              P2 == Grafted(P1, n2, f, Blk(i, f + 1))
  <1>1. /\ m.h \in Seq(Node) /\ m.v \in Vector /\ L \in Nat /\ Room(m.v) \subseteq Nat
        /\ i \in Nat /\ IsHeap(m.h, P) /\ IsVec(m.h, P, m.v) /\ DOMAIN m.h = 1 .. Len(m.h)
        /\ Len(m.h) \in Nat /\ Null \notin DOMAIN m.h
    BY FitsFacts
  <1>2. /\ Fits(x, P1) /\ x.v = m.v /\ x.ub = m.ub /\ Len(m.h) <= Len(x.h)
        /\ Len(x.h) \in Nat /\ DOMAIN x.h = 1 .. Len(x.h) /\ x.h \in Seq(Node)
        /\ IsHeap(x.h, P1) /\ IsVec(x.h, P1, x.v)
    BY FitsFacts DEF Sprout
  <1>3. f \in Nat /\ f \in 0 .. L /\ f + 1 \in 0 .. L /\ f # L /\ f < E /\ f + 1 <= E
    BY <1>1
  <1>4. p # Null
    <2>1. CASE f + 1 = E
      <3>1. p = On(m.h, m.v, i, E)
        BY <1>1, <1>3, <2>1 DEF Sprout
      <3>. QED
        BY <3>1
    <2>2. CASE f + 1 # E
      <3>1. p > Len(m.h)
        BY <1>3, <2>2 DEF Sprout
      <3>. QED
        BY <1>1, <3>1 DEF Null
    <2>. QED
      BY <2>1, <2>2
  <1>5. p \in DOMAIN x.h
    BY <1>1, <1>2, <1>3, <1>4, OnPlace
  <1>6. /\ node \in Node /\ NodeFits(x.h, P1, node, f, Blk(i, f + 1)) /\ node.id = nid
        /\ \A s \in Slot : node.slot[s] = Null
    BY <1>3, NewNodeFits
  <1>7. Hung(x, m2, i, f, node)
    <2>1. d = Lv(x.v) - f /\ f \in 0 .. Lv(x.v) /\ i \in Room(x.v)
      BY <1>2, <1>3
    <2>. QED
      BY <1>2, <1>5, <1>6, <2>1, HangIs
  <1>8. MayHang(x, P1, i, f, node)
    BY <1>2, <1>3, <1>4, <1>6 DEF MayHang
  <1>9. Fits(m2, P2)
    BY <1>2, <1>7, <1>8, HangFits
  <1>10. HangWalks(x, m2, i, f, node)
    BY <1>2, <1>7, <1>8, HangPaths
  <1>11. HangFacts(x, m2, P1, i, f, node, n2, p)
    BY <1>2, <1>7, <1>8, HangKnown
  <1>12. /\ n2 \in Nat /\ DOMAIN m2.h = 1 .. n2 /\ Len(m2.h) = n2 /\ m2.h[n2] = node
         /\ m2.ub = m.ub
         /\ \A y \in DOMAIN x.h : m2.h[y].id = x.h[y].id
         /\ \A y \in DOMAIN x.h : y # p => m2.h[y] = x.h[y]
         /\ m2.v = [m.v EXCEPT !.root = IF f = L THEN n2 ELSE @]
    BY <1>2, <1>3, <1>7, <1>11 DEF Hung, HangFacts
  <1>13. m2.v = m.v
    BY <1>1, <1>3, <1>12 DEF Vector
  <1>14. ASSUME NEW y \in DOMAIN m.h
         PROVE  P2[y] = P[y] /\ m2.h[y].id = m.h[y].id
    <2>1. y \in DOMAIN x.h /\ y \in 1 .. n2 /\ y # n2
      BY <1>1, <1>2
    <2>2. P1[y] = P[y] /\ x.h[y].id = m.h[y].id
      BY DEF Sprout
    <2>. QED
      BY <1>12, <2>1, <2>2 DEF Grafted
  <1>15. ASSUME NEW y \in DOMAIN m.h, m2.h[y] # m.h[y]
         PROVE  y = On(m.h, m.v, i, E)
    <2>1. CASE x.h[y] # m.h[y]
      BY <2>1 DEF Sprout
    <2>2. CASE x.h[y] = m.h[y]
      <3>1. y \in DOMAIN x.h /\ ~(y > Len(m.h))
        BY <1>1, <1>2
      <3>2. y = p
        BY <1>12, <1>15, <2>2, <3>1
      <3>3. f + 1 = E
        <4>1. f + 1 # E => p > Len(m.h)
          BY <1>3 DEF Sprout
        <4>. QED
          BY <3>1, <3>2, <4>1
      <3>4. p = On(m.h, m.v, i, E)
        BY <1>1, <1>3, <3>3 DEF Sprout
      <3>. QED
        BY <3>2, <3>4
    <2>. QED
      BY <2>1, <2>2
  <1>16. ASSUME NEW y \in Len(m.h) + 1 .. Len(m2.h)
         PROVE  m2.h[y].id = nid
    <2>1. CASE y = n2
      BY <1>6, <1>12, <2>1
    <2>2. CASE y # n2
      <3>1. y \in DOMAIN x.h /\ y \in Len(m.h) + 1 .. Len(x.h)
        <4>1. y \in Len(m.h) + 1 .. n2 /\ Len(m.h) \in Nat /\ Len(x.h) \in Nat
          BY <1>1, <1>2, <1>12
        <4>2. y \in Len(m.h) + 1 .. Len(x.h)
          BY <2>2, <4>1
        <4>3. DOMAIN x.h = 1 .. Len(x.h)
          BY <1>2
        <4>. QED
          BY <4>1, <4>2, <4>3
      <3>2. x.h[y].id = nid
        <4>1. \A n \in Len(m.h) + 1 .. Len(x.h) : x.h[n].id = nid
          BY DEF Sprout
        <4>. QED
          BY <3>1, <4>1
      <3>3. m2.h[y].id = x.h[y].id
        BY <1>12, <3>1
      <3>. QED
        BY <3>2, <3>3
    <2>. QED
      BY <2>1, <2>2
  <1>17. \A j \in Room(m.v), e \in 0 .. L : e > f \/ Blk(j, f + 1) # Blk(i, f + 1) =>
           On(m2.h, m2.v, j, e) = On(x.h, x.v, j, e)
    BY <1>2, <1>10 DEF HangWalks
  <1>18. ASSUME NEW j \in Room(m.v), Blk(j, E) # Blk(i, E)
         PROVE  Blk(j, f + 1) # Blk(i, f + 1)
    <2>1. j \in Nat /\ f + 1 \in Nat /\ E \in Nat
      BY <1>1, <1>3
    <2>. QED
      BY <1>1, <1>3, <1>18, <2>1, BlocksNest
  <1>19. ASSUME NEW j \in Room(m.v), NEW e \in 0 .. L, e >= E \/ Blk(j, E) # Blk(i, E)
         PROVE  On(m2.h, m2.v, j, e) = On(m.h, m.v, j, e)
    <2>1. On(x.h, x.v, j, e) = On(m.h, m.v, j, e)
      BY <1>19 DEF Sprout
    <2>2. e > f \/ Blk(j, f + 1) # Blk(i, f + 1)
      BY <1>3, <1>18, <1>19
    <2>. QED
      BY <1>17, <2>1, <2>2
  <1>20. ASSUME NEW j \in Room(m.v), Blk(j, f + 1) = Blk(i, f + 1), NEW e \in 0 .. L, e <= f
         PROVE  On(m2.h, m2.v, j, e) > Len(m.h) \/ On(m2.h, m2.v, j, e) = Null
    <2>1. CASE e = f
      <3>1. On(m2.h, m2.v, j, e) = n2
        BY <1>2, <1>10, <1>20, <2>1 DEF HangWalks
      <3>. QED
        BY <1>2, <3>1
    <2>2. CASE e # f
      <3>1. f # 0 /\ f - 1 \in 0 .. L /\ e <= f - 1 /\ f \in Nat /\ j \in Nat /\ f - 1 \in e .. L
        BY <1>1, <1>3, <1>20, <2>2
      <3>2. On(m2.h, m2.v, j, f - 1) = node.slot[Blk(j, f) % BP_WIDTH]
        BY <1>2, <1>10, <1>20, <3>1 DEF HangWalks
      <3>3. Blk(j, f) % BP_WIDTH \in Slot
        BY <3>1, Blocks
      <3>4. On(m2.h, m2.v, j, f - 1) = Null
        BY <1>6, <3>2, <3>3
      <3>5. On(m2.h, m2.v, j, e) = Null
        <4>1. IsHeap(m2.h, P2) /\ IsVec(m2.h, P2, m2.v) /\ Lv(m2.v) = L
          BY <1>9, <1>13 DEF Fits
        <4>. HIDE DEF P2, L
        <4>2. e \in 0 .. Lv(m2.v) /\ f - 1 \in e .. Lv(m2.v)
          BY <1>20, <3>1, <4>1
        <4>. QED
          BY <3>1, <3>4, <4>1, <4>2, OnAbove
      <3>. QED
        BY <3>5
    <2>. QED
      BY <2>1, <2>2
  <1>21. ASSUME NEW j \in Room(m.v), NEW e \in 0 .. L, e < E, Blk(j, E) = Blk(i, E)
         PROVE  On(m2.h, m2.v, j, e) > Len(m.h) \/ On(m2.h, m2.v, j, e) = Null
    <2>1. CASE Blk(j, f + 1) = Blk(i, f + 1) /\ e <= f
      BY <1>20, <2>1
    <2>2. CASE ~(Blk(j, f + 1) = Blk(i, f + 1) /\ e <= f)
      <3>1. On(m2.h, m2.v, j, e) = On(x.h, x.v, j, e)
        BY <1>3, <1>17, <2>2
      <3>2. f + 1 # E
        BY <1>3, <1>21, <2>2
      <3>. QED
        BY <1>21, <3>1, <3>2 DEF Sprout
    <2>. QED
      BY <2>1, <2>2
  <1>22. ASSUME NEW e \in 0 .. L, f <= e, e < E
         PROVE  On(m2.h, m2.v, i, e) > Len(m.h)
    <2>1. CASE e = f
      <3>1. On(m2.h, m2.v, i, e) = n2
        BY <1>2, <1>10, <2>1 DEF HangWalks
      <3>. QED
        BY <1>2, <3>1
    <2>2. CASE e # f
      <3>1. e > f /\ f + 1 <= e
        BY <1>3, <1>22, <2>2
      <3>2. On(m2.h, m2.v, i, e) = On(x.h, x.v, i, e)
        BY <1>17, <3>1
      <3>3. On(x.h, x.v, i, e) > Len(m.h)
        BY <1>22, <3>1 DEF Sprout
      <3>. QED
        BY <3>2, <3>3
    <2>. QED
      BY <2>1, <2>2
  <1>23. Len(m.h) <= Len(m2.h)
    BY <1>2, <1>12
  <1>. HIDE DEF P2, n2, p
  <1>. QED
    BY <1>9, <1>12, <1>13, <1>14, <1>15, <1>16, <1>19, <1>21, <1>22, <1>23 DEF Sprout, P2, n2

\* the path to i is made of new nodes below height E, and ends in x
Sprouted(m, P, m2, i, E, x, nid) ==
  /\ m2 \in Record
  /\ \E P2 : Sprout(m, P, m2, P2, i, E, 0, nid)
  /\ Cell(m2.h, m2.v, i) = x
  /\ \A j \in Room(m.v) : Blk(j, E) # Blk(i, E) /\ On(m.h, m.v, j, 0) # Null =>
       Cell(m2.h, m2.v, j) = Cell(m.h, m.v, j)

(* The element is written into the leaf at the end.                        *)
LEMMA SproutLeaf ==
  ASSUME NEW m, NEW P, Fits(m, P), NEW i \in Room(m.v), NEW E \in 1 .. Lv(m.v),
         NEW nid \in Int, NEW c, NEW P1, Sprout(m, P, c, P1, i, E, 0, nid),
         NEW x \in Int, NEW m2, m2 = Put(c, i, Lv(m.v), x)
  PROVE  Sprouted(m, P, m2, i, E, x, nid)
  <1>. DEFINE L == Lv(m.v)
              y == On(c.h, c.v, i, 0)
  <1>1. /\ m.h \in Seq(Node) /\ m.v \in Vector /\ L \in Nat /\ Room(m.v) \subseteq Nat
        /\ i \in Nat /\ IsHeap(m.h, P) /\ IsVec(m.h, P, m.v) /\ DOMAIN m.h = 1 .. Len(m.h)
        /\ Len(m.h) \in Nat /\ Null \notin DOMAIN m.h /\ 0 \in 0 .. L /\ L = L - 0
        /\ E \in 0 .. L /\ 0 < E /\ 0 <= 0
    BY FitsFacts
  <1>2. /\ Fits(c, P1) /\ c.v = m.v /\ c.ub = m.ub /\ Len(m.h) <= Len(c.h)
        /\ Len(c.h) \in Nat /\ DOMAIN c.h = 1 .. Len(c.h) /\ c.h \in Seq(Node)
        /\ IsHeap(c.h, P1) /\ IsVec(c.h, P1, c.v) /\ c \in Record
    BY FitsFacts DEF Sprout
  <1>3. y > Len(m.h) /\ y # Null
    <2>1. y > Len(m.h)
      BY <1>1 DEF Sprout
    <2>. QED
      BY <1>1, <2>1 DEF Null
  <1>4. y \in DOMAIN c.h
    BY <1>1, <1>2, <1>3, OnPlace
  <1>5. PutAt(c, m2, i, 0, x)
    <2>1. L = Lv(c.v) - 0 /\ 0 \in 0 .. Lv(c.v) /\ c.v.shift = Lv(c.v) * BP_BITS
      BY <1>1, <1>2, FitsFacts
    <2>. HIDE DEF L
    <2>2. m2 = Put(c, i, L, x)
      BY DEF L
    <2>. QED
      BY <1>1, <1>2, <1>4, <2>1, <2>2, PutIs
  <1>6. PutLeafFacts(c, P1, m2, i, x)
    BY <1>2, <1>3, <1>5, PutLeaf
  <1>7. /\ Fits(m2, P1) /\ m2.v = m.v /\ m2.ub = m.ub /\ Len(m2.h) = Len(c.h)
        /\ \A n \in DOMAIN c.h : m2.h[n].id = c.h[n].id
        /\ \A n \in DOMAIN c.h : n # y => m2.h[n] = c.h[n]
        /\ \A j \in Room(m.v), e \in 0 .. L : On(m2.h, m2.v, j, e) = On(c.h, c.v, j, e)
    BY <1>2, <1>6 DEF PutLeafFacts, SamePaths
  <1>8. ASSUME NEW n \in DOMAIN m.h
        PROVE  P1[n] = P[n] /\ m2.h[n] = c.h[n] /\ c.h[n].id = m.h[n].id /\ n \in DOMAIN c.h
    <2>1. n \in DOMAIN c.h /\ n # y
      BY <1>1, <1>2, <1>3
    <2>2. P1[n] = P[n] /\ c.h[n].id = m.h[n].id
      BY DEF Sprout
    <2>. QED
      BY <1>7, <2>1, <2>2
  <1>9. ASSUME NEW n \in DOMAIN m.h, m2.h[n] # m.h[n]
        PROVE  n = On(m.h, m.v, i, E)
    BY <1>8, <1>9 DEF Sprout
  <1>10. ASSUME NEW n \in Len(m.h) + 1 .. Len(m2.h)
         PROVE  m2.h[n].id = nid
    <2>1. n \in Len(m.h) + 1 .. Len(c.h) /\ n \in DOMAIN c.h
      <3>1. Len(m2.h) = Len(c.h) /\ DOMAIN c.h = 1 .. Len(c.h) /\ Len(m.h) \in Nat
        BY <1>1, <1>2, <1>7
      <3>. QED
        BY <3>1
    <2>2. \A k \in Len(m.h) + 1 .. Len(c.h) : c.h[k].id = nid
      BY DEF Sprout
    <2>. QED
      BY <1>7, <2>1, <2>2
  <1>11. Sprout(m, P, m2, P1, i, E, 0, nid)
    <2>1. \A j \in Room(m.v), e \in 0 .. L :
            e >= E \/ Blk(j, E) # Blk(i, E) => On(m2.h, m2.v, j, e) = On(m.h, m.v, j, e)
      BY <1>7 DEF Sprout
    <2>2. 0 # E => \A j \in Room(m.v), e \in 0 .. L :
            e < E /\ Blk(j, E) = Blk(i, E) =>
              On(m2.h, m2.v, j, e) > Len(m.h) \/ On(m2.h, m2.v, j, e) = Null
      BY <1>7 DEF Sprout
    <2>3. \A e \in 0 .. L : 0 <= e /\ e < E => On(m2.h, m2.v, i, e) > Len(m.h)
      BY <1>7 DEF Sprout
    <2>4. Len(m.h) <= Len(m2.h)
      BY <1>2, <1>7
    <2>. QED
      BY <1>7, <1>8, <1>9, <1>10, <2>1, <2>2, <2>3, <2>4 DEF Sprout
  <1>12. ASSUME NEW j \in Room(m.v), On(c.h, c.v, j, 0) # Null
         PROVE  Cell(m2.h, m2.v, j) = IF j = i THEN x ELSE Cell(c.h, c.v, j)
    BY <1>2, <1>6, <1>12 DEF PutLeafFacts
  <1>13. Cell(m2.h, m2.v, i) = x
    BY <1>3, <1>12
  <1>14. ASSUME NEW j \in Room(m.v), Blk(j, E) # Blk(i, E), On(m.h, m.v, j, 0) # Null
         PROVE  Cell(m2.h, m2.v, j) = Cell(m.h, m.v, j)
    <2>. DEFINE q == On(m.h, m.v, j, 0)
    <2>1. On(c.h, c.v, j, 0) = q
      BY <1>1, <1>14 DEF Sprout
    <2>2. q \in DOMAIN m.h /\ P[q][1] = 0
      BY <1>1, <1>14, OnPlace
    <2>3. q # On(m.h, m.v, i, E)
      <3>1. CASE On(m.h, m.v, i, E) = Null
        BY <1>14, <3>1
      <3>2. CASE On(m.h, m.v, i, E) # Null
        <4>1. P[On(m.h, m.v, i, E)][1] = E
          BY <1>1, <3>2, OnPlace
        <4>. QED
          BY <1>1, <2>2, <4>1
      <3>. QED
        BY <3>1, <3>2
    <2>4. c.h[q] = m.h[q]
      BY <2>2, <2>3 DEF Sprout
    <2>5. Cell(c.h, c.v, j) = Cell(m.h, m.v, j)
      BY <2>1, <2>4 DEF Cell
    <2>6. Cell(m2.h, m2.v, j) = Cell(c.h, c.v, j)
      BY <1>12, <1>14, <2>1
    <2>. QED
      BY <2>5, <2>6
  <1>15. m2 \in Record
    BY <1>7 DEF Fits
  <1>. QED
    BY <1>11, <1>13, <1>14, <1>15 DEF Sprouted

(* Extend: a path of new nodes to the element after the last. *)
LEMMA ExtendIs ==
  ASSUME NEW m, NEW P, Fits(m, P), NEW i \in Room(m.v), i = m.v.sz, NEW E \in 1 .. Lv(m.v),
         On(m.h, m.v, i, E) # Null, NEW nid \in Int, NEW x \in Int,
         NEW ins, ins = Lv(m.v) - E
  PROVE  \E c : Extend(m, ins, x, nid) = Longer(c) /\ Sprouted(m, P, c, i, E, x, nid)
  <1>. DEFINE L == Lv(m.v)
              NodeAt(d) == NewNode(IF d = Leaf(m) THEN "leaves" ELSE "branches", nid)
              Good(c, k) == c \in Record /\ \E P2 : Sprout(m, P, c, P2, i, E, E - k, nid)
              T == [k \in 0 .. E |-> {c \in Record : Good(c, k)}]
              g == [k \in 1 .. E |-> [c \in Record |-> Hang(c, i, ins + k, NodeAt(ins + k))]]
  <1>1. /\ L \in Nat /\ E \in Nat /\ Leaf(m) = L /\ ins \in Nat /\ ins + E = L
        /\ m \in Record /\ E \in 0 .. L
    BY FitsFacts, Levels DEF Leaf
  <1>2. Good(m, 0)
    <2>1. Sprout(m, P, m, P, i, E, E, nid)
      <3>1. Len(m.h) \in Nat /\ Len(m.h) + 1 .. Len(m.h) = {}
        BY FitsFacts
      <3>2. ~\E e \in 0 .. L : E <= e /\ e < E
        BY <1>1
      <3>. QED
        BY <1>1, <3>1, <3>2 DEF Sprout
    <2>2. E - 0 = E
      BY <1>1
    <2>. QED
      BY <1>1, <2>1, <2>2
  <1>3. ASSUME NEW k \in 1 .. E, NEW c, Good(c, k - 1)
        PROVE  Good(Hang(c, i, ins + k, NodeAt(ins + k)), k)
    <2>. DEFINE f == E - k
                node == NodeAt(ins + k)
    <2>1. /\ f \in 0 .. E - 1 /\ ins + k = L - f /\ E - (k - 1) = f + 1
          /\ ins + k = Leaf(m) <=> f = 0
      BY <1>1
    <2>2. PICK P1 : Sprout(m, P, c, P1, i, E, f + 1, nid)
      BY <1>3, <2>1
    <2>3. node = NewNode(IF f = 0 THEN "leaves" ELSE "branches", nid)
      BY <2>1
    <2>. HIDE DEF f, node
    <2>. DEFINE m2 == Hang(c, i, ins + k, node)
                P2 == Grafted(P1, Len(c.h) + 1, f, Blk(i, f + 1))
    <2>4. Sprout(m, P, m2, P2, i, E, f, nid)
      BY <2>1, <2>2, <2>3, SproutNext
    <2>. HIDE DEF m2, P2
    <2>5. m2 \in Record
      BY <2>4 DEF Sprout, Fits
    <2>6. Good(m2, k)
      BY <2>4, <2>5 DEF f
    <2>. QED
      BY <2>6 DEF m2, node
  <1>. HIDE DEF Good, NodeAt
  <1>4. T \in [0 .. E -> SUBSET Record] /\ m \in T[0]
    BY <1>1, <1>2
  <1>5. ASSUME NEW k \in 1 .. E, NEW c \in T[k - 1]
        PROVE  g[k][c] = Hang(c, i, ins + k, NodeAt(ins + k)) /\ g[k][c] \in T[k]
    <2>1. k - 1 \in 0 .. E /\ k \in 0 .. E
      OBVIOUS
    <2>2. c \in Record /\ Good(c, k - 1)
      BY <2>1
    <2>3. Good(Hang(c, i, ins + k, NodeAt(ins + k)), k)
      BY <1>3, <2>2
    <2>4. Hang(c, i, ins + k, NodeAt(ins + k)) \in Record
      BY <2>3 DEF Good
    <2>5. g[k][c] = Hang(c, i, ins + k, NodeAt(ins + k))
      BY <2>2
    <2>. QED
      BY <2>1, <2>3, <2>4, <2>5
  <1>6. PICK q : Course(q, E, Record, m, g, T)
    <2>1. \A k \in 1 .. E : \A c \in T[k - 1] : g[k][c] \in T[k]
      BY <1>5
    <2>. HIDE DEF T, g
    <2>. QED
      BY <1>1, <1>4, <2>1, Courses
  <1>7. /\ q[0] = m
        /\ \A k \in 1 .. E : q[k] = Hang(q[k - 1], i, ins + k, NodeAt(ins + k))
    <2>1. /\ q[0] = m
          /\ \A k \in 1 .. E : q[k] = g[k][q[k - 1]]
          /\ \A k \in 0 .. E : q[k] \in T[k]
      BY <1>6 DEF Course
    <2>. HIDE DEF T, g
    <2>2. ASSUME NEW k \in 1 .. E
          PROVE  q[k] = Hang(q[k - 1], i, ins + k, NodeAt(ins + k))
      <3>1. k - 1 \in 0 .. E
        OBVIOUS
      <3>2. q[k - 1] \in T[k - 1]
        BY <2>1, <3>1
      <3>. QED
        BY <1>5, <2>1, <3>2
    <2>. QED
      BY <2>1, <2>2
  <1>. HIDE DEF T, g
  <1>. DEFINE StepOf(f, d) == IF d = ins THEN m ELSE Hang(f[d-1], m.v.sz, d, NodeAt(d))
              Defines(f) == f = [d \in ins .. Leaf(m) |-> StepOf(f, d)]
              chain == CHOOSE f : Defines(f)
              r == [d \in ins .. L |-> q[d - ins]]
  <1>8. Defines(r)
    <2>1. ASSUME NEW d \in ins .. L
          PROVE  q[d - ins] = StepOf(r, d)
      <3>1. CASE d = ins
        <4>1. d - ins = 0
          BY <1>1, <3>1
        <4>. QED
          BY <1>7, <3>1, <4>1
      <3>2. CASE d # ins
        <4>. DEFINE k == d - ins
        <4>1. k \in 1 .. E /\ ins + k = d /\ d - 1 \in ins .. L /\ (d - 1) - ins = k - 1
          BY <1>1, <3>2
        <4>2. r[d - 1] = q[k - 1]
          BY <4>1
        <4>3. q[k] = Hang(q[k - 1], i, d, NodeAt(d))
          BY <1>7, <4>1
        <4>. QED
          BY <3>2, <4>2, <4>3
      <3>. QED
        BY <3>1, <3>2
    <2>. HIDE DEF StepOf
    <2>. QED
      BY <1>1, <2>1
  <1>9. Defines(chain)
    <2>. HIDE DEF Defines
    <2>. QED
      BY <1>8, Zenon
  <1>10. Extend(m, ins, x, nid) = Longer(Put(chain[Leaf(m)], m.v.sz, Leaf(m), x))
    BY DEF Extend, NodeAt
  <1>11. \A d \in ins .. L : chain[d] = StepOf(chain, d)
    <2>. HIDE DEF StepOf, chain
    <2>. QED
      BY <1>1, <1>9
  <1>. HIDE DEF chain, Defines, r
  <1>12. \A k \in 0 .. E : Good(chain[ins + k], k)
    <2>. DEFINE U == {k \in 0 .. E : Good(chain[ins + k], k)}
    <2>1. 0 \in U
      <3>1. ins + 0 = ins /\ ins \in ins .. L /\ 0 \in 0 .. E
        BY <1>1
      <3>2. chain[ins] = m
        BY <1>11, <3>1
      <3>. QED
        BY <1>2, <3>1, <3>2
    <2>2. ASSUME NEW k \in 1 .. E, k - 1 \in U
          PROVE  k \in U
      <3>. DEFINE d == ins + k
      <3>1. d \in ins .. L /\ d # ins /\ d - 1 = ins + (k - 1) /\ k \in 0 .. E
        BY <1>1
      <3>2. Good(chain[d - 1], k - 1)
        BY <2>2, <3>1
      <3>3. chain[d] = Hang(chain[d - 1], i, d, NodeAt(d))
        BY <1>11, <3>1
      <3>4. Good(chain[d], k)
        BY <1>3, <3>2, <3>3
      <3>. QED
        BY <3>1, <3>4
    <2>. HIDE DEF U
    <2>3. \A k \in 0 .. E : k \in U
      BY <1>1, <2>1, <2>2, Induct
    <2>. QED
      BY <2>3 DEF U
  <1>13. Good(chain[L], E)
    <2>1. E \in 0 .. E
      BY <1>1
    <2>. QED
      BY <1>1, <1>12, <2>1
  <1>14. PICK P1 : Sprout(m, P, chain[L], P1, i, E, 0, nid)
    <2>1. E - E = 0
      BY <1>1
    <2>. QED
      BY <1>13, <2>1 DEF Good
  <1>. DEFINE c == Put(chain[L], i, L, x)
  <1>15. Sprouted(m, P, c, i, E, x, nid)
    <2>. DEFINE b == chain[L]
    <2>1. Sprout(m, P, b, P1, i, E, 0, nid) /\ c = Put(b, i, Lv(m.v), x)
      BY <1>14
    <2>. HIDE DEF b, c
    <2>. QED
      BY <2>1, SproutLeaf
  <1>16. Extend(m, ins, x, nid) = Longer(c)
    BY <1>1, <1>10
  <1>. QED
    BY <1>15, <1>16

(* Before the first element of a block no element is in it. *)
LEMMA BlockStart ==
  ASSUME NEW i \in Nat, NEW E \in Nat, i % Width(E) = 0, NEW j \in Nat, j < i
  PROVE  Blk(j, E) # Blk(i, E)
  <1>1. Width(E) \in Nat \ {0}
    BY WidthFacts
  <1>2. i \div Width(E) \in Nat /\ i = Width(E) * (i \div Width(E)) + (i % Width(E))
    BY <1>1, Divide
  <1>. DEFINE q == i \div Width(E)
  <1>3. q = Blk(i, E)
    BY DEF Blk
  <1>4. i = Width(E) * q /\ q \in Nat
    <2>1. Width(E) * q \in Nat
      BY <1>1, <1>2
    <2>. QED
      BY <1>2, <2>1
  <1>. HIDE DEF q
  <1>5. Blk(j, E) = q => Width(E) * q <= j
    BY <1>4, BlockIs
  <1>. QED
    BY <1>3, <1>4, <1>5

(* An element that does not begin a block has its predecessor in it. *)
LEMMA BlockInner ==
  ASSUME NEW i \in Nat, NEW E \in Nat, i % Width(E) # 0
  PROVE  i - 1 \in Nat /\ Blk(i - 1, E) = Blk(i, E)
  <1>1. Width(E) \in Nat \ {0}
    BY WidthFacts
  <1>. DEFINE q == i \div Width(E)
              r == i % Width(E)
              w == Width(E) * q
  <1>2. q \in Nat /\ i = Width(E) * q + r /\ r \in 0 .. Width(E) - 1
    BY <1>1, Divide
  <1>3. q = Blk(i, E)
    BY DEF Blk
  <1>4. w \in Nat /\ Width(E) * (q + 1) = w + Width(E)
    BY <1>1, <1>2
  <1>. HIDE DEF q, r
  <1>5. r # 0
    BY DEF r
  <1>6. i = w + r
    BY <1>2
  <1>7. Width(E) * q = w
    OBVIOUS
  <1>. HIDE DEF w
  <1>8. i - 1 \in Nat /\ w <= i - 1 /\ i - 1 < w + Width(E)
    BY <1>1, <1>2, <1>4, <1>5, <1>6
  <1>9. Blk(i - 1, E) = q
    <2>. DEFINE j == i - 1
    <2>1. j \in Nat /\ Width(E) * q <= j /\ j < Width(E) * (q + 1)
      BY <1>4, <1>7, <1>8
    <2>. HIDE DEF j
    <2>2. Blk(j, E) = q
      BY <1>2, <2>1, BlockIs
    <2>. QED
      BY <2>2 DEF j
  <1>. QED
    BY <1>3, <1>8, <1>9

(* Depths: how far down the path to the element after the last goes. *)
LEMMA DepthsIs ==
  ASSUME NEW v \in Vector, v.sz % BP_WIDTH = 0
  PROVE  /\ Depths(v) \in 0 .. Lv(v)
         /\ v.sz % Width(Lv(v) + 1 - Depths(v)) = 0
         /\ Depths(v) # 0 => v.sz % Width(Lv(v) + 1 - Depths(v) + 1) # 0
  <1>. DEFINE L == Lv(v)
              S == {k \in 0 .. calc_depth(v) : v.sz % Width(calc_depth(v) - k) = 0}
              k == Depths(v)
  <1>1. L \in Nat /\ calc_depth(v) = L + 1 /\ v.sz \in Nat
    BY Levels DEF Vector
  <1>2. L \in S
    <2>1. calc_depth(v) - L = 1 /\ L \in 0 .. calc_depth(v)
      BY <1>1
    <2>. QED
      BY <2>1, WidthFacts
  <1>3. \E x \in S : \A y \in S : x <= y
    <2>1. S \subseteq Nat /\ S # {}
      BY <1>1, <1>2
    <2>. HIDE DEF S
    <2>. QED
      BY <2>1, LeastNumber
  <1>4. k = Min(S)
    BY DEF Depths
  <1>5. k \in S /\ \A y \in S : k <= y
    <2>. HIDE DEF S, k
    <2>. QED
      BY <1>3, <1>4, Zenon DEF Min
  <1>6. k \in 0 .. L + 1 /\ k <= L /\ v.sz % Width(L + 1 - k) = 0
    BY <1>1, <1>2, <1>5
  <1>7. ASSUME k # 0
        PROVE  v.sz % Width(L + 1 - k + 1) # 0
    <2>1. k - 1 \in 0 .. L + 1 /\ ~(k <= k - 1) /\ L + 1 - (k - 1) = L + 1 - k + 1
      BY <1>1, <1>6, <1>7
    <2>2. k - 1 \notin S
      <3>. HIDE DEF S, k
      <3>. QED
        BY <1>5, <2>1
    <2>3. v.sz % Width(L + 1 - (k - 1)) # 0
      BY <1>1, <2>1, <2>2
    <2>. QED
      BY <2>1, <2>3
  <1>8. k \in 0 .. L
    BY <1>1, <1>6
  <1>. QED
    BY <1>6, <1>7, <1>8

(* Owning the root does not depend on the element. *)
LEMMA OwnRoot ==
  ASSUME NEW m, NEW P, Fits(m, P), NEW n0 \in Nat, n0 <= Len(m.h), NEW keep, NEW i \in Nat
  PROVE  Owned(m, P, Own(m, i, 0, keep), 0, Lv(m.v), n0, keep)
  <1>. DEFINE StepOf(f, k) == OwnNode(IF k = 0 THEN m ELSE f[k-1], i, k, keep)
              Defines(f) == f = [k \in 0 .. 0 |-> StepOf(f, k)]
              path == CHOOSE f : Defines(f)
              r == [k \in 0 .. 0 |-> OwnNode(m, i, 0, keep)]
  <1>1. Defines(r)
    <2>1. ASSUME NEW k \in 0 .. 0
          PROVE  StepOf(r, k) = OwnNode(m, i, 0, keep)
      BY SMT
    <2>. HIDE DEF StepOf
    <2>. QED
      BY <2>1
  <1>2. Defines(path)
    <2>. HIDE DEF Defines
    <2>. QED
      BY <1>1, Zenon
  <1>3. path[0] = OwnNode(m, i, 0, keep)
    <2>1. path[0] = StepOf(path, 0)
      <3>. HIDE DEF StepOf, path
      <3>. QED
        BY <1>2
    <2>. HIDE DEF path
    <2>. QED
      BY <2>1
  <1>4. Own(m, i, 0, keep) = path[0]
    BY DEF Own
  <1>5. OwnNode(m, i, 0, keep) = OwnNode(m, 0, 0, keep)
    <2>1. /\ m.h \in Seq(Node) /\ m.v \in Vector /\ m.v.shift = Lv(m.v) * BP_BITS
          /\ Lv(m.v) \in Nat /\ 0 \in Nat
      BY FitsFacts
    <2>2. Lv(m.v) - Lv(m.v) = 0
      BY <2>1
    <2>3. On(m.h, m.v, i, Lv(m.v)) = m.v.root /\ On(m.h, m.v, 0, Lv(m.v)) = m.v.root
      BY <2>1, Path
    <2>4. Walk(m.h, m.v, i, 0) = m.v.root /\ Walk(m.h, m.v, 0, 0) = m.v.root
      BY <2>2, <2>3 DEF On
    <2>5. \A a, b : Hang(m, a, 0, b) = Hang(m, 0, 0, b)
      BY DEF Hang
    <2>. QED
      BY <2>4, <2>5 DEF OwnNode
  <1>6. 0 \in Room(m.v)
    BY FitsFacts
  <1>. HIDE DEF path
  <1>. QED
    BY <1>3, <1>4, <1>5, <1>6, OwnFirst

\* a new root over the old one
Rotated(m, P, r, P2, nid) ==
  /\ Fits(r, P2) /\ r.ub = m.ub
  /\ r.v = [m.v EXCEPT !.shift = @ + BP_BITS, !.root = Len(m.h) + 1]
  /\ Lv(r.v) = Lv(m.v) + 1
  /\ Len(r.h) = Len(m.h) + 1
  /\ r.h[Len(m.h) + 1].id = nid
  /\ \A n \in DOMAIN m.h : P2[n] = P[n] /\ r.h[n] = m.h[n]
  /\ \A j \in Room(r.v) : On(r.h, r.v, j, Lv(m.v) + 1) = Len(m.h) + 1
  /\ \A j \in Room(m.v) : j \in Room(r.v)
  /\ \A j \in Room(m.v), e \in 0 .. Lv(m.v) : On(r.h, r.v, j, e) = On(m.h, m.v, j, e)
  /\ \A j \in Room(r.v) \ Room(m.v), e \in 0 .. Lv(m.v) : On(r.h, r.v, j, e) = Null

(* Rotate puts the trie under a new root.                                  *)
LEMMA RotateIs ==
  ASSUME NEW m, NEW P, Fits(m, P), NEW nid \in Int
  PROVE  Rotated(m, P, Rotate(m, nid), Grafted(P, Len(m.h) + 1, Lv(m.v) + 1, 0), nid)
  <1>. DEFINE L == Lv(m.v)
              n == Len(m.h) + 1
              node == [NewNode("branches", nid) EXCEPT !.slot[0] = m.v.root]
              P2 == Grafted(P, n, L + 1, 0)
              r == Rotate(m, nid)
  <1>1. /\ m \in Record /\ m.h \in Seq(Node) /\ m.v \in Vector /\ L \in Nat /\ m.ub \in BOOLEAN
        /\ m.v.shift = Lv(m.v) * BP_BITS /\ Len(m.h) \in Nat /\ DOMAIN m.h = 1 .. Len(m.h)
        /\ IsHeap(m.h, P) /\ IsVec(m.h, P, m.v) /\ Room(m.v) \subseteq Nat /\ n \in Nat
        /\ m.v.root \in DOMAIN m.h /\ m.v.root \in Int /\ m.v.root # Null /\ m.v.shift \in Nat
    <2>1. /\ m \in Record /\ m.h \in Seq(Node) /\ m.v \in Vector /\ L \in Nat /\ m.ub \in BOOLEAN
          /\ m.v.shift = Lv(m.v) * BP_BITS /\ Len(m.h) \in Nat /\ DOMAIN m.h = 1 .. Len(m.h)
          /\ IsHeap(m.h, P) /\ IsVec(m.h, P, m.v) /\ Room(m.v) \subseteq Nat
      BY FitsFacts
    <2>2. m.v.root \in DOMAIN m.h
      BY <2>1 DEF IsVec
    <2>3. m.v.shift \in Nat /\ m.v.root \in Nat
      BY <2>1 DEF Vector
    <2>4. m.v.root # Null
      BY <2>1, <2>2 DEF Null
    <2>. HIDE DEF L
    <2>. QED
      BY <2>1, <2>2, <2>3, <2>4
  <1>2. /\ node \in Node /\ node.type = "branches" /\ node.id = nid
        /\ node.slot[0] = m.v.root /\ 0 \in Slot
        /\ \A s \in Slot : s # 0 => node.slot[s] = Null
    <2>1. Zeroes \in [Slot -> Int] /\ \A s \in Slot : Zeroes[s] = 0
      BY DEF Zeroes
    <2>2. 0 \in Slot
      BY WidthFacts DEF Slot
    <2>3. node = [type |-> "branches", id |-> nid, slot |-> [Zeroes EXCEPT ![0] = m.v.root]]
      BY DEF NewNode
    <2>4. node.type = "branches" /\ node.id = nid /\ node.slot = [Zeroes EXCEPT ![0] = m.v.root]
      BY <2>3
    <2>5. [Zeroes EXCEPT ![0] = m.v.root] \in [Slot -> Int]
      BY <1>1, <2>1
    <2>6. node \in Node
      BY <2>3, <2>5 DEF Node
    <2>. HIDE DEF node
    <2>. QED
      BY <2>1, <2>2, <2>4, <2>6 DEF Null
  <1>3. /\ r.h = Append(m.h, node) /\ r.ub = m.ub
        /\ r.v = [m.v EXCEPT !.shift = @ + BP_BITS, !.root = n]
        /\ r \in [h : Seq(Node), v : Vector, ub : BOOLEAN]
    <2>. DEFINE a == [m EXCEPT !.v.shift = @ + BP_BITS]
    <2>1. /\ a = [h |-> m.h, v |-> [m.v EXCEPT !.shift = @ + BP_BITS], ub |-> m.ub]
      <3>1. m = [h |-> m.h, v |-> m.v, ub |-> m.ub]
        BY <1>1 DEF Record
      <3>. DEFINE mh == m.h
                  mv == m.v
                  mu == m.ub
      <3>2. m = [h |-> mh, v |-> mv, ub |-> mu]
        BY <3>1
      <3>. HIDE DEF mh, mv, mu
      <3>3. a = [h |-> mh, v |-> [mv EXCEPT !.shift = @ + BP_BITS], ub |-> mu]
        BY <3>2
      <3>. HIDE DEF a
      <3>. QED
        BY <3>3 DEF mh, mv, mu
    <2>. HIDE DEF node
    <2>2. r = Hang(a, 0, 0, node)
      BY DEF Rotate, node
    <2>3. r = [[a EXCEPT !.h = Append(@, node)] EXCEPT !.v.root = Len(a.h) + 1]
      BY <2>2 DEF Hang
    <2>. HIDE DEF r, a
    <2>. DEFINE va == [m.v EXCEPT !.shift = @ + BP_BITS]
                vb == [va EXCEPT !.root = n]
    <2>4. r = [h |-> Append(m.h, node), v |-> vb, ub |-> m.ub]
      BY <2>1, <2>3
    <2>5. vb = [m.v EXCEPT !.shift = @ + BP_BITS, !.root = n] /\ vb \in Vector
      <3>1. m.v.shift + BP_BITS \in Nat /\ n \in Nat
        BY <1>1
      <3>2. m.v \in [kind : Kind, sz : Nat, shift : Nat, root : Nat, id : Nat]
        BY <1>1 DEF Vector
      <3>. DEFINE mv == m.v
                  sh == m.v.shift + BP_BITS
      <3>3. mv \in [kind : Kind, sz : Nat, shift : Nat, root : Nat, id : Nat] /\ sh \in Nat
        BY <3>1, <3>2
      <3>4. [mv EXCEPT !.shift = @ + BP_BITS] = [mv EXCEPT !.shift = sh]
        BY <3>3
      <3>. HIDE DEF mv, sh, n
      <3>5. /\ [[mv EXCEPT !.shift = sh] EXCEPT !.root = n] = [mv EXCEPT !.shift = sh, !.root = n]
            /\ [mv EXCEPT !.shift = sh, !.root = n]
                 \in [kind : Kind, sz : Nat, shift : Nat, root : Nat, id : Nat]
        BY <3>1, <3>3
      <3>. QED
        BY <3>3, <3>4, <3>5 DEF Vector, mv, sh
    <2>6. Append(m.h, node) \in Seq(Node)
      BY <1>1, <1>2
    <2>. QED
      BY <1>1, <2>4, <2>5, <2>6
  <1>. HIDE DEF r, node
  <1>4. /\ r \in Record /\ r.h \in Seq(Node) /\ r.v \in Vector
        /\ r.v.shift = m.v.shift + BP_BITS /\ r.v.root = n /\ r.v.sz = m.v.sz
        /\ Len(r.h) = n /\ DOMAIN r.h = 1 .. n /\ r.h[n] = node
        /\ \A y \in DOMAIN m.h : y \in DOMAIN r.h /\ r.h[y] = m.h[y] /\ y # n
    BY <1>1, <1>2, <1>3 DEF Record, Vector
  <1>5. Lv(r.v) = L + 1 /\ r.v.shift = Lv(r.v) * BP_BITS
    <2>1. r.v.shift = (L + 1) * BP_BITS
      BY <1>1, <1>4
    <2>2. ((L + 1) * BP_BITS) \div BP_BITS = L + 1
      <3>. DEFINE k == L + 1
      <3>1. k \in Nat
        BY <1>1
      <3>. HIDE DEF k
      <3>2. (k * BP_BITS) \div BP_BITS = k
        BY <3>1, Shifted
      <3>. QED
        BY <3>2 DEF k
    <2>3. Lv(r.v) = L + 1
      BY <2>1, <2>2 DEF Lv
    <2>. QED
      BY <2>1, <2>3
  <1>6. /\ P2 \in [DOMAIN r.h -> Nat \X Nat] /\ P2[n] = <<L + 1, 0>>
        /\ \A y \in DOMAIN m.h : P2[y] = P[y]
    <2>1. P \in [DOMAIN m.h -> Nat \X Nat]
      BY <1>1 DEF IsHeap
    <2>2. ASSUME NEW y \in 1 .. n
          PROVE  (IF y = n THEN <<L + 1, 0>> ELSE P[y]) \in Nat \X Nat
      <3>1. CASE y = n
        BY <1>1, <3>1
      <3>2. CASE y # n
        <4>1. y \in DOMAIN m.h
          BY <1>1, <3>2
        <4>. QED
          BY <2>1, <3>2, <4>1
      <3>. QED
        BY <3>1, <3>2
    <2>. HIDE DEF L
    <2>3. P2 = [y \in 1 .. n |-> IF y = n THEN <<L + 1, 0>> ELSE P[y]]
      BY DEF Grafted
    <2>4. n \in 1 .. n /\ \A y \in DOMAIN m.h : y \in 1 .. n /\ y # n
      BY <1>1
    <2>. HIDE DEF P2, n
    <2>. QED
      BY <1>4, <2>2, <2>3, <2>4
  <1>. HIDE DEF P2
  <1>7. IsHeap(r.h, P2)
    <2>1. ASSUME NEW y \in DOMAIN r.h
          PROVE  r.h[y].type = IF P2[y][1] = 0 THEN "leaves" ELSE "branches"
      <3>1. CASE y = n
        <4>1. P2[y][1] = L + 1 /\ L + 1 # 0
          BY <1>1, <1>6, <3>1
        <4>. QED
          BY <1>2, <1>4, <3>1, <4>1
      <3>2. CASE y # n
        <4>1. y \in DOMAIN m.h
          BY <1>1, <1>4, <3>2
        <4>2. m.h[y].type = IF P[y][1] = 0 THEN "leaves" ELSE "branches"
          BY <1>1, <4>1 DEF IsHeap
        <4>. QED
          BY <1>4, <1>6, <4>1, <4>2
      <3>. QED
        BY <3>1, <3>2
    <2>2. ASSUME NEW y \in DOMAIN r.h, P2[y][1] # 0, NEW s \in Slot, r.h[y].slot[s] # Null
          PROVE  /\ r.h[y].slot[s] \in DOMAIN r.h
                 /\ P2[r.h[y].slot[s]] = <<P2[y][1] - 1, BP_WIDTH * P2[y][2] + s>>
      <3>1. CASE y = n
        <4>1. s = 0 /\ r.h[y].slot[s] = m.v.root
          BY <1>2, <1>4, <2>2, <3>1
        <4>2. P2[m.v.root] = <<L, 0>>
          BY <1>1, <1>6 DEF IsVec
        <4>3. P2[y][1] - 1 = L /\ BP_WIDTH * P2[y][2] + s = 0
          <5>1. P2[y][1] = L + 1 /\ P2[y][2] = 0
            BY <1>6, <3>1
          <5>. QED
            BY <1>1, <4>1, <5>1, WidthFacts
        <4>. QED
          BY <1>1, <1>4, <4>1, <4>2, <4>3
      <3>2. CASE y # n
        <4>1. y \in DOMAIN m.h
          BY <1>1, <1>4, <3>2
        <4>2. m.h[y].slot[s] # Null /\ P[y][1] # 0
          BY <1>4, <1>6, <2>2, <4>1
        <4>3. /\ m.h[y].slot[s] \in DOMAIN m.h
              /\ P[m.h[y].slot[s]] = <<P[y][1] - 1, BP_WIDTH * P[y][2] + s>>
          BY <1>1, <4>1, <4>2 DEF IsHeap
        <4>. QED
          BY <1>4, <1>6, <4>1, <4>3
      <3>. QED
        BY <3>1, <3>2
    <2>. QED
      BY <1>4, <1>6, <2>1, <2>2 DEF IsHeap
  <1>8. Width(L + 1) <= Width(L + 1 + 1) /\ Width(L + 1) \in Nat /\ Width(L + 1 + 1) \in Nat
    <2>1. L + 1 \in Nat /\ L + 1 + 1 \in Nat /\ L + 1 <= L + 1 + 1
      BY <1>1
    <2>. QED
      BY <2>1, WidthMono, WidthFacts
  <1>9. Fits(r, P2)
    <2>1. IsVec(r.h, P2, r.v)
      <3>1. m.v.sz <= Width(L + 1) /\ m.v.sz \in Nat
        BY <1>1 DEF IsVec, Vector
      <3>2. r.v.sz <= Width(Lv(r.v) + 1)
        BY <1>4, <1>5, <1>8, <3>1
      <3>3. r.v.root \in DOMAIN r.h /\ P2[r.v.root] = <<Lv(r.v), 0>>
        BY <1>1, <1>4, <1>5, <1>6
      <3>. QED
        BY <1>4, <1>5, <3>2, <3>3 DEF IsVec
    <2>. QED
      BY <1>4, <1>7, <2>1 DEF Fits
  <1>10. ASSUME NEW j \in Room(m.v)
         PROVE  j \in Room(r.v)
    BY <1>5, <1>8 DEF Room
  <1>11. ASSUME NEW j \in Room(r.v)
         PROVE  /\ j \in Nat /\ On(r.h, r.v, j, L + 1) = n
                /\ On(r.h, r.v, j, L) = node.slot[Blk(j, L + 1) % BP_WIDTH]
                /\ Blk(j, L + 1) % BP_WIDTH \in Slot
                /\ Blk(j, L + 1) % BP_WIDTH = Blk(j, L + 1)
                /\ Blk(j, L + 1) = 0 <=> j \in Room(m.v)
    <2>1. j \in Nat /\ Blk(j, Lv(r.v) + 1) = 0
      BY <1>4, RoomFacts
    <2>2. On(r.h, r.v, j, L + 1) = n
      BY <1>4, <1>5, <2>1, Path
    <2>3. L \in 0 .. Lv(r.v) - 1
      BY <1>1, <1>5
    <2>4. /\ Blk(j, L + 1) % BP_WIDTH \in Slot
          /\ On(r.h, r.v, j, L) = r.h[On(r.h, r.v, j, L + 1)].slot[Blk(j, L + 1) % BP_WIDTH]
      <3>1. On(r.h, r.v, j, L + 1) \in DOMAIN r.h
        BY <1>1, <1>4, <2>2
      <3>2. IsHeap(r.h, P2) /\ IsVec(r.h, P2, r.v)
        BY <1>9 DEF Fits
      <3>. HIDE DEF L
      <3>. QED
        BY <2>1, <2>3, <3>1, <3>2, PathStep
    <2>5. L + 1 \in Nat /\ Lv(r.v) + 1 = (L + 1) + 1
      BY <1>1, <1>5
    <2>6. Blk(j, L + 1) = BP_WIDTH * Blk(j, (L + 1) + 1) + (Blk(j, L + 1) % BP_WIDTH)
          /\ Blk(j, L + 1) \in Nat
      <3>. DEFINE e == L + 1
      <3>1. e \in Nat
        BY <1>1
      <3>. HIDE DEF e
      <3>2. Blk(j, e) = BP_WIDTH * Blk(j, e + 1) + (Blk(j, e) % BP_WIDTH) /\ Blk(j, e) \in Nat
        BY <2>1, <3>1, Blocks
      <3>. QED
        BY <3>2 DEF e
    <2>7. Blk(j, L + 1) % BP_WIDTH = Blk(j, L + 1)
      <3>1. Blk(j, (L + 1) + 1) = 0
        BY <2>1, <2>5
      <3>2. BP_WIDTH * 0 = 0
        BY WidthFacts
      <3>3. Blk(j, L + 1) % BP_WIDTH \in Nat
        BY <2>4 DEF Slot
      <3>. QED
        BY <2>6, <3>1, <3>2, <3>3
    <2>8. Blk(j, L + 1) = 0 <=> j \in Room(m.v)
      BY <1>1, <2>1, RoomFacts
    <2>. QED
      BY <1>4, <2>1, <2>2, <2>4, <2>7, <2>8
  <1>12. ASSUME NEW j \in Room(m.v)
         PROVE  \A e \in 0 .. L : On(r.h, r.v, j, e) = On(m.h, m.v, j, e)
    <2>1. j \in Room(r.v) /\ j \in Nat
      BY <1>1, <1>10
    <2>2. On(r.h, r.v, j, L) = m.v.root
      BY <1>2, <1>11, <2>1
    <2>3. On(m.h, m.v, j, L) = m.v.root
      BY <1>1, <2>1, Path
    <2>4. KeptOn(m.h, r.h, m.v, j, 0, L)
      <3>1. ASSUME NEW f \in 0 + 1 .. L
            PROVE  Kept(m.h, r.h, On(m.h, m.v, j, f))
        <4>1. f \in 0 .. L
          BY <1>1
        <4>2. CASE On(m.h, m.v, j, f) = Null
          <5>1. Null \notin DOMAIN m.h /\ Null \notin DOMAIN r.h
            BY <1>1, <1>4 DEF Null
          <5>. QED
            BY <4>2, <5>1 DEF Kept
        <4>3. CASE On(m.h, m.v, j, f) # Null
          <5>1. On(m.h, m.v, j, f) \in DOMAIN m.h
            BY <1>1, <4>1, <4>3, OnPlace
          <5>. QED
            BY <1>4, <5>1 DEF Kept
        <4>. QED
          BY <4>2, <4>3
      <3>. QED
        BY <3>1 DEF KeptOn
    <2>5. L \in 0 .. Lv(m.v) /\ L <= Lv(r.v) /\ 0 \in 0 .. L
      BY <1>1, <1>5
    <2>6. On(r.h, r.v, j, L) = On(m.h, m.v, j, L)
      BY <2>2, <2>3
    <2>. HIDE DEF L
    <2>7. Meet(m.h, m.v, r.h, r.v, j, 0, L)
      BY <1>1, <1>4, <1>5, <2>1, <2>4, <2>5, <2>6, OnFrame
    <2>. QED
      BY <2>7 DEF Meet
  <1>13. ASSUME NEW j \in Room(r.v) \ Room(m.v), NEW e \in 0 .. L
         PROVE  On(r.h, r.v, j, e) = Null
    <2>1. On(r.h, r.v, j, L) = Null
      BY <1>2, <1>11
    <2>2. IsHeap(r.h, P2) /\ IsVec(r.h, P2, r.v) /\ e \in 0 .. Lv(r.v) /\ L \in e .. Lv(r.v)
          /\ j \in Nat
      BY <1>1, <1>5, <1>9, <1>11 DEF Fits
    <2>. HIDE DEF L
    <2>. QED
      BY <2>1, <2>2, OnAbove
  <1>. HIDE DEF n
  <1>14. Rotated(m, P, r, P2, nid)
    BY <1>2, <1>3, <1>4, <1>5, <1>6, <1>9, <1>10, <1>11, <1>12, <1>13 DEF Rotated, n
  <1>. QED
    BY <1>14 DEF r, P2, n

\* every element has its leaf, and an empty trie is one leaf
Full(h, v) ==
  /\ \A j \in 0 .. v.sz - 1 : On(h, v, j, 0) # Null
  /\ v.sz = 0 => Lv(v) = 0

(* Pushed: after the elements of m comes x. The vector's own nodes that    *)
(* were written lie on the path to x, before and after; the others are     *)
(* shared. s is 1 when the new element is counted.                         *)
Pushed(m, P, m2, P2, x, keep, nid, s) ==
  /\ Fits(m2, P2)
  /\ Len(m.h) <= Len(m2.h)
  /\ \A n \in DOMAIN m.h : P2[n] = P[n] /\ m2.h[n].id = m.h[n].id
  /\ m2.v.sz = m.v.sz + s /\ m2.v.id = m.v.id /\ m2.v.kind = m.v.kind
  /\ Lv(m.v) <= Lv(m2.v)
  /\ \A n \in DOMAIN m.h : m2.h[n] # m.h[n] =>
       /\ m.h[n].id \in keep /\ m.v.sz \in Room(m.v)
       /\ \E f \in 0 .. Lv(m.v) :
            n = On(m.h, m.v, m.v.sz, f) /\ n = On(m2.h, m2.v, m.v.sz, f)
  /\ \A n \in Len(m.h) + 1 .. Len(m2.h) : m2.h[n].id \in {m.v.id, nid}
  /\ \A j \in Room(m2.v), e \in 0 .. Lv(m2.v) :
       \/ On(m2.h, m2.v, j, e) > Len(m.h)
       \/ On(m2.h, m2.v, j, e) = Null
       \/ /\ j \in Room(m.v) /\ e \in 0 .. Lv(m.v)
          /\ On(m2.h, m2.v, j, e) = On(m.h, m.v, j, e)
  /\ m.v.sz \in Room(m2.v) /\ On(m2.h, m2.v, m.v.sz, 0) # Null
  /\ Cell(m2.h, m2.v, m.v.sz) = x
  /\ \A j \in 0 .. m.v.sz - 1 :
       On(m2.h, m2.v, j, 0) # Null /\ Cell(m2.h, m2.v, j) = Cell(m.h, m.v, j)
  /\ \A e \in 0 .. Lv(m2.v) : Mine(m2.h, On(m2.h, m2.v, m.v.sz, e), Len(m.h), keep)

(* The path depends on the root and the shift alone. *)
LEMMA SameTrie ==
  ASSUME NEW h \in Seq(Node), NEW u \in Vector, NEW v \in Vector, u.shift = Lv(u) * BP_BITS,
         v.root = u.root, v.shift = u.shift
  PROVE  /\ Lv(v) = Lv(u) /\ Room(v) = Room(u)
         /\ \A j \in Nat, e \in 0 .. Lv(u) : On(h, v, j, e) = On(h, u, j, e)
         /\ \A j \in Nat : Cell(h, v, j) = Cell(h, u, j)
  <1>1. Lv(v) = Lv(u) /\ Lv(u) \in Nat /\ Lv(u) \in 0 .. Lv(u) /\ 0 \in 0 .. Lv(u)
    BY Levels DEF Lv
  <1>2. ASSUME NEW j \in Nat
        PROVE  \A e \in 0 .. Lv(u) : On(h, v, j, e) = On(h, u, j, e)
    <2>. DEFINE L == Lv(u)
    <2>1. On(h, v, j, Lv(v)) = v.root /\ On(h, u, j, Lv(u)) = u.root
      BY <1>1, Path
    <2>2. On(h, v, j, L) = On(h, u, j, L)
      BY <1>1, <2>1
    <2>3. KeptOn(h, h, u, j, 0, L)
      BY DEF KeptOn, Kept
    <2>4. L \in 0 .. Lv(u) /\ L <= Lv(v) /\ 0 \in 0 .. L /\ v.shift = Lv(v) * BP_BITS
      BY <1>1
    <2>. HIDE DEF L
    <2>5. Meet(h, u, h, v, j, 0, L)
      BY <2>2, <2>3, <2>4, OnFrame
    <2>. QED
      BY <2>5 DEF Meet, L
  <1>3. Room(v) = Room(u)
    BY <1>1 DEF Room
  <1>. QED
    BY <1>1, <1>2, <1>3 DEF Cell

(* Longer changes the size and nothing else.                               *)
LEMMA LongerIs ==
  ASSUME NEW m, m \in Record
  PROVE  /\ Longer(m) \in Record
         /\ Longer(m).h = m.h /\ Longer(m).ub = m.ub
         /\ Longer(m).v = [m.v EXCEPT !.sz = @ + 1]
         /\ Longer(m).v.sz = m.v.sz + 1 /\ Longer(m).v.root = m.v.root
         /\ Longer(m).v.shift = m.v.shift /\ Longer(m).v.id = m.v.id
         /\ Longer(m).v.kind = m.v.kind
  <1>. DEFINE v2 == [m.v EXCEPT !.sz = @ + 1]
              mh == m.h
              mv == m.v
              mu == m.ub
  <1>1. m = [h |-> mh, v |-> mv, ub |-> mu] /\ mh \in Seq(Node) /\ mv \in Vector /\ mu \in BOOLEAN
    BY DEF Record
  <1>. HIDE DEF mh, mv, mu
  <1>2. Longer(m) = [h |-> mh, v |-> [mv EXCEPT !.sz = @ + 1], ub |-> mu]
    BY <1>1 DEF Longer
  <1>3. mv \in [kind : Kind, sz : Nat, shift : Nat, root : Nat, id : Nat]
    BY <1>1 DEF Vector
  <1>. DEFINE w == [mv EXCEPT !.sz = @ + 1]
  <1>4. /\ w \in [kind : Kind, sz : Nat, shift : Nat, root : Nat, id : Nat]
        /\ w.sz = mv.sz + 1 /\ w.root = mv.root /\ w.shift = mv.shift /\ w.id = mv.id
        /\ w.kind = mv.kind
    BY <1>3
  <1>. HIDE DEF w
  <1>5. Longer(m) = [h |-> mh, v |-> w, ub |-> mu] /\ w \in Vector
    BY <1>2, <1>4 DEF w, Vector
  <1>6. Longer(m) \in Record /\ Longer(m).h = mh /\ Longer(m).ub = mu /\ Longer(m).v = w
    BY <1>1, <1>5 DEF Record
  <1>. QED
    BY <1>4, <1>6 DEF w, mh, mv, mu

(* Counting the element that was written. *)
LEMMA PushLonger ==
  ASSUME NEW m, NEW P, Fits(m, P), NEW c, NEW P2, NEW x, NEW keep, NEW nid,
         Pushed(m, P, c, P2, x, keep, nid, 0)
  PROVE  Pushed(m, P, Longer(c), P2, x, keep, nid, 1)
  <1>. DEFINE m2 == Longer(c)
  <1>1. /\ Fits(c, P2) /\ c \in Record /\ c.h \in Seq(Node) /\ c.v \in Vector
        /\ c.v.shift = Lv(c.v) * BP_BITS /\ IsHeap(c.h, P2) /\ IsVec(c.h, P2, c.v)
        /\ Lv(c.v) \in Nat /\ Room(c.v) \subseteq Nat /\ m.v \in Vector
        /\ c.v.sz = m.v.sz /\ m.v.sz \in Nat
    BY FitsFacts DEF Pushed, Vector
  <1>2. /\ m2 \in Record /\ m2.h = c.h /\ m2.ub = c.ub /\ m2.v.sz = c.v.sz + 1
        /\ m2.v.root = c.v.root /\ m2.v.shift = c.v.shift /\ m2.v.id = c.v.id
        /\ m2.v.kind = c.v.kind /\ m2.v \in Vector
    BY <1>1, LongerIs DEF Record
  <1>. HIDE DEF m2
  <1>3. /\ Lv(m2.v) = Lv(c.v) /\ Room(m2.v) = Room(c.v)
        /\ \A j \in Nat, e \in 0 .. Lv(c.v) : On(m2.h, m2.v, j, e) = On(c.h, c.v, j, e)
        /\ \A j \in Nat : Cell(m2.h, m2.v, j) = Cell(c.h, c.v, j)
    BY <1>1, <1>2, SameTrie
  <1>4. m.v.sz + 1 <= Width(Lv(c.v) + 1)
    <2>1. m.v.sz \in Room(c.v)
      BY DEF Pushed
    <2>2. m.v.sz < Width(Lv(c.v) + 1)
      BY <1>1, <2>1, RoomFacts
    <2>3. Width(Lv(c.v) + 1) \in Nat
      <3>1. Lv(c.v) + 1 \in Nat
        BY <1>1
      <3>. QED
        BY <3>1, WidthFacts
    <2>. QED
      BY <1>1, <2>2, <2>3
  <1>5. Fits(m2, P2)
    BY <1>1, <1>2, <1>3, <1>4 DEF Fits, IsVec
  <1>6. \A n \in DOMAIN m.h : m2.h[n] # m.h[n] =>
          /\ m.h[n].id \in keep /\ m.v.sz \in Room(m.v)
          /\ \E f \in 0 .. Lv(m.v) :
               n = On(m.h, m.v, m.v.sz, f) /\ n = On(m2.h, m2.v, m.v.sz, f)
    <2>1. Lv(m.v) <= Lv(c.v) /\ Lv(m.v) \in Nat
      BY FitsFacts DEF Pushed
    <2>2. \A f \in 0 .. Lv(m.v) : On(m2.h, m2.v, m.v.sz, f) = On(c.h, c.v, m.v.sz, f)
      <3>1. \A f \in 0 .. Lv(m.v) : f \in 0 .. Lv(c.v)
        BY <1>1, <2>1
      <3>. QED
        BY <1>1, <1>3, <3>1
    <2>. QED
      BY <1>2, <2>2 DEF Pushed
  <1>7. \A j \in Room(m2.v), e \in 0 .. Lv(m2.v) :
          \/ On(m2.h, m2.v, j, e) > Len(m.h)
          \/ On(m2.h, m2.v, j, e) = Null
          \/ /\ j \in Room(m.v) /\ e \in 0 .. Lv(m.v)
             /\ On(m2.h, m2.v, j, e) = On(m.h, m.v, j, e)
    <2>1. \A j \in Room(c.v), e \in 0 .. Lv(c.v) : On(m2.h, m2.v, j, e) = On(c.h, c.v, j, e)
      BY <1>1, <1>3
    <2>. QED
      BY <1>3, <2>1 DEF Pushed
  <1>8. /\ m.v.sz \in Room(m2.v) /\ On(m2.h, m2.v, m.v.sz, 0) # Null
        /\ Cell(m2.h, m2.v, m.v.sz) = x
    <2>1. 0 \in 0 .. Lv(c.v)
      BY <1>1
    <2>. QED
      BY <1>1, <1>3, <2>1 DEF Pushed
  <1>9. \A j \in 0 .. m.v.sz - 1 :
          On(m2.h, m2.v, j, 0) # Null /\ Cell(m2.h, m2.v, j) = Cell(m.h, m.v, j)
    <2>1. 0 \in 0 .. Lv(c.v) /\ \A j \in 0 .. m.v.sz - 1 : j \in Nat
      BY <1>1
    <2>. QED
      BY <1>3, <2>1 DEF Pushed
  <1>10. m2.v.sz = m.v.sz + 1 /\ m2.v.id = m.v.id /\ m2.v.kind = m.v.kind
         /\ Lv(m.v) <= Lv(m2.v)
    BY <1>1, <1>2, <1>3 DEF Pushed
  <1>11. /\ Len(m.h) <= Len(m2.h)
         /\ \A n \in DOMAIN m.h : P2[n] = P[n] /\ m2.h[n].id = m.h[n].id
         /\ \A n \in Len(m.h) + 1 .. Len(m2.h) : m2.h[n].id \in {m.v.id, nid}
    BY <1>2 DEF Pushed
  <1>12. \A e \in 0 .. Lv(m2.v) : Mine(m2.h, On(m2.h, m2.v, m.v.sz, e), Len(m.h), keep)
    <2>1. \A e \in 0 .. Lv(c.v) : Mine(c.h, On(c.h, c.v, m.v.sz, e), Len(m.h), keep)
      BY DEF Pushed
    <2>2. \A e \in 0 .. Lv(c.v) : On(m2.h, m2.v, m.v.sz, e) = On(c.h, c.v, m.v.sz, e)
      BY <1>1, <1>3
    <2>. QED
      BY <1>2, <1>3, <2>1, <2>2
  <1>. QED
    BY <1>5, <1>6, <1>7, <1>8, <1>9, <1>10, <1>11, <1>12 DEF Pushed, m2

(* A push whose element falls into a leaf that is there. *)
LEMMA PushWrite ==
  ASSUME NEW m, NEW P, Fits(m, P), Full(m.h, m.v), m.v.sz % BP_WIDTH # 0, NEW keep, NEW nid,
         NEW x \in Int
  PROVE  \E P2 : Pushed(m, P, Write(m, m.v.sz, x, keep), P2, x, keep, nid, 0)
  <1>. DEFINE i == m.v.sz
              c == Write(m, i, x, keep)
              L == Lv(m.v)
              n0 == Len(m.h)
  <1>1. /\ m.h \in Seq(Node) /\ m.v \in Vector /\ L \in Nat /\ Room(m.v) \subseteq Nat
        /\ IsHeap(m.h, P) /\ IsVec(m.h, P, m.v) /\ DOMAIN m.h = 1 .. Len(m.h)
        /\ n0 \in Nat /\ 0 \in 0 .. L /\ i \in Nat /\ i <= Width(L + 1) /\ n0 <= Len(m.h)
    BY FitsFacts DEF Vector, IsVec
  <1>2. i - 1 \in Nat /\ Blk(i - 1, 1) = Blk(i, 1)
    <2>1. i % Width(1) # 0 /\ 1 \in Nat
      BY WidthFacts
    <2>. HIDE DEF i
    <2>. QED
      BY <1>1, <2>1, BlockInner
  <1>3. i # Width(L + 1)
    <2>1. Width(L + 1) = BP_WIDTH * Width(L) /\ Width(L) \in Nat /\ BP_WIDTH \in Nat \ {0}
      BY <1>1, WidthFacts
    <2>. DEFINE q == Width(L)
    <2>2. (BP_WIDTH * q + 0) % BP_WIDTH = 0
      <3>1. q \in Nat /\ 0 \in 0 .. BP_WIDTH - 1
        BY <2>1
      <3>. HIDE DEF q
      <3>. QED
        BY <2>1, <3>1, Quotient
    <2>3. BP_WIDTH * q + 0 = Width(L + 1)
      <3>1. BP_WIDTH * q \in Nat
        BY <2>1
      <3>. QED
        BY <2>1, <3>1
    <2>4. Width(L + 1) % BP_WIDTH = 0
      BY <2>2, <2>3
    <2>. QED
      BY <2>4
  <1>4. i \in Room(m.v)
    <2>1. Width(L + 1) \in Nat
      BY <1>1, WidthFacts
    <2>. QED
      BY <1>1, <1>3, <2>1 DEF Room
  <1>5. On(m.h, m.v, i, 0) # Null
    <2>. DEFINE j == i - 1
    <2>1. j \in 0 .. m.v.sz - 1 /\ j \in Nat
      BY <1>1, <1>2
    <2>2. On(m.h, m.v, j, 0) # Null
      BY <2>1 DEF Full
    <2>3. Blk(j, 0 + 1) = Blk(i, 0 + 1)
      BY <1>2
    <2>4. 0 \in 0 .. Lv(m.v)
      BY <1>1
    <2>. HIDE DEF j, i
    <2>. QED
      BY <1>1, <2>1, <2>2, <2>3, <2>4, OnSame
  <1>6. Wrote(m, P, c, i, x, n0, keep)
    <2>. HIDE DEF i, n0
    <2>. QED
      BY <1>1, <1>4, <1>5, WriteIs
  <1>7. PICK P2 : Edits(m, P, c, P2, n0, keep, {})
    BY <1>6 DEF Wrote
  <1>. HIDE DEF c
  <1>8. /\ Fits(c, P2) /\ Lv(c.v) = L /\ Room(c.v) = Room(m.v) /\ c.v.sz = m.v.sz
        /\ c.v.id = m.v.id /\ c.v.kind = m.v.kind
    BY <1>7, EditsFacts
  <1>9. ASSUME NEW n \in DOMAIN m.h, c.h[n] # m.h[n]
        PROVE  /\ m.h[n].id \in keep
               /\ \E f \in 0 .. L : n = On(m.h, m.v, i, f) /\ n = On(c.h, c.v, i, f)
    <2>1. Mine(m.h, n, n0, keep)
      BY <1>7, <1>9 DEF Edits
    <2>2. ~(n > n0)
      BY <1>1
    <2>3. m.h[n].id \in keep
      BY <2>1, <2>2 DEF Mine
    <2>. QED
      BY <1>6, <1>9, <2>3 DEF Wrote
  <1>10. ASSUME NEW j \in Room(m.v), On(m.h, m.v, j, 0) # Null
         PROVE  /\ On(c.h, c.v, j, 0) # Null
                /\ Cell(c.h, c.v, j) = IF j = i THEN x ELSE Cell(m.h, m.v, j)
    <2>1. Cell(c.h, c.v, j) = IF j = i THEN x ELSE Cell(m.h, m.v, j)
      BY <1>6, <1>10 DEF Wrote
    <2>2. 0 \in 0 .. Lv(m.v)
      BY <1>1
    <2>3. On(c.h, c.v, j, 0) # Null
      BY <1>7, <1>10, <2>2, EditsKeep
    <2>. QED
      BY <2>1, <2>3
  <1>11. ASSUME NEW j \in 0 .. i - 1
         PROVE  On(c.h, c.v, j, 0) # Null /\ Cell(c.h, c.v, j) = Cell(m.h, m.v, j)
    <2>1. j \in Room(m.v) /\ j # i
      <3>1. i \in 0 .. Width(Lv(m.v) + 1) - 1
        BY <1>4 DEF Room
      <3>2. Width(Lv(m.v) + 1) \in Nat
        BY <1>1, WidthFacts
      <3>. HIDE DEF i
      <3>3. j \in 0 .. Width(Lv(m.v) + 1) - 1 /\ j # i
        BY <1>1, <3>1, <3>2
      <3>. QED
        BY <3>3 DEF Room
    <2>2. On(m.h, m.v, j, 0) # Null
      BY DEF Full
    <2>. QED
      BY <1>10, <2>1, <2>2
  <1>12. On(c.h, c.v, i, 0) # Null /\ Cell(c.h, c.v, i) = x
    BY <1>4, <1>5, <1>10
  <1>13. c.v.sz = m.v.sz + 0 /\ Lv(m.v) <= Lv(c.v)
    BY <1>1, <1>8
  <1>14. \A j \in Room(c.v), e \in 0 .. Lv(c.v) :
          \/ On(c.h, c.v, j, e) > Len(m.h)
          \/ On(c.h, c.v, j, e) = Null
          \/ /\ j \in Room(m.v) /\ e \in 0 .. Lv(m.v)
             /\ On(c.h, c.v, j, e) = On(m.h, m.v, j, e)
    BY <1>7, <1>8 DEF Edits
  <1>15. /\ Len(m.h) <= Len(c.h)
         /\ \A n \in DOMAIN m.h : P2[n] = P[n] /\ c.h[n].id = m.h[n].id
         /\ \A n \in Len(m.h) + 1 .. Len(c.h) : c.h[n].id \in {m.v.id, nid}
    BY <1>7 DEF Edits
  <1>17. \A e \in 0 .. Lv(c.v) : Mine(c.h, On(c.h, c.v, i, e), Len(m.h), keep)
    BY <1>6, <1>8 DEF Wrote
  <1>16. Pushed(m, P, c, P2, x, keep, nid, 0)
    BY <1>4, <1>8, <1>9, <1>11, <1>12, <1>13, <1>14, <1>15, <1>17 DEF Pushed
  <1>. QED
    BY <1>16 DEF c

(* The first element of a vector that is a single leaf goes into it. *)
LEMMA PushRoot ==
  ASSUME NEW m, NEW P, Fits(m, P), m.v.sz = 0, Lv(m.v) = 0, NEW keep, NEW nid,
         m.h[m.v.root].id \in keep, NEW x \in Int
  PROVE  Pushed(m, P, Put(m, m.v.sz, 0, x), P, x, keep, nid, 0)
  <1>. DEFINE c == Put(m, 0, 0, x)
              n0 == Len(m.h)
  <1>1. /\ m \in Record /\ m.h \in Seq(Node) /\ m.v \in Vector /\ Room(m.v) \subseteq Nat
        /\ IsHeap(m.h, P) /\ IsVec(m.h, P, m.v) /\ DOMAIN m.h = 1 .. Len(m.h) /\ 0 \in Room(m.v)
        /\ n0 \in Nat /\ m.v.shift = Lv(m.v) * BP_BITS /\ Null \notin DOMAIN m.h
        /\ m.v.root \in DOMAIN m.h
    BY FitsFacts DEF IsVec
  <1>2. On(m.h, m.v, 0, 0) = m.v.root
    <2>1. On(m.h, m.v, 0, Lv(m.v)) = m.v.root /\ 0 \in Nat
      BY <1>1, Path
    <2>. QED
      BY <2>1
  <1>3. PutAt(m, c, 0, 0, x)
    <2>1. 0 = Lv(m.v) - 0 /\ 0 \in 0 .. Lv(m.v) /\ 0 \in Nat
      OBVIOUS
    <2>. QED
      BY <1>1, <1>2, <2>1, PutIs
  <1>4. PutLeafFacts(m, P, c, 0, x)
    BY <1>1, <1>2, <1>3, PutLeaf
  <1>. HIDE DEF c
  <1>5. /\ Fits(c, P) /\ c.v = m.v /\ c.ub = m.ub /\ Len(c.h) = Len(m.h)
        /\ \A n \in DOMAIN m.h : c.h[n].id = m.h[n].id
        /\ \A n \in DOMAIN m.h : n # m.v.root => c.h[n] = m.h[n]
        /\ SamePaths(m.h, m.v, c.h, c.v)
        /\ Cell(c.h, c.v, 0) = x
    BY <1>1, <1>2, <1>4 DEF PutLeafFacts
  <1>6. 0 \in 0 .. Lv(m.v)
    OBVIOUS
  <1>7. On(c.h, c.v, 0, 0) = m.v.root
    BY <1>1, <1>2, <1>5, <1>6 DEF SamePaths
  <1>8. \A n \in DOMAIN m.h : c.h[n] # m.h[n] =>
          /\ m.h[n].id \in keep /\ m.v.sz \in Room(m.v)
          /\ \E f \in 0 .. Lv(m.v) :
               n = On(m.h, m.v, m.v.sz, f) /\ n = On(c.h, c.v, m.v.sz, f)
    BY <1>1, <1>2, <1>5, <1>6, <1>7
  <1>9. /\ Len(m.h) <= Len(c.h) /\ Len(m.h) + 1 .. Len(c.h) = {} /\ m.v.sz + 0 = m.v.sz
        /\ 0 .. m.v.sz - 1 = {} /\ Lv(m.v) <= Lv(c.v)
    BY <1>1, <1>5
  <1>10. \A j \in Room(c.v), e \in 0 .. Lv(c.v) :
          /\ j \in Room(m.v) /\ e \in 0 .. Lv(m.v)
          /\ On(c.h, c.v, j, e) = On(m.h, m.v, j, e)
    BY <1>5 DEF SamePaths
  <1>11. m.v.sz \in Room(c.v) /\ On(c.h, c.v, m.v.sz, 0) # Null /\ Cell(c.h, c.v, m.v.sz) = x
    BY <1>1, <1>5, <1>7
  <1>13. ASSUME NEW e \in 0 .. Lv(c.v)
         PROVE  Mine(c.h, On(c.h, c.v, m.v.sz, e), Len(m.h), keep)
    <2>1. e = 0
      BY <1>5
    <2>2. c.h[m.v.root].id = m.h[m.v.root].id
      BY <1>1, <1>5
    <2>. QED
      BY <1>7, <2>1, <2>2 DEF Mine
  <1>12. Pushed(m, P, c, P, x, keep, nid, 0)
    BY <1>5, <1>8, <1>9, <1>10, <1>11, <1>13 DEF Pushed
  <1>. QED
    BY <1>12 DEF c

(* A path of new nodes from a node that is there. *)
LEMMA GrowInside ==
  ASSUME NEW m, NEW P, Fits(m, P), Full(m.h, m.v), NEW keep, NEW nid \in Int, NEW x \in Int,
         NEW E \in 1 .. Lv(m.v), m.v.sz % Width(E) = 0, m.v.sz % Width(E + 1) # 0,
         NEW ins, ins = Lv(m.v) - E
  PROVE  \E c, P2 : /\ Extend(Own(m, m.v.sz, ins, keep), ins, x, nid) = Longer(c)
                    /\ Pushed(m, P, c, P2, x, keep, nid, 0)
  <1>. DEFINE i == m.v.sz
              L == Lv(m.v)
              n0 == Len(m.h)
              o == Own(m, i, ins, keep)
  <1>1. /\ m.h \in Seq(Node) /\ m.v \in Vector /\ L \in Nat /\ Room(m.v) \subseteq Nat
        /\ IsHeap(m.h, P) /\ IsVec(m.h, P, m.v) /\ DOMAIN m.h = 1 .. Len(m.h)
        /\ n0 \in Nat /\ i \in Nat /\ i <= Width(L + 1) /\ n0 <= Len(m.h)
        /\ E \in Nat /\ E + 1 \in Nat /\ L - E \in Nat /\ L + 1 = (E + 1) + (L - E)
        /\ E \in 0 .. L /\ E # 0 /\ 0 \in 0 .. L /\ Null \notin DOMAIN m.h
    <2>1. /\ m.h \in Seq(Node) /\ m.v \in Vector /\ L \in Nat /\ Room(m.v) \subseteq Nat
          /\ IsHeap(m.h, P) /\ IsVec(m.h, P, m.v) /\ DOMAIN m.h = 1 .. Len(m.h)
          /\ n0 \in Nat /\ Null \notin DOMAIN m.h
      BY FitsFacts
    <2>2. i \in Nat /\ i <= Width(L + 1)
      BY <2>1 DEF Vector, IsVec
    <2>3. E \in 1 .. L
      OBVIOUS
    <2>. HIDE DEF L, i
    <2>4. /\ E \in Nat /\ E + 1 \in Nat /\ L - E \in Nat /\ L + 1 = (E + 1) + (L - E)
          /\ E \in 0 .. L /\ E # 0 /\ 0 \in 0 .. L
      BY <2>1, <2>3
    <2>5. n0 <= Len(m.h)
      BY <2>1
    <2>. QED
      BY <2>1, <2>2, <2>4, <2>5
  <1>2. i - 1 \in Nat /\ Blk(i - 1, E + 1) = Blk(i, E + 1)
    <2>. HIDE DEF i
    <2>. DEFINE F == E + 1
    <2>1. i % Width(F) # 0 /\ F \in Nat
      BY <1>1 DEF i
    <2>. HIDE DEF F
    <2>2. i - 1 \in Nat /\ Blk(i - 1, F) = Blk(i, F)
      BY <1>1, <2>1, BlockInner
    <2>. QED
      BY <2>2 DEF F
  <1>3. i # Width(L + 1)
    <2>. DEFINE a == Width(E + 1)
                q == Width(L - E)
    <2>1. Width((E + 1) + (L - E)) = a * q
      BY <1>1, WidthSum
    <2>2. a \in Nat \ {0} /\ q \in Nat
      BY <1>1, WidthFacts
    <2>3. (a * q + 0) % a = 0
      <3>1. 0 \in 0 .. a - 1
        BY <2>2
      <3>. HIDE DEF a, q
      <3>. QED
        BY <2>2, <3>1, Quotient
    <2>4. a * q + 0 = Width(L + 1)
      <3>. HIDE DEF a, q
      <3>1. a * q \in Nat
        BY <2>2
      <3>. QED
        BY <1>1, <2>1, <3>1
    <2>5. i % a # 0
      OBVIOUS
    <2>. QED
      BY <2>3, <2>4, <2>5
  <1>4. i \in Room(m.v)
    <2>1. Width(L + 1) \in Nat
      <3>1. L + 1 \in Nat
        BY <1>1
      <3>. QED
        BY <3>1, WidthFacts
    <2>2. i \in 0 .. Width(L + 1) - 1
      <3>. DEFINE w == Width(L + 1)
      <3>1. i \in Nat /\ i <= w /\ i # w /\ w \in Nat
        BY <1>1, <1>3, <2>1
      <3>. HIDE DEF w, i
      <3>2. i \in 0 .. w - 1
        BY <3>1
      <3>. QED
        BY <3>2 DEF w
    <2>. HIDE DEF i
    <2>. QED
      BY <2>2 DEF Room
  <1>5. On(m.h, m.v, i, E) # Null
    <2>. DEFINE j == i - 1
    <2>1. j \in 0 .. m.v.sz - 1 /\ j \in Nat
      BY <1>1, <1>2
    <2>2. On(m.h, m.v, j, 0) # Null
      BY <2>1 DEF Full
    <2>3. Blk(j, E + 1) = Blk(i, E + 1)
      BY <1>2
    <2>4. On(m.h, m.v, j, E) # Null
      <3>1. E \in 0 .. Lv(m.v) /\ 0 \in 0 .. Lv(m.v)
        BY <1>1
      <3>. HIDE DEF j
      <3>. QED
        BY <1>1, <2>1, <2>2, <3>1, OnAbove
    <2>. HIDE DEF j, i
    <2>. QED
      BY <1>1, <2>1, <2>3, <2>4, OnSame
  <1>6. Owned(m, P, o, i, E, n0, keep)
    <2>. HIDE DEF i, n0
    <2>. QED
      BY <1>1, <1>4, <1>5, OwnIs
  <1>. HIDE DEF o
  <1>7. PICK P1 : Edits(m, P, o, P1, n0, keep, {})
    BY <1>6 DEF Owned
  <1>8. /\ Fits(o, P1) /\ Lv(o.v) = L /\ Room(o.v) = Room(m.v) /\ o.v.sz = i
        /\ o.v.id = m.v.id /\ o.v.kind = m.v.kind /\ Len(o.h) \in Nat /\ n0 <= Len(o.h)
        /\ DOMAIN o.h = 1 .. Len(o.h)
    BY <1>7, EditsFacts
  <1>9. On(o.h, o.v, i, E) # Null
    <2>1. E \in 0 .. Lv(m.v)
      BY <1>1
    <2>. HIDE DEF i, L
    <2>. QED
      BY <1>4, <1>5, <1>7, <2>1, EditsKeep
  <1>10. PICK c : Extend(o, ins, x, nid) = Longer(c) /\ Sprouted(o, P1, c, i, E, x, nid)
    <2>1. i \in Room(o.v) /\ i = o.v.sz /\ E \in 1 .. Lv(o.v) /\ ins = Lv(o.v) - E
      BY <1>4, <1>8
    <2>. HIDE DEF i
    <2>. QED
      BY <1>8, <1>9, <2>1, ExtendIs
  <1>11. PICK P2 : Sprout(o, P1, c, P2, i, E, 0, nid)
    BY <1>10 DEF Sprouted
  <1>12. /\ Fits(c, P2) /\ c.v = o.v /\ c.ub = o.ub /\ Len(o.h) <= Len(c.h)
         /\ Len(c.h) \in Nat /\ DOMAIN c.h = 1 .. Len(c.h)
    BY <1>11, FitsFacts DEF Sprout
  <1>13. ASSUME NEW n \in DOMAIN m.h
         PROVE  /\ n \in DOMAIN o.h /\ P2[n] = P[n] /\ c.h[n].id = m.h[n].id
                /\ ~(n > n0) /\ n # Null
    <2>1. n \in DOMAIN o.h
      BY <1>1, <1>8
    <2>2. P1[n] = P[n] /\ o.h[n].id = m.h[n].id
      BY <1>7 DEF Edits
    <2>3. P2[n] = P1[n] /\ c.h[n].id = o.h[n].id
      BY <1>11, <2>1 DEF Sprout
    <2>. QED
      BY <1>1, <2>1, <2>2, <2>3
  <1>14. ASSUME NEW f \in 0 .. L, f >= E, NEW j \in Room(m.v)
         PROVE  On(c.h, c.v, j, f) = On(o.h, o.v, j, f)
    BY <1>8, <1>11, <1>14 DEF Sprout
  <1>15. ASSUME NEW n \in DOMAIN m.h, c.h[n] # m.h[n]
         PROVE  /\ m.h[n].id \in keep
                /\ \E f \in 0 .. L : n = On(m.h, m.v, i, f) /\ n = On(c.h, c.v, i, f)
    <2>1. CASE o.h[n] # m.h[n]
      <3>1. PICK f \in 0 .. L : f > E /\ n = On(m.h, m.v, i, f) /\ n = On(o.h, o.v, i, f)
        BY <1>6, <2>1 DEF Owned
      <3>2. f >= E
        BY <1>1, <3>1
      <3>3. n = On(c.h, c.v, i, f)
        BY <1>4, <1>14, <3>1, <3>2
      <3>4. Mine(m.h, n, n0, keep)
        BY <1>7, <2>1 DEF Edits
      <3>. QED
        BY <1>13, <3>1, <3>3, <3>4 DEF Mine
    <2>2. CASE o.h[n] = m.h[n]
      <3>1. n = On(o.h, o.v, i, E)
        BY <1>11, <1>13, <1>15, <2>2 DEF Sprout
      <3>2. On(o.h, o.v, i, E) = On(m.h, m.v, i, E) \/ On(o.h, o.v, i, E) > n0
        BY <1>1, <1>4, <1>7 DEF Edits
      <3>3. n = On(m.h, m.v, i, E)
        BY <1>13, <3>1, <3>2
      <3>4. n = On(c.h, c.v, i, E)
        BY <1>1, <1>4, <1>14, <3>1
      <3>5. Mine(o.h, n, n0, keep)
        BY <1>1, <1>6, <3>1 DEF Owned
      <3>. QED
        BY <1>1, <1>13, <2>2, <3>3, <3>4, <3>5 DEF Mine
    <2>. QED
      BY <2>1, <2>2
  <1>16. ASSUME NEW n \in Len(m.h) + 1 .. Len(c.h)
         PROVE  c.h[n].id \in {m.v.id, nid}
    <2>1. CASE n \in DOMAIN o.h
      <3>1. n \in Len(m.h) + 1 .. Len(o.h)
        BY <1>8, <2>1
      <3>2. o.h[n].id = m.v.id
        <4>1. \A y \in Len(m.h) + 1 .. Len(o.h) : o.h[y].id = m.v.id
          BY <1>7 DEF Edits
        <4>. QED
          BY <3>1, <4>1
      <3>3. c.h[n].id = o.h[n].id
        BY <1>11, <2>1 DEF Sprout
      <3>. QED
        BY <3>2, <3>3
    <2>2. CASE n \notin DOMAIN o.h
      <3>1. n \in Len(o.h) + 1 .. Len(c.h)
        <4>1. /\ Len(m.h) \in Nat /\ Len(o.h) \in Nat /\ Len(c.h) \in Nat
              /\ DOMAIN o.h = 1 .. Len(o.h)
          BY <1>1, <1>8, <1>12
        <4>. QED
          BY <2>2, <4>1
      <3>2. \A y \in Len(o.h) + 1 .. Len(c.h) : c.h[y].id = nid
        BY <1>11 DEF Sprout
      <3>. QED
        BY <3>1, <3>2
    <2>. QED
      BY <2>1, <2>2
  <1>17. ASSUME NEW j \in Room(c.v), NEW e \in 0 .. Lv(c.v)
         PROVE  \/ On(c.h, c.v, j, e) > Len(m.h)
                \/ On(c.h, c.v, j, e) = Null
                \/ /\ j \in Room(m.v) /\ e \in 0 .. Lv(m.v)
                   /\ On(c.h, c.v, j, e) = On(m.h, m.v, j, e)
    <2>1. j \in Room(m.v) /\ e \in 0 .. L /\ j \in Room(o.v) /\ e \in 0 .. Lv(o.v) /\ j \in Nat
      BY <1>1, <1>8, <1>12
    <2>2. CASE e >= E \/ Blk(j, E) # Blk(i, E)
      <3>1. On(c.h, c.v, j, e) = On(o.h, o.v, j, e)
        BY <1>11, <2>1, <2>2 DEF Sprout
      <3>2. On(o.h, o.v, j, e) = On(m.h, m.v, j, e) \/ On(o.h, o.v, j, e) > Len(m.h)
        BY <1>7, <2>1 DEF Edits
      <3>. QED
        BY <2>1, <3>1, <3>2
    <2>3. CASE ~(e >= E \/ Blk(j, E) # Blk(i, E))
      <3>1. 0 # E /\ e < E /\ Blk(j, E) = Blk(i, E)
        BY <1>1, <2>1, <2>3
      <3>2. On(c.h, c.v, j, e) > Len(o.h) \/ On(c.h, c.v, j, e) = Null
        BY <1>11, <2>1, <3>1 DEF Sprout
      <3>3. On(c.h, c.v, j, e) \in Int
        BY <1>12, <2>1, FitsFacts, Path
      <3>. QED
        BY <1>1, <1>8, <3>2, <3>3
    <2>. QED
      BY <2>2, <2>3
  <1>18. ASSUME NEW j \in 0 .. i - 1
         PROVE  On(c.h, c.v, j, 0) # Null /\ Cell(c.h, c.v, j) = Cell(m.h, m.v, j)
    <2>1. j \in Nat /\ j < i
      BY <1>1
    <2>2. j \in Room(m.v)
      <3>1. i < Width(Lv(m.v) + 1)
        BY <1>1, <1>4, RoomFacts
      <3>2. Width(Lv(m.v) + 1) \in Nat
        BY <1>1, WidthFacts
      <3>3. j < Width(Lv(m.v) + 1)
        BY <1>1, <2>1, <3>1, <3>2
      <3>. QED
        BY <1>1, <2>1, <3>3, RoomFacts
    <2>3. On(m.h, m.v, j, 0) # Null
      BY DEF Full
    <2>4. On(o.h, o.v, j, 0) # Null
      BY <1>1, <1>7, <2>2, <2>3, EditsKeep
    <2>5. Cell(o.h, o.v, j) = Cell(m.h, m.v, j)
      BY <1>6, <2>2, <2>3 DEF Owned, SameCells
    <2>6. Blk(j, E) # Blk(i, E)
      <3>1. i % Width(E) = 0
        OBVIOUS
      <3>. HIDE DEF i
      <3>. QED
        BY <1>1, <2>1, <3>1, BlockStart
    <2>7. Cell(c.h, c.v, j) = Cell(o.h, o.v, j)
      BY <1>8, <1>10, <2>2, <2>4, <2>6 DEF Sprouted
    <2>8. On(c.h, c.v, j, 0) = On(o.h, o.v, j, 0)
      BY <1>1, <1>8, <1>11, <2>2, <2>6 DEF Sprout
    <2>. QED
      BY <2>4, <2>5, <2>7, <2>8
  <1>19. /\ i \in Room(c.v) /\ On(c.h, c.v, i, 0) # Null /\ Cell(c.h, c.v, i) = x
    <2>1. On(c.h, c.v, i, 0) > Len(o.h)
      BY <1>1, <1>8, <1>11 DEF Sprout
    <2>2. On(c.h, c.v, i, 0) # Null
      BY <1>8, <2>1 DEF Null
    <2>. QED
      BY <1>4, <1>8, <1>10, <1>12, <2>2 DEF Sprouted
  <1>20. /\ Len(m.h) <= Len(c.h) /\ c.v.sz = m.v.sz + 0 /\ c.v.id = m.v.id
         /\ c.v.kind = m.v.kind /\ Lv(m.v) <= Lv(c.v)
    <2>2. Len(m.h) <= Len(c.h)
      BY <1>1, <1>8, <1>12
    <2>3. c.v.sz = m.v.sz + 0 /\ Lv(m.v) <= Lv(c.v)
      BY <1>1, <1>8, <1>12
    <2>. QED
      BY <1>8, <1>12, <2>2, <2>3
  <1>22. ASSUME NEW e \in 0 .. Lv(c.v)
         PROVE  Mine(c.h, On(c.h, c.v, i, e), Len(m.h), keep)
    <2>1. e \in 0 .. L /\ e \in 0 .. Lv(o.v) /\ e \in Int /\ i \in Room(o.v) /\ E \in Int
      BY <1>1, <1>4, <1>8, <1>12
    <2>2. CASE e >= E
      <3>. DEFINE p == On(o.h, o.v, i, e)
      <3>1. On(c.h, c.v, i, e) = p
        BY <1>4, <1>14, <2>1, <2>2
      <3>2. Mine(o.h, p, n0, keep)
        BY <1>6, <2>1, <2>2 DEF Owned
      <3>3. IsHeap(o.h, P1) /\ IsVec(o.h, P1, o.v)
        BY <1>8, FitsFacts
      <3>4. p # Null
        <4>1. E \in 0 .. Lv(o.v) /\ e \in E .. Lv(o.v)
          BY <1>1, <1>8, <2>1, <2>2
        <4>. HIDE DEF i
        <4>. QED
          BY <1>1, <1>9, <3>3, <4>1, OnAbove
      <3>5. p \in DOMAIN o.h
        <4>. HIDE DEF i
        <4>. QED
          BY <2>1, <3>3, <3>4, OnPlace
      <3>6. c.h[p].id = o.h[p].id
        BY <1>11, <3>5 DEF Sprout
      <3>. QED
        BY <3>1, <3>2, <3>6 DEF Mine
    <2>3. CASE ~(e >= E)
      <3>1. 0 <= e /\ e < E
        BY <2>1, <2>3
      <3>2. On(c.h, c.v, i, e) > Len(o.h)
        BY <1>11, <2>1, <3>1 DEF Sprout
      <3>3. On(c.h, c.v, i, e) \in Int
        BY <1>1, <1>12, FitsFacts, Path
      <3>. QED
        BY <1>1, <1>8, <3>2, <3>3 DEF Mine
    <2>. QED
      BY <2>2, <2>3
  <1>21. Pushed(m, P, c, P2, x, keep, nid, 0)
    BY <1>4, <1>12, <1>13, <1>15, <1>16, <1>17, <1>18, <1>19, <1>20, <1>22 DEF Pushed
  <1>. QED
    BY <1>10, <1>21 DEF o

(* A path of new nodes from a new root. *)
LEMMA GrowAbove ==
  ASSUME NEW m, NEW P, Fits(m, P), Full(m.h, m.v), NEW keep, NEW nid \in Int, NEW x \in Int,
         m.v.sz % Width(Lv(m.v) + 1) = 0
  PROVE  \E c, P2 : /\ Extend(Rotate(Own(m, m.v.sz, 0, keep), nid), 0, x, nid) = Longer(c)
                    /\ Pushed(m, P, c, P2, x, keep, nid, 0)
  <1>. DEFINE i == m.v.sz
              L == Lv(m.v)
              n0 == Len(m.h)
              E == L + 1
              o == Own(m, i, 0, keep)
              r == Rotate(o, nid)
  <1>1. /\ m.h \in Seq(Node) /\ m.v \in Vector /\ L \in Nat /\ Room(m.v) \subseteq Nat
        /\ IsHeap(m.h, P) /\ IsVec(m.h, P, m.v) /\ DOMAIN m.h = 1 .. Len(m.h)
        /\ n0 \in Nat /\ i \in Nat /\ i <= Width(E) /\ Null \notin DOMAIN m.h
        /\ E \in Nat /\ E # 0 /\ 0 \in 0 .. L /\ E + 1 \in Nat
    <2>1. /\ m.h \in Seq(Node) /\ m.v \in Vector /\ L \in Nat /\ Room(m.v) \subseteq Nat
          /\ IsHeap(m.h, P) /\ IsVec(m.h, P, m.v) /\ DOMAIN m.h = 1 .. Len(m.h)
          /\ n0 \in Nat /\ Null \notin DOMAIN m.h
      BY FitsFacts
    <2>2. i \in Nat /\ i <= Width(L + 1)
      BY <2>1 DEF Vector, IsVec
    <2>. HIDE DEF L, i
    <2>3. E \in Nat /\ E # 0 /\ 0 \in 0 .. L /\ E + 1 \in Nat
      BY <2>1
    <2>. QED
      BY <2>1, <2>2, <2>3
  <1>2. Owned(m, P, o, 0, L, n0, keep)
    <2>1. n0 <= Len(m.h)
      BY <1>1
    <2>. HIDE DEF i, n0
    <2>. QED
      BY <1>1, <2>1, OwnRoot
  <1>. HIDE DEF o
  <1>3. PICK P1 : Edits(m, P, o, P1, n0, keep, {})
    BY <1>2 DEF Owned
  <1>4. /\ Fits(o, P1) /\ Lv(o.v) = L /\ Room(o.v) = Room(m.v) /\ o.v.sz = i
        /\ o.v.id = m.v.id /\ o.v.kind = m.v.kind /\ Len(o.h) \in Nat /\ n0 <= Len(o.h)
        /\ DOMAIN o.h = 1 .. Len(o.h) /\ o.v \in Vector
    BY <1>3, EditsFacts
  <1>. DEFINE P3 == Grafted(P1, Len(o.h) + 1, Lv(o.v) + 1, 0)
  <1>5. Rotated(o, P1, r, P3, nid)
    BY <1>4, RotateIs
  <1>. HIDE DEF r, P3
  <1>6. /\ Fits(r, P3) /\ r.ub = o.ub /\ Lv(r.v) = E /\ Len(r.h) = Len(o.h) + 1
        /\ r.h[Len(o.h) + 1].id = nid
        /\ \A n \in DOMAIN o.h : P3[n] = P1[n] /\ r.h[n] = o.h[n]
        /\ \A j \in Room(r.v) : On(r.h, r.v, j, E) = Len(o.h) + 1
        /\ \A j \in Room(m.v) : j \in Room(r.v)
        /\ \A j \in Room(m.v), e \in 0 .. L : On(r.h, r.v, j, e) = On(o.h, o.v, j, e)
        /\ \A j \in Room(r.v) \ Room(m.v), e \in 0 .. L : On(r.h, r.v, j, e) = Null
    BY <1>4, <1>5 DEF Rotated
  <1>7. /\ r.v.sz = i /\ r.v.id = m.v.id /\ r.v.kind = m.v.kind /\ r.v \in Vector
        /\ r.h \in Seq(Node) /\ DOMAIN r.h = 1 .. Len(r.h) /\ Room(r.v) \subseteq Nat
    <2>1. r.v = [o.v EXCEPT !.shift = @ + BP_BITS, !.root = Len(o.h) + 1]
      BY <1>5 DEF Rotated
    <2>2. r.v.sz = o.v.sz /\ r.v.id = o.v.id /\ r.v.kind = o.v.kind
      BY <1>4, <2>1 DEF Vector
    <2>. QED
      BY <1>4, <1>6, <2>2, FitsFacts
  <1>8. i \in Room(r.v)
    <2>. DEFINE w == Width(E)
    <2>1. Width(E + 1) = BP_WIDTH * w /\ w \in Nat \ {0} /\ BP_WIDTH \in Nat /\ BP_WIDTH >= 2
          /\ i \in Nat /\ i <= w
      BY <1>1, WidthFacts
    <2>. HIDE DEF w
    <2>2. BP_WIDTH * w >= 2 * w
      BY <2>1
    <2>3. i < Width(E + 1)
      <3>1. i < 2 * w /\ BP_WIDTH * w \in Nat
        BY <2>1
      <3>. QED
        BY <2>1, <2>2, <3>1
    <2>4. i < Width(Lv(r.v) + 1)
      BY <1>6, <2>3
    <2>. HIDE DEF i
    <2>. QED
      BY <1>1, <1>7, <2>4, RoomFacts
  <1>9. On(r.h, r.v, i, E) # Null /\ On(r.h, r.v, i, E) = Len(o.h) + 1
    BY <1>4, <1>6, <1>8 DEF Null
  <1>10. PICK c : Extend(r, 0, x, nid) = Longer(c) /\ Sprouted(r, P3, c, i, E, x, nid)
    <2>1. i = r.v.sz /\ E \in 1 .. Lv(r.v) /\ 0 = Lv(r.v) - E
      BY <1>1, <1>6, <1>7
    <2>. HIDE DEF i, E
    <2>. QED
      BY <1>6, <1>8, <1>9, <2>1, ExtendIs
  <1>11. PICK P2 : Sprout(r, P3, c, P2, i, E, 0, nid)
    BY <1>10 DEF Sprouted
  <1>12. /\ Fits(c, P2) /\ c.v = r.v /\ c.ub = r.ub /\ Len(r.h) <= Len(c.h)
         /\ Len(c.h) \in Nat /\ DOMAIN c.h = 1 .. Len(c.h)
    BY <1>11, FitsFacts DEF Sprout
  <1>13. ASSUME NEW n \in DOMAIN m.h
         PROVE  P2[n] = P[n] /\ c.h[n] = m.h[n]
    <2>1. n \in DOMAIN o.h /\ n \in DOMAIN r.h /\ n # Len(o.h) + 1
      BY <1>1, <1>4, <1>6, <1>7
    <2>2. o.h[n] = m.h[n]
      <3>1. ~\E f \in 0 .. L : f > L
        BY <1>1
      <3>. QED
        BY <1>2, <3>1 DEF Owned
    <2>3. P1[n] = P[n]
      BY <1>3 DEF Edits
    <2>4. P3[n] = P1[n] /\ r.h[n] = o.h[n]
      BY <1>6, <2>1
    <2>5. P2[n] = P3[n]
      BY <1>11, <2>1 DEF Sprout
    <2>6. c.h[n] = r.h[n]
      BY <1>9, <1>11, <2>1 DEF Sprout
    <2>. QED
      BY <2>2, <2>3, <2>4, <2>5, <2>6
  <1>14. ASSUME NEW n \in Len(m.h) + 1 .. Len(c.h)
         PROVE  c.h[n].id \in {m.v.id, nid}
    <2>1. CASE n \in DOMAIN o.h
      <3>1. n \in Len(m.h) + 1 .. Len(o.h) /\ n \in DOMAIN r.h
        BY <1>4, <1>6, <1>7, <2>1
      <3>2. o.h[n].id = m.v.id
        <4>1. \A y \in Len(m.h) + 1 .. Len(o.h) : o.h[y].id = m.v.id
          BY <1>3 DEF Edits
        <4>. QED
          BY <3>1, <4>1
      <3>3. c.h[n].id = r.h[n].id
        BY <1>11, <3>1 DEF Sprout
      <3>4. r.h[n] = o.h[n]
        BY <1>6, <2>1
      <3>. QED
        BY <3>2, <3>3, <3>4
    <2>2. CASE n = Len(o.h) + 1
      <3>1. n \in DOMAIN r.h
        BY <1>4, <1>6, <1>7, <2>2
      <3>2. c.h[n].id = r.h[n].id
        BY <1>11, <3>1 DEF Sprout
      <3>. QED
        BY <1>6, <2>2, <3>2
    <2>3. CASE n \notin DOMAIN o.h /\ n # Len(o.h) + 1
      <3>1. n \in Len(r.h) + 1 .. Len(c.h)
        BY <1>1, <1>4, <1>6, <1>12, <2>3
      <3>2. \A y \in Len(r.h) + 1 .. Len(c.h) : c.h[y].id = nid
        BY <1>11 DEF Sprout
      <3>. QED
        BY <3>1, <3>2
    <2>. QED
      BY <2>1, <2>2, <2>3
  <1>15. ASSUME NEW j \in Room(c.v), NEW e \in 0 .. Lv(c.v)
         PROVE  \/ On(c.h, c.v, j, e) > Len(m.h)
                \/ On(c.h, c.v, j, e) = Null
                \/ /\ j \in Room(m.v) /\ e \in 0 .. Lv(m.v)
                   /\ On(c.h, c.v, j, e) = On(m.h, m.v, j, e)
    <2>1. j \in Room(r.v) /\ e \in 0 .. E /\ e \in 0 .. Lv(r.v) /\ j \in Nat /\ e \in Int
      BY <1>1, <1>6, <1>7, <1>12
    <2>2. CASE e >= E \/ Blk(j, E) # Blk(i, E)
      <3>1. On(c.h, c.v, j, e) = On(r.h, r.v, j, e)
        BY <1>11, <2>1, <2>2 DEF Sprout
      <3>2. CASE e = E
        <4>1. On(r.h, r.v, j, e) = Len(o.h) + 1
          BY <1>6, <2>1, <3>2
        <4>. QED
          BY <1>1, <1>4, <3>1, <4>1
      <3>3. CASE e # E
        <4>1. e \in 0 .. L
          BY <1>1, <2>1, <3>3
        <4>2. CASE j \in Room(m.v)
          <5>1. On(r.h, r.v, j, e) = On(o.h, o.v, j, e)
            BY <1>6, <4>1, <4>2
          <5>2. On(o.h, o.v, j, e) = On(m.h, m.v, j, e) \/ On(o.h, o.v, j, e) > Len(m.h)
            BY <1>3, <4>1, <4>2 DEF Edits
          <5>. QED
            BY <3>1, <4>1, <4>2, <5>1, <5>2
        <4>3. CASE j \notin Room(m.v)
          <5>1. On(r.h, r.v, j, e) = Null
            BY <1>6, <2>1, <4>1, <4>3
          <5>. QED
            BY <3>1, <5>1
        <4>. QED
          BY <4>2, <4>3
      <3>. QED
        BY <3>2, <3>3
    <2>3. CASE ~(e >= E \/ Blk(j, E) # Blk(i, E))
      <3>1. 0 # E /\ e < E /\ Blk(j, E) = Blk(i, E)
        BY <1>1, <2>1, <2>3
      <3>2. On(c.h, c.v, j, e) > Len(r.h) \/ On(c.h, c.v, j, e) = Null
        BY <1>11, <2>1, <3>1 DEF Sprout
      <3>3. On(c.h, c.v, j, e) \in Int
        BY <1>12, <2>1, FitsFacts, Path
      <3>4. Len(m.h) <= Len(r.h) /\ Len(m.h) \in Nat /\ Len(r.h) \in Nat
        BY <1>1, <1>4, <1>6
      <3>. QED
        BY <3>2, <3>3, <3>4
    <2>. QED
      BY <2>2, <2>3
  <1>16. ASSUME NEW j \in 0 .. i - 1
         PROVE  On(c.h, c.v, j, 0) # Null /\ Cell(c.h, c.v, j) = Cell(m.h, m.v, j)
    <2>1. j \in Nat /\ j < i
      BY <1>1
    <2>2. j \in Room(m.v) /\ j \in Room(r.v)
      <3>1. Width(E) \in Nat
        BY <1>1, WidthFacts
      <3>2. j < Width(Lv(m.v) + 1)
        BY <1>1, <2>1, <3>1
      <3>. QED
        BY <1>1, <1>6, <2>1, <3>2, RoomFacts
    <2>3. On(m.h, m.v, j, 0) # Null
      BY DEF Full
    <2>4. On(o.h, o.v, j, 0) # Null
      <3>1. 0 \in 0 .. Lv(m.v)
        BY <1>1
      <3>. QED
        BY <1>3, <2>2, <2>3, <3>1, EditsKeep
    <2>5. Cell(o.h, o.v, j) = Cell(m.h, m.v, j)
      BY <1>2, <2>2, <2>3 DEF Owned, SameCells
    <2>6. On(o.h, o.v, j, 0) \in DOMAIN o.h
      <3>1. 0 \in 0 .. Lv(o.v) /\ j \in Room(o.v) /\ IsHeap(o.h, P1) /\ IsVec(o.h, P1, o.v)
        BY <1>1, <1>4, <2>2, FitsFacts
      <3>. QED
        BY <2>4, <3>1, OnPlace
    <2>7. On(r.h, r.v, j, 0) = On(o.h, o.v, j, 0)
      BY <1>1, <1>6, <2>2
    <2>8. Cell(r.h, r.v, j) = Cell(o.h, o.v, j)
      BY <1>6, <2>6, <2>7 DEF Cell
    <2>9. Blk(j, E) # Blk(i, E)
      <3>1. i % Width(E) = 0
        OBVIOUS
      <3>. HIDE DEF i, E
      <3>. QED
        BY <1>1, <2>1, <3>1, BlockStart
    <2>10. Cell(c.h, c.v, j) = Cell(r.h, r.v, j)
      BY <1>10, <2>2, <2>4, <2>7, <2>9 DEF Sprouted
    <2>11. On(c.h, c.v, j, 0) = On(r.h, r.v, j, 0)
      <3>1. 0 \in 0 .. Lv(r.v)
        BY <1>1, <1>6
      <3>. QED
        BY <1>11, <2>2, <2>9, <3>1 DEF Sprout
    <2>. QED
      BY <2>4, <2>5, <2>7, <2>8, <2>10, <2>11
  <1>17. i \in Room(c.v) /\ On(c.h, c.v, i, 0) # Null /\ Cell(c.h, c.v, i) = x
    <2>0. 0 \in 0 .. Lv(r.v) /\ 0 <= 0 /\ 0 < E
      BY <1>1, <1>6
    <2>1. On(c.h, c.v, i, 0) > Len(r.h)
      BY <1>11, <2>0 DEF Sprout
    <2>2. On(c.h, c.v, i, 0) # Null
      <3>1. Len(r.h) \in Nat
        BY <1>4, <1>6
      <3>. QED
        BY <2>1, <3>1 DEF Null
    <2>. QED
      BY <1>8, <1>10, <1>12, <2>2 DEF Sprouted
  <1>18. /\ Len(m.h) <= Len(c.h) /\ c.v.sz = m.v.sz + 0 /\ c.v.id = m.v.id
         /\ c.v.kind = m.v.kind /\ Lv(m.v) <= Lv(c.v)
    <2>2. Len(m.h) <= Len(c.h)
      BY <1>1, <1>4, <1>6, <1>12
    <2>3. c.v.sz = m.v.sz + 0 /\ Lv(m.v) <= Lv(c.v)
      BY <1>1, <1>6, <1>7, <1>12
    <2>. QED
      BY <1>6, <1>7, <1>12, <2>2, <2>3
  <1>20. ASSUME NEW e \in 0 .. Lv(c.v)
         PROVE  Mine(c.h, On(c.h, c.v, i, e), Len(m.h), keep)
    <2>1. e \in 0 .. E /\ e \in 0 .. Lv(r.v) /\ e \in Int
      BY <1>1, <1>6, <1>12
    <2>2. CASE e = E
      <3>1. On(c.h, c.v, i, e) = On(r.h, r.v, i, e)
        <4>1. e >= E
          BY <1>1, <2>2
        <4>. QED
          BY <1>8, <1>11, <2>1, <4>1 DEF Sprout
      <3>. QED
        BY <1>4, <1>1, <1>9, <2>2, <3>1 DEF Mine
    <2>3. CASE e # E
      <3>1. 0 <= e /\ e < E
        BY <1>1, <2>1, <2>3
      <3>2. On(c.h, c.v, i, e) > Len(r.h)
        BY <1>11, <2>1, <3>1 DEF Sprout
      <3>3. On(c.h, c.v, i, e) \in Int
        BY <1>1, <1>12, FitsFacts, Path
      <3>. QED
        BY <1>1, <1>4, <1>6, <3>2, <3>3 DEF Mine
    <2>. QED
      BY <2>2, <2>3
  <1>19. Pushed(m, P, c, P2, x, keep, nid, 0)
    BY <1>12, <1>13, <1>14, <1>15, <1>16, <1>17, <1>18, <1>20 DEF Pushed
  <1>. QED
    BY <1>10, <1>19 DEF o, r

(* A push when the size is a multiple of BP_WIDTH.                         *)
LEMMA PushGrow ==
  ASSUME NEW m, NEW P, Fits(m, P), Full(m.h, m.v), NEW nid \in Int, NEW x \in Int,
         NEW keep, keep = node_keep(m.v), m.v.sz % BP_WIDTH = 0
  PROVE  \E P2 : Pushed(m, P, Grow(m, x, nid), P2, x, keep, nid, 1)
  <1>. DEFINE L == Lv(m.v)
              k == Depths(m.v)
  <1>1. /\ m.v \in Vector /\ L \in Nat
    BY FitsFacts
  <1>2. /\ k \in 0 .. L
        /\ m.v.sz % Width(L + 1 - k) = 0
        /\ k # 0 => m.v.sz % Width(L + 1 - k + 1) # 0
    BY <1>1, DepthsIs
  <1>. HIDE DEF k
  <1>3. CASE k = 0
    <2>1. L + 1 - k = L + 1
      BY <1>1, <1>3
    <2>2. m.v.sz % Width(Lv(m.v) + 1) = 0
      BY <1>2, <2>1
    <2>3. PICK c, P2 : /\ Extend(Rotate(Own(m, m.v.sz, 0, keep), nid), 0, x, nid) = Longer(c)
                       /\ Pushed(m, P, c, P2, x, keep, nid, 0)
      BY <2>2, GrowAbove
    <2>4. Grow(m, x, nid) = Longer(c)
      BY <1>3, <2>3 DEF Grow, k
    <2>. QED
      BY <2>3, <2>4, PushLonger
  <1>4. CASE k # 0
    <2>. DEFINE E == L + 1 - k
                ins == k - 1
    <2>1. E \in 1 .. Lv(m.v) /\ ins = Lv(m.v) - E
      BY <1>1, <1>2, <1>4
    <2>2. m.v.sz % Width(E) = 0 /\ m.v.sz % Width(E + 1) # 0
      BY <1>2, <1>4
    <2>. HIDE DEF E, ins
    <2>3. PICK c, P2 : /\ Extend(Own(m, m.v.sz, ins, keep), ins, x, nid) = Longer(c)
                       /\ Pushed(m, P, c, P2, x, keep, nid, 0)
      BY <2>1, <2>2, GrowInside
    <2>4. Grow(m, x, nid) = Longer(c)
      BY <1>4, <2>3 DEF Grow, k, ins
    <2>. QED
      BY <2>3, <2>4, PushLonger
  <1>. QED
    BY <1>3, <1>4

(* push_back appends. *)
LEMMA PushBackIs ==
  ASSUME NEW m, NEW P, Fits(m, P), Full(m.h, m.v), NEW x \in Int, NEW keep, keep = node_keep(m.v)
  PROVE  \E P2 : Pushed(m, P, push_back(m, x), P2, x, keep, m.v.id, 1)
  <1>1. m.v.id \in Int
    BY FitsFacts DEF Vector
  <1>2. CASE m.v.sz % BP_WIDTH # 0
    <2>. DEFINE c == Write(m, m.v.sz, x, keep)
                nid == m.v.id
    <2>1. PICK P2 : Pushed(m, P, c, P2, x, keep, nid, 0)
      BY <1>2, PushWrite
    <2>2. push_back(m, x) = Longer(c)
      BY <1>2 DEF push_back, set
    <2>. HIDE DEF c, nid
    <2>3. Pushed(m, P, Longer(c), P2, x, keep, nid, 1)
      BY <2>1, PushLonger
    <2>. QED
      BY <2>2, <2>3 DEF nid
  <1>3. CASE m.v.sz % BP_WIDTH = 0
    <2>. DEFINE nid == m.v.id
    <2>1. push_back(m, x) = Grow(m, x, nid)
      BY <1>3 DEF push_back
    <2>2. nid \in Int
      BY <1>1
    <2>. HIDE DEF nid
    <2>3. \E P2 : Pushed(m, P, Grow(m, x, nid), P2, x, keep, nid, 1)
      BY <1>3, <2>2, PushGrow
    <2>. QED
      BY <2>1, <2>3 DEF nid
  <1>. QED
    BY <1>2, <1>3

(* mut_push_back appends, as long as the root of an empty vector is its own. *)
LEMMA MutPushBackIs ==
  ASSUME NEW m, NEW P, Fits(m, P), Full(m.h, m.v), NEW x \in Int, NEW keep, keep = node_keep(m.v),
         NEW nid \in Int, m.v.sz = 0 => m.h[m.v.root].id \in keep
  PROVE  \E P2 : Pushed(m, P, mut_push_back(m, x, nid), P2, x, keep, nid, 1)
  <1>1. m.v.sz \in Nat
    BY FitsFacts DEF Vector
  <1>2. CASE m.v.sz % BP_WIDTH # 0
    <2>. DEFINE c == Write(m, m.v.sz, x, keep)
    <2>1. PICK P2 : Pushed(m, P, c, P2, x, keep, nid, 0)
      BY <1>2, PushWrite
    <2>2. mut_push_back(m, x, nid) = Longer(c)
      BY <1>2 DEF mut_push_back, mut_set
    <2>. HIDE DEF c
    <2>3. Pushed(m, P, Longer(c), P2, x, keep, nid, 1)
      BY <2>1, PushLonger
    <2>. QED
      BY <2>2, <2>3
  <1>3. CASE m.v.sz % BP_WIDTH = 0 /\ m.v.sz < BP_WIDTH
    <2>1. m.v.sz = 0
      <3>1. m.v.sz = BP_WIDTH * (m.v.sz \div BP_WIDTH) + (m.v.sz % BP_WIDTH)
            /\ m.v.sz \div BP_WIDTH \in Nat
        <4>1. BP_WIDTH \in Nat \ {0}
          BY WidthFacts
        <4>. QED
          BY <1>1, <4>1, Divide
      <3>. DEFINE q == m.v.sz \div BP_WIDTH
                  s == m.v.sz
                  b == BP_WIDTH
      <3>2. s = b * q + (s % b) /\ q \in Nat /\ s \in Nat /\ b \in Nat /\ s < b /\ s % b = 0
        BY <1>1, <1>3, <3>1, WidthFacts
      <3>. HIDE DEF q, s, b
      <3>3. q = 0
        <4>1. q >= 1 => b * q >= b
          BY <3>2
        <4>. QED
          BY <3>2, <4>1
      <3>4. s = 0
        BY <3>2, <3>3
      <3>. QED
        BY <3>4 DEF s
    <2>2. Lv(m.v) = 0 /\ m.h[m.v.root].id \in keep
      BY <2>1 DEF Full
    <2>. DEFINE c == Put(m, m.v.sz, 0, x)
    <2>3. Pushed(m, P, c, P, x, keep, nid, 0)
      BY <2>1, <2>2, PushRoot
    <2>4. mut_push_back(m, x, nid) = Longer(c)
      BY <1>3 DEF mut_push_back
    <2>. HIDE DEF c
    <2>5. Pushed(m, P, Longer(c), P, x, keep, nid, 1)
      BY <2>3, PushLonger
    <2>. QED
      BY <2>4, <2>5
  <1>4. CASE m.v.sz % BP_WIDTH = 0 /\ ~(m.v.sz < BP_WIDTH)
    <2>1. mut_push_back(m, x, nid) = Grow(m, x, nid)
      BY <1>4 DEF mut_push_back
    <2>2. \E P2 : Pushed(m, P, Grow(m, x, nid), P2, x, keep, nid, 1)
      BY <1>4, PushGrow
    <2>. QED
      BY <2>1, <2>2
  <1>. QED
    BY <1>2, <1>3, <1>4

-----------------------------------------------------------------------------
(* What a push does to the other vectors. *)

\* the path to j in u and its nodes are as they were
Stays(h, h2, u, j) ==
  \A e \in 0 .. Lv(u) :
    /\ On(h2, u, j, e) = On(h, u, j, e)
    /\ On(h, u, j, e) \in DOMAIN h => h2[On(h, u, j, e)] = h[On(h, u, j, e)]

\* the paths to j in u and in v meet at height f; from there on u follows v's
\* new trie
Joins(h, h2, u, v, v2, j, f) ==
  /\ f \in 0 .. Lv(u) /\ f \in 0 .. Lv(v) /\ f \in 0 .. Lv(v2)
  /\ j \in Room(v) /\ j \in Room(v2)
  /\ On(h, u, j, f) \in Nodes(h, v)
  /\ \A e \in f .. Lv(u) : On(h2, u, j, e) = On(h, u, j, e)
  /\ \A e \in 0 .. f : /\ On(h2, u, j, e) = On(h2, v2, j, e)
                       /\ On(h, u, j, e) = On(h, v, j, e)

(* The greatest number with a property that some number up to L has. *)
LEMMA Greatest ==
  ASSUME NEW L \in Nat, NEW B, B \subseteq 0 .. L, NEW b \in B
  PROVE  \E f \in B : \A e \in B : e <= f
  <1>. DEFINE S == {k \in Nat : L - k \in B}
  <1>1. L - b \in S
    <2>1. L - b \in Nat /\ L - (L - b) = b
      OBVIOUS
    <2>. QED
      BY <2>1
  <1>2. S \subseteq Nat
    OBVIOUS
  <1>. HIDE DEF S
  <1>3. PICK k \in S : \A y \in S : k <= y
    BY <1>1, <1>2, LeastNumber
  <1>4. L - k \in B /\ k \in Nat
    BY <1>3 DEF S
  <1>5. ASSUME NEW e \in B
        PROVE  e <= L - k
    <2>1. L - e \in Nat /\ L - (L - e) = e /\ e \in Int
      OBVIOUS
    <2>2. L - e \in S
      BY <2>1 DEF S
    <2>3. k <= L - e
      BY <1>3, <2>2
    <2>. QED
      BY <1>4, <2>1, <2>3
  <1>. QED
    BY <1>4, <1>5

(* A path leaves the heap as it was, or meets a node of the pusher that was *)
(* written, and goes on from there in the pusher's new trie.                *)
LEMMA Sharing ==
  ASSUME NEW m, NEW P, Fits(m, P), NEW m2, NEW P2, NEW x, NEW keep, NEW nid, NEW s,
         Pushed(m, P, m2, P2, x, keep, nid, s),
         NEW u, IsVec(m.h, P, u), NEW j \in Room(u)
  PROVE  \/ Stays(m.h, m2.h, u, j)
         \/ \E f : /\ Joins(m.h, m2.h, u, m.v, m2.v, j, f)
                   /\ m.h[On(m.h, u, j, f)].id \in keep
  <1>. DEFINE L == Lv(u)
              i == m.v.sz
              B == {f \in 0 .. L : On(m.h, u, j, f) \in DOMAIN m.h
                                   /\ m2.h[On(m.h, u, j, f)] # m.h[On(m.h, u, j, f)]}
  <1>1. /\ m.h \in Seq(Node) /\ m2.h \in Seq(Node) /\ m.v \in Vector /\ m2.v \in Vector
        /\ u \in Vector /\ L \in Nat /\ Lv(m.v) \in Nat /\ Lv(m2.v) \in Nat
        /\ u.shift = Lv(u) * BP_BITS /\ m.v.shift = Lv(m.v) * BP_BITS
        /\ m2.v.shift = Lv(m2.v) * BP_BITS /\ u.root \in DOMAIN m.h
        /\ IsHeap(m.h, P) /\ IsHeap(m2.h, P2) /\ IsVec(m.h, P, m.v) /\ IsVec(m2.h, P2, m2.v)
    BY FitsFacts, RoomFacts DEF Pushed, IsVec
  <1>2. /\ Len(m.h) \in Nat /\ Len(m2.h) \in Nat /\ Len(m.h) <= Len(m2.h)
        /\ DOMAIN m.h = 1 .. Len(m.h) /\ DOMAIN m2.h = 1 .. Len(m2.h) /\ Null \notin DOMAIN m.h
        /\ j \in Nat /\ i \in Nat /\ Lv(m.v) <= Lv(m2.v)
    BY <1>1, FitsFacts, RoomFacts DEF Pushed, Vector
  <1>6. On(m.h, u, j, L) = u.root /\ On(m2.h, u, j, L) = u.root
    <2>1. On(m.h, u, j, Lv(u)) = u.root
      BY <1>1, <1>2, Path
    <2>2. On(m2.h, u, j, Lv(u)) = u.root
      BY <1>1, <1>2, Path
    <2>. QED
      BY <2>1, <2>2
  <1>3. ASSUME NEW f \in 0 .. L, f \notin B
        PROVE  Kept(m.h, m2.h, On(m.h, u, j, f))
    <2>1. CASE On(m.h, u, j, f) \in DOMAIN m.h
      <3>1. m2.h[On(m.h, u, j, f)] = m.h[On(m.h, u, j, f)]
        BY <1>3, <2>1
      <3>. QED
        BY <1>2, <2>1, <3>1 DEF Kept
    <2>2. CASE On(m.h, u, j, f) \notin DOMAIN m.h
      <3>1. On(m.h, u, j, f) = Null
        BY <1>1, <2>2, OnPlace
      <3>. QED
        BY <1>2, <2>2, <3>1 DEF Kept, Null
    <2>. QED
      BY <2>1, <2>2
  <1>4. CASE B = {}
    <2>1. KeptOn(m.h, m2.h, u, j, 0, L)
      BY <1>1, <1>3, <1>4 DEF KeptOn
    <2>2. On(m2.h, u, j, L) = On(m.h, u, j, L)
      BY <1>6
    <2>3. L \in 0 .. Lv(u) /\ L <= Lv(u) /\ 0 \in 0 .. L
      BY <1>1
    <2>. HIDE DEF L
    <2>4. Meet(m.h, u, m2.h, u, j, 0, L)
      BY <1>1, <1>2, <2>1, <2>2, <2>3, OnFrame
    <2>5. \A e \in 0 .. Lv(u) : On(m.h, u, j, e) \in DOMAIN m.h =>
            m2.h[On(m.h, u, j, e)] = m.h[On(m.h, u, j, e)]
      BY <1>4 DEF L
    <2>. QED
      BY <2>4, <2>5 DEF Meet, Stays, L
  <1>5. CASE B # {}
    <2>1. PICK f \in B : \A e \in B : e <= f
      <3>1. B \subseteq 0 .. L
        OBVIOUS
      <3>. HIDE DEF B, L
      <3>. QED
        BY <1>1, <1>5, <3>1, Greatest
    <2>. DEFINE p == On(m.h, u, j, f)
    <2>2. /\ f \in 0 .. L /\ p \in DOMAIN m.h /\ m2.h[p] # m.h[p] /\ f \in Nat /\ f + 1 \in Nat
          /\ p # Null
      BY <1>2, <2>1
    <2>3. \A e \in f + 1 .. L : Kept(m.h, m2.h, On(m.h, u, j, e))
      <3>1. \A e \in f + 1 .. L : e \in 0 .. L /\ ~(e <= f)
        BY <1>1, <2>2
      <3>2. \A e \in f + 1 .. L : e \notin B
        BY <2>1, <3>1
      <3>. HIDE DEF B
      <3>. QED
        BY <1>3, <3>1, <3>2
    <2>4. Meet(m.h, u, m2.h, u, j, f, L)
      <3>1. KeptOn(m.h, m2.h, u, j, f, L)
        BY <2>3 DEF KeptOn
      <3>2. On(m2.h, u, j, L) = On(m.h, u, j, L)
        BY <1>6
      <3>3. L \in 0 .. Lv(u) /\ L <= Lv(u) /\ f \in 0 .. L
        BY <1>1, <2>2
      <3>. HIDE DEF L, B
      <3>. QED
        BY <1>1, <1>2, <3>1, <3>2, <3>3, OnFrame
    <2>5. PICK g \in 0 .. Lv(m.v) :
            p = On(m.h, m.v, i, g) /\ p = On(m2.h, m2.v, i, g) /\ i \in Room(m.v)
            /\ m.h[p].id \in keep
      BY <2>2 DEF Pushed
    <2>6. P[p][1] = f /\ P[p][2] = Blk(j, f + 1)
      <3>1. f \in 0 .. Lv(u)
        BY <2>2
      <3>. HIDE DEF B
      <3>. QED
        BY <1>1, <2>2, <3>1, OnPlace
    <2>7. P[p][1] = g /\ P[p][2] = Blk(i, g + 1)
      <3>1. On(m.h, m.v, i, g) # Null
        BY <2>2, <2>5
      <3>. HIDE DEF B, i
      <3>2. P[On(m.h, m.v, i, g)][1] = g /\ P[On(m.h, m.v, i, g)][2] = Blk(i, g + 1)
        <4>1. IsHeap(m.h, P) /\ IsVec(m.h, P, m.v) /\ i \in Room(m.v)
          BY <1>1, <2>5
        <4>. HIDE DEF p
        <4>. QED
          BY <3>1, <4>1, OnPlace
      <3>. QED
        BY <2>5, <3>2
    <2>8. f = g /\ Blk(j, f + 1) = Blk(i, f + 1)
      BY <2>6, <2>7
    <2>9. /\ f \in 0 .. Lv(m.v) /\ f \in 0 .. Lv(m2.v) /\ f + 1 <= Lv(m.v) + 1
          /\ Lv(m.v) + 1 \in Nat
      BY <1>1, <1>2, <2>5, <2>8
    <2>. HIDE DEF B, L, i
    <2>10. j \in Room(m.v) /\ j \in Room(m2.v)
      <3>. DEFINE K == Lv(m.v) + 1
                  F == f + 1
                  K2 == Lv(m2.v) + 1
      <3>1. Blk(j, F) = Blk(i, F) /\ F \in Nat /\ K \in Nat /\ F <= K /\ K2 \in Nat /\ K <= K2
        BY <1>1, <1>2, <2>2, <2>8, <2>9
      <3>. HIDE DEF K, F, K2
      <3>2. Blk(j, K) = Blk(i, K)
        BY <1>2, <3>1, BlocksNest
      <3>3. Blk(i, K) = 0
        BY <1>1, <1>2, <2>5, RoomFacts DEF K
      <3>4. j < Width(K)
        BY <1>2, <3>1, <3>2, <3>3, BlockZero
      <3>5. j < Width(K2)
        <4>1. Width(K) <= Width(K2)
          BY <3>1, WidthMono
        <4>2. Width(K) \in Nat /\ Width(K2) \in Nat
          BY <3>1, WidthFacts
        <4>. QED
          BY <1>2, <3>4, <4>1, <4>2
      <3>. QED
        BY <1>1, <1>2, <3>4, <3>5, RoomFacts DEF K, K2
    <2>11. On(m.h, m.v, j, f) = p
      <3>1. Blk(i, f + 1) = Blk(j, f + 1) /\ f \in 0 .. Lv(m.v) /\ p = On(m.h, m.v, i, f)
        BY <2>5, <2>8, <2>9
      <3>2. IsHeap(m.h, P) /\ IsVec(m.h, P, m.v) /\ i \in Nat /\ j \in Nat
        BY <1>1, <1>2
      <3>. HIDE DEF p
      <3>3. On(m.h, m.v, i, f) = On(m.h, m.v, j, f)
        BY <3>1, <3>2, OnSame
      <3>. QED
        BY <3>1, <3>3
    <2>12. On(m2.h, m2.v, j, f) = p
      <3>1. Blk(i, f + 1) = Blk(j, f + 1) /\ f \in 0 .. Lv(m2.v) /\ p = On(m2.h, m2.v, i, f)
        BY <2>5, <2>8, <2>9
      <3>2. IsHeap(m2.h, P2) /\ IsVec(m2.h, P2, m2.v) /\ i \in Nat /\ j \in Nat
        BY <1>1, <1>2
      <3>. HIDE DEF p
      <3>3. On(m2.h, m2.v, i, f) = On(m2.h, m2.v, j, f)
        BY <3>1, <3>2, OnSame
      <3>. QED
        BY <3>1, <3>3
    <2>13. On(m2.h, u, j, f) = p
      <3>1. f \in f .. L
        BY <1>1, <2>2
      <3>. QED
        BY <2>4, <3>1 DEF Meet
    <2>14. 0 \in 0 .. f /\ f \in 0 .. Lv(u) /\ f <= Lv(m.v) /\ f <= Lv(m2.v)
      BY <2>2, <2>9 DEF L
    <2>15. Meet(m2.h, u, m2.h, m2.v, j, 0, f)
      <3>1. KeptOn(m2.h, m2.h, u, j, 0, f)
        BY DEF KeptOn, Kept
      <3>. QED
        BY <1>1, <1>2, <2>12, <2>13, <2>14, <3>1, OnFrame
    <2>16. Meet(m.h, u, m.h, m.v, j, 0, f)
      <3>1. KeptOn(m.h, m.h, u, j, 0, f)
        BY DEF KeptOn, Kept
      <3>. QED
        BY <1>1, <1>2, <2>11, <2>14, <3>1, OnFrame
    <2>17. p \in Nodes(m.h, m.v)
      BY <2>2, <2>9, <2>10, <2>11 DEF Nodes
    <2>18. Joins(m.h, m2.h, u, m.v, m2.v, j, f)
      BY <2>4, <2>9, <2>10, <2>14, <2>15, <2>16, <2>17 DEF Joins, Meet, L
    <2>. QED
      BY <2>5, <2>18 DEF i
  <1>. QED
    BY <1>4, <1>5

(* Every node on the path to an element is there. *)
LEMMA FullPath ==
  ASSUME NEW H, NEW P, IsHeap(H, P), NEW v, IsVec(H, P, v), Full(H, v),
         NEW j \in 0 .. v.sz - 1, NEW e \in 0 .. Lv(v)
  PROVE  j \in Room(v) /\ On(H, v, j, e) \in DOMAIN H /\ On(H, v, j, e) # Null
         /\ On(H, v, j, e) \in Nodes(H, v)
  <1>1. /\ v \in Vector /\ Lv(v) \in Nat /\ v.sz \in Nat /\ v.sz <= Width(Lv(v) + 1)
        /\ 0 \in 0 .. Lv(v) /\ e \in 0 .. Lv(v)
    BY RoomFacts DEF IsVec, Vector
  <1>2. j \in Room(v) /\ j \in Nat
    <2>1. Width(Lv(v) + 1) \in Nat
      <3>1. Lv(v) + 1 \in Nat
        BY <1>1
      <3>. QED
        BY <3>1, WidthFacts
    <2>2. j \in Nat /\ j < Width(Lv(v) + 1)
      BY <1>1, <2>1
    <2>. QED
      BY <1>1, <2>2, RoomFacts
  <1>3. On(H, v, j, 0) # Null
    BY DEF Full
  <1>4. On(H, v, j, e) # Null
    <2>1. e \in 0 .. Lv(v)
      BY <1>1
    <2>. QED
      BY <1>1, <1>2, <1>3, <2>1, OnAbove
  <1>5. On(H, v, j, e) \in DOMAIN H
    BY <1>1, <1>2, <1>4, OnPlace
  <1>. QED
    BY <1>2, <1>4, <1>5 DEF Nodes

(* The nodes a vector reaches are in the heap. *)
LEMMA NodesIn ==
  ASSUME NEW H, NEW P, IsHeap(H, P), NEW v, IsVec(H, P, v)
  PROVE  Nodes(H, v) \subseteq DOMAIN H
  <1>1. ASSUME NEW n \in Nodes(H, v)
        PROVE  n \in DOMAIN H
    <2>1. PICK j \in Room(v), e \in 0 .. Lv(v) : n = On(H, v, j, e)
      BY <1>1 DEF Nodes
    <2>2. n # Null
      BY <1>1 DEF Nodes
    <2>. QED
      BY <2>1, <2>2, OnPlace
  <1>. QED
    BY <1>1

-----------------------------------------------------------------------------
(* Iterators. *)

\* the members of an iterator
Iterator == [i: Int, leaf: Int, off: Int]

\* where an iterator over sz elements stands when it has reached element p:
\* behind the last of a full leaf it stays in that leaf
Stands(it, p, sz) ==
  /\ it \in Iterator
  /\ it.leaf + it.off = p
  /\ it.off = IF p = sz /\ p # 0 /\ p % BP_WIDTH = 0 THEN BP_WIDTH ELSE p % BP_WIDTH
  /\ p < sz => it.i = it.leaf

(* The remainder goes up by one until it starts again. *)
LEMMA NextRest ==
  ASSUME NEW p \in Nat
  PROVE  /\ p % BP_WIDTH \in 0 .. BP_WIDTH - 1
         /\ (p + 1) % BP_WIDTH = IF (p % BP_WIDTH) + 1 = BP_WIDTH THEN 0 ELSE (p % BP_WIDTH) + 1
  <1>. DEFINE W == BP_WIDTH
              q == p \div W
              r == p % W
  <1>1. W \in Nat \ {0} /\ W >= 2 /\ W \in Nat
    BY WidthFacts
  <1>2. q \in Nat /\ r \in 0 .. W - 1 /\ p = W * q + r
    <2>. HIDE DEF W
    <2>. QED
      BY <1>1, Divide
  <1>. HIDE DEF W, q, r
  <1>3. CASE r + 1 = W
    <2>1. p + 1 = W * (q + 1) + 0
      BY <1>1, <1>2, <1>3
    <2>2. (W * (q + 1) + 0) % W = 0
      <3>1. q + 1 \in Nat /\ 0 \in 0 .. W - 1
        BY <1>1, <1>2
      <3>. QED
        BY <1>1, <3>1, Quotient
    <2>. QED
      BY <1>2, <1>3, <2>1, <2>2 DEF W, r
  <1>4. CASE r + 1 # W
    <2>1. p + 1 = W * q + (r + 1) /\ r + 1 \in 0 .. W - 1
      BY <1>1, <1>2, <1>4
    <2>2. (W * q + (r + 1)) % W = r + 1
      BY <1>1, <1>2, <2>1, Quotient
    <2>. QED
      BY <1>2, <1>4, <2>1, <2>2 DEF W, r
  <1>. QED
    BY <1>3, <1>4

(* operator++ goes on to the next element. *)
LEMMA IncrIs ==
  ASSUME NEW sz \in Nat, NEW p \in Nat, p < sz, NEW it, Stands(it, p, sz)
  PROVE  Stands(Incr(it, sz), p + 1, sz)
  <1>. DEFINE W == BP_WIDTH
              r == p % W
  <1>1. W \in Nat /\ W >= 2 /\ r \in 0 .. W - 1
    BY WidthFacts, NextRest
  <1>2. (p + 1) % W = IF r + 1 = W THEN 0 ELSE r + 1
    BY NextRest
  <1>3. it \in Iterator /\ it.leaf + it.off = p /\ it.off = r /\ it.i = it.leaf
    BY DEF Stands
  <1>4. /\ it.i \in Int /\ it.leaf \in Int /\ it.off \in Int
    BY <1>3 DEF Iterator
  <1>. DEFINE n == Incr(it, sz)
              rr == (p + 1) % W
  <1>5. rr = IF r + 1 = W THEN 0 ELSE r + 1
    BY <1>2
  <1>. HIDE DEF rr, r
  <1>. SUFFICES Stands(n, p + 1, sz)
    OBVIOUS
  <1>6. CASE r + 1 # W
    <2>1. n = [it EXCEPT !.off = r + 1]
      BY <1>3, <1>6 DEF Incr, W
    <2>2. n \in Iterator /\ n.leaf = it.leaf /\ n.off = r + 1 /\ n.i = it.i
      BY <1>1, <1>3, <2>1 DEF Iterator
    <2>. HIDE DEF n
    <2>3. rr = r + 1 /\ rr # 0
      BY <1>1, <1>5, <1>6
    <2>. QED
      BY <1>3, <1>4, <1>1, <2>2, <2>3 DEF Stands, rr
  <1>7. CASE r + 1 = W /\ it.i + W = sz
    <2>1. n = [it EXCEPT !.i = it.i + W, !.off = W]
      BY <1>3, <1>7 DEF Incr, W
    <2>2. n \in Iterator /\ n.leaf = it.leaf /\ n.off = W
      <3>. HIDE DEF n, W
      <3>1. n = [i |-> it.i + W, leaf |-> it.leaf, off |-> W]
        BY <1>3, <2>1 DEF Iterator
      <3>. QED
        BY <1>1, <1>4, <3>1 DEF Iterator
    <2>. HIDE DEF n, W
    <2>3. p + 1 = sz /\ p + 1 # 0 /\ rr = 0
      BY <1>1, <1>3, <1>4, <1>5, <1>7
    <2>4. n.leaf + n.off = p + 1
      BY <1>1, <1>3, <1>4, <1>7, <2>2
    <2>. QED
      BY <2>2, <2>3, <2>4 DEF Stands, rr, W
  <1>8. CASE r + 1 = W /\ it.i + W # sz
    <2>1. n = [i |-> it.i + W, leaf |-> it.i + W, off |-> 0]
      BY <1>3, <1>8 DEF Incr, W
    <2>2. n \in Iterator /\ n.leaf = it.i + W /\ n.off = 0 /\ n.i = n.leaf
      BY <1>1, <1>3, <1>4, <2>1 DEF Iterator
    <2>. HIDE DEF n, W
    <2>3. p + 1 # sz /\ rr = 0
      BY <1>1, <1>3, <1>4, <1>5, <1>8
    <2>4. n.leaf + n.off = p + 1
      BY <1>1, <1>3, <1>4, <1>8, <2>2
    <2>. QED
      BY <2>2, <2>3, <2>4 DEF Stands, rr, W
  <1>. QED
    BY <1>6, <1>7, <1>8

(* operator+ of the first iterator reaches any element, and the end. *)
LEMMA PlusIs ==
  ASSUME NEW sz \in Nat, NEW p \in Nat, p <= sz
  PROVE  Stands(Plus(Begin, p, sz), p, sz)
  <1>. DEFINE W == BP_WIDTH
              r == p % W
              it == Plus(Begin, p, sz)
  <1>. SUFFICES Stands(it, p, sz)
    OBVIOUS
  <1>1. W \in Nat \ {0} /\ W >= 2 /\ r \in 0 .. W - 1 /\ W \in Nat /\ 0 \in 0 .. W - 1
    <2>1. W \in Nat /\ W >= 2 /\ r \in 0 .. W - 1
      BY WidthFacts, NextRest
    <2>. HIDE DEF W, r
    <2>. QED
      BY <2>1
  <1>2. /\ Begin \in Iterator /\ Begin.off = 0 /\ Begin.leaf = 0 /\ Begin.i = 0
    BY DEF Begin, Iterator
  <1>3. CASE p = 0
    <2>1. it = Begin
      BY <1>3 DEF Plus
    <2>2. r = 0
      <3>1. (W * 0 + 0) % W = 0
        <4>. HIDE DEF W
        <4>. QED
          BY <1>1, Quotient
      <3>2. W * 0 + 0 = p
        BY <1>1, <1>3
      <3>. QED
        BY <3>1, <3>2
    <2>. HIDE DEF it
    <2>. QED
      BY <1>2, <1>3, <2>1, <2>2 DEF Stands
  <1>4. CASE p # 0 /\ p < W
    <2>1. r = p
      <3>1. (W * 0 + p) % W = p
        <4>1. p \in 0 .. W - 1
          BY <1>1, <1>4
        <4>. HIDE DEF W
        <4>. QED
          BY <1>1, <4>1, Quotient
      <3>2. W * 0 + p = p
        BY <1>1
      <3>. QED
        BY <3>1, <3>2
    <2>2. it = [Begin EXCEPT !.off = p]
      <3>1. ~(sz = 0 \/ p = 0) /\ W - 0 > p
        BY <1>1, <1>4
      <3>2. it = [Begin EXCEPT !.off = @ + p]
        BY <1>2, <3>1 DEF Plus
      <3>. QED
        BY <1>2, <3>2
    <2>3. it \in Iterator /\ it.leaf = 0 /\ it.off = p /\ it.i = 0
      BY <1>2, <2>2 DEF Iterator
    <2>. HIDE DEF it
    <2>. QED
      BY <1>4, <2>1, <2>3 DEF Stands
  <1>5. CASE p >= W
    <2>. DEFINE i == IF p >= sz THEN sz - 1 ELSE p
                first == i - (i % W)
    <2>1. it = [i |-> first, leaf |-> first, off |-> (i % W) + (IF p >= sz THEN 1 ELSE 0)]
      <3>1. ~(sz = 0 \/ p = 0) /\ ~(W - 0 > p) /\ 0 + 0 + p = p
        BY <1>1, <1>5
      <3>. HIDE DEF i
      <3>. QED
        BY <1>2, <3>1 DEF Plus, i
    <2>2. i \in Nat
      BY <1>1, <1>5
    <2>3. i % W \in 0 .. W - 1
      <3>. HIDE DEF i
      <3>. QED
        BY <2>2, NextRest
    <2>. HIDE DEF it
    <2>4. CASE p < sz
      <3>1. i = p
        BY <2>4
      <3>. HIDE DEF i
      <3>2. /\ it.i = p - r /\ it.leaf = p - r /\ it.off = r /\ it \in Iterator
        BY <1>1, <2>1, <2>4, <3>1 DEF Iterator
      <3>. HIDE DEF W
      <3>. QED
        BY <1>1, <2>4, <3>2 DEF Stands, W
    <2>5. CASE p = sz
      <3>1. i = p - 1
        BY <2>5
      <3>2. r = IF (i % W) + 1 = W THEN 0 ELSE (i % W) + 1
        <4>. HIDE DEF i
        <4>1. i + 1 = p
          BY <2>2, <3>1
        <4>. QED
          BY <2>2, <4>1, NextRest
      <3>. DEFINE ir == i % W
      <3>3. ir \in 0 .. W - 1 /\ it = [i |-> i - ir, leaf |-> i - ir, off |-> ir + 1]
        BY <2>1, <2>3, <2>5
      <3>4. r = IF ir + 1 = W THEN 0 ELSE ir + 1
        BY <3>2
      <3>. HIDE DEF ir, i, W, r
      <3>5. it \in Iterator /\ it.leaf = i - ir /\ it.off = ir + 1
        BY <1>1, <2>2, <3>3 DEF Iterator
      <3>6. it.leaf + it.off = p
        BY <1>1, <2>2, <3>1, <3>3, <3>5
      <3>7. it.off = IF p = sz /\ p # 0 /\ r = 0 THEN W ELSE r
        BY <1>1, <1>5, <2>2, <2>5, <3>1, <3>3, <3>4, <3>5
      <3>8. ~(p < sz)
        BY <2>5
      <3>. QED
        BY <3>5, <3>6, <3>7, <3>8 DEF Stands, r, W
    <2>. QED
      BY <2>4, <2>5
  <1>. QED
    BY <1>1, <1>3, <1>4, <1>5

(* operator++ returns an iterator.                                         *)
LEMMA IncrType ==
  ASSUME NEW sz \in Nat, NEW it \in Iterator
  PROVE  Incr(it, sz) \in Iterator
  <1>. DEFINE W == BP_WIDTH
              n == Incr(it, sz)
  <1>1. W \in Nat /\ it.i \in Int /\ it.leaf \in Int /\ it.off \in Int
        /\ it = [i |-> it.i, leaf |-> it.leaf, off |-> it.off]
    BY WidthFacts DEF Iterator
  <1>2. \/ n = [i |-> it.i, leaf |-> it.leaf, off |-> it.off + 1]
        \/ n = [i |-> it.i + W, leaf |-> it.leaf, off |-> W]
        \/ n = [i |-> it.i + W, leaf |-> it.i + W, off |-> 0]
    BY <1>1 DEF Incr
  <1>. HIDE DEF n, W
  <1>3. n \in Iterator
    BY <1>1, <1>2 DEF Iterator
  <1>. QED
    BY <1>3 DEF n

(* A loop over the iterators visits the elements one after the other. *)
LEMMA VisitedIs ==
  ASSUME NEW sz \in Nat, NEW b \in Nat, b <= sz, NEW a \in Nat, a <= b
  PROVE  Visited(a, b, sz) = [k \in 1 .. b - a |-> a + k - 1]
  <1>. DEFINE last == 2 * sz + 1
              end == Plus(Begin, b, sz)
              z == Plus(Begin, a, sz)
              StepOf(f, k) == IF k = 0 THEN z ELSE Incr(f[k-1], sz)
              Defines(f) == f = [k \in 0 .. last |-> StepOf(f, k)]
              it == CHOOSE f : Defines(f)
              hits == {k \in 0 .. last : SamePlace(it[k], end)}
              n == Min({last} \cup hits)
              g == [k \in Nat |-> [x \in Iterator |-> Incr(x, sz)]]
  <1>1. last \in Nat /\ b - a \in 0 .. last /\ b - a \in Nat /\ b - a <= sz
    OBVIOUS
  <1>2. Stands(z, a, sz) /\ Stands(end, b, sz) /\ z \in Iterator /\ end \in Iterator
    BY PlusIs DEF Stands
  <1>. HIDE DEF last, z, end
  <1>3. \A x \in Iterator : Incr(x, sz) \in Iterator
    BY IncrType
  <1>4. g \in [Nat -> [Iterator -> Iterator]]
    BY <1>3
  <1>5. PICK f : Iteration(f, Iterator, z, g)
    <2>. HIDE DEF g
    <2>. QED
      BY <1>2, <1>4, Iterate
  <1>6. f \in [Nat -> Iterator] /\ f[0] = z /\ \A k \in Nat : f[k + 1] = Incr(f[k], sz)
    <2>. HIDE DEF g
    <2>1. f \in [Nat -> Iterator] /\ f[0] = z /\ \A k \in Nat : f[k + 1] = g[k + 1][f[k]]
      BY <1>5 DEF Iteration
    <2>2. \A k \in Nat, x \in Iterator : g[k + 1][x] = Incr(x, sz)
      BY DEF g
    <2>. QED
      BY <2>1, <2>2
  <1>7. Defines([k \in 0 .. last |-> f[k]])
    <2>. DEFINE r == [k \in 0 .. last |-> f[k]]
    <2>1. ASSUME NEW k \in 0 .. last
          PROVE  f[k] = StepOf(r, k)
      <3>1. CASE k = 0
        BY <1>6, <3>1
      <3>2. CASE k # 0
        <4>1. k - 1 \in Nat /\ k - 1 \in 0 .. last /\ (k - 1) + 1 = k
          BY <1>1, <3>2
        <4>2. f[k] = Incr(f[k - 1], sz) /\ r[k - 1] = f[k - 1]
          BY <1>6, <4>1
        <4>. QED
          BY <3>2, <4>2
      <3>. QED
        BY <3>1, <3>2
    <2>. HIDE DEF StepOf
    <2>. QED
      BY <2>1
  <1>8. Defines(it)
    <2>. HIDE DEF Defines
    <2>. QED
      BY <1>7, Zenon
  <1>9. \A k \in 0 .. last : it[k] = StepOf(it, k)
    <2>. HIDE DEF StepOf, it
    <2>. QED
      BY <1>8
  <1>10. Visited(a, b, sz) = [k \in 1 .. n |-> it[k-1].leaf + it[k-1].off]
    BY DEF Visited, last, end, z
  <1>. HIDE DEF it, Defines
  <1>11. \A k \in 0 .. sz - a : Stands(it[k], a + k, sz)
    <2>. DEFINE T == {k \in 0 .. sz - a : Stands(it[k], a + k, sz)}
    <2>0. sz - a \in Nat /\ \A k \in 0 .. sz - a : k \in 0 .. last
      BY DEF last
    <2>1. 0 \in T
      <3>1. it[0] = z /\ a + 0 = a /\ 0 \in 0 .. sz - a
        BY <1>1, <1>9, <2>0
      <3>. QED
        BY <1>2, <3>1
    <2>2. ASSUME NEW k \in 1 .. sz - a, k - 1 \in T
          PROVE  k \in T
      <3>1. /\ k \in 0 .. sz - a /\ k # 0 /\ a + (k - 1) \in Nat /\ a + (k - 1) < sz
            /\ (a + (k - 1)) + 1 = a + k
        BY <2>0
      <3>2. it[k] = Incr(it[k - 1], sz)
        BY <1>9, <2>0, <3>1
      <3>3. Stands(it[k - 1], a + (k - 1), sz)
        BY <2>2
      <3>4. Stands(it[k], a + k, sz)
        BY <3>1, <3>2, <3>3, IncrIs
      <3>. QED
        BY <3>1, <3>4
    <2>. HIDE DEF T
    <2>3. \A k \in 0 .. sz - a : k \in T
      BY <2>0, <2>1, <2>2, Induct
    <2>. QED
      BY <2>3 DEF T
  <1>12. ASSUME NEW k \in 0 .. sz - a
         PROVE  SamePlace(it[k], end) <=> a + k = b
    <2>1. Stands(it[k], a + k, sz)
      BY <1>11
    <2>. HIDE DEF it
    <2>2. /\ it[k].leaf + it[k].off = a + k /\ end.leaf + end.off = b
          /\ it[k].leaf \in Int /\ it[k].off \in Int /\ end.leaf \in Int /\ end.off \in Int
      BY <1>2, <2>1 DEF Stands, Iterator
    <2>3. a + k = b => it[k].off = end.off
      BY <1>2, <2>1 DEF Stands
    <2>. QED
      BY <2>2, <2>3 DEF SamePlace
  <1>13. n = b - a
    <2>. DEFINE S == {last} \cup hits
    <2>1. b - a \in S /\ S \subseteq 0 .. last
      <3>1. b - a \in 0 .. sz - a /\ a + (b - a) = b /\ last \in 0 .. last
        BY <1>1
      <3>2. SamePlace(it[b - a], end)
        BY <1>12, <3>1
      <3>. HIDE DEF it
      <3>. QED
        BY <1>1, <3>1, <3>2
    <2>2. \A y \in S : b - a <= y
      <3>1. ASSUME NEW y \in S, y < b - a
            PROVE  FALSE
        <4>1. y \in 0 .. sz - a /\ y # last /\ y \in hits /\ a + y # b
          BY <1>1, <2>1, <3>1
        <4>2. SamePlace(it[y], end)
          BY <4>1
        <4>. QED
          BY <1>12, <4>1, <4>2
      <3>. QED
        BY <1>1, <2>1, <3>1
    <2>. HIDE DEF S
    <2>3. n = CHOOSE x \in S : \A y \in S : x <= y
      BY DEF n, Min, S
    <2>4. n \in S /\ \A y \in S : n <= y
      <3>. DEFINE Low(x) == x \in S /\ \A y \in S : x <= y
      <3>1. Low(b - a)
        BY <2>1, <2>2
      <3>2. n = CHOOSE x : Low(x)
        BY <2>3
      <3>. HIDE DEF Low, n
      <3>3. Low(n)
        BY <3>1, <3>2, Zenon
      <3>. QED
        BY <3>3 DEF Low
    <2>. HIDE DEF n
    <2>5. n \in 0 .. last /\ b - a <= n /\ n <= b - a
      BY <2>1, <2>2, <2>4
    <2>. QED
      BY <1>1, <2>5
  <1>. HIDE DEF n
  <1>14. ASSUME NEW k \in 1 .. b - a
         PROVE  it[k - 1].leaf + it[k - 1].off = a + k - 1
    <2>1. k - 1 \in 0 .. sz - a /\ a + (k - 1) = a + k - 1
      BY <1>1
    <2>. QED
      BY <1>11, <2>1 DEF Stands
  <1>. QED
    BY <1>10, <1>13, <1>14

\* an edit that gives the elements in S the values xs, and leaves the others
Filled(m, P, r, P2, S, xs, n0, keep) ==
  /\ Edits(m, P, r, P2, n0, keep, {})
  /\ Full(r.h, r.v)
  /\ \A j \in 0 .. m.v.sz - 1 :
       Cell(r.h, r.v, j) = IF j \in S THEN xs[j] ELSE Cell(m.h, m.v, j)

(* Every element of a vector has a leaf.                                   *)
LEMMA FullFacts ==
  ASSUME NEW m, NEW P, Fits(m, P), Full(m.h, m.v)
  PROVE  /\ m.v.sz \in Nat /\ 0 \in 0 .. Lv(m.v)
         /\ \A j \in 0 .. m.v.sz - 1 : j \in Room(m.v) /\ On(m.h, m.v, j, 0) # Null
         /\ 0 \in Room(m.v) /\ On(m.h, m.v, 0, 0) # Null
  <1>1. /\ m.v \in Vector /\ Lv(m.v) \in Nat /\ m.v.shift = Lv(m.v) * BP_BITS /\ m.h \in Seq(Node)
        /\ IsHeap(m.h, P) /\ IsVec(m.h, P, m.v) /\ 0 \in Room(m.v) /\ Null \notin DOMAIN m.h
    BY FitsFacts
  <1>2. m.v.sz \in Nat /\ 0 \in 0 .. Lv(m.v)
    BY <1>1 DEF Vector
  <1>3. \A j \in 0 .. m.v.sz - 1 : j \in Room(m.v) /\ On(m.h, m.v, j, 0) # Null
    BY <1>1, <1>2, FullPath
  <1>4. On(m.h, m.v, 0, 0) # Null
    <2>1. CASE m.v.sz = 0
      <3>1. Lv(m.v) = 0
        BY <2>1 DEF Full
      <3>2. On(m.h, m.v, 0, Lv(m.v)) = m.v.root
        BY <1>1, Path
      <3>3. m.v.root # Null
        BY <1>1 DEF IsVec
      <3>. QED
        BY <3>1, <3>2, <3>3
    <2>2. CASE m.v.sz # 0
      <3>1. 0 \in 0 .. m.v.sz - 1
        BY <1>2, <2>2
      <3>. QED
        BY <1>3, <3>1
    <2>. QED
      BY <2>1, <2>2
  <1>. QED
    BY <1>1, <1>2, <1>3, <1>4

(* An edit loses no element. *)
LEMMA EditsFull ==
  ASSUME NEW m, NEW P, Fits(m, P), Full(m.h, m.v), NEW r, NEW P2, NEW n0, NEW keep,
         Edits(m, P, r, P2, n0, keep, {})
  PROVE  Full(r.h, r.v)
  <1>1. Lv(r.v) = Lv(m.v) /\ r.v.sz = m.v.sz /\ Room(r.v) = Room(m.v)
    BY EditsFacts
  <1>2. /\ m.v.sz \in Nat /\ 0 \in 0 .. Lv(m.v)
        /\ \A j \in 0 .. m.v.sz - 1 : j \in Room(m.v) /\ On(m.h, m.v, j, 0) # Null
    BY FullFacts
  <1>3. \A j \in 0 .. m.v.sz - 1 : On(r.h, r.v, j, 0) # Null
    BY <1>2, EditsKeep
  <1>4. m.v.sz = 0 => Lv(m.v) = 0
    BY DEF Full
  <1>. QED
    BY <1>1, <1>3, <1>4 DEF Full

(* The types after elements were written.                                  *)
LEMMA FilledFacts ==
  ASSUME NEW m, NEW P, Fits(m, P), NEW r, NEW P2, NEW S, NEW xs, NEW n0, NEW keep,
         Filled(m, P, r, P2, S, xs, n0, keep)
  PROVE  /\ Fits(r, P2) /\ Full(r.h, r.v) /\ r \in Record
         /\ Lv(r.v) = Lv(m.v) /\ Room(r.v) = Room(m.v) /\ r.v.sz = m.v.sz
         /\ r.v.id = m.v.id /\ r.v.kind = m.v.kind /\ r.v.shift = m.v.shift
         /\ Len(m.h) \in Nat /\ Len(r.h) \in Nat /\ Len(m.h) <= Len(r.h)
         /\ r.ub = m.ub
  <1>1. Edits(m, P, r, P2, n0, keep, {}) /\ Full(r.h, r.v)
    BY DEF Filled
  <1>2. r.ub = m.ub /\ Fits(r, P2)
    BY <1>1 DEF Edits
  <1>3. r \in Record
    BY <1>2 DEF Fits
  <1>. QED
    BY <1>1, <1>2, <1>3, EditsFacts

(* Writing no element.                                                     *)
LEMMA FilledRefl ==
  ASSUME NEW m, NEW P, Fits(m, P), Full(m.h, m.v), NEW xs, NEW n0, NEW keep
  PROVE  Filled(m, P, m, P, {}, xs, n0, keep)
  BY EditsRefl DEF Filled

(* Writing some elements and then others.                                  *)
LEMMA FilledTrans ==
  ASSUME NEW m, NEW P, Fits(m, P), NEW c, NEW P1, NEW r, NEW P2, NEW S, NEW S2, NEW xs,
         NEW n0, NEW keep, Filled(m, P, c, P1, S, xs, n0, keep),
         Filled(c, P1, r, P2, S2, xs, n0, keep)
  PROVE  Filled(m, P, r, P2, S \cup S2, xs, n0, keep)
  <1>1. Edits(m, P, r, P2, n0, keep, {})
    <2>1. Elsewhere(m.h, P, m.v, n0, keep, {})
      BY DEF Elsewhere
    <2>2. Edits(m, P, c, P1, n0, keep, {}) /\ Edits(c, P1, r, P2, n0, keep, {})
      BY DEF Filled
    <2>. QED
      BY <2>1, <2>2, EditsTrans
  <1>2. c.v.sz = m.v.sz
    BY FilledFacts
  <1>3. \A j \in 0 .. m.v.sz - 1 :
          Cell(c.h, c.v, j) = IF j \in S THEN xs[j] ELSE Cell(m.h, m.v, j)
    BY DEF Filled
  <1>4. \A j \in 0 .. m.v.sz - 1 :
          Cell(r.h, r.v, j) = IF j \in S2 THEN xs[j] ELSE Cell(c.h, c.v, j)
    BY <1>2 DEF Filled
  <1>5. \A j \in 0 .. m.v.sz - 1 :
          Cell(r.h, r.v, j) = IF j \in S \cup S2 THEN xs[j] ELSE Cell(m.h, m.v, j)
    BY <1>3, <1>4
  <1>6. Full(r.h, r.v)
    BY DEF Filled
  <1>. QED
    BY <1>1, <1>5, <1>6 DEF Filled

(* Writing one element. *)
LEMMA FillOne ==
  ASSUME NEW m, NEW P, Fits(m, P), Full(m.h, m.v), NEW n0 \in Nat, n0 <= Len(m.h), NEW keep,
         NEW i \in 0 .. m.v.sz - 1, NEW xs, xs[i] \in Int
  PROVE  \E P2 : Filled(m, P, Write(m, i, xs[i], keep), P2, {i}, xs, n0, keep)
  <1>. DEFINE x == xs[i]
              r == Write(m, i, x, keep)
  <1>1. \A j \in 0 .. m.v.sz - 1 : j \in Room(m.v) /\ On(m.h, m.v, j, 0) # Null
    BY FullFacts
  <1>2. Wrote(m, P, r, i, x, n0, keep)
    <2>. HIDE DEF x
    <2>1. i \in Room(m.v) /\ On(m.h, m.v, i, 0) # Null /\ x \in Int
      BY <1>1 DEF x
    <2>. QED
      BY <2>1, WriteIs
  <1>. HIDE DEF r
  <1>3. PICK P2 : Edits(m, P, r, P2, n0, keep, {})
    BY <1>2 DEF Wrote
  <1>4. Full(r.h, r.v)
    BY <1>3, EditsFull
  <1>5. \A j \in 0 .. m.v.sz - 1 :
          Cell(r.h, r.v, j) = IF j = i THEN x ELSE Cell(m.h, m.v, j)
    BY <1>1, <1>2 DEF Wrote
  <1>6. \A j \in 0 .. m.v.sz - 1 :
          Cell(r.h, r.v, j) = IF j \in {i} THEN xs[j] ELSE Cell(m.h, m.v, j)
    BY <1>5
  <1>7. Filled(m, P, r, P2, {i}, xs, n0, keep)
    BY <1>3, <1>4, <1>6 DEF Filled
  <1>. QED
    BY <1>7 DEF r

(* Owning a path changes no element. *)
LEMMA FillNone ==
  ASSUME NEW m, NEW P, Fits(m, P), Full(m.h, m.v), NEW n0 \in Nat, n0 <= Len(m.h), NEW keep,
         NEW i \in Room(m.v), On(m.h, m.v, i, 0) # Null, NEW xs, NEW d, d = Leaf(m)
  PROVE  \E P2 : Filled(m, P, Own(m, i, d, keep), P2, {}, xs, n0, keep)
  <1>. DEFINE r == Own(m, i, d, keep)
  <1>1. /\ Leaf(m) = Lv(m.v) - 0 /\ 0 \in 0 .. Lv(m.v)
        /\ \A j \in 0 .. m.v.sz - 1 : j \in Room(m.v) /\ On(m.h, m.v, j, 0) # Null
    <2>1. m.v \in Vector
      BY FitsFacts
    <2>. QED
      BY <2>1, FullFacts, Levels DEF Leaf
  <1>2. Owned(m, P, r, i, 0, n0, keep)
    <2>1. d = Lv(m.v) - 0
      BY <1>1
    <2>. QED
      BY <1>1, <2>1, OwnIs
  <1>. HIDE DEF r
  <1>3. PICK P2 : Edits(m, P, r, P2, n0, keep, {})
    BY <1>2 DEF Owned
  <1>4. Full(r.h, r.v)
    BY <1>3, EditsFull
  <1>5. \A j \in 0 .. m.v.sz - 1 : Cell(r.h, r.v, j) = Cell(m.h, m.v, j)
    BY <1>1, <1>2 DEF Owned, SameCells
  <1>6. Filled(m, P, r, P2, {}, xs, n0, keep)
    BY <1>3, <1>4, <1>5 DEF Filled
  <1>. QED
    BY <1>6 DEF r

(* What making a mutable iterator does. *)
LEMMA TouchIs ==
  ASSUME NEW m, NEW P, Fits(m, P), Full(m.h, m.v), NEW n0 \in Nat, n0 <= Len(m.h),
         NEW keep, keep = iter_keep(m.v), NEW i \in Nat, NEW xs
  PROVE  \E P2 : Filled(m, P, Touch(m, i), P2, {}, xs, n0, keep)
  <1>. DEFINE c == TouchBegin(m)
              k == IF i >= m.v.sz THEN m.v.sz - 1 ELSE i
              r == Touch(m, i)
  <1>1. m.v.sz \in Nat /\ 0 \in Room(m.v) /\ On(m.h, m.v, 0, 0) # Null
    BY FullFacts
  <1>2. PICK P1 : Filled(m, P, c, P1, {}, xs, n0, keep)
    BY <1>1, FillNone DEF TouchBegin
  <1>3. CASE m.v.sz = 0
    <2>1. r = c
      BY <1>3 DEF Touch
    <2>. QED
      BY <1>2, <2>1
  <1>4. CASE m.v.sz # 0
    <2>1. r = Own(c, k, Leaf(m), keep)
      BY <1>4 DEF Touch
    <2>2. k \in 0 .. m.v.sz - 1
      BY <1>1, <1>4
    <2>. HIDE DEF c, k, r
    <2>3. /\ Fits(c, P1) /\ Full(c.h, c.v) /\ c.v.sz = m.v.sz /\ n0 <= Len(c.h)
          /\ c.v.shift = m.v.shift
      BY <1>2, FilledFacts
    <2>4. k \in Room(c.v) /\ On(c.h, c.v, k, 0) # Null
      BY <2>2, <2>3, FullFacts
    <2>5. Leaf(m) = Leaf(c)
      BY <2>3 DEF Leaf, calc_depth
    <2>6. \E P2 : Filled(c, P1, Own(c, k, Leaf(m), keep), P2, {}, xs, n0, keep)
      BY <2>3, <2>4, <2>5, FillNone
    <2>7. PICK P2 : Filled(c, P1, r, P2, {}, xs, n0, keep)
      BY <2>1, <2>6
    <2>8. Filled(m, P, r, P2, {} \cup {}, xs, n0, keep)
      BY <1>2, <2>7, FilledTrans
    <2>9. {} \cup {} = {}
      OBVIOUS
    <2>10. Filled(m, P, r, P2, {}, xs, n0, keep)
      BY <2>8, <2>9
    <2>. QED
      BY <2>10 DEF r
  <1>. QED
    BY <1>3, <1>4

(* Writing elements one after the other. *)
LEMMA WriteAllIs ==
  ASSUME NEW m, NEW P, Fits(m, P), Full(m.h, m.v), NEW n0 \in Nat, n0 <= Len(m.h),
         NEW keep, keep = iter_keep(m.v), NEW n \in Nat,
         NEW at, at \in [1 .. n -> 0 .. m.v.sz - 1], Len(at) = n, NEW xs,
         \A k \in 1 .. n : xs[at[k]] \in Int
  PROVE  \E P2 : Filled(m, P, WriteAll(m, at, xs), P2, {at[k] : k \in 1 .. n}, xs, n0, keep)
  <1>. DEFINE S(k) == {at[i] : i \in 1 .. k}
              Good(c, k) == c \in Record /\ \E P2 : Filled(m, P, c, P2, S(k), xs, n0, keep)
              T == [k \in 0 .. n |-> {c \in Record : Good(c, k)}]
              g == [k \in 1 .. n |-> [c \in Record |-> Write(c, at[k], xs[at[k]], keep)]]
              StepOf(f, k) == IF k = 0 THEN m ELSE Write(f[k-1], at[k], xs[at[k]], keep)
              Defines(f) == f = [k \in 0 .. n |-> StepOf(f, k)]
              pass == CHOOSE f : Defines(f)
  <1>1. m \in Record /\ m.v.sz \in Nat
    BY FitsFacts, FullFacts
  <1>2. Good(m, 0)
    <2>1. S(0) = {}
      OBVIOUS
    <2>2. Filled(m, P, m, P, {}, xs, n0, keep)
      BY FilledRefl
    <2>. QED
      BY <1>1, <2>1, <2>2
  <1>3. ASSUME NEW k \in 1 .. n, NEW c, Good(c, k - 1)
        PROVE  Good(Write(c, at[k], xs[at[k]], keep), k)
    <2>. DEFINE r == Write(c, at[k], xs[at[k]], keep)
    <2>1. PICK P1 : Filled(m, P, c, P1, S(k - 1), xs, n0, keep)
      BY <1>3
    <2>2. /\ Fits(c, P1) /\ Full(c.h, c.v) /\ c.v.sz = m.v.sz /\ n0 <= Len(c.h)
      BY <2>1, FilledFacts
    <2>3. at[k] \in 0 .. c.v.sz - 1 /\ xs[at[k]] \in Int
      BY <2>2
    <2>4. PICK P2 : Filled(c, P1, r, P2, {at[k]}, xs, n0, keep)
      BY <2>2, <2>3, FillOne
    <2>5. S(k - 1) \cup {at[k]} = S(k)
      <3>1. 1 .. k = (1 .. k - 1) \cup {k}
        OBVIOUS
      <3>. QED
        BY <3>1
    <2>. HIDE DEF S, r
    <2>6. Filled(m, P, r, P2, S(k - 1) \cup {at[k]}, xs, n0, keep)
      BY <2>1, <2>4, FilledTrans
    <2>7. Filled(m, P, r, P2, S(k), xs, n0, keep)
      BY <2>5, <2>6
    <2>8. r \in Record
      BY <2>2, <2>4, FilledFacts
    <2>9. Good(r, k)
      BY <2>7, <2>8
    <2>. QED
      BY <2>9 DEF r
  <1>. HIDE DEF Good
  <1>4. T \in [0 .. n -> SUBSET Record] /\ m \in T[0]
    BY <1>1, <1>2
  <1>5. ASSUME NEW k \in 1 .. n, NEW c \in T[k - 1]
        PROVE  g[k][c] = Write(c, at[k], xs[at[k]], keep) /\ g[k][c] \in T[k]
    <2>1. k - 1 \in 0 .. n /\ k \in 0 .. n
      OBVIOUS
    <2>2. c \in Record /\ Good(c, k - 1)
      BY <2>1
    <2>3. Good(Write(c, at[k], xs[at[k]], keep), k)
      BY <1>3, <2>2
    <2>4. Write(c, at[k], xs[at[k]], keep) \in Record
      BY <2>3 DEF Good
    <2>5. g[k][c] = Write(c, at[k], xs[at[k]], keep)
      BY <2>2
    <2>. QED
      BY <2>1, <2>3, <2>4, <2>5
  <1>6. PICK q : Course(q, n, Record, m, g, T)
    <2>1. \A k \in 1 .. n : \A c \in T[k - 1] : g[k][c] \in T[k]
      BY <1>5
    <2>. HIDE DEF T, g
    <2>. QED
      BY <1>1, <1>4, <2>1, Courses
  <1>7. /\ q \in [0 .. n -> Record] /\ q[0] = m
        /\ \A k \in 1 .. n : q[k] = Write(q[k - 1], at[k], xs[at[k]], keep)
    <2>1. /\ q \in [0 .. n -> Record] /\ q[0] = m
          /\ \A k \in 1 .. n : q[k] = g[k][q[k - 1]]
          /\ \A k \in 0 .. n : q[k] \in T[k]
      BY <1>6 DEF Course
    <2>. HIDE DEF T, g
    <2>2. ASSUME NEW k \in 1 .. n
          PROVE  q[k] = Write(q[k - 1], at[k], xs[at[k]], keep)
      <3>1. k - 1 \in 0 .. n
        OBVIOUS
      <3>2. q[k - 1] \in T[k - 1]
        BY <2>1, <3>1
      <3>. QED
        BY <1>5, <2>1, <3>2
    <2>. QED
      BY <2>1, <2>2
  <1>. HIDE DEF T, g
  <1>8. Defines(q)
    <2>1. \A k \in 0 .. n : q[k] = StepOf(q, k)
      <3>1. ASSUME NEW k \in 0 .. n
            PROVE  q[k] = StepOf(q, k)
        BY <1>7
      <3>. QED
        BY <3>1
    <2>. HIDE DEF StepOf
    <2>. QED
      BY <1>7, <2>1
  <1>9. Defines(pass)
    <2>. HIDE DEF Defines
    <2>. QED
      BY <1>8, Zenon
  <1>10. WriteAll(m, at, xs) = pass[n]
    BY DEF WriteAll
  <1>11. \A k \in 0 .. n : pass[k] = StepOf(pass, k)
    <2>. HIDE DEF StepOf, pass
    <2>. QED
      BY <1>9
  <1>. HIDE DEF pass, Defines
  <1>12. \A k \in 0 .. n : Good(pass[k], k)
    <2>. DEFINE U == {k \in 0 .. n : Good(pass[k], k)}
    <2>1. 0 \in U
      BY <1>2, <1>11
    <2>2. ASSUME NEW k \in 1 .. n, k - 1 \in U
          PROVE  k \in U
      <3>1. Good(pass[k - 1], k - 1)
        BY <2>2
      <3>2. pass[k] = Write(pass[k - 1], at[k], xs[at[k]], keep)
        BY <1>11
      <3>3. Good(pass[k], k)
        BY <1>3, <3>1, <3>2
      <3>. QED
        BY <3>3
    <2>. HIDE DEF U
    <2>3. \A k \in 0 .. n : k \in U
      BY <2>1, <2>2, Induct
    <2>. QED
      BY <2>3 DEF U
  <1>13. Good(pass[n], n)
    BY <1>12
  <1>. QED
    BY <1>10, <1>13 DEF Good

(* A loop of a mutable iterator over [a, b) gives those elements new values. *)
LEMMA EachIs ==
  ASSUME NEW m, NEW P, Fits(m, P), Full(m.h, m.v), NEW n0 \in Nat, n0 <= Len(m.h),
         NEW keep, keep = iter_keep(m.v), NEW b \in Nat, b <= m.v.sz, NEW a \in Nat, a <= b,
         NEW xs, \A j \in a .. b - 1 : xs[j] \in Int
  PROVE  \E P2 : Filled(m, P, Each(m, a, b, xs), P2, a .. b - 1, xs, n0, keep)
  <1>. DEFINE c == Touch(m, b)
              d == Touch(c, a)
              at == [k \in 1 .. b - a |-> a + k - 1]
              r == WriteAll(d, at, xs)
  <1>1. PICK P1 : Filled(m, P, c, P1, {}, xs, n0, keep)
    BY TouchIs
  <1>. HIDE DEF c
  <1>2. /\ Fits(c, P1) /\ Full(c.h, c.v) /\ c.v.sz = m.v.sz /\ n0 <= Len(c.h)
        /\ keep = iter_keep(c.v)
    BY <1>1, FilledFacts DEF iter_keep
  <1>3. PICK P2 : Filled(c, P1, d, P2, {}, xs, n0, keep)
    BY <1>2, TouchIs
  <1>. HIDE DEF d
  <1>4. /\ Fits(d, P2) /\ Full(d.h, d.v) /\ d.v.sz = m.v.sz /\ n0 <= Len(d.h)
        /\ keep = iter_keep(d.v) /\ m.v.sz \in Nat
    <2>1. m.v.sz \in Nat
      BY FullFacts
    <2>2. /\ Fits(d, P2) /\ Full(d.h, d.v) /\ d.v.sz = c.v.sz /\ d.v.id = c.v.id
          /\ Len(c.h) \in Nat /\ Len(d.h) \in Nat /\ Len(c.h) <= Len(d.h)
      BY <1>2, <1>3, FilledFacts
    <2>3. keep = iter_keep(d.v)
      BY <1>2, <2>2 DEF iter_keep
    <2>. HIDE DEF at, r
    <2>4. n0 <= Len(d.h)
      BY <1>2, <2>2
    <2>. QED
      BY <1>2, <2>1, <2>2, <2>3, <2>4
  <1>5. Visited(a, b, m.v.sz) = at
    BY <1>4, VisitedIs
  <1>6. /\ b - a \in Nat /\ at \in [1 .. b - a -> 0 .. d.v.sz - 1] /\ Len(at) = b - a
        /\ \A k \in 1 .. b - a : xs[at[k]] \in Int
        /\ {at[k] : k \in 1 .. b - a} = a .. b - 1
    <2>1. b - a \in Nat
      OBVIOUS
    <2>2. \A k \in 1 .. b - a : a + k - 1 \in 0 .. d.v.sz - 1 /\ a + k - 1 \in a .. b - 1
      BY <1>4
    <2>3. at \in [1 .. b - a -> 0 .. d.v.sz - 1]
      BY <2>2
    <2>4. Len(at) = b - a
      <3>1. at \in Seq(Int)
        BY <1>4, <2>1, <2>2
      <3>. QED
        BY <2>1, <3>1
    <2>5. {at[k] : k \in 1 .. b - a} = a .. b - 1
      <3>1. ASSUME NEW j \in a .. b - 1
            PROVE  \E k \in 1 .. b - a : at[k] = j
        <4>1. j - a + 1 \in 1 .. b - a /\ a + (j - a + 1) - 1 = j
          OBVIOUS
        <4>. QED
          BY <4>1
      <3>. QED
        BY <2>2, <3>1
    <2>. QED
      BY <2>1, <2>2, <2>3, <2>4, <2>5
  <1>. DEFINE A == {at[k] : k \in 1 .. b - a}
              len == b - a
  <1>7. PICK P3 : Filled(d, P2, r, P3, A, xs, n0, keep)
    <2>1. /\ len \in Nat /\ at \in [1 .. len -> 0 .. d.v.sz - 1] /\ Len(at) = len
          /\ \A k \in 1 .. len : xs[at[k]] \in Int
      BY <1>6
    <2>. HIDE DEF at, len
    <2>2. \E P3 : Filled(d, P2, WriteAll(d, at, xs), P3, {at[k] : k \in 1 .. len}, xs, n0, keep)
      BY <1>4, <2>1, WriteAllIs
    <2>. QED
      BY <2>2 DEF len
  <1>8. Filled(d, P2, r, P3, a .. b - 1, xs, n0, keep)
    BY <1>6, <1>7
  <1>9. r = Each(m, a, b, xs)
    BY <1>5 DEF Each, c, d
  <1>. HIDE DEF r
  <1>10. Filled(c, P1, r, P3, {} \cup a .. b - 1, xs, n0, keep)
    BY <1>2, <1>3, <1>8, FilledTrans
  <1>11. Filled(m, P, r, P3, {} \cup ({} \cup a .. b - 1), xs, n0, keep)
    BY <1>1, <1>10, FilledTrans
  <1>12. {} \cup ({} \cup a .. b - 1) = a .. b - 1
    OBVIOUS
  <1>. QED
    BY <1>9, <1>11, <1>12

\* a new empty vector e beside the others
Sown(H, P, H2, P2, e, kind, id) ==
  /\ IsHeap(H2, P2) /\ IsVec(H2, P2, e) /\ Full(H2, e)
  /\ e.kind = kind /\ e.id = id /\ e.sz = 0
  /\ Len(H2) = Len(H) + 1 /\ Nodes(H2, e) = {Len(H) + 1} /\ H2[Len(H) + 1].id = id
  /\ \A n \in DOMAIN H : H2[n] = H[n] /\ P2[n] = P[n]

(* Default construction makes an empty trie.                               *)
LEMMA EmptyIs ==
  ASSUME NEW H, NEW P, IsHeap(H, P), NEW kind \in Kind, NEW id \in Nat
  PROVE  Sown(H, P, Empty(H, kind, id).h, Grafted(P, Len(H) + 1, 0, 0),
              Empty(H, kind, id).v, kind, id)
  <1>. DEFINE n == Len(H) + 1
              node == NewNode("leaves", id)
              H2 == Empty(H, kind, id).h
              P2 == Grafted(P, n, 0, 0)
              e == Empty(H, kind, id).v
  <1>1. /\ H \in Seq(Node) /\ Len(H) \in Nat /\ n \in Nat /\ DOMAIN H = 1 .. Len(H)
        /\ P \in [DOMAIN H -> Nat \X Nat]
    <2>1. H \in Seq(Node) /\ P \in [DOMAIN H -> Nat \X Nat]
      BY DEF IsHeap
    <2>. QED
      BY <2>1
  <1>2. node \in Node /\ node.type = "leaves" /\ node.id = id
    BY DEF NewNode, Node, Zeroes
  <1>3. H2 = Append(H, node) /\ e = [kind |-> kind, sz |-> 0, shift |-> 0, root |-> n, id |-> id]
    BY DEF Empty
  <1>. HIDE DEF H2, e, node
  <1>4. /\ e \in Vector /\ e.kind = kind /\ e.id = id /\ e.sz = 0 /\ e.root = n /\ e.shift = 0
    BY <1>1, <1>3 DEF Vector
  <1>5. /\ H2 \in Seq(Node) /\ Len(H2) = n /\ DOMAIN H2 = 1 .. n /\ H2[n] = node
        /\ \A y \in DOMAIN H : H2[y] = H[y] /\ y # n /\ y \in 1 .. n
    BY <1>1, <1>2, <1>3
  <1>6. Lv(e) = 0 /\ e.shift = Lv(e) * BP_BITS
    <2>1. (0 * BP_BITS) \div BP_BITS = 0 /\ 0 * BP_BITS = 0
      BY Shifted
    <2>. QED
      BY <1>4, <2>1 DEF Lv
  <1>. HIDE DEF n
  <1>7. /\ P2 \in [1 .. n -> Nat \X Nat] /\ P2[n] = <<0, 0>> /\ P2[n][1] = 0
        /\ \A y \in DOMAIN H : P2[y] = P[y]
    <2>1. n \in 1 .. n /\ \A y \in 1 .. n : y # n => y \in DOMAIN H
      BY <1>1 DEF n
    <2>. QED
      BY <1>1, <1>5, <2>1 DEF Grafted
  <1>. HIDE DEF P2
  <1>8. IsHeap(H2, P2)
    <2>1. \A y \in 1 .. n : y = n \/ y \in DOMAIN H
      BY <1>1 DEF n
    <2>2. \A y \in DOMAIN H2 : H2[y].type = IF P2[y][1] = 0 THEN "leaves" ELSE "branches"
      <3>1. \A y \in DOMAIN H : H[y].type = IF P[y][1] = 0 THEN "leaves" ELSE "branches"
        BY DEF IsHeap
      <3>. QED
        BY <1>2, <1>5, <1>7, <2>1, <3>1
    <2>3. ASSUME NEW y \in DOMAIN H2, P2[y][1] # 0, NEW s \in Slot, H2[y].slot[s] # Null
          PROVE  /\ H2[y].slot[s] \in DOMAIN H2
                 /\ P2[H2[y].slot[s]] = <<P2[y][1] - 1, BP_WIDTH * P2[y][2] + s>>
      <3>1. y \in DOMAIN H
        BY <1>5, <1>7, <2>1, <2>3
      <3>2. /\ H[y].slot[s] \in DOMAIN H
            /\ P[H[y].slot[s]] = <<P[y][1] - 1, BP_WIDTH * P[y][2] + s>>
        BY <1>5, <1>7, <2>3, <3>1 DEF IsHeap
      <3>. QED
        BY <1>5, <1>7, <3>1, <3>2
    <2>. QED
      BY <1>5, <1>7, <2>2, <2>3 DEF IsHeap
  <1>9. IsVec(H2, P2, e)
    <2>1. n \in DOMAIN H2
      BY <1>1, <1>5 DEF n
    <2>2. e.sz <= Width(Lv(e) + 1)
      <3>1. Width(1) \in Nat
        BY WidthFacts
      <3>. QED
        BY <1>4, <1>6, <3>1
    <2>. QED
      BY <1>4, <1>6, <1>7, <2>1, <2>2 DEF IsVec
  <1>10. Nodes(H2, e) = {n}
    <2>1. \A j \in Nat : On(H2, e, j, 0) = n
      BY <1>4, <1>5, <1>6, Path
    <2>2. Room(e) \subseteq Nat /\ 0 \in Room(e) /\ n # Null
      BY <1>1, <1>4, RoomFacts DEF n, Null
    <2>3. 0 .. Lv(e) = {0}
      BY <1>6
    <2>. QED
      BY <2>1, <2>2, <2>3 DEF Nodes
  <1>11. Full(H2, e)
    <2>1. 0 .. e.sz - 1 = {}
      BY <1>4
    <2>. QED
      BY <1>6, <2>1 DEF Full
  <1>12. Len(H2) = Len(H) + 1 /\ Nodes(H2, e) = {Len(H) + 1} /\ H2[Len(H) + 1].id = id
    BY <1>2, <1>5, <1>10 DEF n
  <1>13. \A y \in DOMAIN H : H2[y] = H[y] /\ P2[y] = P[y]
    BY <1>5, <1>7
  <1>14. Sown(H, P, H2, P2, e, kind, id)
    BY <1>4, <1>8, <1>9, <1>11, <1>12, <1>13 DEF Sown
  <1>. QED
    BY <1>14 DEF H2, P2, e, n

\* u has the same trie in both heaps
Alive(H, H2, P2, u) ==
  /\ IsVec(H2, P2, u) /\ Nodes(H2, u) = Nodes(H, u)
  /\ \A j \in Room(u), e \in 0 .. Lv(u) : On(H2, u, j, e) = On(H, u, j, e)
  /\ Full(H, u) => Full(H2, u)

(* The other tries are as they were.                                       *)
LEMMA SownOther ==
  ASSUME NEW H, NEW P, IsHeap(H, P), NEW H2, NEW P2, NEW e, NEW kind, NEW id,
         Sown(H, P, H2, P2, e, kind, id), NEW u, IsVec(H, P, u)
  PROVE  Alive(H, H2, P2, u)
  <1>1. /\ H2 \in Seq(Node) /\ H \in Seq(Node) /\ Len(H) \in Nat /\ Len(H2) = Len(H) + 1
        /\ DOMAIN H = 1 .. Len(H) /\ DOMAIN H2 = 1 .. Len(H2)
        /\ \A n \in DOMAIN H : H2[n] = H[n] /\ P2[n] = P[n]
    <2>1. H2 \in Seq(Node) /\ H \in Seq(Node) /\ Len(H2) = Len(H) + 1
          /\ \A n \in DOMAIN H : H2[n] = H[n] /\ P2[n] = P[n]
      BY DEF Sown, IsHeap
    <2>. QED
      BY <2>1
  <1>2. Nodes(H, u) \subseteq DOMAIN H
    BY NodesIn
  <1>3. SamePaths(H, u, H2, u)
    BY <1>1, <1>2, Untouched
  <1>4. Nodes(H2, u) = Nodes(H, u)
    BY <1>3 DEF Nodes, SamePaths
  <1>5. IsVec(H2, P2, u)
    <2>1. u.root \in DOMAIN H /\ P[u.root] = <<Lv(u), 0>>
      BY DEF IsVec
    <2>2. u.root \in DOMAIN H2 /\ P2[u.root] = <<Lv(u), 0>>
      <3>1. \A n \in 1 .. Len(H) : n \in 1 .. Len(H2)
        BY <1>1
      <3>. QED
        BY <1>1, <2>1, <3>1
    <2>. QED
      BY <2>2 DEF IsVec
  <1>6. ASSUME Full(H, u)
        PROVE  Full(H2, u)
    <2>1. ASSUME NEW j \in 0 .. u.sz - 1
          PROVE  On(H2, u, j, 0) # Null
      <3>1. u \in Vector
        BY DEF IsVec
      <3>2. 0 \in 0 .. Lv(u)
        BY <3>1, Levels
      <3>3. j \in Room(u) /\ On(H, u, j, 0) # Null
        BY <1>6, <3>2, FullPath
      <3>. QED
        BY <1>3, <3>2, <3>3 DEF SamePaths
    <2>. QED
      BY <1>6, <2>1 DEF Full
  <1>. QED
    BY <1>3, <1>4, <1>5, <1>6 DEF Alive, SamePaths

-----------------------------------------------------------------------------
(* assign: copying branches. *)

\* slots from..to-1 of node t of h become those of node n
Sliced(h, h2, t, n, from, to) ==
  /\ h2 \in Seq(Node) /\ DOMAIN h2 = DOMAIN h /\ Len(h2) = Len(h)
  /\ \A y \in DOMAIN h \ {t} : h2[y] = h[y]
  /\ h2[t].type = h[t].type /\ h2[t].id = h[t].id
  /\ \A s \in Slot : h2[t].slot[s] = IF s \in from .. to - 1 THEN h[n].slot[s]
                                     ELSE h[t].slot[s]

\* the assignment of CopySlots
Slicing(h, h2, t, n, from, to) ==
  h2 = [h EXCEPT ![t].slot =
         [k \in Slot |-> IF k \in from .. (to - 1) THEN h[n].slot[k] ELSE @[k]]]

(* It writes those slots only.                                             *)
LEMMA SlicedIs ==
  ASSUME NEW h \in Seq(Node), NEW t \in DOMAIN h, NEW n \in DOMAIN h, NEW from, NEW to,
         NEW h2, Slicing(h, h2, t, n, from, to)
  PROVE  Sliced(h, h2, t, n, from, to)
  <1>. DEFINE f == [k \in Slot |-> IF k \in from .. (to - 1) THEN h[n].slot[k] ELSE h[t].slot[k]]
              g == [h[t] EXCEPT !.slot = f]
  <1>1. /\ h[t] \in [type: {"branches", "leaves"}, id: Int, slot: [Slot -> Int]]
        /\ h[n] \in [type: {"branches", "leaves"}, id: Int, slot: [Slot -> Int]]
    <2>1. h[t] \in Node /\ h[n] \in Node
      OBVIOUS
    <2>. QED
      BY <2>1 DEF Node
  <1>2. f \in [Slot -> Int]
    BY <1>1
  <1>3. \A s \in Slot : f[s] = IF s \in from .. to - 1 THEN h[n].slot[s] ELSE h[t].slot[s]
    OBVIOUS
  <1>4. h2 = [h EXCEPT ![t] = g]
    BY DEF Slicing
  <1>. HIDE DEF f
  <1>5. g \in Node /\ g.type = h[t].type /\ g.id = h[t].id /\ g.slot = f
    BY <1>1, <1>2 DEF Node
  <1>. HIDE DEF g
  <1>6. h2 \in Seq(Node) /\ DOMAIN h2 = DOMAIN h /\ Len(h2) = Len(h)
    <2>1. g \in Node
      BY <1>5
    <2>. QED
      BY <1>4, <2>1
  <1>7. h2[t] = g /\ \A y \in DOMAIN h \ {t} : h2[y] = h[y]
    BY <1>4
  <1>. QED
    BY <1>3, <1>5, <1>6, <1>7 DEF Sliced

\* node t of height E in m and node n of w stand over the block of i
Facing(m, P, w, i, E, t, n) ==
  /\ Fits(m, P) /\ IsVec(m.h, P, w) /\ Lv(w) = Lv(m.v)
  /\ i \in Room(m.v) /\ E \in 1 .. Lv(m.v)
  /\ t = On(m.h, m.v, i, E) /\ n = On(m.h, w, i, E) /\ t # Null /\ n # Null /\ t # n

(* What is known of the two nodes.                                         *)
LEMMA FacingFacts ==
  ASSUME NEW m, NEW P, NEW w, NEW i, NEW E, NEW t, NEW n, Facing(m, P, w, i, E, t, n)
  PROVE  /\ m.h \in Seq(Node) /\ m.v \in Vector /\ w \in Vector /\ m \in Record /\ m.ub \in BOOLEAN
         /\ IsHeap(m.h, P) /\ IsVec(m.h, P, m.v) /\ IsVec(m.h, P, w)
         /\ Lv(m.v) \in Nat /\ Lv(w) = Lv(m.v) /\ Room(w) = Room(m.v) /\ Room(m.v) \subseteq Nat
         /\ m.v.shift = Lv(m.v) * BP_BITS /\ w.shift = Lv(m.v) * BP_BITS
         /\ i \in Nat /\ E \in 1 .. Lv(m.v) /\ E \in 0 .. Lv(m.v) /\ E \in Nat
         /\ t \in DOMAIN m.h /\ n \in DOMAIN m.h /\ t # n /\ Null \notin DOMAIN m.h
         /\ P[t] = <<E, Blk(i, E + 1)>> /\ P[t][1] = E
         /\ P[n] = <<E, Blk(i, E + 1)>> /\ P[n][1] = E
  <1>1. /\ Fits(m, P) /\ IsVec(m.h, P, w) /\ Lv(w) = Lv(m.v)
        /\ i \in Room(m.v) /\ E \in 1 .. Lv(m.v)
        /\ t = On(m.h, m.v, i, E) /\ n = On(m.h, w, i, E) /\ t # Null /\ n # Null /\ t # n
    BY DEF Facing
  <1>2. /\ m.h \in Seq(Node) /\ m.v \in Vector /\ m \in Record /\ m.ub \in BOOLEAN
        /\ IsHeap(m.h, P) /\ IsVec(m.h, P, m.v) /\ Lv(m.v) \in Nat /\ Room(m.v) \subseteq Nat
        /\ m.v.shift = Lv(m.v) * BP_BITS /\ Null \notin DOMAIN m.h
    BY <1>1, FitsFacts
  <1>3. w \in Vector /\ w.shift = Lv(m.v) * BP_BITS /\ Room(w) = Room(m.v)
    BY <1>1 DEF IsVec, Room
  <1>4. E \in 0 .. Lv(m.v) /\ E \in 0 .. Lv(w) /\ E \in Nat /\ i \in Room(w)
    BY <1>1, <1>2, <1>3
  <1>5. t \in DOMAIN m.h /\ P[t] = <<E, Blk(i, E + 1)>> /\ P[t][1] = E
    BY <1>1, <1>2, <1>4, OnPlace
  <1>6. n \in DOMAIN m.h /\ P[n] = <<E, Blk(i, E + 1)>> /\ P[n][1] = E
    BY <1>1, <1>2, <1>4, OnPlace
  <1>. QED
    BY <1>1, <1>2, <1>3, <1>4, <1>5, <1>6

(* The result is a trie: the children come from the same places.           *)
LEMMA SlicedFits ==
  ASSUME NEW m, NEW P, NEW w, NEW i, NEW E, NEW t, NEW n, Facing(m, P, w, i, E, t, n),
         NEW from, NEW to, NEW r, r \in Record, r.v = m.v, Sliced(m.h, r.h, t, n, from, to)
  PROVE  Fits(r, P)
  <1>1. /\ m.h \in Seq(Node) /\ IsHeap(m.h, P) /\ IsVec(m.h, P, m.v)
        /\ t \in DOMAIN m.h /\ n \in DOMAIN m.h /\ P[t] = P[n] /\ P[n][1] # 0 /\ P[t][1] # 0
    BY FacingFacts
  <1>2. /\ r.h \in Seq(Node) /\ DOMAIN r.h = DOMAIN m.h
        /\ \A y \in DOMAIN m.h \ {t} : r.h[y] = m.h[y]
        /\ r.h[t].type = m.h[t].type
        /\ \A s \in Slot : r.h[t].slot[s] = m.h[n].slot[s] \/ r.h[t].slot[s] = m.h[t].slot[s]
    BY DEF Sliced
  <1>3. ASSUME NEW y \in DOMAIN r.h
        PROVE  r.h[y].type = IF P[y][1] = 0 THEN "leaves" ELSE "branches"
    <2>1. m.h[y].type = IF P[y][1] = 0 THEN "leaves" ELSE "branches"
      BY <1>1, <1>2 DEF IsHeap
    <2>. QED
      BY <1>2, <2>1
  <1>4. ASSUME NEW y \in DOMAIN r.h, P[y][1] # 0, NEW s \in Slot, r.h[y].slot[s] # Null
        PROVE  /\ r.h[y].slot[s] \in DOMAIN r.h
               /\ P[r.h[y].slot[s]] = <<P[y][1] - 1, BP_WIDTH * P[y][2] + s>>
    <2>1. PICK x \in DOMAIN m.h : P[x] = P[y] /\ r.h[y].slot[s] = m.h[x].slot[s]
      <3>1. CASE y # t
        BY <1>2, <3>1
      <3>2. CASE y = t
        BY <1>1, <1>2, <3>2
      <3>. QED
        BY <3>1, <3>2
    <2>. DEFINE c == m.h[x].slot[s]
    <2>2. c # Null /\ P[x][1] # 0
      BY <1>4, <2>1
    <2>3. c \in DOMAIN m.h /\ P[c] = <<P[x][1] - 1, BP_WIDTH * P[x][2] + s>>
      BY <1>1, <2>2 DEF IsHeap
    <2>. HIDE DEF c
    <2>4. r.h[y].slot[s] = c
      BY <2>1 DEF c
    <2>. QED
      BY <1>2, <2>1, <2>3, <2>4
  <1>5. IsHeap(r.h, P)
    BY <1>1, <1>2, <1>3, <1>4 DEF IsHeap
  <1>6. IsVec(r.h, P, r.v)
    BY <1>1, <1>2 DEF IsVec
  <1>. QED
    BY <1>5, <1>6 DEF Fits

\* node y on a path is another than t
Beside(m, P, u, j, f, y, E, t) ==
  /\ IsVec(m.h, P, u) /\ j \in Room(u) /\ f \in 0 .. Lv(u)
  /\ y = On(m.h, u, j, f) /\ (f # E \/ y # t)

(* Nodes of other heights keep their slots. *)
LEMMA SlicedKept ==
  ASSUME NEW m, NEW P, NEW w, NEW i, NEW E, NEW t, NEW n, Facing(m, P, w, i, E, t, n),
         NEW from, NEW to, NEW r, Sliced(m.h, r.h, t, n, from, to),
         NEW u, NEW j, NEW f, NEW y, Beside(m, P, u, j, f, y, E, t)
  PROVE  Kept(m.h, r.h, y)
  <1>1. /\ IsHeap(m.h, P) /\ P[t][1] = E /\ Null \notin DOMAIN m.h
        /\ IsVec(m.h, P, u) /\ j \in Room(u) /\ f \in 0 .. Lv(u)
        /\ y = On(m.h, u, j, f) /\ (f # E \/ y # t)
    BY FacingFacts DEF Beside
  <1>2. DOMAIN r.h = DOMAIN m.h /\ \A x \in DOMAIN m.h \ {t} : r.h[x] = m.h[x]
    BY DEF Sliced
  <1>3. CASE y = Null
    BY <1>1, <1>2, <1>3 DEF Kept
  <1>4. CASE y # Null
    <2>1. P[y][1] = f
      BY <1>1, <1>4, OnPlace
    <2>2. y # t
      BY <1>1, <2>1
    <2>. QED
      BY <1>2, <2>2 DEF Kept
  <1>. QED
    BY <1>3, <1>4

(* Above the node that is written the paths are the same. *)
LEMMA SlicedAbove ==
  ASSUME NEW m, NEW P, NEW w, NEW i, NEW E, NEW t, NEW n, Facing(m, P, w, i, E, t, n),
         NEW from, NEW to, NEW r, Sliced(m.h, r.h, t, n, from, to), r.v = m.v,
         NEW j \in Room(m.v)
  PROVE  Meet(m.h, m.v, r.h, r.v, j, E, Lv(m.v))
  <1>. DEFINE L == Lv(m.v)
  <1>1. /\ m.h \in Seq(Node) /\ m.v \in Vector /\ L \in Nat /\ E \in 0 .. L
        /\ m.v.shift = L * BP_BITS /\ IsVec(m.h, P, m.v) /\ j \in Nat
    BY FacingFacts
  <1>2. r.h \in Seq(Node)
    BY DEF Sliced
  <1>3. On(r.h, r.v, j, L) = On(m.h, m.v, j, L)
    <2>1. On(m.h, m.v, j, Lv(m.v)) = m.v.root
      BY <1>1, Path
    <2>2. r.v \in Vector /\ r.v.shift = Lv(r.v) * BP_BITS
      BY <1>1
    <2>3. On(r.h, r.v, j, Lv(r.v)) = r.v.root
      BY <1>1, <1>2, <2>2, Path
    <2>. QED
      BY <2>1, <2>3
  <1>4. KeptOn(m.h, r.h, m.v, j, E, L)
    <2>1. ASSUME NEW f \in E + 1 .. L
          PROVE  Kept(m.h, r.h, On(m.h, m.v, j, f))
      <3>. DEFINE y == On(m.h, m.v, j, f)
      <3>1. f \in 0 .. Lv(m.v) /\ (f # E \/ y # t) /\ y = On(m.h, m.v, j, f)
        BY <1>1
      <3>. HIDE DEF y, L
      <3>3. Beside(m, P, m.v, j, f, y, E, t)
        BY <1>1, <3>1 DEF Beside
      <3>2. Kept(m.h, r.h, y)
        BY <3>3, SlicedKept
      <3>. QED
        BY <3>2 DEF y
    <2>. QED
      BY <2>1 DEF KeptOn
  <1>5. L \in 0 .. Lv(m.v) /\ L <= Lv(r.v) /\ E \in 0 .. L
    BY <1>1
  <1>. HIDE DEF L
  <1>6. r.v \in Vector /\ r.v.shift = Lv(r.v) * BP_BITS /\ m.v.shift = Lv(m.v) * BP_BITS
    BY <1>1 DEF L
  <1>7. Meet(m.h, m.v, r.h, r.v, j, E, L)
    BY <1>1, <1>2, <1>3, <1>4, <1>5, <1>6, OnFrame
  <1>. QED
    BY <1>7 DEF L

(* Below it they go on as those they meet. *)
LEMMA SlicedBelow ==
  ASSUME NEW m, NEW P, NEW w, NEW i, NEW E, NEW t, NEW n, Facing(m, P, w, i, E, t, n),
         NEW from, NEW to, NEW r, Sliced(m.h, r.h, t, n, from, to), r.v = m.v,
         NEW j \in Room(m.v), NEW u, IsVec(m.h, P, u), Lv(u) = Lv(m.v),
         NEW e, e = E - 1, On(r.h, r.v, j, e) = On(m.h, u, j, e)
  PROVE  Meet(m.h, u, r.h, r.v, j, 0, e)
  <1>. DEFINE L == Lv(m.v)
  <1>1. /\ m.h \in Seq(Node) /\ m.v \in Vector /\ L \in Nat /\ E \in 1 .. L
        /\ m.v.shift = Lv(m.v) * BP_BITS /\ j \in Nat
    BY FacingFacts
  <1>2. r.h \in Seq(Node)
    BY DEF Sliced
  <1>3. u \in Vector /\ u.shift = Lv(u) * BP_BITS /\ j \in Room(u)
    BY DEF IsVec, Room
  <1>4. KeptOn(m.h, r.h, u, j, 0, e)
    <2>1. ASSUME NEW f \in 0 + 1 .. e
          PROVE  Kept(m.h, r.h, On(m.h, u, j, f))
      <3>. DEFINE y == On(m.h, u, j, f)
      <3>1. f \in 0 .. Lv(u) /\ (f # E \/ y # t) /\ y = On(m.h, u, j, f)
        BY <1>1
      <3>. HIDE DEF y
      <3>3. Beside(m, P, u, j, f, y, E, t)
        BY <1>3, <3>1 DEF Beside
      <3>2. Kept(m.h, r.h, y)
        BY <3>3, SlicedKept
      <3>. QED
        BY <3>2 DEF y
    <2>. QED
      BY <2>1 DEF KeptOn
  <1>5. e \in 0 .. Lv(u) /\ e <= Lv(r.v) /\ 0 \in 0 .. e
    BY <1>1
  <1>6. r.v \in Vector /\ r.v.shift = Lv(r.v) * BP_BITS
    BY <1>1
  <1>. QED
    BY <1>1, <1>2, <1>3, <1>4, <1>5, <1>6, OnFrame

\* the node of height e on the path to j after the copy
Shared(m, r, w, i, E, from, to, j, e) ==
  On(r.h, r.v, j, e) =
    IF e < E /\ Blk(j, E + 1) = Blk(i, E + 1) /\ Blk(j, E) % BP_WIDTH \in from .. to - 1
    THEN On(m.h, w, j, e) ELSE On(m.h, m.v, j, e)

(* The paths after the copy go on in w under the copied slots.             *)
LEMMA SlicedPaths ==
  ASSUME NEW m, NEW P, NEW w, NEW i, NEW E, NEW t, NEW n, Facing(m, P, w, i, E, t, n),
         NEW from, NEW to, NEW r, r \in Record, Sliced(m.h, r.h, t, n, from, to), r.v = m.v,
         NEW j \in Room(m.v), NEW e \in 0 .. Lv(m.v)
  PROVE  Shared(m, r, w, i, E, from, to, j, e)
  <1>. DEFINE L == Lv(m.v)
              c == E - 1
              s == Blk(j, c + 1) % BP_WIDTH
  <1>1. /\ m.h \in Seq(Node) /\ m.v \in Vector /\ L \in Nat /\ E \in 1 .. L /\ E \in Nat
        /\ IsHeap(m.h, P) /\ IsVec(m.h, P, m.v) /\ IsVec(m.h, P, w) /\ Lv(w) = L
        /\ t \in DOMAIN m.h /\ n \in DOMAIN m.h /\ P[t][2] = Blk(i, E + 1)
        /\ i \in Nat /\ j \in Nat /\ Null \notin DOMAIN m.h /\ E \in 0 .. L /\ j \in Room(w)
    BY FacingFacts
  <1>2. t = On(m.h, m.v, i, E) /\ n = On(m.h, w, i, E)
    BY DEF Facing
  <1>3. c \in 0 .. L - 1 /\ c + 1 = E /\ c \in 0 .. L /\ c \in Nat /\ e \in Int
    BY <1>1
  <1>4. IsHeap(r.h, P) /\ IsVec(r.h, P, r.v)
    <2>1. Fits(r, P)
      BY SlicedFits
    <2>. QED
      BY <2>1 DEF Fits
  <1>5. /\ r.h \in Seq(Node) /\ DOMAIN r.h = DOMAIN m.h
        /\ \A y \in DOMAIN m.h \ {t} : r.h[y] = m.h[y]
        /\ \A x \in Slot : r.h[t].slot[x] = IF x \in from .. to - 1 THEN m.h[n].slot[x]
                                            ELSE m.h[t].slot[x]
    BY DEF Sliced
  <1>6. s \in Slot
    BY <1>1, <1>3, PathStep
  <1>7. On(r.h, r.v, j, E) = On(m.h, m.v, j, E)
    <2>1. Meet(m.h, m.v, r.h, r.v, j, E, L)
      BY SlicedAbove
    <2>. QED
      BY <1>1, <2>1 DEF Meet
  <1>8. CASE e >= E
    <2>1. Meet(m.h, m.v, r.h, r.v, j, E, L)
      BY SlicedAbove
    <2>2. e \in E .. L
      BY <1>1, <1>8
    <2>. HIDE DEF L
    <2>3. On(r.h, r.v, j, e) = On(m.h, m.v, j, e)
      BY <2>1, <2>2 DEF Meet
    <2>. QED
      BY <1>1, <1>3, <1>8, <2>3 DEF Shared
  <1>9. ASSUME e < E, NEW u, IsVec(m.h, P, u), Lv(u) = Lv(m.v),
               On(r.h, r.v, j, c) = On(m.h, u, j, c)
        PROVE  On(r.h, r.v, j, e) = On(m.h, u, j, e)
    <2>1. e \in 0 .. c
      BY <1>1, <1>3, <1>9
    <2>2. Meet(m.h, u, r.h, r.v, j, 0, c)
      <3>1. c = E - 1
        OBVIOUS
      <3>. HIDE DEF c
      <3>. QED
        BY <1>9, <3>1, SlicedBelow
    <2>. HIDE DEF c
    <2>. QED
      BY <2>1, <2>2 DEF Meet
  <1>10. /\ On(r.h, r.v, j, E) \in DOMAIN r.h =>
              On(r.h, r.v, j, c) = r.h[On(r.h, r.v, j, E)].slot[s]
         /\ On(r.h, r.v, j, E) = Null => On(r.h, r.v, j, c) = Null
    <2>1. Lv(r.v) = L
      OBVIOUS
    <2>2. c \in 0 .. Lv(r.v) - 1
      BY <1>3
    <2>. HIDE DEF s, c
    <2>3. /\ On(r.h, r.v, j, c + 1) = Null => On(r.h, r.v, j, c) = Null
          /\ On(r.h, r.v, j, c + 1) \in DOMAIN r.h =>
               On(r.h, r.v, j, c) = r.h[On(r.h, r.v, j, c + 1)].slot[Blk(j, c + 1) % BP_WIDTH]
      BY <1>1, <1>4, <2>2, PathStep
    <2>. QED
      BY <1>3, <2>3 DEF s
  <1>11. ASSUME NEW u, IsVec(m.h, P, u), Lv(u) = L
         PROVE  /\ On(m.h, u, j, E) \in DOMAIN m.h =>
                     On(m.h, u, j, c) = m.h[On(m.h, u, j, E)].slot[s]
                /\ On(m.h, u, j, E) = Null => On(m.h, u, j, c) = Null
    <2>1. c \in 0 .. Lv(u) - 1
      BY <1>3, <1>11
    <2>. HIDE DEF s, c, L
    <2>3. /\ On(m.h, u, j, c + 1) = Null => On(m.h, u, j, c) = Null
          /\ On(m.h, u, j, c + 1) \in DOMAIN m.h =>
               On(m.h, u, j, c) = m.h[On(m.h, u, j, c + 1)].slot[Blk(j, c + 1) % BP_WIDTH]
      BY <1>1, <1>11, <2>1, PathStep
    <2>. QED
      BY <1>3, <2>3 DEF s
  <1>12. CASE e < E /\ Blk(j, E + 1) # Blk(i, E + 1)
    <2>1. On(r.h, r.v, j, c) = On(m.h, m.v, j, c)
      <3>1. CASE On(m.h, m.v, j, E) = Null
        BY <1>1, <1>7, <1>10, <1>11, <3>1
      <3>2. CASE On(m.h, m.v, j, E) # Null
        <4>1. On(m.h, m.v, j, E) \in DOMAIN m.h /\ P[On(m.h, m.v, j, E)][2] = Blk(j, E + 1)
          BY <1>1, <3>2, OnPlace
        <4>2. On(m.h, m.v, j, E) # t
          BY <1>1, <1>12, <4>1
        <4>. HIDE DEF s, c
        <4>3. On(r.h, r.v, j, c) = r.h[On(m.h, m.v, j, E)].slot[s]
          BY <1>5, <1>7, <1>10, <4>1
        <4>4. On(m.h, m.v, j, c) = m.h[On(m.h, m.v, j, E)].slot[s]
          BY <1>1, <1>11, <4>1
        <4>. QED
          BY <1>5, <4>1, <4>2, <4>3, <4>4
      <3>. QED
        BY <3>1, <3>2
    <2>2. On(r.h, r.v, j, e) = On(m.h, m.v, j, e)
      BY <1>1, <1>9, <1>12, <2>1
    <2>. QED
      BY <1>12, <2>2 DEF Shared
  <1>13. CASE e < E /\ Blk(j, E + 1) = Blk(i, E + 1)
    <2>1. On(m.h, m.v, j, E) = t /\ On(m.h, w, j, E) = n
      <3>1. On(m.h, m.v, i, E) = On(m.h, m.v, j, E)
        BY <1>1, <1>13, OnSame
      <3>2. E \in 0 .. Lv(w)
        BY <1>1
      <3>3. On(m.h, w, i, E) = On(m.h, w, j, E)
        BY <1>1, <1>13, <3>2, OnSame
      <3>. QED
        BY <1>2, <3>1, <3>3
    <2>. HIDE DEF s, c
    <2>2. On(r.h, r.v, j, c) = IF s \in from .. to - 1 THEN m.h[n].slot[s] ELSE m.h[t].slot[s]
      BY <1>1, <1>5, <1>6, <1>7, <1>10, <2>1
    <2>3. On(m.h, m.v, j, c) = m.h[t].slot[s]
      BY <1>1, <1>11, <2>1
    <2>4. On(m.h, w, j, c) = m.h[n].slot[s]
      BY <1>1, <1>11, <2>1
    <2>5. s = Blk(j, E) % BP_WIDTH
      BY <1>3 DEF s
    <2>6. CASE s \in from .. to - 1
      <3>1. On(r.h, r.v, j, e) = On(m.h, w, j, e)
        BY <1>1, <1>9, <1>13, <2>2, <2>4, <2>6
      <3>. QED
        BY <1>13, <2>5, <2>6, <3>1 DEF Shared
    <2>7. CASE s \notin from .. to - 1
      <3>1. On(r.h, r.v, j, e) = On(m.h, m.v, j, e)
        BY <1>1, <1>9, <1>13, <2>2, <2>3, <2>7
      <3>. QED
        BY <1>13, <2>5, <2>7, <3>1 DEF Shared
    <2>. QED
      BY <2>6, <2>7
  <1>. QED
    BY <1>1, <1>3, <1>8, <1>12, <1>13

\* a transient that may take over nodes of w, none of which are its own
Lends(m, P, w, n0, keep) ==
  /\ Fits(m, P) /\ Full(m.h, m.v) /\ m.v.kind = "tr" /\ keep = {m.v.id}
  /\ n0 \in Nat /\ n0 <= Len(m.h)
  /\ Elsewhere(m.h, P, m.v, n0, keep, {w})
  /\ Full(m.h, w) /\ w.sz = m.v.sz

(* The types of both tries.                                                *)
LEMMA LendsFacts ==
  ASSUME NEW m, NEW P, NEW w, NEW n0, NEW keep, Lends(m, P, w, n0, keep)
  PROVE  /\ Fits(m, P) /\ Full(m.h, m.v) /\ m.v.kind = "tr" /\ keep = {m.v.id}
         /\ n0 \in Nat /\ n0 <= Len(m.h) /\ Len(m.h) \in Nat /\ DOMAIN m.h = 1 .. Len(m.h)
         /\ Null \notin DOMAIN m.h
         /\ m.h \in Seq(Node) /\ IsHeap(m.h, P) /\ IsVec(m.h, P, m.v) /\ m.v \in Vector
         /\ IsVec(m.h, P, w) /\ w \in Vector /\ Full(m.h, w) /\ w.sz = m.v.sz /\ m.v.sz \in Nat
         /\ Lv(w) = Lv(m.v) /\ Room(w) = Room(m.v) /\ Lv(m.v) \in Nat /\ Room(m.v) \subseteq Nat
         /\ 0 \in 0 .. Lv(m.v)
         /\ \A n \in Nodes(m.h, w) : n \in DOMAIN m.h /\ ~Mine(m.h, n, n0, keep)
         /\ \A j \in 0 .. m.v.sz - 1 : /\ j \in Room(m.v)
                                       /\ On(m.h, m.v, j, 0) # Null /\ On(m.h, w, j, 0) # Null
  <1>1. /\ Fits(m, P) /\ Full(m.h, m.v) /\ m.v.kind = "tr" /\ keep = {m.v.id}
        /\ n0 \in Nat /\ n0 <= Len(m.h) /\ Full(m.h, w) /\ w.sz = m.v.sz
        /\ Elsewhere(m.h, P, m.v, n0, keep, {w})
    BY DEF Lends
  <1>2. /\ IsVec(m.h, P, w) /\ Lv(w) = Lv(m.v) /\ \A n \in Nodes(m.h, w) : ~Mine(m.h, n, n0, keep)
    BY <1>1 DEF Elsewhere
  <1>3. /\ m.h \in Seq(Node) /\ IsHeap(m.h, P) /\ IsVec(m.h, P, m.v) /\ m.v \in Vector
        /\ Lv(m.v) \in Nat /\ Len(m.h) \in Nat /\ DOMAIN m.h = 1 .. Len(m.h)
        /\ Null \notin DOMAIN m.h /\ Room(m.v) \subseteq Nat
    BY <1>1, FitsFacts
  <1>4. Nodes(m.h, w) \subseteq DOMAIN m.h
    BY <1>2, <1>3, NodesIn
  <1>5. w \in Vector /\ Room(w) = Room(m.v)
    BY <1>2 DEF IsVec, Room
  <1>6. /\ m.v.sz \in Nat /\ 0 \in 0 .. Lv(m.v)
        /\ \A j \in 0 .. m.v.sz - 1 : j \in Room(m.v) /\ On(m.h, m.v, j, 0) # Null
    BY <1>1, FullFacts
  <1>7. \A j \in 0 .. m.v.sz - 1 : On(m.h, w, j, 0) # Null
    BY <1>1 DEF Full
  <1>. QED
    BY <1>1, <1>2, <1>3, <1>4, <1>5, <1>6, <1>7

\* w is as it was
Unchanging(m, r, w) ==
  /\ SamePaths(m.h, w, r.h, w) /\ Nodes(r.h, w) = Nodes(m.h, w)
  /\ \A n \in Nodes(m.h, w) : r.h[n] = m.h[n]
  /\ \A j \in 0 .. w.sz - 1 : Cell(r.h, w, j) = Cell(m.h, w, j)

(* The one lent from keeps its trie and elements.                          *)
LEMMA LendsSame ==
  ASSUME NEW m, NEW P, NEW w, NEW n0, NEW keep, Lends(m, P, w, n0, keep), NEW r, NEW P2,
         Edits(m, P, r, P2, n0, keep, {w})
  PROVE  Unchanging(m, r, w)
  <1>1. /\ Fits(m, P) /\ IsHeap(m.h, P) /\ IsVec(m.h, P, w) /\ 0 \in 0 .. Lv(w)
        /\ \A n \in Nodes(m.h, w) : n \in DOMAIN m.h /\ ~Mine(m.h, n, n0, keep)
        /\ \A j \in 0 .. w.sz - 1 : j \in Room(w) /\ On(m.h, w, j, 0) # Null
    BY LendsFacts
  <1>2. r.h \in Seq(Node) /\ Len(m.h) <= Len(r.h)
    BY <1>1, EditsFacts
  <1>3. ASSUME NEW n \in Nodes(m.h, w)
        PROVE  r.h[n] = m.h[n]
    BY <1>1 DEF Edits
  <1>4. SamePaths(m.h, w, r.h, w)
    BY <1>1, <1>2, <1>3, Untouched
  <1>5. Nodes(r.h, w) = Nodes(m.h, w)
    BY <1>4 DEF Nodes, SamePaths
  <1>6. ASSUME NEW j \in 0 .. w.sz - 1
        PROVE  Cell(r.h, w, j) = Cell(m.h, w, j)
    <2>1. On(m.h, w, j, 0) \in Nodes(m.h, w)
      BY <1>1 DEF Nodes
    <2>2. On(r.h, w, j, 0) = On(m.h, w, j, 0)
      BY <1>1, <1>4 DEF SamePaths
    <2>. QED
      BY <1>3, <2>1, <2>2 DEF Cell
  <1>. QED
    BY <1>3, <1>4, <1>5, <1>6 DEF Unchanging

(* After an edit it may go on taking over nodes. *)
LEMMA LendsNext ==
  ASSUME NEW m, NEW P, NEW w, NEW n0, NEW keep, Lends(m, P, w, n0, keep), NEW r, NEW P2,
         Edits(m, P, r, P2, n0, keep, {w})
  PROVE  Lends(r, P2, w, n0, keep)
  <1>1. /\ Fits(m, P) /\ IsHeap(m.h, P) /\ IsVec(m.h, P, w) /\ 0 \in 0 .. Lv(m.v) /\ w \in Vector
        /\ keep = {m.v.id} /\ m.v.kind = "tr" /\ n0 \in Nat /\ n0 <= Len(m.h)
        /\ w.sz = m.v.sz /\ Lv(w) = Lv(m.v) /\ m.v.sz \in Nat
        /\ Full(m.h, w) /\ Full(m.h, m.v)
        /\ \A n \in Nodes(m.h, w) : n \in DOMAIN m.h /\ ~Mine(m.h, n, n0, keep)
        /\ \A j \in 0 .. m.v.sz - 1 : /\ j \in Room(m.v)
                                      /\ On(m.h, m.v, j, 0) # Null /\ On(m.h, w, j, 0) # Null
    BY LendsFacts
  <1>2. /\ Fits(r, P2) /\ Len(m.h) \in Nat /\ Len(r.h) \in Nat /\ Len(m.h) <= Len(r.h)
        /\ r.v.sz = m.v.sz /\ Lv(r.v) = Lv(m.v) /\ r.v.id = m.v.id /\ r.v.kind = m.v.kind
        /\ DOMAIN m.h = 1 .. Len(m.h) /\ DOMAIN r.h = 1 .. Len(r.h)
    BY <1>1, EditsFacts
  <1>3. /\ \A n \in DOMAIN m.h : P2[n] = P[n] /\ r.h[n].id = m.h[n].id
    BY DEF Edits
  <1>4. Unchanging(m, r, w)
    BY LendsSame
  <1>5. ASSUME NEW j \in 0 .. m.v.sz - 1
        PROVE  On(r.h, r.v, j, 0) # Null
    <2>1. \/ On(r.h, r.v, j, 0) = On(m.h, m.v, j, 0)
          \/ On(r.h, r.v, j, 0) > Len(m.h)
          \/ On(r.h, r.v, j, 0) = On(m.h, w, j, 0)
      BY <1>1 DEF Edits
    <2>2. CASE On(r.h, r.v, j, 0) > Len(m.h)
      BY <1>2, <2>2 DEF Null
    <2>. QED
      BY <1>1, <2>1, <2>2
  <1>6. Full(r.h, r.v)
    BY <1>1, <1>2, <1>5 DEF Full
  <1>7. \A j \in 0 .. w.sz - 1 : On(r.h, w, j, 0) = On(m.h, w, j, 0)
    <2>1. \A j \in 0 .. w.sz - 1 : j \in Room(w) /\ 0 \in 0 .. Lv(w)
      BY <1>1 DEF Room
    <2>. QED
      BY <1>4, <2>1 DEF Unchanging, SamePaths
  <1>8. Full(r.h, w)
    BY <1>1, <1>7 DEF Full
  <1>9. IsVec(r.h, P2, w)
    <2>1. w.root \in DOMAIN m.h /\ P[w.root] = <<Lv(w), 0>>
      BY <1>1 DEF IsVec
    <2>2. w.root \in DOMAIN r.h /\ P2[w.root] = <<Lv(w), 0>>
      BY <1>2, <1>3, <2>1
    <2>. QED
      BY <1>1, <2>2 DEF IsVec
  <1>10. ASSUME NEW n \in Nodes(r.h, w)
         PROVE  ~Mine(r.h, n, n0, keep)
    <2>1. n \in Nodes(m.h, w)
      BY <1>4 DEF Unchanging
    <2>2. r.h[n].id = m.h[n].id
      BY <1>1, <1>3, <2>1
    <2>. QED
      BY <1>1, <2>1, <2>2 DEF Mine
  <1>11. Elsewhere(r.h, P2, r.v, n0, keep, {w})
    BY <1>1, <1>2, <1>9, <1>10 DEF Elsewhere
  <1>12. n0 <= Len(r.h)
    BY <1>1, <1>2
  <1>. QED
    BY <1>1, <1>2, <1>6, <1>8, <1>11, <1>12 DEF Lends

-----------------------------------------------------------------------------
\* the code has not left the defined behaviour
Defined(m) == m.ub = FALSE

\* the elements in S were taken over from w, if the range is sure to be in reach
Spliced(m, P, r, P2, w, n0, keep, S, sure) ==
  /\ Edits(m, P, r, P2, n0, keep, {w})
  /\ sure /\ Defined(m) =>
       /\ Defined(r)
       /\ \A j \in 0 .. m.v.sz - 1 :
            Cell(r.h, r.v, j) = IF j \in S THEN Cell(m.h, w, j) ELSE Cell(m.h, m.v, j)

(* Taking over no element.                                                 *)
LEMMA SplicedRefl ==
  ASSUME NEW m, NEW P, NEW w, NEW n0, NEW keep, Lends(m, P, w, n0, keep), NEW sure
  PROVE  Spliced(m, P, m, P, w, n0, keep, {}, sure)
  <1>1. Fits(m, P)
    BY LendsFacts
  <1>2. Edits(m, P, m, P, n0, keep, {w})
    BY <1>1, EditsRefl
  <1>. QED
    BY <1>2 DEF Spliced

(* Taking over some elements and then others.                              *)
LEMMA SplicedTrans ==
  ASSUME NEW m, NEW P, NEW w, NEW n0, NEW keep, Lends(m, P, w, n0, keep),
         NEW c, NEW P1, NEW r, NEW P2, NEW S, NEW S2, NEW sure,
         Spliced(m, P, c, P1, w, n0, keep, S, sure), Spliced(c, P1, r, P2, w, n0, keep, S2, sure)
  PROVE  Spliced(m, P, r, P2, w, n0, keep, S \cup S2, sure)
  <1>1. Edits(m, P, c, P1, n0, keep, {w}) /\ Edits(c, P1, r, P2, n0, keep, {w})
    BY DEF Spliced
  <1>2. Fits(m, P) /\ Elsewhere(m.h, P, m.v, n0, keep, {w}) /\ w.sz = m.v.sz
    BY DEF Lends
  <1>3. Edits(m, P, r, P2, n0, keep, {w})
    BY <1>1, <1>2, EditsTrans
  <1>4. c.v.sz = m.v.sz
    BY <1>1, <1>2, EditsFacts
  <1>5. \A j \in 0 .. m.v.sz - 1 : Cell(c.h, w, j) = Cell(m.h, w, j)
    <2>1. Unchanging(m, c, w)
      BY <1>1, LendsSame
    <2>. QED
      BY <1>2, <2>1 DEF Unchanging
  <1>6. ASSUME sure, Defined(m)
        PROVE  /\ Defined(r)
               /\ \A j \in 0 .. m.v.sz - 1 :
                    Cell(r.h, r.v, j) = IF j \in S \cup S2 THEN Cell(m.h, w, j)
                                        ELSE Cell(m.h, m.v, j)
    <2>1. /\ Defined(c)
          /\ \A j \in 0 .. m.v.sz - 1 :
               Cell(c.h, c.v, j) = IF j \in S THEN Cell(m.h, w, j) ELSE Cell(m.h, m.v, j)
      BY <1>6 DEF Spliced
    <2>2. /\ Defined(r)
          /\ \A j \in 0 .. c.v.sz - 1 :
               Cell(r.h, r.v, j) = IF j \in S2 THEN Cell(c.h, w, j) ELSE Cell(c.h, c.v, j)
      BY <1>6, <2>1 DEF Spliced
    <2>3. ASSUME NEW j \in 0 .. m.v.sz - 1
          PROVE  Cell(r.h, r.v, j) = IF j \in S \cup S2 THEN Cell(m.h, w, j)
                                     ELSE Cell(m.h, m.v, j)
      <3>1. Cell(c.h, c.v, j) = IF j \in S THEN Cell(m.h, w, j) ELSE Cell(m.h, m.v, j)
        BY <2>1
      <3>2. Cell(r.h, r.v, j) = IF j \in S2 THEN Cell(c.h, w, j) ELSE Cell(c.h, c.v, j)
        BY <1>4, <2>2
      <3>3. Cell(c.h, w, j) = Cell(m.h, w, j)
        BY <1>5
      <3>. QED
        BY <3>1, <3>2, <3>3
    <2>. QED
      BY <2>2, <2>3
  <1>. QED
    BY <1>3, <1>6 DEF Spliced

(* The elements of a range, one after the other. *)
LEMMA ElementsIs ==
  ASSUME NEW m, NEW P, NEW w, NEW n0, NEW keep, Lends(m, P, w, n0, keep),
         NEW b \in Nat, b <= m.v.sz, NEW a \in Nat, a <= b, NEW sure
  PROVE  \E P2 : Spliced(m, P, CopyElements(m, w, a, b), P2, w, n0, keep, a .. b - 1, sure)
  <1>. DEFINE x == [m EXCEPT !.v = w]
              xs == [i \in Nat |-> Read(x, i)]
              r == Each(m, a, b, xs)
  <1>1. /\ Fits(m, P) /\ Full(m.h, m.v) /\ m.v.kind = "tr" /\ keep = {m.v.id}
        /\ n0 \in Nat /\ n0 <= Len(m.h) /\ w.sz = m.v.sz /\ m.v.sz \in Nat
        /\ IsHeap(m.h, P) /\ IsVec(m.h, P, w) /\ w \in Vector /\ Full(m.h, w) /\ 0 \in 0 .. Lv(w)
    BY LendsFacts
  <1>2. keep = iter_keep(m.v)
    BY <1>1 DEF iter_keep
  <1>3. x.h = m.h /\ x.v = w
    <2>1. m \in Record
      BY <1>1 DEF Fits
    <2>. QED
      BY <2>1 DEF Record
  <1>4. \A i \in Nat : xs[i] = Cell(m.h, w, i)
    <2>. HIDE DEF x
    <2>1. \A i \in Nat : Read(x, i) = Cell(m.h, w, i)
      BY <1>1, <1>3, ReadIs
    <2>. QED
      BY <2>1
  <1>5. ASSUME NEW j \in a .. b - 1
        PROVE  xs[j] \in Int
    <2>1. j \in 0 .. w.sz - 1 /\ j \in Nat
      BY <1>1
    <2>2. On(m.h, w, j, 0) \in DOMAIN m.h
      BY <1>1, <2>1, FullPath
    <2>3. j % BP_WIDTH \in Slot
      BY <2>1, Blocks
    <2>4. m.h[On(m.h, w, j, 0)] \in Node
      BY <1>1, <2>2 DEF IsHeap
    <2>5. Cell(m.h, w, j) \in Int
      BY <2>3, <2>4 DEF Cell, Node
    <2>. QED
      BY <1>4, <2>1, <2>5
  <1>6. CASE m.ub
    <2>1. CopyElements(m, w, a, b) = m
      BY <1>6 DEF CopyElements
    <2>2. Edits(m, P, m, P, n0, keep, {w})
      BY <1>1, EditsRefl
    <2>3. ~Defined(m)
      BY <1>6 DEF Defined
    <2>4. Spliced(m, P, m, P, w, n0, keep, a .. b - 1, sure)
      BY <2>2, <2>3 DEF Spliced
    <2>. QED
      BY <2>1, <2>4
  <1>7. CASE ~m.ub
    <2>1. CopyElements(m, w, a, b) = r
      BY <1>7 DEF CopyElements
    <2>. HIDE DEF xs
    <2>2. PICK P2 : Filled(m, P, r, P2, a .. b - 1, xs, n0, keep)
      BY <1>1, <1>2, <1>5, EachIs
    <2>. HIDE DEF r
    <2>3. /\ Edits(m, P, r, P2, n0, keep, {})
          /\ \A j \in 0 .. m.v.sz - 1 :
               Cell(r.h, r.v, j) = IF j \in a .. b - 1 THEN xs[j] ELSE Cell(m.h, m.v, j)
      BY <2>2 DEF Filled
    <2>4. Edits(m, P, r, P2, n0, keep, {w})
      BY <2>3, EditsWiden
    <2>5. ASSUME NEW j \in 0 .. m.v.sz - 1
          PROVE  Cell(r.h, r.v, j) = IF j \in a .. b - 1 THEN Cell(m.h, w, j)
                                     ELSE Cell(m.h, m.v, j)
      <3>1. xs[j] = Cell(m.h, w, j)
        BY <1>1, <1>4
      <3>. QED
        BY <2>3, <3>1
    <2>6. Defined(m) => Defined(r)
      BY <1>1, <2>2, FilledFacts DEF Defined
    <2>7. Spliced(m, P, r, P2, w, n0, keep, a .. b - 1, sure)
      BY <2>4, <2>5, <2>6 DEF Spliced
    <2>. QED
      BY <2>1, <2>7
  <1>. QED
    BY <1>6, <1>7

\* the elements under the slots from..to-1 of the node of height E over i
Under(i, E, from, to, x) ==
  Blk(x, E + 1) = Blk(i, E + 1) /\ Blk(x, E) % BP_WIDTH \in from .. to - 1

(* Copying the slots of one node. *)
LEMMA SlotsIs ==
  ASSUME NEW m, NEW P, NEW w, NEW n0, NEW keep, Lends(m, P, w, n0, keep),
         NEW i, NEW E, NEW t, NEW n, Facing(m, P, w, i, E, t, n), Mine(m.h, t, n0, keep),
         NEW from, NEW to, NEW d, d = Lv(m.v) - E, NEW r, r = CopySlots(m, n, i, d, from, to),
         NEW S, S = {x \in 0 .. m.v.sz - 1 : Under(i, E, from, to, x)}, NEW sure
  PROVE  Spliced(m, P, r, P, w, n0, keep, S, sure)
  <1>1. /\ m.h \in Seq(Node) /\ t \in DOMAIN m.h /\ n \in DOMAIN m.h /\ m \in Record
        /\ m.v \in Vector /\ m.ub \in BOOLEAN /\ E \in Nat /\ E # 0 /\ E \in 0 .. Lv(m.v)
        /\ P[t][1] = E /\ IsHeap(m.h, P) /\ IsVec(m.h, P, m.v) /\ IsVec(m.h, P, w)
        /\ Lv(w) = Lv(m.v) /\ Null \notin DOMAIN m.h
    BY FacingFacts
  <1>2. t = On(m.h, m.v, i, E) /\ i \in Room(m.v) /\ t # Null
    BY DEF Facing
  <1>3. t = Walk(m.h, m.v, i, d)
    BY <1>2 DEF On
  <1>. DEFINE h2 == [m.h EXCEPT ![t].slot =
                      [k \in Slot |-> IF k \in from .. (to - 1) THEN m.h[n].slot[k] ELSE @[k]]]
  <1>4. r = [m EXCEPT !.h = h2]
    <2>1. r = [m EXCEPT !.h[Walk(m.h, m.v, i, d)].slot =
                 [k \in Slot |-> IF k \in from..(to - 1) THEN m.h[n].slot[k] ELSE @[k]]]
      BY DEF CopySlots
    <2>2. r = [m EXCEPT !.h[t].slot =
                 [k \in Slot |-> IF k \in from..(to - 1) THEN m.h[n].slot[k] ELSE @[k]]]
      BY <1>3, <2>1
    <2>. QED
      BY <2>2
  <1>5. Slicing(m.h, h2, t, n, from, to)
    BY DEF Slicing
  <1>. HIDE DEF h2
  <1>6. Sliced(m.h, h2, t, n, from, to)
    BY <1>1, <1>5, SlicedIs
  <1>7. h2 \in Seq(Node)
    BY <1>6 DEF Sliced
  <1>8. r \in Record /\ r.v = m.v /\ r.ub = m.ub /\ r.h = h2
    BY <1>1, <1>4, <1>7 DEF Record
  <1>9. Sliced(m.h, r.h, t, n, from, to)
    BY <1>6, <1>8
  <1>. HIDE DEF CopySlots
  <1>10. /\ DOMAIN r.h = DOMAIN m.h /\ Len(r.h) = Len(m.h)
         /\ \A y \in DOMAIN m.h \ {t} : r.h[y] = m.h[y]
         /\ r.h[t].id = m.h[t].id
    BY <1>9 DEF Sliced
  <1>11. Fits(r, P)
    BY <1>8, <1>9, SlicedFits
  <1>12. \A j \in Room(m.v), e \in 0 .. Lv(m.v) : Shared(m, r, w, i, E, from, to, j, e)
    BY <1>8, <1>9, SlicedPaths
  <1>13. t \in Nodes(m.h, m.v)
    BY <1>1, <1>2 DEF Nodes
  <1>14. Edits(m, P, r, P, n0, keep, {w})
    <2>1. r.v = [m.v EXCEPT !.root = r.v.root]
      BY <1>1, <1>8 DEF Vector
    <2>2. \A y \in DOMAIN m.h : r.h[y].id = m.h[y].id
      BY <1>10
    <2>3. \A y \in DOMAIN m.h : r.h[y] # m.h[y] => y = t
      BY <1>10
    <2>4. \A y \in Len(m.h) + 1 .. Len(r.h) : r.h[y].id = m.v.id
      <3>1. Len(m.h) \in Nat
        BY <1>1
      <3>. QED
        BY <1>10, <3>1
    <2>5. \A j \in Room(m.v), e \in 0 .. Lv(m.v) :
            \/ On(r.h, r.v, j, e) = On(m.h, m.v, j, e)
            \/ \E u \in {w} : On(r.h, r.v, j, e) = On(m.h, u, j, e)
      BY <1>12 DEF Shared
    <2>6. Len(m.h) <= Len(r.h)
      <3>1. Len(m.h) \in Nat
        BY <1>1
      <3>. QED
        BY <1>10, <3>1
    <2>. QED
      BY <1>11, <1>13, <2>1, <2>2, <2>3, <2>4, <2>5, <2>6 DEF Edits
  <1>15. ASSUME NEW j \in 0 .. m.v.sz - 1
         PROVE  Cell(r.h, r.v, j) = IF j \in S THEN Cell(m.h, w, j) ELSE Cell(m.h, m.v, j)
    <2>1. /\ j \in Room(m.v) /\ j \in Room(w) /\ 0 \in 0 .. Lv(m.v) /\ 0 \in 0 .. Lv(w)
          /\ On(m.h, m.v, j, 0) # Null /\ On(m.h, w, j, 0) # Null
      BY LendsFacts
    <2>2. On(r.h, r.v, j, 0) = IF j \in S THEN On(m.h, w, j, 0) ELSE On(m.h, m.v, j, 0)
      <3>1. Shared(m, r, w, i, E, from, to, j, 0)
        BY <1>12, <2>1
      <3>2. 0 < E
        BY <1>1
      <3>3. j \in S <=> Blk(j, E + 1) = Blk(i, E + 1) /\ Blk(j, E) % BP_WIDTH \in from .. to - 1
        BY DEF Under
      <3>. QED
        BY <3>1, <3>2, <3>3 DEF Shared
    <2>3. P[On(m.h, m.v, j, 0)][1] = 0 /\ On(m.h, m.v, j, 0) \in DOMAIN m.h
      BY <1>1, <2>1, OnPlace
    <2>4. P[On(m.h, w, j, 0)][1] = 0 /\ On(m.h, w, j, 0) \in DOMAIN m.h
      BY <1>1, <2>1, OnPlace
    <2>5. r.h[On(m.h, m.v, j, 0)] = m.h[On(m.h, m.v, j, 0)]
      BY <1>1, <1>10, <2>3
    <2>6. r.h[On(m.h, w, j, 0)] = m.h[On(m.h, w, j, 0)]
      BY <1>1, <1>10, <2>4
    <2>7. CASE j \in S
      BY <2>2, <2>6, <2>7 DEF Cell
    <2>8. CASE j \notin S
      BY <2>2, <2>5, <2>8 DEF Cell
    <2>. QED
      BY <2>7, <2>8
  <1>16. Defined(m) => Defined(r)
    BY <1>8 DEF Defined
  <1>. QED
    BY <1>14, <1>15, <1>16 DEF Spliced

\* get_branch finds the node over i, and nothing that is no branches
Branch(h, P, v, i, E, n) ==
  /\ n # Null => E <= Lv(v) /\ n = On(h, v, i, E)
  /\ E <= Lv(v) /\ On(h, v, i, E) # Null => n = On(h, v, i, E)

(* get_branch finds the branches of that height.                           *)
LEMMA BranchIs ==
  ASSUME NEW m, NEW P, IsHeap(m.h, P), IsVec(m.h, P, m.v), NEW i \in Room(m.v),
         NEW E \in 1 .. Lv(m.v) + 1, NEW d, d = Lv(m.v) + 1 - E, NEW n, n = get_branch(m, d, i)
  PROVE  Branch(m.h, P, m.v, i, E, n)
  <1>1. m.v \in Vector /\ Lv(m.v) \in Nat
    BY Levels DEF IsVec
  <1>2. CASE E = Lv(m.v) + 1
    <2>1. d = 0 /\ ~(E <= Lv(m.v))
      BY <1>1, <1>2
    <2>2. n = Null
      BY <2>1 DEF get_branch
    <2>. QED
      BY <2>1, <2>2 DEF Branch
  <1>3. CASE E <= Lv(m.v)
    <2>. DEFINE y == On(m.h, m.v, i, E)
    <2>1. d # 0 /\ d - 1 = Lv(m.v) - E /\ E \in 0 .. Lv(m.v) /\ E # 0
      BY <1>1, <1>3
    <2>2. y = Walk(m.h, m.v, i, d - 1)
      BY <2>1 DEF On
    <2>3. n = IF y # Null /\ m.h[y].type = "branches" THEN y ELSE Null
      BY <2>1, <2>2 DEF get_branch
    <2>4. ASSUME y # Null
          PROVE  m.h[y].type = "branches"
      <3>1. y \in DOMAIN m.h /\ P[y][1] = E
        BY <2>1, <2>4, OnPlace
      <3>. HIDE DEF y
      <3>. QED
        BY <2>1, <3>1 DEF IsHeap
    <2>. QED
      BY <1>3, <2>3, <2>4 DEF Branch
  <1>. QED
    BY <1>1, <1>2, <1>3

\* what is copied is there in both vectors
InReach(m, w, i, j, E, from, to) ==
  /\ E <= Lv(m.v)
  /\ On(m.h, m.v, i, E) # Null /\ On(m.h, w, i, E) # Null
  /\ j \in Room(m.v) /\ On(m.h, w, j, E) = On(m.h, w, i, E)
  /\ from <= to

(* Leaving the defined behaviour writes nothing.                           *)
LEMMA EditsUb ==
  ASSUME NEW m, NEW P, Fits(m, P), NEW r, r = [m EXCEPT !.ub = TRUE], NEW n0, NEW keep, NEW w
  PROVE  Edits(m, P, r, P, n0, keep, {w})
  <1>1. m \in Record /\ IsHeap(m.h, P) /\ IsVec(m.h, P, m.v) /\ m.v \in Vector /\ Len(m.h) \in Nat
    BY FitsFacts
  <1>2. r \in Record /\ r.h = m.h /\ r.v = m.v
    BY <1>1 DEF Record
  <1>3. Fits(r, P)
    BY <1>1, <1>2 DEF Fits
  <1>4. Edits(m, P, m, P, n0, keep, {w})
    BY EditsRefl
  <1>5. /\ m.v = [m.v EXCEPT !.root = m.v.root] /\ Len(m.h) <= Len(m.h)
        /\ \A n \in Len(m.h) + 1 .. Len(m.h) : m.h[n].id = m.v.id
    BY <1>4 DEF Edits
  <1>6. {w} # {}
    OBVIOUS
  <1>. QED
    BY <1>2, <1>3, <1>5, <1>6, Zenon DEF Edits

(* Copying branches, or leaving the defined behaviour. *)
LEMMA BranchesIs ==
  ASSUME NEW m, NEW P, NEW w, NEW n0, NEW keep, Lends(m, P, w, n0, keep),
         NEW i \in Room(m.v), NEW j, NEW E \in 1 .. Lv(m.v) + 1, NEW d, d = Lv(m.v) + 1 - E,
         NEW from \in Int, NEW to \in Int, NEW S, S = {x \in 0 .. m.v.sz - 1 : Under(i, E, from, to, x)},
         NEW sure, sure => InReach(m, w, i, j, E, from, to)
  PROVE  \E P2 : Spliced(m, P, CopyBranches(m, w, d, i, j, from, to), P2, w, n0, keep, S, sure)
  <1>. DEFINE x == [m EXCEPT !.v = w]
              n == get_branch(x, d, i)
              n2 == get_branch(x, d, j)
              b == get_branch(m, d, i)
              r == CopyBranches(m, w, d, i, j, from, to)
              o == Own(m, i, d - 1, keep)
  <1>1. /\ Fits(m, P) /\ Full(m.h, m.v) /\ m.v.kind = "tr" /\ keep = {m.v.id}
        /\ n0 \in Nat /\ n0 <= Len(m.h) /\ m.v \in Vector /\ Lv(m.v) \in Nat
        /\ IsHeap(m.h, P) /\ IsVec(m.h, P, m.v) /\ IsVec(m.h, P, w) /\ w \in Vector
        /\ Lv(w) = Lv(m.v) /\ Room(w) = Room(m.v) /\ Null \notin DOMAIN m.h
        /\ w.sz = m.v.sz /\ m.v.sz \in Nat
    BY LendsFacts
  <1>2. keep = node_keep(m.v)
    BY <1>1 DEF node_keep
  <1>3. x.h = m.h /\ x.v = w
    <2>1. m \in Record
      BY <1>1 DEF Fits
    <2>. QED
      BY <2>1 DEF Record
  <1>4. r = IF \/ m.ub \/ n = Null \/ from > to
               \/ n2 # n
               \/ b = Null
            THEN [m EXCEPT !.ub = TRUE]
            ELSE CopySlots(o, n, i, d - 1, from, to)
    BY <1>2 DEF CopyBranches
  <1>. HIDE DEF x
  <1>5. Branch(m.h, P, m.v, i, E, b)
    BY <1>1, BranchIs
  <1>6. Branch(m.h, P, w, i, E, n)
    <2>1. E \in 1 .. Lv(x.v) + 1 /\ d = Lv(x.v) + 1 - E /\ i \in Room(x.v)
          /\ IsHeap(x.h, P) /\ IsVec(x.h, P, x.v)
      BY <1>1, <1>3
    <2>. HIDE DEF n
    <2>2. n = get_branch(x, d, i)
      BY DEF n
    <2>3. Branch(x.h, P, x.v, i, E, n)
      BY <2>1, <2>2, BranchIs
    <2>. QED
      BY <1>3, <2>3
  <1>7. ASSUME j \in Room(m.v)
        PROVE  Branch(m.h, P, w, j, E, n2)
    <2>1. E \in 1 .. Lv(x.v) + 1 /\ d = Lv(x.v) + 1 - E /\ j \in Room(x.v)
          /\ IsHeap(x.h, P) /\ IsVec(x.h, P, x.v)
      BY <1>1, <1>3, <1>7
    <2>. HIDE DEF n2
    <2>2. n2 = get_branch(x, d, j)
      BY DEF n2
    <2>3. Branch(x.h, P, x.v, j, E, n2)
      BY <2>1, <2>2, BranchIs
    <2>. QED
      BY <1>3, <2>3
  <1>. HIDE DEF n, n2, b, r, o
  <1>8. CASE m.ub \/ n = Null \/ from > to \/ n2 # n \/ b = Null
    <2>1. r = [m EXCEPT !.ub = TRUE]
      BY <1>4, <1>8
    <2>2. Edits(m, P, r, P, n0, keep, {w})
      BY <1>1, <2>1, EditsUb
    <2>3. ASSUME sure, Defined(m)
          PROVE  FALSE
      <3>1. /\ E <= Lv(m.v) /\ On(m.h, m.v, i, E) # Null /\ On(m.h, w, i, E) # Null
            /\ j \in Room(m.v) /\ On(m.h, w, j, E) = On(m.h, w, i, E) /\ from <= to
        BY <2>3 DEF InReach
      <3>2. ~m.ub
        BY <2>3 DEF Defined
      <3>3. b # Null
        BY <1>5, <3>1 DEF Branch
      <3>4. n # Null /\ n = On(m.h, w, i, E)
        BY <1>1, <1>6, <3>1 DEF Branch
      <3>5. n2 = n
        BY <1>1, <1>7, <3>1, <3>4 DEF Branch
      <3>6. from > to
        BY <1>8, <3>2, <3>3, <3>4, <3>5
      <3>. QED
        BY <2>3, <3>1, <3>6 DEF InReach
    <2>4. Spliced(m, P, r, P, w, n0, keep, S, sure)
      BY <2>2, <2>3 DEF Spliced
    <2>. QED
      BY <2>4 DEF r
  <1>9. CASE ~(m.ub \/ n = Null \/ from > to \/ n2 # n \/ b = Null)
    <2>1. r = CopySlots(o, n, i, d - 1, from, to)
      BY <1>4, <1>9
    <2>2. /\ n # Null /\ n = On(m.h, w, i, E) /\ E <= Lv(m.v)
          /\ b # Null /\ b = On(m.h, m.v, i, E)
      BY <1>1, <1>5, <1>6, <1>9 DEF Branch
    <2>3. /\ E \in 0 .. Lv(m.v) /\ E \in 1 .. Lv(m.v) /\ d - 1 = Lv(m.v) - E
          /\ On(m.h, m.v, i, E) # Null /\ E >= E
      BY <1>1, <2>2
    <2>4. Owned(m, P, o, i, E, n0, keep)
      <3>. DEFINE c == d - 1
      <3>1. c = Lv(m.v) - E
        BY <2>3
      <3>2. o = Own(m, i, c, keep)
        BY DEF o
      <3>. HIDE DEF c
      <3>. QED
        BY <1>1, <2>3, <3>1, <3>2, OwnIs
    <2>5. PICK P1 : Edits(m, P, o, P1, n0, keep, {})
      BY <2>4 DEF Owned
    <2>6. /\ SameCells(m, o) /\ Mine(o.h, On(o.h, o.v, i, E), n0, keep)
      BY <2>3, <2>4 DEF Owned
    <2>7. Edits(m, P, o, P1, n0, keep, {w})
      BY <2>5, EditsWiden
    <2>8. /\ Fits(o, P1) /\ Lv(o.v) = Lv(m.v) /\ Room(o.v) = Room(m.v) /\ o.v.sz = m.v.sz
      BY <1>1, <2>5, EditsFacts
    <2>9. Lends(o, P1, w, n0, keep)
      BY <2>7, LendsNext
    <2>10. Spliced(m, P, o, P1, w, n0, keep, {}, sure)
      <3>1. Defined(m) => Defined(o)
        BY <2>5 DEF Edits, Defined
      <3>2. ASSUME NEW k \in 0 .. m.v.sz - 1
            PROVE  Cell(o.h, o.v, k) = Cell(m.h, m.v, k)
        <4>1. k \in Room(m.v) /\ On(m.h, m.v, k, 0) # Null
          BY LendsFacts
        <4>. QED
          BY <2>6, <4>1 DEF SameCells
      <3>. QED
        BY <2>7, <3>1, <3>2 DEF Spliced
    <2>. DEFINE t == On(o.h, o.v, i, E)
    <2>11. n = On(o.h, w, i, E)
      <3>1. Unchanging(m, o, w)
        BY <2>7, LendsSame
      <3>2. E \in 0 .. Lv(w) /\ i \in Room(w)
        BY <1>1, <2>3
      <3>. QED
        BY <2>2, <3>1, <3>2 DEF Unchanging, SamePaths
    <2>12. t # Null
      BY <1>1, <2>3, <2>5, EditsKeep
    <2>13. t # n
      <3>1. E \in 0 .. Lv(w) /\ i \in Room(w)
        BY <1>1, <2>3
      <3>2. n \in Nodes(o.h, w)
        BY <2>2, <2>11, <3>1 DEF Nodes
      <3>3. ~Mine(o.h, n, n0, keep)
        BY <2>9, <3>2, LendsFacts
      <3>. QED
        BY <2>6, <3>3
    <2>14. IsVec(o.h, P1, w)
      BY <2>9, LendsFacts
    <2>15. Facing(o, P1, w, i, E, t, n)
      BY <1>1, <2>2, <2>3, <2>8, <2>11, <2>12, <2>13, <2>14 DEF Facing
    <2>16. Mine(o.h, t, n0, keep)
      BY <2>6
    <2>. HIDE DEF t
    <2>17. Spliced(o, P1, r, P1, w, n0, keep, S, sure)
      <3>. DEFINE c == d - 1
      <3>1. c = Lv(o.v) - E
        BY <2>3, <2>8
      <3>2. r = CopySlots(o, n, i, c, from, to)
        BY <2>1
      <3>3. S = {y \in 0 .. o.v.sz - 1 : Under(i, E, from, to, y)}
        BY <2>8
      <3>. HIDE DEF c
      <3>. QED
        BY <2>9, <2>15, <2>16, <3>1, <3>2, <3>3, SlotsIs
    <2>18. Spliced(m, P, r, P1, w, n0, keep, {} \cup S, sure)
      BY <2>10, <2>17, SplicedTrans
    <2>19. {} \cup S = S
      OBVIOUS
    <2>20. Spliced(m, P, r, P1, w, n0, keep, S, sure)
      BY <2>18, <2>19
    <2>. QED
      BY <2>20 DEF r
  <1>. QED
    BY <1>8, <1>9

-----------------------------------------------------------------------------
(* assign: the ranges of its phases. *)

\* p is the first element of block c
Begins(p, E, c) ==
  /\ p \in Nat /\ Blk(p, E) = c
  /\ \A x \in Nat : x < p <=> Blk(x, E) < c
  /\ \A x \in Nat : p <= x <=> c <= Blk(x, E)

(* A multiple of the width begins its block. *)
LEMMA BlockBegin ==
  ASSUME NEW E \in Nat, NEW c \in Nat, NEW p, p = Width(E) * c
  PROVE  Begins(p, E, c)
  <1>1. Width(E) \in Nat \ {0}
    BY WidthFacts
  <1>2. p \in Nat
    BY <1>1
  <1>3. Blk(p, E) = c
    <2>1. p < Width(E) * (c + 1)
      <3>1. Width(E) * (c + 1) = Width(E) * c + Width(E)
        BY <1>1
      <3>. QED
        BY <1>1, <1>2, <3>1
    <2>. QED
      BY <1>2, <2>1, BlockIs
  <1>4. ASSUME NEW x \in Nat
        PROVE  x < p <=> Blk(x, E) < c
    <2>1. Blk(x, E) \in Nat
      BY Blocks
    <2>2. ASSUME x < p
          PROVE  Blk(x, E) < c
      <3>1. Blk(x, E) <= c
        <4>1. x <= p
          BY <1>2, <2>2
        <4>2. Blk(x, E) <= Blk(p, E)
          BY <1>2, <4>1, BlocksMono
        <4>. QED
          BY <1>3, <4>2
      <3>2. Blk(x, E) # c
        <4>1. Blk(x, E) = c => Width(E) * c <= x
          BY BlockIs
        <4>. QED
          BY <1>2, <2>2, <4>1
      <3>. QED
        BY <2>1, <3>1, <3>2
    <2>3. ASSUME ~(x < p)
          PROVE  c <= Blk(x, E)
      <3>1. p <= x
        BY <1>2, <2>3
      <3>2. Blk(p, E) <= Blk(x, E)
        BY <1>2, <3>1, BlocksMono
      <3>. QED
        BY <1>3, <3>2
    <2>. QED
      BY <2>1, <2>2, <2>3
  <1>5. ASSUME NEW x \in Nat
        PROVE  p <= x <=> c <= Blk(x, E)
    <2>1. Blk(x, E) \in Nat
      BY Blocks
    <2>2. x < p <=> Blk(x, E) < c
      BY <1>4
    <2>. QED
      BY <1>2, <2>1, <2>2
  <1>. QED
    BY <1>2, <1>3, <1>4, <1>5 DEF Begins

(* A run of slots of one node holds a run of elements. *)
LEMMA UnderIs ==
  ASSUME NEW E \in Nat, NEW c \in Nat, NEW len \in Nat, NEW from, from = c % BP_WIDTH,
         NEW to, to = from + len, to <= BP_WIDTH, NEW i, i = Width(E) * c,
         NEW z, z = Width(E) * (c + len), NEW x \in Nat
  PROVE  Under(i, E, from, to, x) <=> i <= x /\ x < z
  <1>. DEFINE y == Blk(x, E)
              q == c \div BP_WIDTH
  <1>1. BP_WIDTH \in Nat \ {0}
    BY WidthFacts
  <1>2. q \in Nat /\ from \in 0 .. BP_WIDTH - 1 /\ c = BP_WIDTH * q + from
    BY <1>1, Divide
  <1>. HIDE DEF y
  <1>3. i \in Nat /\ Blk(i, E) = c /\ (i <= x <=> c <= y)
    <2>1. Begins(i, E, c)
      BY BlockBegin
    <2>. QED
      BY <2>1 DEF Begins, y
  <1>4. x < z <=> y < c + len
    <2>. DEFINE e == c + len
    <2>1. e \in Nat /\ z = Width(E) * e
      OBVIOUS
    <2>. HIDE DEF e, y
    <2>2. Begins(z, E, e)
      BY <2>1, BlockBegin
    <2>. QED
      BY <2>2 DEF Begins, e, y
  <1>5. Blk(i, E + 1) = q
    BY <1>3, Blocks
  <1>6. /\ y \in Nat /\ Blk(x, E + 1) \in Nat /\ y % BP_WIDTH \in Slot
        /\ Blk(x, E + 1) = y \div BP_WIDTH
        /\ y = BP_WIDTH * Blk(x, E + 1) + (y % BP_WIDTH)
    <2>1. /\ Blk(x, E) \in Nat /\ Blk(x, E) % BP_WIDTH \in Slot
          /\ Blk(x, E + 1) = Blk(x, E) \div BP_WIDTH
          /\ Blk(x, E) = BP_WIDTH * Blk(x, E + 1) + (Blk(x, E) % BP_WIDTH)
      BY Blocks
    <2>2. E + 1 \in Nat
      OBVIOUS
    <2>3. Blk(x, E + 1) \in Nat
      BY <2>2, Blocks
    <2>. QED
      BY <2>1, <2>3 DEF y
  <1>. HIDE DEF q
  <1>7. ASSUME Under(i, E, from, to, x)
        PROVE  c <= y /\ y < c + len
    <2>1. Blk(x, E + 1) = q /\ y % BP_WIDTH \in from .. to - 1
      BY <1>5, <1>7 DEF Under, y
    <2>2. y = BP_WIDTH * q + (y % BP_WIDTH)
      BY <1>6, <2>1
    <2>. QED
      BY <1>1, <1>2, <1>6, <2>1, <2>2
  <1>8. ASSUME c <= y, y < c + len
        PROVE  Under(i, E, from, to, x)
    <2>. DEFINE s == from + (y - c)
    <2>1. s \in 0 .. BP_WIDTH - 1 /\ s \in from .. to - 1
      BY <1>1, <1>2, <1>6, <1>8
    <2>2. y = BP_WIDTH * q + s
      BY <1>1, <1>2, <1>6
    <2>. HIDE DEF s
    <2>3. y \div BP_WIDTH = q /\ y % BP_WIDTH = s
      BY <1>1, <1>2, <2>1, <2>2, Quotient
    <2>. QED
      BY <1>5, <1>6, <2>1, <2>3 DEF Under, y
  <1>. QED
    BY <1>3, <1>4, <1>7, <1>8

\* r is the least multiple of Width(k) that is not below a, the q-th
Ceil(a, k, r, q) ==
  /\ r \in Nat /\ q \in Nat /\ r = Width(k) * q /\ a <= r
  /\ \A c \in Nat : a <= Width(k) * c <=> q <= c

(* next_multiple rounds up.                                                *)
LEMMA CeilIs ==
  ASSUME NEW a \in Nat, NEW k \in Nat
  PROVE  \E q : Ceil(a, k, next_multiple(a, Width(k)), q)
  <1>. DEFINE w == Width(k)
              q == (a + w - 1) \div w
              r == next_multiple(a, w)
  <1>1. w \in Nat \ {0}
    BY WidthFacts
  <1>. HIDE DEF w
  <1>2. a + w - 1 \in Nat
    BY <1>1
  <1>3. /\ q \in Nat /\ (a + w - 1) % w \in 0 .. w - 1
        /\ a + w - 1 = w * q + ((a + w - 1) % w)
    BY <1>1, <1>2, Divide
  <1>4. r = w * q
    <2>1. r = q * w
      BY DEF next_multiple
    <2>. HIDE DEF q
    <2>. QED
      BY <1>1, <1>3, <2>1
  <1>. HIDE DEF q, r
  <1>5. r \in Nat /\ a <= r
    <2>1. w * q \in Nat
      BY <1>1, <1>3
    <2>. DEFINE x == (a + w - 1) % w
    <2>2. x \in 0 .. w - 1 /\ a + w - 1 = w * q + x
      BY <1>3
    <2>. HIDE DEF x
    <2>. QED
      BY <1>1, <1>4, <2>1, <2>2
  <1>6. ASSUME NEW c \in Nat
        PROVE  a <= w * c <=> q <= c
    <2>1. ASSUME q <= c
          PROVE  w * q <= w * c
      <3>1. c = q + (c - q) /\ c - q \in Nat
        BY <1>3, <2>1
      <3>. DEFINE y == c - q
      <3>. HIDE DEF y
      <3>2. c = q + y /\ y \in Nat
        BY <3>1 DEF y
      <3>3. w * c = w * q + w * y /\ w * y \in Nat /\ w * q \in Nat
        BY <1>1, <1>3, <3>2
      <3>. QED
        BY <3>3
    <2>2. ASSUME ~(q <= c)
          PROVE  w * c < a
      <3>. DEFINE y == q - c - 1
      <3>1. y \in Nat /\ q = c + 1 + y
        BY <1>3, <2>2
      <3>. HIDE DEF y
      <3>2. w * q = w * c + w + w * y /\ w * y \in Nat /\ w * c \in Nat
        BY <1>1, <3>1
      <3>. DEFINE x == (a + w - 1) % w
      <3>3. x \in 0 .. w - 1 /\ a + w - 1 = w * q + x
        BY <1>3
      <3>. HIDE DEF x
      <3>. QED
        BY <1>1, <3>2, <3>3
    <2>3. w * c \in Nat /\ w * q \in Nat
      BY <1>1, <1>3
    <2>. QED
      BY <1>4, <1>5, <2>1, <2>2, <2>3
  <1>7. Ceil(a, k, r, q)
    <2>1. \A c \in Nat : a <= w * c <=> q <= c
      BY <1>6
    <2>. QED
      BY <1>3, <1>4, <1>5, <2>1 DEF Ceil, w
  <1>. QED
    BY <1>7 DEF r, w

\* a rounded up, and b rounded down, to subtrees of Width(k) elements
Up(a, k) == next_multiple(a, Width(k))
\* b rounded down
Down(b, k) == Floor(b, Width(k))

\* p is the least multiple of Width(k) that is not below a
LeastOver(p, a, k) ==
  /\ p \in Nat /\ a <= p
  /\ \E q \in Nat : p = Width(k) * q /\ Begins(p, k, q)
  /\ \A c \in Nat : a <= Width(k) * c => p <= Width(k) * c

(* Rounding up gives the least such multiple.                              *)
LEMMA UpIs ==
  ASSUME NEW a \in Nat, NEW k \in Nat
  PROVE  LeastOver(Up(a, k), a, k)
  <1>. DEFINE p == Up(a, k)
  <1>1. PICK q : Ceil(a, k, p, q)
    BY CeilIs DEF Up
  <1>. HIDE DEF p
  <1>2. p \in Nat /\ q \in Nat /\ a <= p /\ p = Width(k) * q
    BY <1>1 DEF Ceil
  <1>3. Begins(p, k, q)
    BY <1>2, BlockBegin
  <1>4. ASSUME NEW c \in Nat, a <= Width(k) * c
        PROVE  p <= Width(k) * c
    <2>. DEFINE x == Width(k) * c
    <2>1. q <= c
      BY <1>1, <1>4 DEF Ceil
    <2>2. x = Width(k) * c
      OBVIOUS
    <2>. HIDE DEF x
    <2>3. Begins(x, k, c)
      BY <2>2, BlockBegin
    <2>4. x \in Nat /\ Blk(x, k) = c
      BY <2>3 DEF Begins
    <2>5. p <= x
      BY <1>3, <2>1, <2>4 DEF Begins
    <2>. QED
      BY <2>5 DEF x
  <1>. QED
    BY <1>2, <1>3, <1>4 DEF LeastOver, p

(* A multiple of a larger width is one of a smaller width. *)
LEMMA Multiple ==
  ASSUME NEW k \in Nat, NEW f \in Nat, k <= f, NEW c \in Nat
  PROVE  \E e \in Nat : Width(f) * c = Width(k) * e
  <1>. DEFINE y == Width(f - k)
              z == Width(k)
  <1>1. f - k \in Nat /\ k + (f - k) = f
    OBVIOUS
  <1>2. Width(f) = z * y
    <2>. DEFINE t == f - k
    <2>1. t \in Nat /\ k + t = f
      BY <1>1
    <2>. HIDE DEF t
    <2>2. Width(k + t) = Width(k) * Width(t)
      BY <2>1, WidthSum
    <2>. QED
      BY <2>1, <2>2 DEF t
  <1>3. y \in Nat /\ z \in Nat
    BY <1>1, WidthFacts
  <1>. HIDE DEF y, z
  <1>4. y * c \in Nat /\ (z * y) * c = z * (y * c)
    BY <1>3
  <1>. QED
    BY <1>2, <1>4 DEF z

(* Rounding up to larger subtrees goes further. *)
LEMMA UpMono ==
  ASSUME NEW a \in Nat, NEW k \in Nat, NEW f \in Nat, k <= f
  PROVE  Up(a, k) <= Up(a, f)
  <1>. DEFINE p == Up(a, k)
              r == Up(a, f)
  <1>1. LeastOver(p, a, k) /\ LeastOver(r, a, f)
    BY UpIs
  <1>. HIDE DEF p, r
  <1>2. PICK c \in Nat : r = Width(f) * c
    BY <1>1 DEF LeastOver
  <1>3. PICK e \in Nat : Width(f) * c = Width(k) * e
    BY Multiple
  <1>4. a <= r /\ r = Width(k) * e
    BY <1>1, <1>2, <1>3 DEF LeastOver
  <1>5. p <= r
    BY <1>1, <1>4 DEF LeastOver
  <1>. QED
    BY <1>5 DEF p, r

(* Rounding up in steps is rounding up at once. *)
LEMMA UpUp ==
  ASSUME NEW a \in Nat, NEW k \in Nat
  PROVE  next_multiple(Up(a, k), Width(k + 1)) = Up(a, k + 1)
  <1>. DEFINE p == Up(a, k)
              r == Up(a, k + 1)
              s == Up(p, k + 1)
  <1>1. k + 1 \in Nat /\ k <= k + 1
    OBVIOUS
  <1>2. p \in Nat /\ a <= p
    BY UpIs DEF LeastOver
  <1>3. p <= r
    BY <1>1, UpMono
  <1>4. LeastOver(r, a, k + 1) /\ LeastOver(s, p, k + 1)
    <2>. HIDE DEF p
    <2>. QED
      BY <1>1, <1>2, UpIs
  <1>5. next_multiple(p, Width(k + 1)) = s
    BY DEF Up
  <1>. HIDE DEF p, r, s
  <1>6. PICK c \in Nat : r = Width(k + 1) * c
    BY <1>4 DEF LeastOver
  <1>7. PICK e \in Nat : s = Width(k + 1) * e
    BY <1>4 DEF LeastOver
  <1>8. s <= r
    BY <1>3, <1>4, <1>6 DEF LeastOver
  <1>9. r \in Nat /\ s \in Nat /\ p <= s
    BY <1>4 DEF LeastOver
  <1>10. a <= s
    BY <1>2, <1>9
  <1>11. r <= s
    BY <1>4, <1>7, <1>10 DEF LeastOver
  <1>12. r = s
    BY <1>8, <1>9, <1>11
  <1>. QED
    BY <1>5, <1>12 DEF p, r

(* Rounding down keeps the block, and goes further down for larger ones. *)
LEMMA DownIs ==
  ASSUME NEW b \in Nat, NEW k \in Nat
  PROVE  /\ Down(b, k) \in Nat /\ Down(b, k) <= b
         /\ Down(b, k) = Width(k) * Blk(b, k)
         /\ Begins(Down(b, k), k, Blk(b, k))
  <1>. DEFINE q == Blk(b, k)
              p == Down(b, k)
  <1>1. q \in Nat /\ Width(k) \in Nat
    BY Blocks, WidthFacts
  <1>2. p = q * Width(k)
    BY DEF Down, Floor, Blk
  <1>. HIDE DEF q, p
  <1>3. p = Width(k) * q
    BY <1>1, <1>2
  <1>4. Begins(p, k, q)
    BY <1>1, <1>3, BlockBegin
  <1>5. p <= b <=> q <= Blk(b, k)
    BY <1>4 DEF Begins
  <1>6. p \in Nat /\ p <= b
    BY <1>1, <1>4, <1>5 DEF Begins, q
  <1>. QED
    BY <1>3, <1>4, <1>6 DEF p, q

(* Rounding down to larger subtrees gives less.                            *)
LEMMA DownMono ==
  ASSUME NEW b \in Nat, NEW k \in Nat, NEW f \in Nat, k <= f
  PROVE  Down(b, f) <= Down(b, k)
  <1>. DEFINE p == Down(b, k)
              r == Down(b, f)
  <1>1. /\ Begins(p, k, Blk(b, k)) /\ r \in Nat /\ r <= b
        /\ r = Width(f) * Blk(b, f) /\ Blk(b, f) \in Nat /\ Blk(b, k) \in Nat
    BY DownIs, Blocks
  <1>. HIDE DEF p, r
  <1>2. PICK e \in Nat : Width(f) * Blk(b, f) = Width(k) * e
    BY <1>1, Multiple
  <1>3. Begins(r, k, e)
    BY <1>1, <1>2, BlockBegin
  <1>4. e <= Blk(b, k)
    BY <1>1, <1>3 DEF Begins
  <1>5. Blk(p, k) = Blk(b, k) /\ p \in Nat
    BY <1>1 DEF Begins
  <1>6. r <= p
    BY <1>3, <1>4, <1>5 DEF Begins
  <1>. QED
    BY <1>6 DEF p, r

(* What lies between. *)
LEMMA UpDown ==
  ASSUME NEW a \in Nat, NEW b \in Nat, NEW k \in Nat, Blk(a, k) < Blk(b, k)
  PROVE  Up(a, k) <= Down(b, k)
  <1>. DEFINE p == Up(a, k)
              r == Down(b, k)
              q == Blk(b, k)
  <1>1. LeastOver(p, a, k)
    BY UpIs
  <1>2. r = Width(k) * q /\ Begins(r, k, q) /\ q \in Nat /\ r \in Nat
    BY DownIs, Blocks
  <1>3. Blk(a, k) < q
    OBVIOUS
  <1>. HIDE DEF p, r, q
  <1>4. a < r
    BY <1>2, <1>3 DEF Begins
  <1>5. a <= r
    BY <1>2, <1>4
  <1>6. p <= r
    BY <1>1, <1>2, <1>5 DEF LeastOver
  <1>. QED
    BY <1>6 DEF p, r

\* the slots from..to-1 of a node of height E hold the elements i..z-1
Spans(i, E, from, to, z) ==
  /\ from \in Int /\ to \in Int /\ from <= to
  /\ \A x \in Nat : Under(i, E, from, to, x) <=> i <= x /\ x < z

(* The slots from..to-1 of a node hold a range.                            *)
LEMMA SpansIs ==
  ASSUME NEW E \in Nat, NEW c \in Nat, NEW len \in Nat, NEW from, from = c % BP_WIDTH,
         NEW to, to = from + len, to <= BP_WIDTH, NEW i, i = Width(E) * c,
         NEW z, z = Width(E) * (c + len)
  PROVE  Spans(i, E, from, to, z)
  <1>1. ASSUME NEW x \in Nat
        PROVE  Under(i, E, from, to, x) <=> i <= x /\ x < z
    BY UnderIs
  <1>2. from \in Nat
    <2>1. BP_WIDTH \in Nat \ {0}
      BY WidthFacts
    <2>. QED
      BY <2>1
  <1>. QED
    BY <1>1, <1>2 DEF Spans

(* From a rounded up to a rounded up further. *)
LEMMA SpanUp ==
  ASSUME NEW a \in Nat, NEW k \in Nat, NEW i, i = Up(a, k), NEW z, z = Up(a, k + 1), i # z
  PROVE  Spans(i, k, Digit(i, k * BP_BITS), BP_WIDTH, z)
  <1>. DEFINE K == k + 1
              e == Blk(i, K)
              y == Width(K) * (e + 1)
  <1>1. K \in Nat /\ k <= K /\ K = k + 1
    OBVIOUS
  <1>2. LeastOver(i, a, k) /\ LeastOver(z, a, K) /\ i <= z
    BY <1>1, UpIs, UpMono
  <1>3. PICK c \in Nat : i = Width(k) * c /\ Begins(i, k, c)
    BY <1>2 DEF LeastOver
  <1>4. PICK q \in Nat : z = Width(K) * q /\ Begins(z, K, q)
    BY <1>2 DEF LeastOver
  <1>5. i \in Nat /\ z \in Nat /\ a <= i
    BY <1>2 DEF LeastOver
  <1>6. e \in Nat /\ e + 1 \in Nat /\ e = Blk(i, K)
    <2>. HIDE DEF K
    <2>1. Blk(i, K) \in Nat
      BY <1>1, <1>5, Blocks
    <2>. QED
      BY <2>1
  <1>7. Begins(y, K, e + 1)
    BY <1>1, <1>6, BlockBegin
  <1>8. y = Width(K) * (e + 1)
    OBVIOUS
  <1>9. /\ c = BP_WIDTH * e + (c % BP_WIDTH) /\ c % BP_WIDTH \in Slot
        /\ Digit(i, k * BP_BITS) = c % BP_WIDTH
    <2>1. /\ Blk(i, k) = BP_WIDTH * Blk(i, k + 1) + (Blk(i, k) % BP_WIDTH)
          /\ Blk(i, k) % BP_WIDTH \in Slot
          /\ Digit(i, k * BP_BITS) = Blk(i, k) % BP_WIDTH
      BY <1>5, Blocks
    <2>2. Blk(i, k) = c
      BY <1>3 DEF Begins
    <2>. QED
      BY <2>1, <2>2
  <1>10. z = y
    <2>. HIDE DEF K, e, y
    <2>1. i < y /\ y \in Nat /\ Blk(y, K) = e + 1
      BY <1>5, <1>6, <1>7 DEF Begins
    <2>2. z <= y
      <3>1. a <= Width(K) * (e + 1)
        BY <1>5, <1>8, <2>1
      <3>. QED
        BY <1>2, <1>6, <1>8, <3>1 DEF LeastOver
    <2>3. e < q
      <3>1. q <= e => z <= i
        BY <1>4, <1>5, <1>6 DEF Begins
      <3>. QED
        BY <1>2, <1>5, <1>6, <3>1
    <2>4. y <= z
      <3>1. e + 1 <= q /\ Blk(z, K) = q
        BY <1>4, <1>6, <2>3 DEF Begins
      <3>2. e + 1 <= Blk(z, K) => y <= z
        BY <1>5, <1>7 DEF Begins
      <3>. QED
        BY <3>1, <3>2
    <2>. QED
      BY <1>5, <2>1, <2>2, <2>4
  <1>. DEFINE from == c % BP_WIDTH
              len == BP_WIDTH - from
  <1>11. BP_WIDTH \in Nat /\ Width(k) \in Nat /\ Width(K) = BP_WIDTH * Width(k)
    BY WidthFacts
  <1>. HIDE DEF K, e, y
  <1>12. from \in 0 .. BP_WIDTH - 1 /\ len \in Nat /\ BP_WIDTH = from + len
    BY <1>9, <1>11 DEF Slot
  <1>13. c + len = BP_WIDTH * (e + 1)
    <2>1. BP_WIDTH * (e + 1) = BP_WIDTH * e + BP_WIDTH /\ BP_WIDTH * e \in Nat
      BY <1>6, <1>11
    <2>2. c = BP_WIDTH * e + from
      BY <1>9
    <2>. HIDE DEF from, len
    <2>. QED
      BY <1>11, <1>12, <2>1, <2>2
  <1>14. z = Width(k) * (c + len)
    <2>. DEFINE u == e + 1
    <2>1. u \in Nat /\ z = Width(K) * u /\ c + len = BP_WIDTH * u
      BY <1>6, <1>8, <1>10, <1>13
    <2>. HIDE DEF u, len
    <2>2. (BP_WIDTH * Width(k)) * u = Width(k) * (BP_WIDTH * u)
      BY <1>11, <2>1
    <2>. QED
      BY <1>11, <2>1, <2>2
  <1>15. Spans(i, k, from, BP_WIDTH, z)
    <2>1. from = c % BP_WIDTH
      OBVIOUS
    <2>. HIDE DEF from, len
    <2>2. BP_WIDTH <= BP_WIDTH
      BY <1>11
    <2>. QED
      BY <1>3, <1>12, <1>14, <2>1, <2>2, SpansIs
  <1>. QED
    BY <1>9, <1>15 DEF from

(* From b rounded down far to b rounded down less. *)
LEMMA SpanDown ==
  ASSUME NEW b \in Nat, NEW k \in Nat, NEW i, i = Down(b, k + 1), NEW z, z = Down(b, k), i # z
  PROVE  /\ Digit(z, k * BP_BITS) # 0
         /\ Spans(i, k, Digit(i, k * BP_BITS), Digit(z, k * BP_BITS), z)
  <1>. DEFINE K == k + 1
              e == Blk(b, K)
              c == BP_WIDTH * e
              g == Blk(b, k) % BP_WIDTH
  <1>1. K \in Nat /\ K = k + 1
    OBVIOUS
  <1>2. /\ Blk(b, k) \in Nat /\ g \in Slot
        /\ Blk(b, k) = BP_WIDTH * Blk(b, k + 1) + g
    BY Blocks
  <1>3. e \in Nat
    BY <1>1, Blocks
  <1>4. BP_WIDTH \in Nat \ {0} /\ Width(k) \in Nat /\ Width(K) = BP_WIDTH * Width(k)
    BY WidthFacts
  <1>5. i \in Nat /\ i = Width(K) * e /\ z \in Nat /\ z = Width(k) * Blk(b, k)
        /\ Begins(z, k, Blk(b, k))
    BY <1>1, DownIs
  <1>6. e = Blk(b, k + 1)
    OBVIOUS
  <1>. HIDE DEF K, e
  <1>7. c \in Nat /\ c % BP_WIDTH = 0
    <2>1. BP_WIDTH * e \in Nat
      BY <1>3, <1>4
    <2>2. (BP_WIDTH * e + 0) % BP_WIDTH = 0
      <3>1. 0 \in 0 .. BP_WIDTH - 1
        BY <1>4
      <3>. QED
        BY <1>3, <1>4, <3>1, Quotient
    <2>3. BP_WIDTH * e + 0 = BP_WIDTH * e
      BY <2>1
    <2>. QED
      BY <2>1, <2>2, <2>3
  <1>8. i = Width(k) * c
    <2>1. (BP_WIDTH * Width(k)) * e = Width(k) * (BP_WIDTH * e)
      BY <1>3, <1>4
    <2>. QED
      BY <1>4, <1>5, <2>1
  <1>9. Blk(b, k) = c + g
    BY <1>2, <1>6
  <1>10. c = BP_WIDTH * e
    OBVIOUS
  <1>. HIDE DEF c
  <1>11. Digit(i, k * BP_BITS) = 0
    <2>1. Begins(i, k, c)
      BY <1>7, <1>8, BlockBegin
    <2>2. Blk(i, k) = c
      BY <2>1 DEF Begins
    <2>3. Digit(i, k * BP_BITS) = Blk(i, k) % BP_WIDTH
      BY <1>5, Blocks
    <2>. QED
      BY <1>7, <2>2, <2>3
  <1>12. Digit(z, k * BP_BITS) = g
    <2>1. Blk(z, k) = Blk(b, k)
      BY <1>5 DEF Begins
    <2>2. Digit(z, k * BP_BITS) = Blk(z, k) % BP_WIDTH
      BY <1>5, Blocks
    <2>. QED
      BY <2>1, <2>2
  <1>13. z = Width(k) * (c + g)
    BY <1>5, <1>9
  <1>. HIDE DEF g
  <1>14. g \in Nat /\ g <= BP_WIDTH /\ g = 0 + g
    BY <1>2, <1>4 DEF Slot
  <1>15. Spans(i, k, 0, g, z)
    <2>1. 0 = c % BP_WIDTH
      BY <1>7
    <2>. QED
      BY <1>7, <1>8, <1>13, <1>14, <2>1, SpansIs
  <1>16. g # 0
    <2>1. g = 0 => c + g = c
      BY <1>7
    <2>. QED
      BY <1>8, <1>13, <2>1
  <1>. QED
    BY <1>11, <1>12, <1>15, <1>16

(* From a rounded up to b rounded down. *)
LEMMA SpanAcross ==
  ASSUME NEW a \in Nat, NEW b \in Nat, NEW k \in Nat, Blk(a, k + 1) = Blk(b, k + 1),
         NEW i, i = Up(a, k), NEW z, z = Down(b, k), i < z
  PROVE  /\ Digit(z, k * BP_BITS) # 0 /\ Blk(z, k + 1) = Blk(i, k + 1)
         /\ Spans(i, k, Digit(i, k * BP_BITS), Digit(z, k * BP_BITS), z)
  <1>. DEFINE K == k + 1
              q == Blk(b, K)
              e == Blk(b, k)
  <1>1. K \in Nat
    OBVIOUS
  <1>2. LeastOver(i, a, k)
    BY UpIs
  <1>3. PICK c \in Nat : i = Width(k) * c /\ Begins(i, k, c)
    BY <1>2 DEF LeastOver
  <1>4. z \in Nat /\ z <= b /\ z = Width(k) * e /\ Begins(z, k, e) /\ e \in Nat
    BY DownIs, Blocks
  <1>5. i \in Nat /\ a <= i
    BY <1>2 DEF LeastOver
  <1>6. Blk(i, k) = c /\ Blk(z, k) = e
    BY <1>3, <1>4 DEF Begins
  <1>7. Blk(i, k + 1) = q /\ Blk(z, k + 1) = q /\ q \in Nat
    <2>. HIDE DEF K
    <2>0. i <= z /\ Blk(a, K) = Blk(b, K)
      BY <1>4, <1>5 DEF K
    <2>1. Blk(a, K) <= Blk(i, K) /\ Blk(i, K) <= Blk(z, K) /\ Blk(z, K) <= Blk(b, K)
      BY <1>1, <1>4, <1>5, <2>0, BlocksMono
    <2>2. Blk(a, K) \in Nat /\ Blk(i, K) \in Nat /\ Blk(z, K) \in Nat /\ Blk(b, K) \in Nat
      BY <1>1, <1>4, <1>5, Blocks
    <2>3. Blk(i, K) = Blk(b, K) /\ Blk(z, K) = Blk(b, K)
      BY <2>0, <2>1, <2>2
    <2>. QED
      BY <2>2, <2>3 DEF K
  <1>. HIDE DEF K, q, e
  <1>8. c < e
    BY <1>4, <1>5, <1>6 DEF Begins
  <1>. DEFINE f == c % BP_WIDTH
              g == e % BP_WIDTH
  <1>9. /\ c = BP_WIDTH * q + f /\ f \in Slot /\ Digit(i, k * BP_BITS) = f
    <2>1. /\ Blk(i, k) = BP_WIDTH * Blk(i, k + 1) + (Blk(i, k) % BP_WIDTH)
          /\ Blk(i, k) % BP_WIDTH \in Slot
          /\ Digit(i, k * BP_BITS) = Blk(i, k) % BP_WIDTH
      BY <1>5, Blocks
    <2>. QED
      BY <1>6, <1>7, <2>1
  <1>10. /\ e = BP_WIDTH * q + g /\ g \in Slot /\ Digit(z, k * BP_BITS) = g
    <2>1. /\ Blk(z, k) = BP_WIDTH * Blk(z, k + 1) + (Blk(z, k) % BP_WIDTH)
          /\ Blk(z, k) % BP_WIDTH \in Slot
          /\ Digit(z, k * BP_BITS) = Blk(z, k) % BP_WIDTH
      BY <1>4, Blocks
    <2>. QED
      BY <1>6, <1>7, <2>1
  <1>11. BP_WIDTH \in Nat /\ f = c % BP_WIDTH
    BY WidthFacts
  <1>. HIDE DEF f, g
  <1>. DEFINE len == g - f
  <1>12. f \in Nat /\ g \in Nat /\ g <= BP_WIDTH /\ BP_WIDTH * q \in Nat
    BY <1>7, <1>9, <1>10, <1>11 DEF Slot
  <1>13. len \in Nat /\ g = f + len /\ c + len = e /\ g # 0
    BY <1>8, <1>9, <1>10, <1>12
  <1>. HIDE DEF len
  <1>14. z = Width(k) * (c + len)
    BY <1>4, <1>13
  <1>15. Spans(i, k, f, g, z)
    BY <1>3, <1>11, <1>12, <1>13, <1>14, SpansIs
  <1>. QED
    BY <1>7, <1>9, <1>10, <1>13, <1>15

(* The end of a trie, whose path is that of its first element. *)
LEMMA EndIs ==
  ASSUME NEW L \in Nat, NEW b, b = Width(L + 1)
  PROVE  /\ b \in Nat /\ Blk(b, L) = BP_WIDTH /\ Blk(b, L) % BP_WIDTH = 0
         /\ Digit(b, L * BP_BITS) = 0 /\ Down(b, L) = b
  <1>1. BP_WIDTH \in Nat \ {0} /\ Width(L) \in Nat /\ b = BP_WIDTH * Width(L)
    BY WidthFacts
  <1>2. b = Width(L) * BP_WIDTH /\ b \in Nat
    BY <1>1
  <1>3. Blk(b, L) = BP_WIDTH
    <2>1. Begins(b, L, BP_WIDTH)
      BY <1>1, <1>2, BlockBegin
    <2>. QED
      BY <2>1 DEF Begins
  <1>4. BP_WIDTH % BP_WIDTH = 0
    <2>1. BP_WIDTH = BP_WIDTH * 1 + 0 /\ 0 \in 0 .. BP_WIDTH - 1
      BY <1>1
    <2>. QED
      BY <1>1, <2>1, Quotient
  <1>5. Digit(b, L * BP_BITS) = Blk(b, L) % BP_WIDTH
    BY <1>2, Blocks
  <1>6. Down(b, L) = b
    BY <1>2, <1>3, DownIs
  <1>. QED
    BY <1>2, <1>3, <1>4, <1>5, <1>6

(* How far the paths to the ends of a range run together. *)
\* the path to b is b's own, or parts from the path to a at the root
Clear(v, a, b) ==
  \/ b \in Room(v)
  \/ /\ b = Width(Lv(v) + 1) /\ Lv(v) >= 1
     /\ Lv(v) = 1 \/ Blk(a, Lv(v)) # 0

\* nodes of height D are the first that tell a from b
Parting(v, a, b, D) ==
  /\ D \in 1 .. Lv(v) + 1
  /\ Blk(a, D) < Blk(b, D)
  /\ b \in Room(v) => D <= Lv(v) /\ Blk(a, D + 1) = Blk(b, D + 1)
  /\ Clear(v, a, b) /\ b \notin Room(v) => D = Lv(v)

(* The path to the end of a trie parts from a path outside its first       *)
(* subtree at the root.                                                    *)
LEMMA EndParts ==
  ASSUME NEW h, NEW P, IsHeap(h, P), NEW v, IsVec(h, P, v), Full(h, v),
         NEW a \in 0 .. v.sz - 1, NEW b, b = Width(Lv(v) + 1), Lv(v) >= 1,
         Blk(a, Lv(v)) # 0
  PROVE  Walk(h, v, a, 1) # Walk(h, v, b, 1)
  <1>. DEFINE L == Lv(v)
              e == L - 1
  <1>1. v \in Vector /\ h \in Seq(Node) /\ v.shift = L * BP_BITS /\ v.root \in DOMAIN h
    BY DEF IsVec, IsHeap
  <1>2. L \in Nat /\ e \in 0 .. L - 1 /\ e + 1 = L /\ e \in 0 .. L /\ L - e = 1
    BY <1>1, Levels
  <1>3. 0 \in Room(v) /\ 0 \in Nat
    BY <1>1, RoomFacts
  <1>4. a \in Room(v) /\ On(h, v, a, e) # Null
    BY <1>2, FullPath
  <1>5. b \in Nat /\ Blk(b, L) % BP_WIDTH = 0
    BY <1>2, EndIs
  <1>6. Blk(0, L) = 0 /\ Blk(0, L) % BP_WIDTH = 0
    <2>1. Begins(0, L, 0)
      <3>1. 0 = Width(L) * 0
        BY <1>2, WidthFacts
      <3>. QED
        BY <1>2, <3>1, BlockBegin
    <2>2. Blk(0, L) = 0
      BY <2>1 DEF Begins
    <2>. QED
      BY <2>2, WidthFacts
  <1>. HIDE DEF e
  <1>7. On(h, v, b, e) = On(h, v, 0, e)
    <2>1. On(h, v, b, L) = v.root /\ On(h, v, 0, L) = v.root
      BY <1>1, <1>3, <1>5, Path
    <2>2. \A j \in Nat : On(h, v, j, e + 1) \in DOMAIN h =>
                            On(h, v, j, e) = h[On(h, v, j, e + 1)].slot[Blk(j, e + 1) % BP_WIDTH]
      BY <1>2, PathStep
    <2>3. \A j \in Nat : On(h, v, j, L) = v.root =>
                            On(h, v, j, e) = h[v.root].slot[Blk(j, L) % BP_WIDTH]
      BY <1>1, <1>2, <2>2
    <2>. QED
      BY <1>3, <1>5, <1>6, <2>1, <2>3
  <1>8. ASSUME On(h, v, a, e) = On(h, v, 0, e)
        PROVE  FALSE
    <2>1. P[On(h, v, a, e)][2] = Blk(a, L)
      BY <1>2, <1>4, OnPlace
    <2>2. P[On(h, v, 0, e)][2] = Blk(0, L)
      BY <1>2, <1>3, <1>4, <1>8, OnPlace
    <2>. QED
      BY <1>6, <1>8, <2>1, <2>2
  <1>9. On(h, v, a, e) = Walk(h, v, a, 1) /\ On(h, v, b, e) = Walk(h, v, b, 1)
    BY <1>2 DEF On
  <1>. QED
    BY <1>7, <1>8, <1>9

(* contained_at_shift finds the height at which the paths of a and b part. *)
LEMMA ContainedIs ==
  ASSUME NEW m, NEW P, Fits(m, P), Full(m.h, m.v), NEW a \in Nat, NEW b \in Nat,
         a < b, b <= m.v.sz, b - a >= BP_WIDTH,
         NEW D, D = contained_at_shift(m, a, b) \div BP_BITS + 1
  PROVE  Parting(m.v, a, b, D)
  <1>. DEFINE L == Lv(m.v)
              apart == {k \in 1 .. L : Walk(m.h, m.v, a, k) # Walk(m.h, m.v, b, k)}
              S == apart \cup {L}
              mn == Min(S)
  <1>1. /\ L \in Nat /\ m.v.shift = L * BP_BITS /\ Leaf(m) = L
        /\ IsHeap(m.h, P) /\ IsVec(m.h, P, m.v) /\ m.v \in Vector /\ m.v.sz \in Nat
    <2>1. Fits(m, P) => /\ Lv(m.v) \in Nat /\ m.v.shift = Lv(m.v) * BP_BITS
                        /\ IsHeap(m.h, P) /\ IsVec(m.h, P, m.v) /\ m.v \in Vector
      BY FitsFacts
    <2>2. calc_depth(m.v) = Lv(m.v) + 1
      BY <2>1, Levels
    <2>. QED
      BY <2>1, <2>2 DEF Leaf, Vector
  <1>2. a \in 0 .. m.v.sz - 1 /\ a \in Room(m.v)
    BY <1>1, FullFacts
  <1>3. BP_WIDTH \in Nat \ {0} /\ BP_WIDTH >= 2
    BY WidthFacts
  <1>4. contained_at_shift(m, a, b) = L * BP_BITS - mn * BP_BITS
    BY <1>1 DEF contained_at_shift
  <1>5. mn \in S /\ \A k \in S : mn <= k
    <2>1. L \in S /\ S \subseteq Nat
      BY <1>1
    <2>2. \E n \in S : \A k \in S : n <= k
      BY <2>1, LeastNumber
    <2>. QED
      BY <2>2 DEF Min
  <1>. HIDE DEF mn
  <1>6. mn \in 0 .. L
    BY <1>1, <1>5
  <1>7. D = L - mn + 1
    <2>. DEFINE y == L - mn
    <2>1. y \in Nat /\ L = mn + y
      BY <1>1, <1>6
    <2>. HIDE DEF y
    <2>2. L * BP_BITS - mn * BP_BITS = y * BP_BITS
      <3>1. (mn + y) * BP_BITS = mn * BP_BITS + y * BP_BITS
        BY <1>6, <2>1
      <3>2. mn * BP_BITS \in Nat /\ y * BP_BITS \in Nat
        BY <1>6, <2>1
      <3>. QED
        BY <2>1, <3>1, <3>2
    <2>3. (y * BP_BITS) \div BP_BITS = y
      BY <2>1, Shifted
    <2>. QED
      BY <1>4, <2>2, <2>3 DEF y
  <1>8. D \in 1 .. L + 1 /\ D \in Nat
    BY <1>1, <1>6, <1>7
  <1>. HIDE DEF L
  <1>9. Blk(a, 1) # Blk(b, 1)
    <2>. DEFINE q == Blk(a, 1)
    <2>1. Width(1) = BP_WIDTH /\ 1 \in Nat
      BY WidthFacts
    <2>2. q \in Nat
      BY <2>1, Blocks
    <2>. HIDE DEF q
    <2>3. Blk(a, 1) = q => BP_WIDTH * q <= a
      BY <2>1, <2>2, BlockIs
    <2>4. Blk(b, 1) = q => b < BP_WIDTH * (q + 1)
      BY <2>1, <2>2, BlockIs
    <2>5. BP_WIDTH * (q + 1) = BP_WIDTH * q + BP_WIDTH /\ BP_WIDTH * q \in Nat
      BY <1>3, <2>2
    <2>6. Blk(a, 1) = q
      BY DEF q
    <2>. QED
      BY <1>3, <2>3, <2>4, <2>5, <2>6
  <1>10. Blk(a, D) # Blk(b, D)
    <2>1. CASE mn = L
      BY <1>1, <1>7, <1>9, <2>1
    <2>2. CASE mn # L
      <3>1. mn \in 1 .. L /\ Walk(m.h, m.v, a, mn) # Walk(m.h, m.v, b, mn)
        BY <1>5, <2>2 DEF L
      <3>. DEFINE e == L - mn
      <3>2. e \in 0 .. L /\ mn = L - e /\ D = e + 1
        BY <1>1, <1>6, <1>7
      <3>. HIDE DEF e
      <3>3. On(m.h, m.v, a, e) # On(m.h, m.v, b, e)
        BY <3>1, <3>2 DEF On, L
      <3>4. e \in 0 .. Lv(m.v)
        BY <3>2 DEF L
      <3>5. Blk(a, e + 1) # Blk(b, e + 1)
        BY <1>1, <3>3, <3>4, OnSame
      <3>. QED
        BY <3>2, <3>5
    <2>. QED
      BY <2>1, <2>2
  <1>11. Blk(a, D) < Blk(b, D)
    <2>1. a <= b
      OBVIOUS
    <2>2. Blk(a, D) <= Blk(b, D)
      BY <1>8, <2>1, BlocksMono
    <2>3. Blk(a, D) \in Nat /\ Blk(b, D) \in Nat
      BY <1>8, Blocks
    <2>. QED
      BY <1>10, <2>2, <2>3
  <1>12. ASSUME b \in Room(m.v)
         PROVE  D <= L /\ Blk(a, D + 1) = Blk(b, D + 1)
    <2>0. /\ Blk(a, L + 1) = 0 /\ Blk(b, L + 1) = 0
      <3>1. /\ Blk(a, Lv(m.v) + 1) = 0 /\ Blk(b, Lv(m.v) + 1) = 0
        BY <1>1, <1>2, <1>12, RoomFacts
      <3>. QED
        BY <3>1 DEF L
    <2>1. D # L + 1
      BY <1>10, <2>0
    <2>2. D \in 1 .. L /\ mn \in 1 .. L
      BY <1>1, <1>6, <1>7, <1>8, <2>1
    <2>3. CASE D = L
      BY <2>0, <2>2, <2>3
    <2>4. CASE D # L
      <3>1. D \in 1 .. L - 1 /\ L - D \in 1 .. L /\ mn = L - D + 1
        BY <1>1, <1>7, <2>2, <2>4
      <3>2. L - D \notin S
        BY <1>1, <1>5, <3>1
      <3>3. Walk(m.h, m.v, a, L - D) = Walk(m.h, m.v, b, L - D)
        BY <3>1, <3>2 DEF L
      <3>4. On(m.h, m.v, a, D) = On(m.h, m.v, b, D)
        BY <3>3 DEF On, L
      <3>5. D \in 0 .. Lv(m.v)
        BY <1>1, <3>1 DEF L
      <3>6. On(m.h, m.v, a, D) # Null
        BY <1>1, <1>2, <3>5, FullPath
      <3>7. P[On(m.h, m.v, a, D)][2] = Blk(a, D + 1)
        BY <1>1, <1>2, <3>5, <3>6, OnPlace
      <3>8. P[On(m.h, m.v, b, D)][2] = Blk(b, D + 1)
        BY <1>1, <1>12, <3>4, <3>5, <3>6, OnPlace
      <3>. QED
        BY <2>2, <3>4, <3>7, <3>8
    <2>. QED
      BY <2>3, <2>4
  <1>13. ASSUME Clear(m.v, a, b), b \notin Room(m.v)
         PROVE  D = L
    <2>1. b = Width(L + 1) /\ L >= 1 /\ (L = 1 \/ Blk(a, L) # 0)
      BY <1>13 DEF Clear, L
    <2>2. 1 \in S
      <3>1. CASE L = 1
        BY <3>1
      <3>2. CASE Blk(a, L) # 0
        <4>1. Walk(m.h, m.v, a, 1) # Walk(m.h, m.v, b, 1)
          BY <1>1, <1>2, <2>1, <3>2, EndParts DEF L
        <4>2. 1 \in 1 .. L
          BY <1>1, <2>1
        <4>. QED
          BY <4>1, <4>2 DEF L
      <3>. QED
        BY <2>1, <3>1, <3>2
    <2>3. mn <= 1 /\ mn \in 1 .. L
      BY <1>1, <1>5, <2>1, <2>2
    <2>. QED
      BY <1>1, <1>7, <2>3
  <1>14. /\ D \in 1 .. Lv(m.v) + 1
         /\ b \in Room(m.v) => D <= Lv(m.v) /\ Blk(a, D + 1) = Blk(b, D + 1)
         /\ Clear(m.v, a, b) /\ b \notin Room(m.v) => D = Lv(m.v)
    BY <1>8, <1>12, <1>13 DEF L
  <1>. QED
    BY <1>11, <1>14 DEF Parting

(* Copying the branches over a run of elements. *)
LEMMA RunIs ==
  ASSUME NEW m, NEW P, NEW w, NEW n0, NEW keep, Lends(m, P, w, n0, keep),
         NEW i \in Nat, NEW z \in Nat, i < z, z <= m.v.sz, NEW E \in 1 .. Lv(m.v),
         NEW from, NEW to, Spans(i, E, from, to, z),
         NEW j \in Room(m.v), Blk(j, E + 1) = Blk(i, E + 1),
         NEW d, d = Lv(m.v) + 1 - E, NEW sure
  PROVE  \E P2 : Spliced(m, P, CopyBranches(m, w, d, i, j, from, to), P2, w, n0, keep,
                         i .. z - 1, sure)
  <1>. DEFINE S == {x \in 0 .. m.v.sz - 1 : Under(i, E, from, to, x)}
  <1>1. /\ m.v.sz \in Nat /\ Lv(m.v) \in Nat /\ Room(m.v) \subseteq Nat
        /\ IsHeap(m.h, P) /\ IsVec(m.h, P, m.v) /\ IsVec(m.h, P, w)
        /\ Full(m.h, m.v) /\ Full(m.h, w) /\ w.sz = m.v.sz
        /\ Lv(w) = Lv(m.v) /\ Room(w) = Room(m.v)
    BY LendsFacts
  <1>2. from \in Int /\ to \in Int /\ from <= to
        /\ \A x \in Nat : Under(i, E, from, to, x) <=> i <= x /\ x < z
    BY DEF Spans
  <1>3. S = i .. z - 1
    <2>1. \A x : x \in S => x \in i .. z - 1
      BY <1>1, <1>2
    <2>2. \A x : x \in i .. z - 1 => x \in S
      BY <1>1, <1>2
    <2>. QED
      BY <2>1, <2>2
  <1>. HIDE DEF S
  <1>4. i \in 0 .. m.v.sz - 1 /\ i \in 0 .. w.sz - 1
    BY <1>1
  <1>5. E \in 0 .. Lv(m.v) /\ E \in 0 .. Lv(w) /\ E <= Lv(m.v) /\ E \in 1 .. Lv(m.v) + 1
    BY <1>1
  <1>6. i \in Room(m.v) /\ On(m.h, m.v, i, E) # Null
    BY <1>1, <1>4, <1>5, FullPath
  <1>7. On(m.h, w, i, E) # Null
    BY <1>1, <1>4, <1>5, FullPath
  <1>8. On(m.h, w, j, E) = On(m.h, w, i, E)
    <2>1. j \in Nat
      BY <1>1
    <2>. QED
      BY <1>1, <1>5, <2>1, OnSame
  <1>9. InReach(m, w, i, j, E, from, to)
    BY <1>2, <1>5, <1>6, <1>7, <1>8 DEF InReach
  <1>10. S = {x \in 0 .. m.v.sz - 1 : Under(i, E, from, to, x)}
    BY DEF S
  <1>11. \E P2 : Spliced(m, P, CopyBranches(m, w, d, i, j, from, to), P2, w, n0, keep, S, sure)
    BY <1>2, <1>5, <1>6, <1>9, <1>10, BranchesIs
  <1>. QED
    BY <1>3, <1>11

\* r is what a phase that takes over S makes of m
Phase(m, P, r, w, n0, keep, S, sure) ==
  \E P2 : Spliced(m, P, r, P2, w, n0, keep, S, sure)

(* A phase may take over another set if it is the same within the vector, *)
(* or if the range is not sure to be in reach.                             *)
LEMMA SplicedSet ==
  ASSUME NEW m, NEW P, NEW w, NEW n0, NEW keep, Lends(m, P, w, n0, keep),
         NEW r, NEW P2, NEW S, NEW S2, NEW sure, Spliced(m, P, r, P2, w, n0, keep, S, sure),
         sure => S = S2
  PROVE  Spliced(m, P, r, P2, w, n0, keep, S2, sure)
  <1>1. CASE sure
    <2>1. S = S2
      BY <1>1
    <2>. QED
      BY <2>1
  <1>2. CASE ~sure
    BY <1>2 DEF Spliced
  <1>. QED
    BY <1>1, <1>2

(* After a phase more can be taken over.                                   *)
LEMMA SplicedLends ==
  ASSUME NEW m, NEW P, NEW w, NEW n0, NEW keep, Lends(m, P, w, n0, keep),
         NEW r, NEW P2, NEW S, NEW sure, Spliced(m, P, r, P2, w, n0, keep, S, sure)
  PROVE  /\ Lends(r, P2, w, n0, keep)
         /\ r.v.sz = m.v.sz /\ Lv(r.v) = Lv(m.v) /\ Room(r.v) = Room(m.v)
         /\ calc_depth(r.v) = calc_depth(m.v) /\ r \in Record
  <1>1. Edits(m, P, r, P2, n0, keep, {w})
    BY DEF Spliced
  <1>2. Lends(r, P2, w, n0, keep)
    BY <1>1, LendsNext
  <1>3. w.sz = m.v.sz /\ Lv(w) = Lv(m.v) /\ Room(w) = Room(m.v) /\ m.v \in Vector
    BY LendsFacts
  <1>4. /\ w.sz = r.v.sz /\ Lv(w) = Lv(r.v) /\ Room(w) = Room(r.v) /\ r.v \in Vector
        /\ Fits(r, P2)
    BY <1>2, LendsFacts
  <1>5. calc_depth(m.v) = Lv(m.v) + 1 /\ calc_depth(r.v) = Lv(r.v) + 1
    BY <1>3, <1>4, Levels
  <1>6. r \in Record
    BY <1>4 DEF Fits
  <1>. QED
    BY <1>2, <1>3, <1>4, <1>5, <1>6

(* One phase after another.                                                *)
LEMMA PhaseThen ==
  ASSUME NEW m, NEW P, NEW w, NEW n0, NEW keep, Lends(m, P, w, n0, keep),
         NEW c, NEW P1, NEW r, NEW S, NEW S2, NEW S3, NEW sure,
         Spliced(m, P, c, P1, w, n0, keep, S, sure), Phase(c, P1, r, w, n0, keep, S2, sure),
         S3 = S \cup S2
  PROVE  Phase(m, P, r, w, n0, keep, S3, sure)
  <1>1. PICK P2 : Spliced(c, P1, r, P2, w, n0, keep, S2, sure)
    BY DEF Phase
  <1>2. Spliced(m, P, r, P2, w, n0, keep, S \cup S2, sure)
    BY <1>1, SplicedTrans
  <1>. QED
    BY <1>2 DEF Phase

(* Phase 1: the elements up to the next leaf. *)
LEMMA FirstIs ==
  ASSUME NEW m, NEW P, NEW w, NEW n0, NEW keep, Lends(m, P, w, n0, keep),
         NEW a \in Nat, Up(a, 1) <= m.v.sz, NEW sure
  PROVE  Phase(m, P, First(m, w, a), w, n0, keep, a .. Up(a, 1) - 1, sure)
  <1>. DEFINE z == Up(a, 1)
  <1>1. z = next_multiple(a, BP_WIDTH)
    BY WidthFacts DEF Up
  <1>2. z \in Nat /\ a <= z
    BY UpIs DEF LeastOver
  <1>3. First(m, w, a) = IF z > a THEN CopyElements(m, w, a, z) ELSE m
    BY <1>1 DEF First
  <1>. HIDE DEF z
  <1>4. CASE z > a
    <2>1. z <= m.v.sz
      BY DEF z
    <2>2. \E P2 : Spliced(m, P, CopyElements(m, w, a, z), P2, w, n0, keep, a .. z - 1, sure)
      BY <1>2, <2>1, ElementsIs
    <2>. QED
      BY <1>3, <1>4, <2>2 DEF Phase, z
  <1>5. CASE ~(z > a)
    <2>1. a .. z - 1 = {}
      BY <1>2, <1>5
    <2>2. Spliced(m, P, m, P, w, n0, keep, {}, sure)
      BY SplicedRefl
    <2>. QED
      BY <1>3, <1>5, <2>1, <2>2 DEF Phase, z
  <1>. QED
    BY <1>4, <1>5

(* Phase 5: the elements of the last leaf. *)
LEMMA LastIs ==
  ASSUME NEW m, NEW P, NEW w, NEW n0, NEW keep, Lends(m, P, w, n0, keep),
         NEW b \in Nat, b <= m.v.sz, NEW sure
  PROVE  Phase(m, P, Last(m, w, b), w, n0, keep, Down(b, 1) .. b - 1, sure)
  <1>. DEFINE i == Down(b, 1)
  <1>1. i = Floor(b, BP_WIDTH)
    BY WidthFacts DEF Down
  <1>2. i \in Nat /\ i <= b
    BY DownIs
  <1>3. Last(m, w, b) = IF b > i THEN CopyElements(m, w, i, b) ELSE m
    BY <1>1 DEF Last
  <1>. HIDE DEF i
  <1>4. CASE b > i
    <2>1. \E P2 : Spliced(m, P, CopyElements(m, w, i, b), P2, w, n0, keep, i .. b - 1, sure)
      BY <1>2, ElementsIs
    <2>. QED
      BY <1>3, <1>4, <2>1 DEF Phase, i
  <1>5. CASE ~(b > i)
    <2>1. i .. b - 1 = {}
      BY <1>2, <1>5
    <2>2. Spliced(m, P, m, P, w, n0, keep, {}, sure)
      BY SplicedRefl
    <2>. QED
      BY <1>3, <1>5, <2>1, <2>2 DEF Phase, i
  <1>. QED
    BY <1>4, <1>5

(* A range within a leaf's width. *)
LEMMA ShortIs ==
  ASSUME NEW m, NEW P, NEW w, NEW n0, NEW keep, Lends(m, P, w, n0, keep),
         NEW a \in Nat, NEW b \in Nat, a <= b, b <= m.v.sz, NEW sure
  PROVE  Phase(m, P, Short(m, w, a, b), w, n0, keep, a .. b - 1, sure)
  <1>. DEFINE z == Up(a, 1)
              y == IF z < b THEN z ELSE b
              c == CopyElements(m, w, a, y)
              r == CopyElements(c, w, y, b)
  <1>1. z = next_multiple(a, BP_WIDTH)
    BY WidthFacts DEF Up
  <1>2. z \in Nat /\ a <= z
    BY UpIs DEF LeastOver
  <1>3. Short(m, w, a, b) = r
    BY <1>1 DEF Short
  <1>4. m.v.sz \in Nat
    BY LendsFacts
  <1>. HIDE DEF z
  <1>5. y \in Nat /\ a <= y /\ y <= b /\ y <= m.v.sz
    BY <1>2, <1>4
  <1>. HIDE DEF y
  <1>6. PICK P1 : Spliced(m, P, c, P1, w, n0, keep, a .. y - 1, sure)
    BY <1>5, ElementsIs
  <1>. HIDE DEF c
  <1>7. Lends(c, P1, w, n0, keep) /\ c.v.sz = m.v.sz
    BY <1>6, SplicedLends
  <1>8. Phase(c, P1, r, w, n0, keep, y .. b - 1, sure)
    <2>1. b <= c.v.sz
      BY <1>7
    <2>2. \E P2 : Spliced(c, P1, r, P2, w, n0, keep, y .. b - 1, sure)
      BY <1>5, <1>7, <2>1, ElementsIs
    <2>. QED
      BY <2>2 DEF Phase
  <1>9. a .. b - 1 = (a .. y - 1) \cup (y .. b - 1)
    BY <1>5
  <1>. HIDE DEF r
  <1>10. Phase(m, P, r, w, n0, keep, a .. b - 1, sure)
    BY <1>6, <1>8, <1>9, PhaseThen
  <1>. QED
    BY <1>3, <1>10

\* the range of an assignment
Ranged(m, a, b, D, sure) ==
  /\ a \in Nat /\ b \in Nat /\ a <= b /\ b <= m.v.sz
  /\ Parting(m.v, a, b, D) /\ (sure => Clear(m.v, a, b))

(* The bounds of the phases lie in the range. *)
LEMMA RangedIs ==
  ASSUME NEW m, NEW P, NEW w, NEW n0, NEW keep, Lends(m, P, w, n0, keep),
         NEW a, NEW b, NEW D, NEW sure, Ranged(m, a, b, D, sure)
  PROVE  /\ D \in Nat /\ D >= 1 /\ D - 1 <= Lv(m.v) /\ m.v.sz \in Nat /\ Lv(m.v) \in Nat
         /\ a <= Up(a, 1) /\ Up(a, D) <= Down(b, D) /\ Down(b, 1) <= b
         /\ \A k \in 1 .. D : /\ Up(a, k) \in Nat /\ Down(b, k) \in Nat
                              /\ Up(a, 1) <= Up(a, k) /\ Up(a, k) <= Up(a, D)
                              /\ Up(a, k) <= b /\ Up(a, k) <= m.v.sz
                              /\ Down(b, k) <= Down(b, 1) /\ Down(b, D) <= Down(b, k)
                              /\ Down(b, k) <= b /\ Down(b, k) <= m.v.sz
  <1>1. /\ a \in Nat /\ b \in Nat /\ a <= b /\ b <= m.v.sz /\ D \in 1 .. Lv(m.v) + 1
        /\ Blk(a, D) < Blk(b, D)
    BY DEF Ranged, Parting
  <1>2. m.v.sz \in Nat /\ Lv(m.v) \in Nat
    BY LendsFacts
  <1>3. D \in Nat /\ D >= 1 /\ D - 1 <= Lv(m.v) /\ 1 \in Nat
    BY <1>1, <1>2
  <1>4. Up(a, D) <= Down(b, D)
    BY <1>1, <1>3, UpDown
  <1>5. a <= Up(a, 1) /\ Down(b, 1) <= b /\ Up(a, D) \in Nat
    <2>1. LeastOver(Up(a, 1), a, 1) /\ LeastOver(Up(a, D), a, D)
      BY <1>1, <1>3, UpIs
    <2>. QED
      BY <1>1, <1>3, <2>1, DownIs DEF LeastOver
  <1>6. ASSUME NEW k \in 1 .. D
        PROVE  /\ Up(a, k) \in Nat /\ Down(b, k) \in Nat
               /\ Up(a, 1) <= Up(a, k) /\ Up(a, k) <= Up(a, D)
               /\ Up(a, k) <= b /\ Up(a, k) <= m.v.sz
               /\ Down(b, k) <= Down(b, 1) /\ Down(b, D) <= Down(b, k)
               /\ Down(b, k) <= b /\ Down(b, k) <= m.v.sz
    <2>1. k \in Nat /\ 1 <= k /\ k <= D
      BY <1>3
    <2>2. Up(a, 1) <= Up(a, k) /\ Up(a, k) <= Up(a, D)
      BY <1>1, <1>3, <2>1, UpMono
    <2>3. Down(b, k) <= Down(b, 1) /\ Down(b, D) <= Down(b, k)
      BY <1>1, <1>3, <2>1, DownMono
    <2>4. Down(b, k) \in Nat /\ Down(b, k) <= b /\ Down(b, D) \in Nat /\ Down(b, D) <= b
      BY <1>1, <1>3, <2>1, DownIs
    <2>5. Up(a, k) \in Nat
      <3>1. LeastOver(Up(a, k), a, k)
        BY <1>1, <2>1, UpIs
      <3>. QED
        BY <3>1 DEF LeastOver
    <2>6. Up(a, k) <= b
      <3>. DEFINE x == Up(a, k)
                  y == Up(a, D)
                  z == Down(b, D)
      <3>1. x \in Nat /\ y \in Nat /\ z \in Nat /\ x <= y /\ y <= z /\ z <= b
        BY <1>4, <1>5, <2>2, <2>4, <2>5
      <3>. HIDE DEF x, y, z
      <3>2. x <= b
        BY <1>1, <3>1
      <3>. QED
        BY <3>2 DEF x
    <2>7. Up(a, k) <= m.v.sz /\ Down(b, k) <= m.v.sz
      <3>. DEFINE x == Up(a, k)
                  z == Down(b, k)
      <3>1. x \in Nat /\ z \in Nat /\ x <= b /\ z <= b
        BY <2>4, <2>5, <2>6
      <3>. HIDE DEF x, z
      <3>2. x <= m.v.sz /\ z <= m.v.sz
        BY <1>1, <1>2, <3>1
      <3>. QED
        BY <3>2 DEF x, z
    <2>. QED
      BY <2>2, <2>3, <2>4, <2>5, <2>6, <2>7
  <1>. QED
    BY <1>2, <1>3, <1>4, <1>5, <1>6

(* Phase 3: the subtrees of one node. *)
LEMMA AcrossIs ==
  ASSUME NEW m, NEW P, NEW w, NEW n0, NEW keep, Lends(m, P, w, n0, keep),
         NEW a, NEW b, NEW D, NEW sure, Ranged(m, a, b, D, sure)
  PROVE  Phase(m, P, Across(m, w, a, b, D), w, n0, keep, Up(a, D) .. Down(b, D) - 1, sure)
  <1>. DEFINE i == Up(a, D)
              z == Down(b, D)
              off(x) == LET g == Digit(x, D * BP_BITS)
                        IN  IF g = 0 /\ x = m.v.sz THEN BP_WIDTH ELSE g
              L1 == calc_depth(m.v)
              d == L1 - D
  <1>1. /\ D \in Nat /\ D >= 1 /\ D - 1 <= Lv(m.v) /\ m.v.sz \in Nat /\ Lv(m.v) \in Nat
        /\ i <= z
        /\ i \in Nat /\ z \in Nat /\ z <= b /\ z <= m.v.sz
    <2>1. D \in Nat /\ D >= 1 /\ D \in 1 .. D
      BY RangedIs
    <2>. QED
      BY <2>1, RangedIs
  <1>2. a \in Nat /\ b \in Nat /\ b <= m.v.sz
        /\ (b \in Room(m.v) => D <= Lv(m.v) /\ Blk(a, D + 1) = Blk(b, D + 1))
        /\ (sure /\ b \notin Room(m.v) => D = Lv(m.v) /\ D >= 1 /\ b = Width(D + 1))
    BY DEF Ranged, Parting, Clear
  <1>3. Across(m, w, a, b, D) =
          IF i = z THEN m ELSE CopyBranches(m, w, d, i, z, off(i), off(z))
    BY DEF Across, Up, Down
  <1>4. d = Lv(m.v) + 1 - D
    <2>1. m.v \in Vector
      BY LendsFacts
    <2>2. L1 = Lv(m.v) + 1
      BY <2>1, Levels
    <2>. HIDE DEF L1, off, i, z
    <2>. QED
      BY <1>1, <2>2
  <1>5. i = Up(a, D) /\ z = Down(b, D)
    OBVIOUS
  <1>. HIDE DEF i, z, d
  <1>6. CASE i = z
    <2>1. i .. z - 1 = {}
      BY <1>1, <1>6
    <2>2. Spliced(m, P, m, P, w, n0, keep, {}, sure)
      BY SplicedRefl
    <2>. QED
      BY <1>3, <1>6, <2>1, <2>2 DEF Phase, i, z
  <1>7. CASE i # z
    <2>1. i < z /\ i < m.v.sz
      BY <1>1, <1>7
    <2>2. i \in Room(m.v) /\ Room(m.v) \subseteq Nat
      <3>1. i \in 0 .. m.v.sz - 1
        BY <1>1, <2>1
      <3>. QED
        BY <3>1, LendsFacts
    <2>3. CASE b \in Room(m.v)
      <3>. DEFINE from == Digit(i, D * BP_BITS)
                  to == Digit(z, D * BP_BITS)
      <3>1. to # 0 /\ Blk(z, D + 1) = Blk(i, D + 1) /\ Spans(i, D, from, to, z)
        BY <1>1, <1>2, <1>5, <2>1, <2>3, SpanAcross
      <3>2. off(i) = from /\ off(z) = to
        BY <1>1, <2>1, <3>1
      <3>. HIDE DEF from, to, off
      <3>3. z \in Room(m.v)
        <4>1. m.v \in Vector
          BY LendsFacts
        <4>2. b < Width(Lv(m.v) + 1)
          BY <1>2, <2>3, <4>1, RoomFacts
        <4>3. Width(Lv(m.v) + 1) \in Nat
          <5>1. Lv(m.v) + 1 \in Nat
            BY <1>1
          <5>. QED
            BY <5>1, WidthFacts
        <4>4. z < Width(Lv(m.v) + 1)
          BY <1>1, <1>2, <4>2, <4>3
        <4>. QED
          BY <1>1, <4>1, <4>4, RoomFacts
      <3>4. D \in 1 .. Lv(m.v)
        BY <1>1, <1>2, <2>3
      <3>5. \E P2 : Spliced(m, P, CopyBranches(m, w, d, i, z, from, to), P2, w, n0, keep,
                            i .. z - 1, sure)
        BY <1>1, <1>4, <2>1, <3>1, <3>3, <3>4, RunIs
      <3>6. Phase(m, P, CopyBranches(m, w, d, i, z, from, to), w, n0, keep, i .. z - 1, sure)
        BY <3>5 DEF Phase
      <3>7. Across(m, w, a, b, D) = CopyBranches(m, w, d, i, z, from, to)
        BY <1>3, <1>7, <3>2
      <3>. QED
        BY <1>5, <3>6, <3>7
    <2>4. CASE sure /\ b \notin Room(m.v)
      <3>. DEFINE from == Digit(i, D * BP_BITS)
                  j == z - 1
      <3>1. D = Lv(m.v) /\ b = Width(D + 1)
        BY <1>2, <2>4
      <3>2. z = b /\ z = m.v.sz /\ Digit(z, D * BP_BITS) = 0
        <4>1. m.v.sz <= Width(Lv(m.v) + 1)
          BY LendsFacts DEF IsVec
        <4>2. m.v.sz <= b /\ b <= m.v.sz
          BY <1>2, <3>1, <4>1
        <4>3. b = m.v.sz
          BY <1>1, <1>2, <4>2
        <4>4. Down(b, D) = b /\ Digit(b, D * BP_BITS) = 0
          BY <1>1, <3>1, EndIs
        <4>. QED
          BY <1>5, <4>3, <4>4
      <3>3. off(i) = from /\ off(z) = BP_WIDTH
        BY <1>1, <2>1, <3>2
      <3>4. i \in Nat /\ j \in Nat /\ j < z /\ j \in Room(m.v) /\ i \in Room(m.v)
        <4>1. j \in 0 .. m.v.sz - 1
          BY <1>1, <2>1, <3>2
        <4>2. j \in Room(m.v)
          BY <4>1, LendsFacts
        <4>. QED
          BY <1>1, <2>1, <2>2, <4>1, <4>2
      <3>5. Blk(i, D + 1) = 0 /\ Blk(j, D + 1) = 0
        <4>1. m.v \in Vector
          BY LendsFacts
        <4>. QED
          BY <3>1, <3>4, <4>1, RoomFacts
      <3>6. Spans(i, D, from, BP_WIDTH, z)
        <4>1. PICK c \in Nat : i = Width(D) * c /\ Begins(i, D, c)
          <5>1. LeastOver(i, a, D)
            BY <1>1, <1>2, <1>5, UpIs
          <5>. QED
            BY <5>1 DEF LeastOver
        <4>2. Blk(i, D) = c
          BY <4>1 DEF Begins
        <4>3. /\ c = BP_WIDTH * Blk(i, D + 1) + (c % BP_WIDTH) /\ c % BP_WIDTH \in Slot
              /\ from = c % BP_WIDTH
          BY <1>1, <4>2, Blocks
        <4>. HIDE DEF from
        <4>4. BP_WIDTH \in Nat /\ from \in Nat /\ from <= BP_WIDTH /\ c = from
          BY <3>5, <4>3, WidthFacts DEF Slot
        <4>. DEFINE len == BP_WIDTH - from
        <4>5. len \in Nat /\ BP_WIDTH = from + len /\ c + len = BP_WIDTH
          BY <4>4
        <4>. HIDE DEF len
        <4>6. z = Width(D) * (c + len)
          <5>1. Width(D + 1) = BP_WIDTH * Width(D) /\ Width(D) \in Nat
            BY <1>1, WidthFacts
          <5>. QED
            BY <3>1, <3>2, <4>4, <4>5, <5>1
        <4>. QED
          BY <1>1, <4>1, <4>3, <4>4, <4>5, <4>6, SpansIs
      <3>7. CopyBranches(m, w, d, i, z, from, BP_WIDTH) = CopyBranches(m, w, d, i, j, from, BP_WIDTH)
        <4>. DEFINE x == [m EXCEPT !.v = w]
        <4>1. d = 1
          BY <1>1, <1>4, <3>1
        <4>2. /\ x.h = m.h /\ x.v = w /\ w \in Vector /\ m.h \in Seq(Node) /\ Lv(w) \in Nat
              /\ IsVec(m.h, P, w)
          BY LendsFacts DEF Fits, Record
        <4>. HIDE DEF x
        <4>3. Walk(m.h, w, z, 0) = w.root /\ Walk(m.h, w, j, 0) = w.root
          <5>1. On(m.h, w, z, Lv(w)) = w.root /\ On(m.h, w, j, Lv(w)) = w.root
            BY <1>1, <3>4, <4>2, Path DEF IsVec
          <5>2. Lv(w) - Lv(w) = 0
            BY <4>2
          <5>. QED
            BY <5>1, <5>2 DEF On
        <4>4. get_branch(x, d, z) = get_branch(x, d, j)
          BY <4>1, <4>2, <4>3 DEF get_branch
        <4>. QED
          BY <4>4 DEF CopyBranches, x
      <3>. HIDE DEF from, off, j
      <3>8. D \in 1 .. Lv(m.v) /\ Blk(j, D + 1) = Blk(i, D + 1)
        BY <1>1, <3>1, <3>5
      <3>9. \E P2 : Spliced(m, P, CopyBranches(m, w, d, i, j, from, BP_WIDTH), P2, w, n0, keep,
                            i .. z - 1, sure)
        BY <1>1, <1>4, <2>1, <3>4, <3>6, <3>8, RunIs
      <3>10. Phase(m, P, CopyBranches(m, w, d, i, j, from, BP_WIDTH), w, n0, keep, i .. z - 1, sure)
        BY <3>9 DEF Phase
      <3>11. Across(m, w, a, b, D) = CopyBranches(m, w, d, i, j, from, BP_WIDTH)
        BY <1>3, <1>7, <3>3, <3>7
      <3>. QED
        BY <1>5, <3>10, <3>11
    <2>5. CASE ~sure
      <3>. DEFINE from == off(i)
                  to == off(z)
                  S == {x \in 0 .. m.v.sz - 1 : Under(i, D, from, to, x)}
      <3>1. from \in Int /\ to \in Int
        <4>1. BP_WIDTH \in Int
          BY WidthFacts
        <4>2. Digit(i, D * BP_BITS) = Blk(i, D) % BP_WIDTH /\ Blk(i, D) % BP_WIDTH \in Slot
              /\ Digit(z, D * BP_BITS) = Blk(z, D) % BP_WIDTH /\ Blk(z, D) % BP_WIDTH \in Slot
          BY <1>1, Blocks
        <4>3. Slot \subseteq Int
          BY <4>1 DEF Slot
        <4>. QED
          BY <4>1, <4>2, <4>3
      <3>2. Across(m, w, a, b, D) = CopyBranches(m, w, d, i, z, from, to)
        BY <1>3, <1>7
      <3>. HIDE DEF from, to, off
      <3>3. S = {x \in 0 .. m.v.sz - 1 : Under(i, D, from, to, x)}
        OBVIOUS
      <3>. HIDE DEF S
      <3>4. D \in 1 .. Lv(m.v) + 1
        BY <1>1
      <3>5. sure => InReach(m, w, i, z, D, from, to)
        BY <2>5
      <3>6. PICK P2 : Spliced(m, P, CopyBranches(m, w, d, i, z, from, to), P2, w, n0, keep, S, sure)
        BY <1>4, <2>2, <3>1, <3>3, <3>4, <3>5, BranchesIs
      <3>7. Spliced(m, P, CopyBranches(m, w, d, i, z, from, to), P2, w, n0, keep, i .. z - 1, sure)
        BY <2>5, <3>6, SplicedSet
      <3>8. Phase(m, P, CopyBranches(m, w, d, i, z, from, to), w, n0, keep, i .. z - 1, sure)
        BY <3>7 DEF Phase
      <3>. QED
        BY <1>5, <3>2, <3>8
    <2>. QED
      BY <2>3, <2>4, <2>5
  <1>. QED
    BY <1>6, <1>7

\* one step of the second phase; L1 is the depth of the trie
UpOne(c, w, a, k, L1) ==
  LET ai == next_multiple(a, Width(k))
      ar == next_multiple(ai, Width(k+1))
  IN  IF ai = ar THEN c
      ELSE CopyBranches(c, w, L1 - k, ai, ar - 1, Digit(ai, k * BP_BITS), BP_WIDTH)

\* one step of the fourth phase
DownOne(c, w, b, k, L1) ==
  LET bi == Floor(b, Width(k+1))
      br == Floor(b, Width(k))
      g == Digit(br, k * BP_BITS)
  IN  IF bi = br THEN c
      ELSE CopyBranches(c, w, L1 - k, bi, br - 1, Digit(bi, k * BP_BITS),
                        IF g = 0 THEN BP_WIDTH ELSE g)

(* One step of the second phase.                                           *)
LEMMA UpOneIs ==
  ASSUME NEW m, NEW P, NEW w, NEW n0, NEW keep, Lends(m, P, w, n0, keep),
         NEW a \in Nat, NEW k \in 1 .. Lv(m.v), Up(a, k + 1) <= m.v.sz, NEW sure,
         NEW L1, L1 = calc_depth(m.v)
  PROVE  Phase(m, P, UpOne(m, w, a, k, L1), w, n0, keep, Up(a, k) .. Up(a, k + 1) - 1, sure)
  <1>. DEFINE i == Up(a, k)
              z == Up(a, k + 1)
              d == L1 - k
              from == Digit(i, k * BP_BITS)
  <1>1. m.v.sz \in Nat /\ Lv(m.v) \in Nat /\ m.v \in Vector
        /\ \A j \in 0 .. m.v.sz - 1 : j \in Room(m.v)
    BY LendsFacts
  <1>2. k \in Nat /\ k + 1 \in Nat /\ k <= k + 1
    BY <1>1
  <1>3. i \in Nat /\ z \in Nat /\ i <= z
    <2>1. LeastOver(Up(a, k), a, k) /\ LeastOver(Up(a, k + 1), a, k + 1)
      BY <1>2, UpIs
    <2>2. Up(a, k) <= Up(a, k + 1)
      BY <1>2, UpMono
    <2>. QED
      BY <2>1, <2>2 DEF LeastOver
  <1>4. UpOne(m, w, a, k, L1) =
          IF i = z THEN m ELSE CopyBranches(m, w, d, i, z - 1, from, BP_WIDTH)
    <2>1. next_multiple(Up(a, k), Width(k + 1)) = Up(a, k + 1)
      BY <1>2, UpUp
    <2>2. next_multiple(next_multiple(a, Width(k)), Width(k + 1)) = z
      BY <2>1 DEF Up
    <2>. QED
      BY <2>2 DEF UpOne, Up
  <1>5. d = Lv(m.v) + 1 - k
    BY <1>1, Levels
  <1>6. i # z => Spans(i, k, from, BP_WIDTH, z)
    BY <1>2, SpanUp
  <1>7. z <= m.v.sz /\ i .. z - 1 = Up(a, k) .. Up(a, k + 1) - 1
    OBVIOUS
  <1>. HIDE DEF i, z, d, from
  <1>8. CASE i = z
    <2>1. i .. z - 1 = {}
      BY <1>3, <1>8
    <2>2. Spliced(m, P, m, P, w, n0, keep, {}, sure)
      BY SplicedRefl
    <2>. QED
      BY <1>4, <1>7, <1>8, <2>1, <2>2 DEF Phase
  <1>9. CASE i # z
    <2>. DEFINE j == z - 1
    <2>1. j \in Nat /\ i <= j /\ j < z /\ i < z /\ j \in 0 .. m.v.sz - 1
      BY <1>1, <1>3, <1>7, <1>9
    <2>2. UpOne(m, w, a, k, L1) = CopyBranches(m, w, d, i, j, from, BP_WIDTH)
      BY <1>4, <1>9
    <2>. HIDE DEF j
    <2>3. Under(i, k, from, BP_WIDTH, j)
      BY <1>6, <1>9, <2>1 DEF Spans
    <2>4. Blk(j, k + 1) = Blk(i, k + 1)
      BY <2>3 DEF Under
    <2>5. j \in Room(m.v)
      BY <1>1, <2>1
    <2>6. \E P2 : Spliced(m, P, CopyBranches(m, w, d, i, j, from, BP_WIDTH), P2, w, n0, keep,
                          i .. z - 1, sure)
      BY <1>3, <1>5, <1>6, <1>7, <1>9, <2>1, <2>4, <2>5, RunIs
    <2>. QED
      BY <1>7, <2>2, <2>6 DEF Phase
  <1>. QED
    BY <1>8, <1>9

(* One step of the fourth phase.                                           *)
LEMMA DownOneIs ==
  ASSUME NEW m, NEW P, NEW w, NEW n0, NEW keep, Lends(m, P, w, n0, keep),
         NEW b \in Nat, b <= m.v.sz, NEW k \in 1 .. Lv(m.v), NEW sure,
         NEW L1, L1 = calc_depth(m.v)
  PROVE  Phase(m, P, DownOne(m, w, b, k, L1), w, n0, keep, Down(b, k + 1) .. Down(b, k) - 1, sure)
  <1>. DEFINE i == Down(b, k + 1)
              z == Down(b, k)
              d == L1 - k
              from == Digit(i, k * BP_BITS)
              to == Digit(z, k * BP_BITS)
              till == IF to = 0 THEN BP_WIDTH ELSE to
  <1>1. m.v.sz \in Nat /\ Lv(m.v) \in Nat /\ m.v \in Vector
        /\ \A j \in 0 .. m.v.sz - 1 : j \in Room(m.v)
    BY LendsFacts
  <1>2. k \in Nat /\ k + 1 \in Nat /\ k <= k + 1
    BY <1>1
  <1>3. i \in Nat /\ z \in Nat /\ i <= z /\ z <= b
    <2>1. /\ Down(b, k) \in Nat /\ Down(b, k) <= b /\ Down(b, k + 1) \in Nat
      BY <1>2, DownIs
    <2>2. Down(b, k + 1) <= Down(b, k)
      BY <1>2, DownMono
    <2>. QED
      BY <2>1, <2>2
  <1>4. DownOne(m, w, b, k, L1) =
          IF i = z THEN m ELSE CopyBranches(m, w, d, i, z - 1, from, till)
    BY DEF DownOne, Down
  <1>5. d = Lv(m.v) + 1 - k
    BY <1>1, Levels
  <1>6. i # z => to # 0 /\ Spans(i, k, from, to, z)
    BY <1>2, SpanDown
  <1>7. i .. z - 1 = Down(b, k + 1) .. Down(b, k) - 1
    OBVIOUS
  <1>8. i # z => till = to
    BY <1>6
  <1>. HIDE DEF i, z, d, from, to, till
  <1>9. CASE i = z
    <2>1. i .. z - 1 = {}
      BY <1>3, <1>9
    <2>2. Spliced(m, P, m, P, w, n0, keep, {}, sure)
      BY SplicedRefl
    <2>. QED
      BY <1>4, <1>7, <1>9, <2>1, <2>2 DEF Phase
  <1>10. CASE i # z
    <2>. DEFINE j == z - 1
    <2>1. j \in Nat /\ i <= j /\ j < z /\ i < z /\ z <= m.v.sz /\ j \in 0 .. m.v.sz - 1
      BY <1>1, <1>3, <1>10
    <2>2. DownOne(m, w, b, k, L1) = CopyBranches(m, w, d, i, j, from, to)
      BY <1>4, <1>8, <1>10
    <2>. HIDE DEF j
    <2>3. Under(i, k, from, to, j)
      BY <1>6, <1>10, <2>1 DEF Spans
    <2>4. Blk(j, k + 1) = Blk(i, k + 1)
      BY <2>3 DEF Under
    <2>5. j \in Room(m.v)
      BY <1>1, <2>1
    <2>6. \E P2 : Spliced(m, P, CopyBranches(m, w, d, i, j, from, to), P2, w, n0, keep,
                          i .. z - 1, sure)
      BY <1>3, <1>5, <1>6, <1>10, <2>1, <2>4, <2>5, RunIs
    <2>. QED
      BY <1>7, <2>2, <2>6 DEF Phase
  <1>. QED
    BY <1>9, <1>10

(* Phase 2: ever larger subtrees. *)
LEMMA UpwardsIs ==
  ASSUME NEW m, NEW P, NEW w, NEW n0, NEW keep, Lends(m, P, w, n0, keep),
         NEW a, NEW b, NEW D, NEW sure, Ranged(m, a, b, D, sure)
  PROVE  Phase(m, P, Upwards(m, w, a, D), w, n0, keep, Up(a, 1) .. Up(a, D) - 1, sure)
  <1>. DEFINE n == D - 1
              L1 == calc_depth(m.v)
              S(k) == Up(a, 1) .. Up(a, k + 1) - 1
              Good(c, k) == c \in Record /\ Phase(m, P, c, w, n0, keep, S(k), sure)
              T == [k \in 0 .. n |-> {c \in Record : Good(c, k)}]
              g == [k \in 1 .. n |-> [c \in Record |-> UpOne(c, w, a, k, L1)]]
              StepOf(f, k) == IF k = 0 THEN m ELSE UpOne(f[k-1], w, a, k, L1)
              Defines(f) == f = [k \in 0 .. n |-> StepOf(f, k)]
              up == CHOOSE f : Defines(f)
  <1>1. /\ D \in Nat /\ D >= 1 /\ n \in Nat /\ n <= Lv(m.v) /\ a \in Nat
        /\ n + 1 = D /\ Lv(m.v) \in Nat
    <2>1. D \in Nat /\ D >= 1 /\ D - 1 <= Lv(m.v) /\ Lv(m.v) \in Nat
      BY RangedIs
    <2>2. a \in Nat
      BY DEF Ranged
    <2>. QED
      BY <2>1, <2>2
  <1>2. \A k \in 1 .. D : /\ Up(a, k) \in Nat /\ Up(a, 1) <= Up(a, k)
                          /\ Up(a, k) <= m.v.sz
    BY RangedIs
  <1>3. m \in Record
    BY LendsFacts DEF Fits
  <1>. HIDE DEF n, L1
  <1>4. Good(m, 0)
    <2>1. S(0) = {}
      <3>1. Up(a, 1) \in Nat
        BY <1>1, <1>2
      <3>. QED
        BY <3>1
    <2>2. Spliced(m, P, m, P, w, n0, keep, {}, sure)
      BY SplicedRefl
    <2>. QED
      BY <1>3, <2>1, <2>2 DEF Phase
  <1>5. ASSUME NEW k \in 1 .. n, NEW c, Good(c, k - 1)
        PROVE  Good(UpOne(c, w, a, k, L1), k)
    <2>. DEFINE r == UpOne(c, w, a, k, L1)
    <2>1. PICK P1 : Spliced(m, P, c, P1, w, n0, keep, S(k - 1), sure)
      BY <1>5 DEF Phase
    <2>. HIDE DEF S
    <2>2. /\ Lends(c, P1, w, n0, keep)
          /\ c.v.sz = m.v.sz /\ Lv(c.v) = Lv(m.v) /\ calc_depth(c.v) = calc_depth(m.v)
      BY <2>1, SplicedLends
    <2>3. k \in 1 .. Lv(c.v) /\ k \in 1 .. D /\ k + 1 \in 1 .. D /\ (k - 1) + 1 = k
      BY <1>1, <2>2
    <2>4. Up(a, k + 1) <= c.v.sz
      BY <1>2, <2>2, <2>3
    <2>5. L1 = calc_depth(c.v)
      BY <2>2 DEF L1
    <2>6. Phase(c, P1, r, w, n0, keep, Up(a, k) .. Up(a, k + 1) - 1, sure)
      BY <1>1, <2>2, <2>3, <2>4, <2>5, UpOneIs
    <2>7. S(k) = S(k - 1) \cup (Up(a, k) .. Up(a, k + 1) - 1)
      <3>. DEFINE x == Up(a, 1)
                  y == Up(a, k)
                  z == Up(a, k + 1)
      <3>1. x \in Nat /\ y \in Nat /\ z \in Nat /\ x <= y /\ y <= z
        <4>1. 1 \in 1 .. D
          BY <1>1
        <4>2. Up(a, k) <= Up(a, k + 1)
          <5>1. k \in Nat /\ k + 1 \in Nat /\ k <= k + 1
            BY <2>3
          <5>. QED
            BY <1>1, <5>1, UpMono
        <4>. QED
          BY <1>2, <2>3, <4>1, <4>2
      <3>2. S(k) = x .. z - 1 /\ S(k - 1) = x .. y - 1
        BY <2>3 DEF S
      <3>. HIDE DEF x, y, z
      <3>3. x .. z - 1 = (x .. y - 1) \cup (y .. z - 1)
        BY <3>1
      <3>. QED
        BY <3>2, <3>3 DEF y, z
    <2>. HIDE DEF r
    <2>8. Phase(m, P, r, w, n0, keep, S(k), sure)
      BY <2>1, <2>6, <2>7, PhaseThen
    <2>9. r \in Record
      <3>1. PICK P2 : Spliced(m, P, r, P2, w, n0, keep, S(k), sure)
        BY <2>8 DEF Phase
      <3>. QED
        BY <3>1, SplicedLends
    <2>10. Good(r, k)
      BY <2>8, <2>9
    <2>. QED
      BY <2>10 DEF r
  <1>. HIDE DEF Good
  <1>6. T \in [0 .. n -> SUBSET Record] /\ m \in T[0]
    BY <1>1, <1>3, <1>4
  <1>7. ASSUME NEW k \in 1 .. n, NEW c \in T[k - 1]
        PROVE  g[k][c] = UpOne(c, w, a, k, L1) /\ g[k][c] \in T[k]
    <2>1. k - 1 \in 0 .. n /\ k \in 0 .. n
      BY <1>1
    <2>2. c \in Record /\ Good(c, k - 1)
      BY <2>1
    <2>3. Good(UpOne(c, w, a, k, L1), k)
      BY <1>5, <2>2
    <2>4. UpOne(c, w, a, k, L1) \in Record
      BY <2>3 DEF Good
    <2>5. g[k][c] = UpOne(c, w, a, k, L1)
      BY <2>2
    <2>. QED
      BY <2>1, <2>3, <2>4, <2>5
  <1>8. PICK q : Course(q, n, Record, m, g, T)
    <2>1. \A k \in 1 .. n : \A c \in T[k - 1] : g[k][c] \in T[k]
      BY <1>7
    <2>. HIDE DEF T, g
    <2>. QED
      BY <1>1, <1>3, <1>6, <2>1, Courses
  <1>9. /\ q \in [0 .. n -> Record] /\ q[0] = m
        /\ \A k \in 1 .. n : q[k] = UpOne(q[k - 1], w, a, k, L1)
    <2>1. /\ q \in [0 .. n -> Record] /\ q[0] = m
          /\ \A k \in 1 .. n : q[k] = g[k][q[k - 1]]
          /\ \A k \in 0 .. n : q[k] \in T[k]
      BY <1>8 DEF Course
    <2>. HIDE DEF T, g
    <2>2. ASSUME NEW k \in 1 .. n
          PROVE  q[k] = UpOne(q[k - 1], w, a, k, L1)
      <3>1. k - 1 \in 0 .. n
        BY <1>1
      <3>2. q[k - 1] \in T[k - 1]
        BY <2>1, <3>1
      <3>. QED
        BY <1>7, <2>1, <3>2
    <2>. QED
      BY <2>1, <2>2
  <1>. HIDE DEF T, g
  <1>10. Defines(q)
    <2>1. \A k \in 0 .. n : q[k] = StepOf(q, k)
      <3>1. ASSUME NEW k \in 0 .. n
            PROVE  q[k] = StepOf(q, k)
        BY <1>1, <1>9
      <3>. QED
        BY <3>1
    <2>. HIDE DEF StepOf
    <2>. QED
      BY <1>9, <2>1
  <1>11. Defines(up)
    <2>. HIDE DEF Defines
    <2>. QED
      BY <1>10, Zenon
  <1>12. Upwards(m, w, a, D) = up[n]
    BY DEF Upwards, UpOne, n, L1
  <1>13. \A k \in 0 .. n : up[k] = StepOf(up, k)
    <2>. HIDE DEF StepOf, up
    <2>. QED
      BY <1>11
  <1>. HIDE DEF up, Defines
  <1>14. \A k \in 0 .. n : Good(up[k], k)
    <2>. DEFINE U == {k \in 0 .. n : Good(up[k], k)}
    <2>1. 0 \in U
      BY <1>1, <1>4, <1>13
    <2>2. ASSUME NEW k \in 1 .. n, k - 1 \in U
          PROVE  k \in U
      <3>1. Good(up[k - 1], k - 1)
        BY <2>2
      <3>2. up[k] = UpOne(up[k - 1], w, a, k, L1)
        BY <1>1, <1>13
      <3>3. Good(up[k], k)
        BY <1>5, <3>1, <3>2
      <3>. QED
        BY <1>1, <3>3
    <2>. HIDE DEF U
    <2>3. \A k \in 0 .. n : k \in U
      BY <1>1, <2>1, <2>2, Induct
    <2>. QED
      BY <2>3 DEF U
  <1>15. Phase(m, P, up[n], w, n0, keep, S(n), sure)
    BY <1>1, <1>14 DEF Good
  <1>16. S(n) = Up(a, 1) .. Up(a, D) - 1
    BY <1>1
  <1>. HIDE DEF S
  <1>. QED
    BY <1>12, <1>15, <1>16

(* Phase 4: ever smaller subtrees. *)
LEMMA DownwardsIs ==
  ASSUME NEW m, NEW P, NEW w, NEW n0, NEW keep, Lends(m, P, w, n0, keep),
         NEW a, NEW b, NEW D, NEW sure, Ranged(m, a, b, D, sure)
  PROVE  Phase(m, P, Downwards(m, w, b, D), w, n0, keep, Down(b, D) .. Down(b, 1) - 1, sure)
  <1>. DEFINE n == D - 1
              L1 == calc_depth(m.v)
              S(k) == Down(b, D) .. Down(b, k) - 1
              Good(c, k) == c \in Record /\ Phase(m, P, c, w, n0, keep, S(k), sure)
              T == [i \in 0 .. n |-> {c \in Record : Good(c, D - i)}]
              g == [i \in 1 .. n |-> [c \in Record |-> DownOne(c, w, b, D - i, L1)]]
              StepOf(f, k) == IF k = D THEN m ELSE DownOne(f[k+1], w, b, k, L1)
              Defines(f) == f = [k \in 1 .. D |-> StepOf(f, k)]
              down == CHOOSE f : Defines(f)
  <1>1. /\ D \in Nat /\ D >= 1 /\ n \in Nat /\ n <= Lv(m.v) /\ b \in Nat /\ b <= m.v.sz
        /\ n + 1 = D /\ D - 1 = n /\ Lv(m.v) \in Nat
    <2>1. D \in Nat /\ D >= 1 /\ D - 1 <= Lv(m.v) /\ Lv(m.v) \in Nat
      BY RangedIs
    <2>2. b \in Nat /\ b <= m.v.sz
      BY DEF Ranged
    <2>. QED
      BY <2>1, <2>2
  <1>2. \A k \in 1 .. D : Down(b, k) \in Nat /\ Down(b, D) <= Down(b, k)
    BY RangedIs
  <1>3. m \in Record
    BY LendsFacts DEF Fits
  <1>. HIDE DEF n, L1
  <1>4. Good(m, D)
    <2>1. S(D) = {}
      <3>1. Down(b, D) \in Nat
        BY <1>1, <1>2
      <3>. QED
        BY <3>1
    <2>2. Spliced(m, P, m, P, w, n0, keep, {}, sure)
      BY SplicedRefl
    <2>. QED
      BY <1>3, <2>1, <2>2 DEF Phase
  <1>5. ASSUME NEW k \in 1 .. n, NEW c, Good(c, k + 1)
        PROVE  Good(DownOne(c, w, b, k, L1), k)
    <2>. DEFINE r == DownOne(c, w, b, k, L1)
    <2>1. PICK P1 : Spliced(m, P, c, P1, w, n0, keep, S(k + 1), sure)
      BY <1>5 DEF Phase
    <2>. HIDE DEF S
    <2>2. /\ Lends(c, P1, w, n0, keep)
          /\ c.v.sz = m.v.sz /\ Lv(c.v) = Lv(m.v) /\ calc_depth(c.v) = calc_depth(m.v)
      BY <2>1, SplicedLends
    <2>3. k \in 1 .. Lv(c.v) /\ k \in 1 .. D /\ k + 1 \in 1 .. D
      BY <1>1, <2>2
    <2>4. b <= c.v.sz
      BY <1>1, <2>2
    <2>5. L1 = calc_depth(c.v)
      BY <2>2 DEF L1
    <2>6. Phase(c, P1, r, w, n0, keep, Down(b, k + 1) .. Down(b, k) - 1, sure)
      BY <1>1, <2>2, <2>3, <2>4, <2>5, DownOneIs
    <2>7. S(k) = S(k + 1) \cup (Down(b, k + 1) .. Down(b, k) - 1)
      <3>. DEFINE x == Down(b, D)
                  y == Down(b, k + 1)
                  z == Down(b, k)
      <3>1. x \in Nat /\ y \in Nat /\ z \in Nat /\ x <= y /\ y <= z
        <4>1. D \in 1 .. D
          BY <1>1
        <4>2. Down(b, k + 1) <= Down(b, k)
          <5>1. k \in Nat /\ k + 1 \in Nat /\ k <= k + 1
            BY <2>3
          <5>. QED
            BY <1>1, <5>1, DownMono
        <4>. QED
          BY <1>2, <2>3, <4>1, <4>2
      <3>2. S(k) = x .. z - 1 /\ S(k + 1) = x .. y - 1
        BY DEF S
      <3>. HIDE DEF x, y, z
      <3>3. x .. z - 1 = (x .. y - 1) \cup (y .. z - 1)
        BY <3>1
      <3>. QED
        BY <3>2, <3>3 DEF y, z
    <2>. HIDE DEF r
    <2>8. Phase(m, P, r, w, n0, keep, S(k), sure)
      BY <2>1, <2>6, <2>7, PhaseThen
    <2>9. r \in Record
      <3>1. PICK P2 : Spliced(m, P, r, P2, w, n0, keep, S(k), sure)
        BY <2>8 DEF Phase
      <3>. QED
        BY <3>1, SplicedLends
    <2>10. Good(r, k)
      BY <2>8, <2>9
    <2>. QED
      BY <2>10 DEF r
  <1>. HIDE DEF Good
  <1>6. T \in [0 .. n -> SUBSET Record] /\ m \in T[0]
    <2>1. D - 0 = D /\ 0 \in 0 .. n
      BY <1>1
    <2>. QED
      BY <1>3, <1>4, <2>1
  <1>7. ASSUME NEW i \in 1 .. n, NEW c \in T[i - 1]
        PROVE  g[i][c] = DownOne(c, w, b, D - i, L1) /\ g[i][c] \in T[i]
    <2>1. i - 1 \in 0 .. n /\ i \in 0 .. n /\ D - i \in 1 .. n /\ (D - i) + 1 = D - (i - 1)
      BY <1>1
    <2>2. c \in Record /\ Good(c, D - (i - 1))
      BY <2>1
    <2>3. Good(DownOne(c, w, b, D - i, L1), D - i)
      <3>. DEFINE k == D - i
      <3>1. k \in 1 .. n /\ Good(c, k + 1)
        BY <2>1, <2>2
      <3>. HIDE DEF k
      <3>2. Good(DownOne(c, w, b, k, L1), k)
        BY <1>5, <3>1
      <3>. QED
        BY <3>2 DEF k
    <2>4. DownOne(c, w, b, D - i, L1) \in Record
      BY <2>3 DEF Good
    <2>5. g[i][c] = DownOne(c, w, b, D - i, L1)
      BY <2>2
    <2>. QED
      BY <2>1, <2>3, <2>4, <2>5
  <1>8. PICK q : Course(q, n, Record, m, g, T)
    <2>1. \A i \in 1 .. n : \A c \in T[i - 1] : g[i][c] \in T[i]
      BY <1>7
    <2>. HIDE DEF T, g
    <2>. QED
      BY <1>1, <1>3, <1>6, <2>1, Courses
  <1>9. /\ q \in [0 .. n -> Record] /\ q[0] = m
        /\ \A i \in 1 .. n : q[i] = DownOne(q[i - 1], w, b, D - i, L1)
    <2>1. /\ q \in [0 .. n -> Record] /\ q[0] = m
          /\ \A i \in 1 .. n : q[i] = g[i][q[i - 1]]
          /\ \A i \in 0 .. n : q[i] \in T[i]
      BY <1>8 DEF Course
    <2>. HIDE DEF T, g
    <2>2. ASSUME NEW i \in 1 .. n
          PROVE  q[i] = DownOne(q[i - 1], w, b, D - i, L1)
      <3>1. i - 1 \in 0 .. n
        BY <1>1
      <3>2. q[i - 1] \in T[i - 1]
        BY <2>1, <3>1
      <3>. QED
        BY <1>7, <2>1, <3>2
    <2>. QED
      BY <2>1, <2>2
  <1>. HIDE DEF T, g
  <1>. DEFINE p == [k \in 1 .. D |-> q[D - k]]
  <1>10. Defines(p)
    <2>1. ASSUME NEW k \in 1 .. D
          PROVE  p[k] = StepOf(p, k)
      <3>1. CASE k = D
        <4>1. D - k = 0
          BY <1>1, <3>1
        <4>. QED
          BY <1>9, <3>1, <4>1
      <3>2. CASE k # D
        <4>. DEFINE i == D - k
        <4>1. i \in 1 .. n /\ i - 1 = D - (k + 1) /\ D - i = k /\ k + 1 \in 1 .. D
          BY <1>1, <3>2
        <4>2. p[k] = q[i] /\ p[k + 1] = q[i - 1]
          BY <4>1
        <4>. HIDE DEF i, p
        <4>3. q[i] = DownOne(q[i - 1], w, b, D - i, L1)
          BY <1>9, <4>1
        <4>4. q[i] = DownOne(p[k + 1], w, b, k, L1)
          BY <4>1, <4>2, <4>3
        <4>. QED
          BY <3>2, <4>2, <4>4
      <3>. QED
        BY <3>1, <3>2
    <2>2. \A k \in 1 .. D : p[k] = StepOf(p, k)
      BY <2>1
    <2>3. p = [k \in 1 .. D |-> p[k]]
      OBVIOUS
    <2>. HIDE DEF StepOf, p
    <2>. QED
      BY <2>2, <2>3
  <1>. HIDE DEF p
  <1>11. Defines(down)
    <2>. HIDE DEF Defines
    <2>. QED
      BY <1>10, Zenon
  <1>12. Downwards(m, w, b, D) = down[1]
    BY DEF Downwards, DownOne, L1
  <1>13. \A k \in 1 .. D : down[k] = StepOf(down, k)
    <2>. HIDE DEF StepOf, down
    <2>. QED
      BY <1>11
  <1>. HIDE DEF down, Defines
  <1>14. \A i \in 0 .. n : Good(down[D - i], D - i)
    <2>. DEFINE U == {i \in 0 .. n : Good(down[D - i], D - i)}
    <2>1. 0 \in U
      <3>1. D - 0 = D /\ D \in 1 .. D /\ 0 \in 0 .. n
        BY <1>1
      <3>2. down[D] = m
        BY <1>13, <3>1
      <3>. QED
        BY <1>4, <3>1, <3>2
    <2>2. ASSUME NEW i \in 1 .. n, i - 1 \in U
          PROVE  i \in U
      <3>. DEFINE k == D - i
      <3>1. k \in 1 .. n /\ k \in 1 .. D /\ k # D /\ k + 1 = D - (i - 1) /\ i \in 0 .. n
        BY <1>1
      <3>2. Good(down[D - (i - 1)], D - (i - 1))
        BY <2>2
      <3>. HIDE DEF k
      <3>3. Good(down[k + 1], k + 1)
        BY <3>1, <3>2
      <3>4. down[k] = DownOne(down[k + 1], w, b, k, L1)
        BY <1>13, <3>1
      <3>5. Good(down[k], k)
        BY <1>5, <3>1, <3>3, <3>4
      <3>. QED
        BY <3>1, <3>5 DEF k
    <2>. HIDE DEF U
    <2>3. \A i \in 0 .. n : i \in U
      BY <1>1, <2>1, <2>2, Induct
    <2>. QED
      BY <2>3 DEF U
  <1>15. Good(down[1], 1)
    <2>1. n \in 0 .. n /\ D - n = 1
      BY <1>1
    <2>. QED
      BY <1>14, <2>1
  <1>16. Phase(m, P, down[1], w, n0, keep, S(1), sure)
    BY <1>15 DEF Good
  <1>. QED
    BY <1>12, <1>16

(* A phase leaves the range where it is.                                   *)
LEMMA RangedNext ==
  ASSUME NEW m, NEW P, NEW w, NEW n0, NEW keep, Lends(m, P, w, n0, keep),
         NEW a, NEW b, NEW D, NEW sure, Ranged(m, a, b, D, sure),
         NEW r, NEW P2, NEW S, Spliced(m, P, r, P2, w, n0, keep, S, sure)
  PROVE  Lends(r, P2, w, n0, keep) /\ Ranged(r, a, b, D, sure)
  <1>1. /\ Lends(r, P2, w, n0, keep) /\ r.v.sz = m.v.sz /\ Lv(r.v) = Lv(m.v)
        /\ Room(r.v) = Room(m.v)
    BY SplicedLends
  <1>2. Ranged(r, a, b, D, sure)
    BY <1>1 DEF Ranged, Parting, Clear
  <1>. QED
    BY <1>1, <1>2

(* The phases one after the other. *)
LEMMA PhasesIs ==
  ASSUME NEW m, NEW P, NEW w, NEW n0, NEW keep, Lends(m, P, w, n0, keep),
         NEW a, NEW b, NEW D, NEW sure, Ranged(m, a, b, D, sure)
  PROVE  Phase(m, P, Phases(m, w, a, b, D), w, n0, keep, a .. b - 1, sure)
  <1>. DEFINE i == Up(a, 1)
              j == Up(a, D)
              k == Down(b, D)
              l == Down(b, 1)
              m1 == First(m, w, a)
              m2 == Upwards(m1, w, a, D)
              m3 == Across(m2, w, a, b, D)
              m4 == Downwards(m3, w, b, D)
              m5 == Last(m4, w, b)
  <1>1. /\ i \in Nat /\ j \in Nat /\ k \in Nat /\ l \in Nat /\ a \in Nat /\ b \in Nat
        /\ a <= i /\ i <= j /\ j <= k /\ k <= l /\ l <= b
    <2>1. a \in Nat /\ b \in Nat
      BY DEF Ranged
    <2>2. D \in Nat /\ D >= 1 /\ a <= Up(a, 1) /\ Up(a, D) <= Down(b, D) /\ Down(b, 1) <= b
      BY RangedIs
    <2>3. 1 \in 1 .. D /\ D \in 1 .. D
      BY <2>2
    <2>. QED
      BY <2>1, <2>2, <2>3, RangedIs
  <1>2. PICK P1 : Spliced(m, P, m1, P1, w, n0, keep, a .. i - 1, sure)
    <2>1. a \in Nat /\ Up(a, 1) <= m.v.sz
      <3>1. D \in Nat /\ D >= 1
        BY RangedIs
      <3>2. 1 \in 1 .. D
        BY <3>1
      <3>. QED
        BY <1>1, <3>2, RangedIs
    <2>2. Phase(m, P, First(m, w, a), w, n0, keep, a .. Up(a, 1) - 1, sure)
      BY <2>1, FirstIs
    <2>. QED
      BY <2>2 DEF Phase
  <1>. HIDE DEF m1, i, j, k, l
  <1>3. Lends(m1, P1, w, n0, keep) /\ Ranged(m1, a, b, D, sure)
    BY <1>2, RangedNext
  <1>4. PICK P2 : Spliced(m1, P1, m2, P2, w, n0, keep, i .. j - 1, sure)
    <2>1. Phase(m1, P1, m2, w, n0, keep, Up(a, 1) .. Up(a, D) - 1, sure)
      BY <1>3, UpwardsIs
    <2>. QED
      BY <2>1 DEF Phase, i, j
  <1>. HIDE DEF m2
  <1>5. Lends(m2, P2, w, n0, keep) /\ Ranged(m2, a, b, D, sure)
    BY <1>3, <1>4, RangedNext
  <1>6. PICK P3 : Spliced(m2, P2, m3, P3, w, n0, keep, j .. k - 1, sure)
    <2>1. Phase(m2, P2, m3, w, n0, keep, Up(a, D) .. Down(b, D) - 1, sure)
      BY <1>5, AcrossIs
    <2>. QED
      BY <2>1 DEF Phase, j, k
  <1>. HIDE DEF m3
  <1>7. Lends(m3, P3, w, n0, keep) /\ Ranged(m3, a, b, D, sure)
    BY <1>5, <1>6, RangedNext
  <1>8. PICK P4 : Spliced(m3, P3, m4, P4, w, n0, keep, k .. l - 1, sure)
    <2>1. Phase(m3, P3, m4, w, n0, keep, Down(b, D) .. Down(b, 1) - 1, sure)
      BY <1>7, DownwardsIs
    <2>. QED
      BY <2>1 DEF Phase, k, l
  <1>. HIDE DEF m4
  <1>9. Lends(m4, P4, w, n0, keep) /\ Ranged(m4, a, b, D, sure)
    BY <1>7, <1>8, RangedNext
  <1>10. PICK P5 : Spliced(m4, P4, m5, P5, w, n0, keep, l .. b - 1, sure)
    <2>1. b \in Nat /\ b <= m4.v.sz
      BY <1>9 DEF Ranged
    <2>2. Phase(m4, P4, m5, w, n0, keep, Down(b, 1) .. b - 1, sure)
      BY <1>9, <2>1, LastIs
    <2>. QED
      BY <2>2 DEF Phase, l
  <1>. HIDE DEF m5
  <1>. DEFINE S1 == a .. i - 1
              S2 == i .. j - 1
              S3 == j .. k - 1
              S4 == k .. l - 1
              S5 == l .. b - 1
  <1>11. a .. b - 1 = (((S1 \cup S2) \cup S3) \cup S4) \cup S5
    BY <1>1
  <1>. HIDE DEF S1, S2, S3, S4, S5
  <1>12. Spliced(m, P, m2, P2, w, n0, keep, S1 \cup S2, sure)
    <2>1. Spliced(m, P, m1, P1, w, n0, keep, S1, sure)
          /\ Spliced(m1, P1, m2, P2, w, n0, keep, S2, sure)
      BY <1>2, <1>4 DEF S1, S2
    <2>. QED
      BY <2>1, SplicedTrans
  <1>13. Spliced(m, P, m3, P3, w, n0, keep, (S1 \cup S2) \cup S3, sure)
    <2>1. Spliced(m2, P2, m3, P3, w, n0, keep, S3, sure)
      BY <1>6 DEF S3
    <2>. QED
      BY <1>12, <2>1, SplicedTrans
  <1>14. Spliced(m, P, m4, P4, w, n0, keep, ((S1 \cup S2) \cup S3) \cup S4, sure)
    <2>1. Spliced(m3, P3, m4, P4, w, n0, keep, S4, sure)
      BY <1>8 DEF S4
    <2>. QED
      BY <1>13, <2>1, SplicedTrans
  <1>15. Spliced(m, P, m5, P5, w, n0, keep, (((S1 \cup S2) \cup S3) \cup S4) \cup S5, sure)
    <2>1. Spliced(m4, P4, m5, P5, w, n0, keep, S5, sure)
      BY <1>10 DEF S5
    <2>. QED
      BY <1>14, <2>1, SplicedTrans
  <1>16. Phases(m, w, a, b, D) = m5
    BY DEF Phases, m1, m2, m3, m4, m5
  <1>. QED
    BY <1>11, <1>15, <1>16 DEF Phase

(* assign takes over the elements of a range within a leaf's width, and of *)
(* one whose end is not that of the trie or parts from its start at the    *)
(* root.                                                                   *)
LEMMA AssignIs ==
  ASSUME NEW m, NEW P, NEW w, NEW n0, NEW keep, Lends(m, P, w, n0, keep),
         NEW a \in Nat, NEW b \in Nat, a < b, b <= m.v.sz,
         NEW sure, sure => b - a < BP_WIDTH \/ Clear(m.v, a, b)
  PROVE  Phase(m, P, assign(m, w, a, b), w, n0, keep, a .. b - 1, sure)
  <1>1. BP_WIDTH \in Nat /\ a <= b
    BY WidthFacts
  <1>2. CASE b - a < BP_WIDTH
    <2>1. Phase(m, P, Short(m, w, a, b), w, n0, keep, a .. b - 1, sure)
      BY <1>1, ShortIs
    <2>2. assign(m, w, a, b) = Short(m, w, a, b)
      BY <1>2 DEF assign
    <2>. QED
      BY <2>1, <2>2
  <1>3. CASE ~(b - a < BP_WIDTH)
    <2>. DEFINE D == contained_at_shift(m, a, b) \div BP_BITS + 1
    <2>1. assign(m, w, a, b) = Phases(m, w, a, b, D)
      BY <1>3 DEF assign
    <2>2. b - a >= BP_WIDTH
      BY <1>1, <1>3
    <2>3. Fits(m, P) /\ Full(m.h, m.v)
      BY LendsFacts
    <2>4. D = contained_at_shift(m, a, b) \div BP_BITS + 1
      OBVIOUS
    <2>. HIDE DEF D
    <2>5. Parting(m.v, a, b, D)
      BY <2>2, <2>3, <2>4, ContainedIs
    <2>6. Ranged(m, a, b, D, sure)
      BY <1>1, <1>3, <2>5 DEF Ranged
    <2>7. Phase(m, P, Phases(m, w, a, b, D), w, n0, keep, a .. b - 1, sure)
      BY <2>6, PhasesIs
    <2>. QED
      BY <2>1, <2>7
  <1>. QED
    BY <1>2, <1>3

=============================================================================
