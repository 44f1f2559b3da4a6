---------------------------- MODULE CommonProofs ----------------------------
(***************************************************************************)
(* What the proofs about partitions, vectors and clients have in common,   *)
(* for every size of a vector and every number of workers and operations:  *)
(*                                                                         *)
(*   - the least element of a set of numbers, which every induction over   *)
(*     numbers rests on;                                                   *)
(*   - the arithmetic of partitions and index maps: each index has one     *)
(*     owner, the bounds of a partition give what crosses it, the stencil  *)
(*     runs over its interior;                                             *)
(*   - what follows from the promises of the thread pool and the latch:    *)
(*     tasks come before their resolution, resolutions in issue order, and *)
(*     all of them before finish() returns.                                *)
(***************************************************************************)
EXTENDS Mapping, Executor, FiniteSetTheorems, TLAPS

USE HWCONCAssumption, MaxOpsAssumption

(* Every nonempty set of natural numbers has a least element.  This follows *)
(* from the well-foundedness of strict inclusion on finite sets, with      *)
(* 0 .. x - 1 in place of x.                                               *)
LEMMA LeastNumber ==
  ASSUME NEW T, T \subseteq Nat, T # {}
  PROVE  \E x \in T : \A y \in T : x <= y
  <1>. DEFINE R == StrictSubsetOrdering(Nat)
              F == FiniteSubsetsOf(Nat)
              U == {0 .. x - 1 : x \in T}
  <1>1. U \subseteq F
    <2>1. \A x \in T : 0 .. x - 1 \in F
      BY FS_Interval DEF FiniteSubsetsOf
    <2>. QED
      BY <2>1
  <1>2. PICK u \in U : \A v \in U : ~(<<v, u>> \in R)
    <2>1. U # {}
      OBVIOUS
    <2>2. IsWellFoundedOn(R, F)
      BY FS_StrictSubsetOrderingWellFounded
    <2>. HIDE DEF R, F, U
    <2>. QED
      BY <2>1, <2>2, <1>1, WFMin
  <1>3. PICK x \in T : u = 0 .. x - 1
    OBVIOUS
  <1>4. ASSUME NEW y \in T, ~(x <= y)
        PROVE  FALSE
    <2>1. y < x /\ x \in Nat /\ y \in Nat
      BY <1>4
    <2>2. 0 .. y - 1 \subseteq 0 .. x - 1 /\ 0 .. y - 1 # 0 .. x - 1
      <3>1. y \in 0 .. x - 1 /\ y \notin 0 .. y - 1
        BY <2>1
      <3>. QED
        BY <2>1, <3>1
    <2>3. 0 .. y - 1 \in U
      OBVIOUS
    <2>. QED
      BY <1>1, <1>2, <1>3, <2>2, <2>3 DEF StrictSubsetOrdering, FiniteSubsetsOf
  <1>. QED
    BY <1>4

(* Multiplication by a natural number is monotonic. *)
LEMMA MulMonotonic ==
  ASSUME NEW a \in Nat, NEW b \in Nat, NEW c \in Nat, a <= b
  PROVE  c * a <= c * b
  <1>1. c * (b - a) >= 0
    OBVIOUS
  <1>. QED
    BY <1>1

(* Division with remainder. *)
LEMMA DivMod ==
  ASSUME NEW a \in Nat, NEW n \in Nat \ {0}
  PROVE  /\ a \div n \in Nat
         /\ n * (a \div n) <= a
         /\ a < n * (a \div n) + n
  OBVIOUS

(* HWCONC chunks reach the end of the vector. *)
LEMMA ChunksReach ==
  ASSUME NEW n \in Nat \ {0}
  PROVE  /\ ChunkSz(n) \in Nat \ {0}
         /\ ChunkSz(n) * HWCONC >= n
  <1>. DEFINE d == n + HWCONC - 1
              c == d \div HWCONC
  <1>1. d \in Nat /\ d >= n
    OBVIOUS
  <1>2. c \in Nat /\ HWCONC * c <= d /\ d < HWCONC * c + HWCONC
    BY <1>1, DivMod
  <1>3. HWCONC * c >= n
    BY <1>2
  <1>4. c # 0
    BY <1>3
  <1>. QED
    BY <1>2, <1>3, <1>4 DEF ChunkSz

(* Index i belongs to worker i \div ChunkSz and to no other worker. *)
LEMMA OneOwner ==
  ASSUME NEW n \in Nat \ {0}, NEW i \in 0 .. n - 1
  PROVE  \E q \in Worker : /\ Owns(q, i, n)
                           /\ \A r \in Worker : Owns(r, i, n) => r = q
  <1>. DEFINE c == ChunkSz(n)
              q == i \div c
  <1>1. c \in Nat \ {0} /\ c * HWCONC >= n
    BY ChunksReach
  <1>. HIDE DEF c
  <1>2. q \in Nat /\ c * q <= i /\ i < c * q + c
    BY <1>1, DivMod
  <1>. HIDE DEF q
  <1>3. c * (q + 1) = c * q + c
    BY <1>1, <1>2
  <1>4. q < HWCONC
    <2>1. SUFFICES ASSUME q >= HWCONC
                   PROVE  FALSE
      BY <1>2
    <2>2. c * HWCONC <= c * q
      BY <2>1, <1>1, <1>2, MulMonotonic
    <2>. QED
      BY <2>2, <1>1, <1>2
  <1>5. q \in Worker
    BY <1>2, <1>4 DEF Worker
  <1>6. Owns(q, i, n)
    BY <1>1, <1>2, <1>3 DEF Owns, partition, Lesser, c
  <1>7. ASSUME NEW r \in Worker, Owns(r, i, n)
        PROVE  r = q
    <2>1. r \in Nat /\ c * r <= i /\ i < c * (r + 1)
      BY <1>7, <1>1 DEF Owns, partition, Lesser, Worker, c
    <2>2. ~(r < q)
      <3>1. SUFFICES ASSUME r + 1 <= q
                     PROVE  FALSE
        BY <2>1, <1>2
      <3>2. c * (r + 1) <= c * q
        BY <3>1, <2>1, <1>1, <1>2, MulMonotonic
      <3>. QED
        BY <3>2, <2>1, <1>1, <1>2
    <2>3. ~(q < r)
      <3>1. SUFFICES ASSUME q + 1 <= r
                     PROVE  FALSE
        BY <2>1, <1>2
      <3>2. c * (q + 1) <= c * r
        BY <3>1, <2>1, <1>1, <1>2, MulMonotonic
      <3>. QED
        BY <3>2, <2>1, <1>1, <1>2, <1>3
    <2>. QED
      BY <2>1, <2>2, <2>3, <1>2
  <1>. QED
    BY <1>5, <1>6, <1>7

(* safe_mapping clips the index that is read, and shifts the other with it. *)
LEMMA SafeMapping ==
  ASSUME NEW n \in Nat, NEW o \in Int, NEW i \in Int
  PROVE  /\ safe_mapping(offset(o), i, 0, n).dom \in Int
         /\ safe_mapping(offset(o), i, 0, n).ran = safe_mapping(offset(o), i, 0, n).dom - o
         /\ safe_mapping(offset(o), i, 0, n).dom =
              IF i + o < 0 THEN 0 ELSE IF i + o > n THEN n ELSE i + o
  <1>1. i - Apply(offset(o), i) = o
    BY DEF Apply, offset
  <1>. QED
    BY <1>1 DEF safe_mapping, Greater

(* The bounds of the worker that computes Apply(imap, c) give c. *)
LEMMA CrossingFound ==
  ASSUME NEW n \in Nat \ {0}, NEW o \in Int, NEW r \in Worker,
         NEW c \in 0 .. n - 1, ~Owns(r, c, n), Owns(r, c - o, n)
  PROVE  c \in Crossing(offset(o), r, n)
  <1>. DEFINE a == partition(r, n).a
              b == partition(r, n).b
              lo == safe_mapping(offset(o), a, 0, n)
              hi == safe_mapping(offset(o), b, 0, n)
  <1>1. a \in Nat /\ b \in Nat /\ b <= n
    <2>1. ChunkSz(n) \in Nat /\ r \in Nat
      BY ChunksReach DEF Worker
    <2>2. ChunkSz(n) * r \in Nat /\ ChunkSz(n) * (r + 1) \in Nat
      BY <2>1
    <2>. QED
      BY <2>2 DEF partition, Lesser
  <1>2. c - o >= a /\ c - o < b /\ (c < a \/ c >= b)
    BY <1>1 DEF Owns
  <1>3. Crossing(offset(o), r, n) = (lo.dom .. lo.ran - 1) \cup (hi.ran .. hi.dom - 1)
    BY DEF Crossing
  <1>. HIDE DEF a, b
  <1>4. /\ lo.dom \in Int /\ lo.ran = lo.dom - o
        /\ lo.dom = IF a + o < 0 THEN 0 ELSE IF a + o > n THEN n ELSE a + o
    <2>1. n \in Nat /\ a \in Int
      BY <1>1
    <2>. QED
      BY <2>1, SafeMapping, Zenon
  <1>5. /\ hi.dom \in Int /\ hi.ran = hi.dom - o
        /\ hi.dom = IF b + o < 0 THEN 0 ELSE IF b + o > n THEN n ELSE b + o
    <2>1. n \in Nat /\ b \in Int
      BY <1>1
    <2>. QED
      BY <2>1, SafeMapping, Zenon
  <1>. HIDE DEF lo, hi
  <1>6. CASE c < a
    <2>1. lo.dom <= c /\ c < lo.ran
      BY <1>1, <1>2, <1>4, <1>6
    <2>. QED
      BY <2>1, <1>4, <1>3
  <1>7. CASE c >= b
    <2>1. hi.ran <= c /\ c < hi.dom
      BY <1>1, <1>2, <1>5, <1>7
    <2>. QED
      BY <2>1, <1>5, <1>3
  <1>. QED
    BY <1>2, <1>6, <1>7

(* The largest and the smallest of three integers, chosen from their set. *)
LEMMA ThreeMost ==
  ASSUME NEW x \in Int, NEW y \in Int, NEW z \in Int, NEW m \in Int, NEW l \in Int,
         m \in {x, y, z}, x <= m, y <= m, z <= m,
         l \in {x, y, z}, l <= x, l <= y, l <= z
  PROVE  /\ (CHOOSE r \in {x, y, z} : \A s \in {x, y, z} : s <= r) = m
         /\ (CHOOSE r \in {x, y, z} : \A s \in {x, y, z} : r <= s) = l
  <1>. DEFINE S == {x, y, z}
  <1>1. \A r \in S : (\A s \in S : s <= r) <=> r = m
    OBVIOUS
  <1>2. \A r \in S : (\A s \in S : r <= s) <=> r = l
    OBVIOUS
  <1>3. m \in S /\ l \in S
    OBVIOUS
  <1>. HIDE DEF S
  <1>4. (CHOOSE r \in S : \A s \in S : s <= r) = m
    BY <1>1, <1>3
  <1>5. (CHOOSE r \in S : \A s \in S : r <= s) = l
    BY <1>2, <1>3
  <1>. QED
    BY <1>4, <1>5 DEF S

(* The bounds of a partition. *)
LEMMA PartitionBounds ==
  ASSUME NEW n \in Nat \ {0}, NEW q \in Worker
  PROVE  /\ partition(q, n).a \in Nat /\ partition(q, n).a = ChunkSz(n) * q
         /\ partition(q, n).b \in Nat /\ partition(q, n).b <= n
  <1>1. ChunkSz(n) \in Nat /\ q \in Nat
    BY ChunksReach DEF Worker
  <1>2. ChunkSz(n) * q \in Nat /\ ChunkSz(n) * (q + 1) \in Nat
    BY <1>1
  <1>. QED
    BY <1>2 DEF partition, Lesser

(***************************************************************************)
(* The range of the stencil is the partition without the first and the     *)
(* last index of the vector.                                               *)
(***************************************************************************)
LEMMA KernelRange ==
  ASSUME NEW n \in Nat \ {0}, NEW q \in Worker,
         partition(q, n).a < partition(q, n).b
  PROVE  /\ KernelLo(q, n) = IF partition(q, n).a = 0 THEN 1 ELSE partition(q, n).a
         /\ KernelHi(q, n) = IF partition(q, n).b = n THEN n - 1 ELSE partition(q, n).b
  <1>. DEFINE a == partition(q, n).a
              b == partition(q, n).b
              at(i, o) == safe_mapping(offset(o), i, 0, n).ran
  <1>1. a \in Nat /\ b \in Nat /\ b <= n /\ a < b
    BY PartitionBounds
  <1>. HIDE DEF a, b
  <1>2. ASSUME NEW i \in 0 .. n, NEW o \in -1 .. 1
        PROVE  at(i, o) = (IF i + o < 0 THEN 0 ELSE IF i + o > n THEN n ELSE i + o) - o
    <2>1. i \in Int /\ o \in Int
      OBVIOUS
    <2>2. /\ at(i, o) = safe_mapping(offset(o), i, 0, n).dom - o
          /\ safe_mapping(offset(o), i, 0, n).dom =
               IF i + o < 0 THEN 0 ELSE IF i + o > n THEN n ELSE i + o
      BY <2>1, SafeMapping, Zenon
    <2>. QED
      BY <2>2
  <1>. HIDE DEF at
  <1>3. KernelLo(q, n) = IF a = 0 THEN 1 ELSE a
    <2>1. {at(a, o) : o \in StencilOffs} = {at(a, -1), at(a, 0), at(a, 1)}
      BY DEF StencilOffs
    <2>2. at(a, 0) = a /\ at(a, 1) = a /\ at(a, -1) = IF a = 0 THEN 1 ELSE a
      BY <1>1, <1>2
    <2>3. KernelLo(q, n) = CHOOSE r \in {at(a, -1), at(a, 0), at(a, 1)} :
                             \A s \in {at(a, -1), at(a, 0), at(a, 1)} : s <= r
      BY <2>1 DEF KernelLo, a, at
    <2>4. KernelLo(q, n) = at(a, -1)
      BY <2>2, <2>3, <1>1, ThreeMost
    <2>. QED
      BY <2>2, <2>4
  <1>4. KernelHi(q, n) = IF b = n THEN n - 1 ELSE b
    <2>1. {at(b, o) : o \in StencilOffs} = {at(b, -1), at(b, 0), at(b, 1)}
      BY DEF StencilOffs
    <2>2. at(b, -1) = b /\ at(b, 0) = b /\ at(b, 1) = IF b = n THEN n - 1 ELSE b
      BY <1>1, <1>2
    <2>3. KernelHi(q, n) = CHOOSE r \in {at(b, -1), at(b, 0), at(b, 1)} :
                             \A s \in {at(b, -1), at(b, 0), at(b, 1)} : r <= s
      BY <2>1 DEF KernelHi, b, at
    <2>4. KernelHi(q, n) = at(b, 1)
      BY <2>2, <2>3, <1>1, ThreeMost
    <2>. QED
      BY <2>2, <2>4
  <1>. QED
    BY <1>3, <1>4 DEF a, b

(* No task and no finish() is ahead of what has been issued. *)
IssuedInv ==
  /\ finished <= issued
  /\ \A p \in Worker : finished <= tdone[p] /\ tdone[p] <= issued

(* A resolution follows all tasks of its operation and earlier resolutions. *)
OrderInv ==
  \A k \in Op : rruns[k] >= 1 =>
    /\ k <= issued
    /\ \A p \in Worker : tdone[p] >= k
    /\ \A j \in Op : j < k => rruns[j] >= 1

(* finish() returned after the resolutions, and none of them runs any more. *)
FinishedInv ==
  /\ \A k \in Op : k <= finished => rruns[k] >= 1
  /\ resolving # 0 => /\ finished < resolving
                      /\ rruns[resolving] >= 1
                      /\ \A j \in Op : j > resolving => rruns[j] = 0

ExecutorInv == ExecutorTypeOK /\ IssuedInv /\ OrderInv /\ FinishedInv

(* The invariant holds at first. *)
LEMMA ExecutorInitInv == ExecutorInit => ExecutorInv
  BY DEF ExecutorInit, ExecutorInv, ExecutorTypeOK, IssuedInv, OrderInv, FinishedInv, Op, Worker

(* Every step of the thread pool keeps it. *)
LEMMA ExecutorKept ==
  ASSUME ExecutorInv, [ExecutorNext]_executorVars
  PROVE  ExecutorInv'
  <1>. USE DEF ExecutorInv, ExecutorTypeOK, Op
  <1>1. CASE Issue
    BY <1>1 DEF Issue, IssuedInv, OrderInv, FinishedInv
  <1>2. ASSUME NEW p \in Worker, RunTask(p)
        PROVE  ExecutorInv'
    <2>1. /\ tdone' \in [Worker -> 0 .. MaxOps]
          /\ tdone'[p] = tdone[p] + 1 /\ tdone[p] < issued
          /\ \A q \in Worker : q # p => tdone'[q] = tdone[q]
          /\ UNCHANGED <<issued, rruns, resolving, finished>>
      BY <1>2 DEF RunTask
    <2>5. \A q \in Worker : /\ tdone[q] \in Nat /\ tdone'[q] \in Nat
                            /\ tdone[q] <= tdone'[q] /\ tdone'[q] <= issued
      <3>1. /\ tdone[p] \in Nat /\ tdone'[p] \in Nat
            /\ tdone[p] <= tdone'[p] /\ tdone'[p] <= issued
        BY <2>1
      <3>2. \A q \in Worker : tdone[q] \in Nat /\ tdone[q] <= issued
        BY DEF IssuedInv
      <3>. QED
        BY <2>1, <3>1, <3>2
    <2>2. IssuedInv'
      BY <2>1, <2>5 DEF IssuedInv
    <2>3. OrderInv'
      BY <2>1, <2>5 DEF OrderInv
    <2>4. FinishedInv'
      BY <2>1 DEF FinishedInv
    <2>. QED
      BY <2>1, <2>2, <2>3, <2>4
  <1>3. ASSUME NEW k \in Op, ResolveStart(k)
        PROVE  ExecutorInv'
    <2>1. /\ rruns' \in [Op -> 0 .. HWCONC]
          /\ rruns'[k] = rruns[k] + 1 /\ rruns'[k] >= 1
          /\ \A j \in Op : j # k => rruns'[j] = rruns[j]
          /\ resolving' = k
          /\ UNCHANGED <<issued, tdone, finished>>
      BY <1>3 DEF ResolveStart
    <2>2. IssuedInv'
      BY <2>1 DEF IssuedInv
    <2>3. OrderInv'
      BY <1>3, <2>1 DEF OrderInv, ResolveStart
    <2>4. FinishedInv'
      BY <1>3, <2>1 DEF FinishedInv, ResolveStart
    <2>. QED
      BY <2>1, <2>2, <2>3, <2>4
  <1>4. CASE ResolveEnd
    BY <1>4 DEF ResolveEnd, IssuedInv, OrderInv, FinishedInv
  <1>5. CASE FinishReturn
    BY <1>5 DEF FinishReturn, IssuedInv, OrderInv, FinishedInv
  <1>6. CASE UNCHANGED executorVars
    BY <1>6 DEF executorVars, IssuedInv, OrderInv, FinishedInv
  <1>. QED
    BY <1>1, <1>2, <1>3, <1>4, <1>5, <1>6 DEF ExecutorNext

(***************************************************************************)
(* The thread pool, as the vectors see it, keeps the order of tasks,       *)
(* resolutions and finish().                                               *)
(***************************************************************************)
THEOREM ExecutorOrdered == ExecutorSpec => []ExecutorInv
  BY ExecutorInitInv, ExecutorKept, PTL DEF ExecutorSpec

=============================================================================
