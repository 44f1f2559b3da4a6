--------------------------- MODULE ContVectorProofs ---------------------------
(***************************************************************************)
(* Vectors and their operations, for every client program, every size and  *)
(* every number of workers: contents keep their types, no stale value      *)
(* escapes a resolution, what finish() has settled stays.  And the main    *)
(* result for the stencils of cont_heat: if no partition is shorter than   *)
(* the chain of operations and resolutions run once, every vector ends up  *)
(* as a sequential program computes it.                                    *)
(***************************************************************************)
EXTENDS ContVector, CommonProofs

USE HWCONCAssumption, MaxOpsAssumption

LEMMA SumIsInt ==
  ASSUME NEW S, IsFiniteSet(S), NEW u, \A x \in S : u[x] \in Int
  PROVE  Total(u, S) \in Int
  <1>. DEFINE pick(s)    == CHOOSE x \in s : TRUE
              body(g, s) == IF s = {} THEN 0 ELSE u[pick(s)] + g[s \ {pick(s)}]
              D(n)       == {s \in SUBSET S : Cardinality(s) <= n}
              Good(n)    == \E g \in [D(n) -> Int] : \A s \in D(n) : g[s] = body(g, s)
              Bad        == {n \in Nat : ~Good(n)}
  <1>1. \A s \in SUBSET S : IsFiniteSet(s) /\ Cardinality(s) \in Nat
    BY FS_Subset, FS_CardinalityType
  <1>2. ASSUME NEW s \in SUBSET S, s # {}
        PROVE  /\ pick(s) \in s /\ u[pick(s)] \in Int
               /\ s \ {pick(s)} \in SUBSET S
               /\ Cardinality(s) > 0
               /\ Cardinality(s \ {pick(s)}) = Cardinality(s) - 1
    <2>1. pick(s) \in s
      BY <1>2
    <2>2. Cardinality(s \ {pick(s)}) = Cardinality(s) - 1
      BY <2>1, <1>1, FS_RemoveElement
    <2>3. Cardinality(s) # 0
      BY <1>1, <1>2, FS_EmptySet
    <2>. QED
      BY <1>1, <2>1, <2>2, <2>3
  <1>. HIDE DEF pick
  <1>3. Bad = {}
    <2>. SUFFICES ASSUME Bad # {}
                  PROVE  FALSE
      OBVIOUS
    <2>1. PICK n \in Bad : \A m \in Bad : n <= m
      <3>1. Bad \subseteq Nat
        OBVIOUS
      <3>. HIDE DEF Bad
      <3>. QED
        BY <3>1, LeastNumber
    <2>2. n # 0
      <3>1. D(0) = {{}}
        <4>1. {} \in D(0)
          BY FS_EmptySet
        <4>2. \A s \in D(0) : s = {}
          BY <1>1, FS_EmptySet
        <4>. QED
          BY <4>1, <4>2
      <3>2. [s \in D(0) |-> 0] \in [D(0) -> Int]
        OBVIOUS
      <3>3. \A s \in D(0) : [t \in D(0) |-> 0][s] = body([t \in D(0) |-> 0], s)
        BY <3>1
      <3>4. Good(0)
        BY <3>2, <3>3
      <3>. QED
        BY <3>4
    <2>3. Good(n - 1)
      <3>1. n - 1 \in Nat /\ ~(n <= n - 1)
        BY <2>1, <2>2
      <3>. QED
        BY <2>1, <3>1
    <2>4. PICK g \in [D(n - 1) -> Int] : \A s \in D(n - 1) : g[s] = body(g, s)
      BY <2>3
    <2>. DEFINE f == [s \in D(n) |-> IF s \in D(n - 1) THEN g[s]
                                     ELSE u[pick(s)] + g[s \ {pick(s)}]]
    <2>5. \A s \in D(n) : s # {} => s \ {pick(s)} \in D(n - 1)
      BY <1>1, <1>2, <2>1
    <2>6. {} \in D(n - 1)
      BY <2>1, <2>2, FS_EmptySet
    <2>7. D(n - 1) \subseteq D(n)
      BY <1>1, <2>1
    <2>8. f \in [D(n) -> Int]
      <3>. SUFFICES ASSUME NEW s \in D(n)
                    PROVE  (IF s \in D(n - 1) THEN g[s]
                            ELSE u[pick(s)] + g[s \ {pick(s)}]) \in Int
        OBVIOUS
      <3>1. CASE s \in D(n - 1)
        BY <3>1
      <3>2. CASE s \notin D(n - 1)
        <4>1. s # {} /\ s \in SUBSET S
          BY <3>2, <2>6
        <4>2. g[s \ {pick(s)}] \in Int /\ u[pick(s)] \in Int
          BY <4>1, <2>4, <2>5, <1>2
        <4>. QED
          BY <3>2, <4>2
      <3>. QED
        BY <3>1, <3>2
    <2>9. ASSUME NEW s \in D(n)
          PROVE  f[s] = body(f, s)
      <3>1. CASE s = {}
        BY <3>1, <2>4, <2>6
      <3>2. CASE s # {}
        <4>1. s \ {pick(s)} \in D(n - 1) /\ s \ {pick(s)} \in D(n)
          BY <3>2, <2>5, <2>7
        <4>2. f[s \ {pick(s)}] = g[s \ {pick(s)}]
          BY <4>1
        <4>3. f[s] = u[pick(s)] + g[s \ {pick(s)}]
          BY <3>2, <2>4
        <4>. QED
          BY <3>2, <4>2, <4>3
      <3>. QED
        BY <3>1, <3>2
    <2>10. Good(n)
      <3>. HIDE DEF f
      <3>. QED
        BY <2>8, <2>9
    <2>. QED
      BY <2>1, <2>10
  <1>4. \E g : g = [s \in SUBSET S |-> body(g, s)]
    <2>1. Good(Cardinality(S))
      BY <1>1, <1>3
    <2>2. D(Cardinality(S)) = SUBSET S
      BY FS_Subset
    <2>3. PICK g \in [SUBSET S -> Int] : \A s \in SUBSET S : g[s] = body(g, s)
      BY <2>1, <2>2
    <2>4. g = [s \in SUBSET S |-> body(g, s)]
      BY <2>3
    <2>. QED
      BY <2>4
  <1>. DEFINE iter == CHOOSE g : g = [s \in SUBSET S |-> body(g, s)]
  <1>5. iter = [s \in SUBSET S |-> body(iter, s)]
    <2>. HIDE DEF body
    <2>. QED
      BY <1>4, Zenon
  <1>6. \A s \in SUBSET S : iter[s] \in Int
    <2>. DEFINE N == {Cardinality(s) : s \in {t \in SUBSET S : iter[t] \notin Int}}
    <2>. HIDE DEF iter
    <2>. SUFFICES ASSUME N # {}
                  PROVE  FALSE
      OBVIOUS
    <2>1. PICK n \in N : \A m \in N : n <= m
      <3>1. N \subseteq Nat
        BY <1>1
      <3>. HIDE DEF N
      <3>. QED
        BY <3>1, LeastNumber
    <2>2. PICK s \in SUBSET S : iter[s] \notin Int /\ Cardinality(s) = n
      BY <2>1
    <2>3. iter[s] = body(iter, s)
      BY <1>5
    <2>4. s # {}
      BY <2>2, <2>3
    <2>5. iter[s \ {pick(s)}] \in Int
      BY <2>1, <2>2, <2>4, <1>1, <1>2
    <2>. QED
      BY <2>2, <2>3, <2>4, <2>5, <1>2
  <1>7. Total(u, S) = iter[S]
    BY DEF Total, FoldFunctionOnSet, MapThenFoldSet, pick
  <1>. QED
    BY <1>6, <1>7

-----------------------------------------------------------------------------
(* The vector is not empty. *)
LEMMA SizePos == Size \in Nat \ {0}
  <1>1. 0 \in Worker /\ Size \in Nat
    BY ContSizeAssumption DEF Worker
  <1>2. Size # 0
    <2>. SUFFICES ASSUME Size = 0
                  PROVE  FALSE
      OBVIOUS
    <2>1. partition(0, 0).a < partition(0, 0).b
      BY <1>1, ContSizeAssumption
    <2>2. ChunkSz(0) \in Int
      BY DEF ChunkSz
    <2>. QED
      BY <2>1, <2>2 DEF partition, Lesser
  <1>. QED
    BY <1>1, <1>2

(* The k-th operation of a program. *)
LEMMA Program ==
  ASSUME prog \in Programs, NEW k \in Op
  PROVE  /\ src(k) \in 0 .. k - 1 /\ src(k) \in Vector
         /\ kind(k) \in {"reduce", "foreach", "foreach_cvec", "stencil"}
         /\ src(k) # 0 => src(k) \in Op /\ kind(src(k)) # "reduce"
         /\ kind(k) = "foreach" => prog[k].val \in Int
         /\ kind(k) = "stencil" => prog[k].s \in Int
         /\ kind(k) = "foreach_cvec" =>
              /\ prog[k].other \in 0 .. k - 1 /\ prog[k].other \in Vector
              /\ prog[k].other # 0 => prog[k].other \in Op /\ kind(prog[k].other) # "reduce"
  <1>1. /\ prog[k] \in OpRec
        /\ prog[k].src < k
        /\ prog[k].src # 0 => prog[prog[k].src].kind # "reduce"
        /\ prog[k].kind = "foreach_cvec" =>
             /\ prog[k].other \in 0 .. k - 1
             /\ prog[k].other # 0 => prog[prog[k].other].kind # "reduce"
    BY ProgramsAssumption
  <1>2. /\ prog[k].src \in Nat
        /\ prog[k].kind \in {"reduce", "foreach", "foreach_cvec", "stencil"}
        /\ prog[k].kind = "foreach" => prog[k].val \in Int
        /\ prog[k].kind = "stencil" => prog[k].s \in Int
    BY <1>1 DEF OpRec
  <1>. QED
    BY <1>1, <1>2 DEF src, kind, Op, Vector

(* Its index maps: one to a single index, or offsets. *)
LEMMA Maps ==
  ASSUME prog \in Programs, NEW k \in Op
  PROVE  /\ is_monotonic(imaps(k)[1]) <=> kind(k) # "reduce"
         /\ kind(k) # "reduce" => \A i \in DOMAIN imaps(k) :
              i \in 1 .. 4 /\ \E o \in -1 .. 1 : imaps(k)[i] = offset(o)
         /\ kind(k) = "stencil" =>
              imaps(k) = <<offset(0), offset(-1), offset(0), offset(1)>>
  <1>1. CASE kind(k) = "reduce"
    BY <1>1 DEF imaps, is_monotonic, alltoone, Apply
  <1>2. CASE kind(k) = "stencil"
    <2>1. imaps(k) = <<offset(0), offset(-1), offset(0), offset(1)>>
      BY <1>2 DEF imaps, identity
    <2>2. is_monotonic(offset(0))
      BY DEF is_monotonic, offset, Apply
    <2>. QED
      BY <1>2, <2>1, <2>2
  <1>3. CASE kind(k) \notin {"reduce", "stencil"}
    <2>1. imaps(k) = <<offset(0)>>
      BY <1>3 DEF imaps, identity
    <2>2. is_monotonic(offset(0))
      BY DEF is_monotonic, offset, Apply
    <2>. QED
      BY <1>3, <2>1, <2>2
  <1>. QED
    BY <1>1, <1>2, <1>3

(* What crosses the bounds of the partitions are indices of the vector. *)
LEMMA CrossingInside ==
  ASSUME NEW o \in -1 .. 1
  PROVE  Icontended(offset(o), Size) \subseteq Index
  <1>. SUFFICES ASSUME NEW p \in Worker, NEW c \in Crossing(offset(o), p, Size)
                PROVE  c \in Index
    BY DEF Icontended
  <1>. DEFINE a == partition(p, Size).a
              b == partition(p, Size).b
              lo == safe_mapping(offset(o), a, 0, Size)
              hi == safe_mapping(offset(o), b, 0, Size)
  <1>1. Size \in Nat \ {0} /\ a \in Nat /\ b \in Nat /\ b <= Size /\ a < b
    BY SizePos, PartitionBounds, ContSizeAssumption
  <1>. HIDE DEF a, b
  <1>. o \in Int /\ Size \in Nat /\ a \in Int /\ b \in Int
    BY <1>1
  <1>2. /\ lo.ran = lo.dom - o
        /\ lo.dom = IF a + o < 0 THEN 0 ELSE IF a + o > Size THEN Size ELSE a + o
    BY SafeMapping, Zenon
  <1>3. /\ hi.ran = hi.dom - o
        /\ hi.dom = IF b + o < 0 THEN 0 ELSE IF b + o > Size THEN Size ELSE b + o
    BY SafeMapping, Zenon
  <1>. HIDE DEF lo, hi
  <1>4. c \in (lo.dom .. lo.ran - 1) \cup (hi.ran .. hi.dom - 1)
    BY DEF Crossing, lo, hi, a, b
  <1>. QED
    BY <1>1, <1>2, <1>3, <1>4 DEF Index

(* The worker that owns an index. *)
LEMMA OwnerOwns ==
  ASSUME NEW j \in Index
  PROVE  Owner(j) \in Worker /\ Owns(Owner(j), j, Size)
  BY SizePos, OneOwner DEF Owner, Index

(* The indices of a worker. *)
LEMMA ChunkIndices ==
  ASSUME NEW p \in Worker
  PROVE  /\ Chunk(p) \subseteq Index /\ IsFiniteSet(Chunk(p))
         /\ \A j \in Index : j \in Chunk(p) <=> Owns(p, j, Size)
  <1>1. /\ Size \in Nat
        /\ partition(p, Size).a \in Nat
        /\ partition(p, Size).b \in Nat /\ partition(p, Size).b <= Size
    BY SizePos, PartitionBounds
  <1>2. Chunk(p) = partition(p, Size).a .. partition(p, Size).b - 1
    BY DEF Chunk, Chunks
  <1>3. IsFiniteSet(Chunk(p))
    <2>1. partition(p, Size).a \in Int /\ partition(p, Size).b - 1 \in Int
      BY <1>1
    <2>. QED
      BY <1>2, <2>1, FS_Interval, Zenon
  <1>4. Chunk(p) \subseteq Index
    BY <1>1, <1>2 DEF Index
  <1>5. \A j \in Index : j \in Chunk(p) <=> Owns(p, j, Size)
    BY <1>1, <1>2 DEF Index, Owns
  <1>. QED
    BY <1>3, <1>4, <1>5

(* The stencil reads no index beyond the vector. *)
LEMMA RangeInside ==
  ASSUME NEW p \in Worker, NEW j \in Ranges[p], j \in Chunk(p)
  PROVE  j \in Index /\ j - 1 \in Index /\ j + 1 \in Index
  <1>1. /\ Size \in Nat \ {0}
        /\ partition(p, Size).a \in Nat
        /\ partition(p, Size).b \in Nat /\ partition(p, Size).b <= Size
        /\ partition(p, Size).a < partition(p, Size).b
    BY SizePos, PartitionBounds, ContSizeAssumption
  <1>2. j \in Index
    BY ChunkIndices
  <1>3. j \in KernelLo(p, Size) .. KernelHi(p, Size) - 1
    BY DEF Ranges
  <1>4. /\ KernelLo(p, Size) = IF partition(p, Size).a = 0 THEN 1 ELSE partition(p, Size).a
        /\ KernelHi(p, Size) = IF partition(p, Size).b = Size THEN Size - 1
                               ELSE partition(p, Size).b
    BY <1>1, KernelRange
  <1>. QED
    BY <1>1, <1>2, <1>3, <1>4 DEF Index
-----------------------------------------------------------------------------
(* Where the variables are defined. *)
Domains ==
  /\ DOMAIN data = Vector /\ DOMAIN orig = Vector /\ DOMAIN contended = Vector
  /\ DOMAIN used = Op /\ \A k \in Op : DOMAIN used[k] = Worker

(* A source of a reduce has been frozen. *)
OrigInv ==
  \A k \in Op : k <= issued /\ kind(k) = "reduce" => orig[src(k)] \in [Index -> Int]

(* Worker p has made its snapshot for operation k. *)
Started(k, p) == tdone[p] >= k \/ (detached[p] /\ tdone[p] = k - 1)

(* It has one from then on. *)
TaskInv ==
  /\ \A p \in Worker : detached[p] => tdone[p] < issued
  /\ \A k \in Op, p \in Worker : Started(k, p) => used[k][p] \in [Index -> Int]

(***************************************************************************)
(* A worker makes a snapshot after its own task of the source is over: an  *)
(* element of its partition has only changed since by the resolution of    *)
(* the source, which records it.                                           *)
(***************************************************************************)
StaleInv ==
  \A k \in Op, p \in Worker : Started(k, p) /\ kind(k) # "reduce" =>
    \A c \in Index : Owns(p, c, Size) /\ used[k][p][c] # data[src(k)][c] =>
                       c \in contended[src(k)]

IInv == ExecutorInv /\ TypeOK /\ Domains /\ OrigInv /\ TaskInv /\ StaleInv

(* Every step is one of the executor's, or none of its business. *)
LEMMA ExecutorStep ==
  ASSUME [Next]_vars
  PROVE  [ExecutorNext]_executorVars /\ prog' = prog
  BY DEF Next, vars, executorVars, ExecutorNext, IssueOp, Detach, Reattach, StartResolution,
         ResolveFrozen, ResolveImap, ResolveReduce, EndResolution, Finish

(* The contents of a vector that has been made. *)
LEMMA Made ==
  ASSUME TypeOK, NEW v \in Vector, v <= issued
  PROVE  /\ v > 0 /\ kind(v) = "reduce" => data[v] \in [{0} -> Int]
         /\ ~(v > 0 /\ kind(v) = "reduce") => data[v] \in [Index -> Int]
  BY DEF TypeOK, ExecutorTypeOK, Vector

(* The source of an operation that has been issued, or is the next. *)
LEMMA Source ==
  ASSUME TypeOK, NEW k \in Op, k <= issued + 1
  PROVE  /\ src(k) \in Vector /\ src(k) \in 0 .. k - 1 /\ data[src(k)] \in [Index -> Int]
         /\ kind(k) = "foreach_cvec" => data[prog[k].other] \in [Index -> Int]
  <1>1. prog \in Programs /\ issued \in 0 .. MaxOps
    BY DEF TypeOK, ExecutorTypeOK
  <1>2. ASSUME NEW v \in 0 .. k - 1, v # 0 => kind(v) # "reduce"
        PROVE  data[v] \in [Index -> Int]
    <2>1. v \in Vector /\ v <= issued
      BY <1>1, <1>2 DEF Op, Vector
    <2>. QED
      BY <1>2, <2>1, Made
  <1>. QED
    BY <1>1, <1>2, Program

(* What a task computes in its partition are integers. *)
LEMMA KernelTyped ==
  ASSUME TypeOK, NEW k \in Op, k <= issued, kind(k) # "reduce",
         NEW p \in Worker, NEW u \in [Index -> Int], NEW j \in Index, j \in Chunk(p)
  PROVE  KernelAt(k, p, u, j) \in Int
  <1>1. prog \in Programs
    BY DEF TypeOK
  <1>2. CASE kind(k) = "foreach"
    BY <1>1, <1>2, Program DEF KernelAt
  <1>3. CASE kind(k) = "foreach_cvec"
    <2>1. data[prog[k].other] \in [Index -> Int]
      <3>1. k <= issued + 1
        BY DEF TypeOK, ExecutorTypeOK, Op
      <3>. QED
        BY <1>3, <3>1, Source
    <2>2. KernelAt(k, p, u, j) = u[j] * data[prog[k].other][j]
      BY <1>3 DEF KernelAt
    <2>. QED
      BY <2>1, <2>2
  <1>4. CASE kind(k) = "stencil"
    <2>1. CASE j \in Ranges[p]
      <3>1. j - 1 \in Index /\ j + 1 \in Index
        BY <2>1, RangeInside
      <3>2. u[j] \in Int /\ u[j - 1] \in Int /\ u[j + 1] \in Int
        BY <3>1
      <3>3. KernelAt(k, p, u, j) = u[j] + Kernel * (u[j - 1] - 2 * u[j] + u[j + 1])
        BY <1>4, <2>1 DEF KernelAt
      <3>. QED
        BY <3>2, <3>3, KernelAssumption
    <2>2. CASE j \notin Ranges[p]
      BY <1>4, <2>2 DEF KernelAt
    <2>. QED
      BY <2>1, <2>2
  <1>. QED
    BY <1>1, <1>2, <1>3, <1>4, Program

(* The dependent of a reduce has one element. *)
LEMMA Increased ==
  ASSUME NEW f \in [{0} -> Int], NEW n \in Int
  PROVE  [f EXCEPT ![0] = @ + n] \in [{0} -> Int]
  <1>. DEFINE g == [f EXCEPT ![0] = @ + n]
  <1>1. DOMAIN f = {0} /\ f[0] \in Int
    OBVIOUS
  <1>2. g = [i \in {0} |-> f[0] + n]
    BY <1>1
  <1>. QED
    BY <1>1, <1>2

(* What a task leaves behind in the dependent. *)
LEMMA ReattachedTyped ==
  ASSUME IInv, NEW p \in Worker, detached[p]
  PROVE  LET k == tdone[p] + 1
         IN  /\ k \in Op /\ k <= issued
             /\ kind(k) = "reduce" => Reattached(k, p) \in [{0} -> Int]
             /\ kind(k) # "reduce" =>
                  /\ Reattached(k, p) \in [Index -> Int]
                  /\ \A j \in Index : ~Owns(p, j, Size) => Reattached(k, p)[j] = data[k][j]
  <1>. DEFINE k == tdone[p] + 1
  <1>1. TypeOK /\ k \in Op /\ k \in Vector /\ k <= issued /\ k > 0
    BY DEF IInv, TaskInv, TypeOK, ExecutorTypeOK, Op, Vector
  <1>2. used[k][p] \in [Index -> Int]
    <2>1. Started(k, p)
      BY DEF Started, IInv, TypeOK, ExecutorTypeOK
    <2>. QED
      BY <1>1, <2>1 DEF IInv, TaskInv
  <1>. HIDE DEF k
  <1>3. CASE kind(k) = "reduce"
    <2>1. data[k] \in [{0} -> Int]
      BY <1>1, <1>3, Made
    <2>2. Total(used[k][p], Chunk(p)) \in Int
      BY <1>2, ChunkIndices, SumIsInt
    <2>3. Reattached(k, p) =
            [data[k] EXCEPT ![0] = @ + Total(used[k][p], Chunk(p))]
      BY <1>3 DEF Reattached
    <2>4. Reattached(k, p) \in [{0} -> Int]
      BY <2>1, <2>2, <2>3, Increased
    <2>. QED
      BY <1>1, <1>3, <2>4 DEF k
  <1>4. CASE kind(k) # "reduce"
    <2>1. data[k] \in [Index -> Int]
      BY <1>1, <1>4, Made
    <2>2. \A j \in Index : j \in Chunk(p) => KernelAt(k, p, used[k][p], j) \in Int
      BY <1>1, <1>2, <1>4, KernelTyped
    <2>3. Reattached(k, p) = [j \in Index |-> IF j \in Chunk(p)
                                              THEN KernelAt(k, p, used[k][p], j)
                                              ELSE data[k][j]]
      BY <1>4 DEF Reattached
    <2>4. Reattached(k, p) \in [Index -> Int]
      BY <2>1, <2>2, <2>3
    <2>5. \A j \in Index : ~Owns(p, j, Size) => Reattached(k, p)[j] = data[k][j]
      BY <2>3, ChunkIndices
    <2>. QED
      BY <1>1, <1>4, <2>4, <2>5 DEF k
  <1>. QED
    BY <1>3, <1>4

(* A quotient of integers, as the model has it, is an integer. *)
LEMMA RatioTyped ==
  ASSUME NEW x \in Int, NEW y \in Int, y # 0
  PROVE  Ratio(x, y) \in Int
  <1>1. CASE y < 0
    BY <1>1 DEF Ratio
  <1>2. CASE y > 0
    BY <1>2 DEF Ratio
  <1>. QED
    BY <1>1, <1>2

(* An operation in resolution: all its snapshots have been made. *)
LEMMA Resolving ==
  ASSUME IInv, resolving # 0
  PROVE  /\ resolving \in Op /\ resolving \in Vector /\ resolving <= issued
         /\ finished < resolving
         /\ \A p \in Worker : /\ tdone[p] >= resolving
                              /\ used[resolving][p] \in [Index -> Int]
  <1>1. resolving \in Op /\ resolving \in Vector
    BY DEF IInv, TypeOK, ExecutorTypeOK, Op, Vector
  <1>2. rruns[resolving] >= 1 /\ finished < resolving
    BY DEF IInv, ExecutorInv, FinishedInv
  <1>3. resolving <= issued /\ \A p \in Worker : tdone[p] >= resolving
    BY <1>1, <1>2 DEF IInv, ExecutorInv, OrderInv
  <1>4. \A p \in Worker : Started(resolving, p)
    BY <1>3 DEF Started
  <1>. QED
    BY <1>1, <1>2, <1>3, <1>4 DEF IInv, TaskInv

(* The indices that a round of a resolution writes, and what it writes. *)
LEMMA ResolvedTyped ==
  ASSUME IInv, resolving # 0, kind(resolving) # "reduce", NEW i \in DOMAIN imaps(resolving)
  PROVE  /\ i \in 1 .. 4
         /\ Targets(resolving, i) \subseteq Index
         /\ \A j \in Targets(resolving, i) : Repaired(resolving, i, j) \in Int
  <1>. DEFINE k == resolving
  <1>1. /\ k \in Op /\ k \in Vector /\ k <= issued
        /\ \A p \in Worker : used[k][p] \in [Index -> Int]
    BY Resolving
  <1>2. prog \in Programs
    BY DEF IInv, TypeOK
  <1>3. k <= issued + 1
    BY <1>1 DEF IInv, TypeOK, ExecutorTypeOK, Op
  <1>4. data[src(k)] \in [Index -> Int] /\ src(k) \in Vector
    BY <1>1, <1>3, Source DEF IInv
  <1>5. data[k] \in [Index -> Int]
    BY <1>1, Made DEF IInv
  <1>. HIDE DEF k
  <1>6. PICK o \in -1 .. 1 : imaps(k)[i] = offset(o)
    BY <1>1, <1>2, Maps DEF k
  <1>7. i \in 1 .. 4
    BY <1>1, <1>2, Maps DEF k
  <1>8. Candidates(k, i) \subseteq Index
    BY <1>4, <1>6, CrossingInside DEF Candidates, IInv, TypeOK
  <1>9. ASSUME NEW c \in Changed(k, i)
        PROVE  /\ c \in Index /\ Apply(imaps(k)[i], c) \in Index
               /\ trck(k, i, c) \in Int
    <2>1. /\ c \in Index /\ Apply(imaps(k)[i], c) \in 0 .. Size
          /\ Apply(imaps(k)[i], c) < Size
      BY <1>8 DEF Changed, InRange
    <2>2. Apply(imaps(k)[i], c) \in Index
      BY <2>1, SizePos DEF Index
    <2>. QED
      BY <1>1, <2>1, <2>2, OwnerOwns DEF trck
  <1>10. Targets(k, i) \subseteq Index
    BY <1>9 DEF Targets
  <1>11. ASSUME NEW j \in Targets(k, i)
         PROVE  Repaired(k, i, j) \in Int
    <2>. DEFINE c == CHOOSE x \in Changed(k, i) : Apply(imaps(k)[i], x) = j
    <2>1. c \in Changed(k, i)
      BY DEF Targets
    <2>. HIDE DEF c
    <2>2. data[src(k)][c] \in Int /\ trck(k, i, c) \in Int /\ data[k][j] \in Int
      BY <1>4, <1>5, <1>9, <1>10, <2>1
    <2>3. CASE kind(k) = "stencil"
      <3>1. prog[k].s \in Int
        BY <1>1, <1>2, <2>3, Program
      <3>2. <<1, prog[k].s, -2 * prog[k].s, prog[k].s>>[i] \in Int
        BY <1>7, <3>1
      <3>3. Repaired(k, i, j) = data[k][j] + <<1, prog[k].s, -2 * prog[k].s, prog[k].s>>[i]
                                             * (data[src(k)][c] - trck(k, i, c))
        BY <2>3 DEF Repaired, Repair, c
      <3>. QED
        BY <2>2, <3>2, <3>3
    <2>4. CASE kind(k) # "stencil" /\ trck(k, i, c) = 0
      BY <2>2, <2>4 DEF Repaired, c
    <2>5. CASE kind(k) # "stencil" /\ trck(k, i, c) # 0
      <3>1. Repaired(k, i, j) = Ratio(data[k][j] * data[src(k)][c], trck(k, i, c))
        BY <2>5 DEF Repaired, Repair, c
      <3>2. data[k][j] * data[src(k)][c] \in Int
        BY <2>2
      <3>. QED
        BY <2>2, <2>5, <3>1, <3>2, RatioTyped
    <2>. QED
      BY <2>3, <2>4, <2>5
  <1>. QED
    BY <1>7, <1>10, <1>11 DEF k

(* What the resolution of a reduce adds. *)
LEMMA ReduceTyped ==
  ASSUME IInv, ResolveReduce
  PROVE  /\ \A v \in Vector : v # resolving => data'[v] = data[v]
         /\ data'[resolving] \in [{0} -> Int]
  <1>. DEFINE k == resolving
              diff == [c \in Index |-> data[src(k)][c] - orig[src(k)][c]]
  <1>1. k # 0 /\ kind(k) = "reduce"
    BY DEF ResolveReduce
  <1>2. k \in Op /\ k \in Vector /\ k <= issued
    BY <1>1, Resolving
  <1>3. k <= issued + 1 /\ k > 0
    BY <1>2 DEF IInv, TypeOK, ExecutorTypeOK, Op
  <1>4. data[src(k)] \in [Index -> Int] /\ orig[src(k)] \in [Index -> Int]
    BY <1>1, <1>2, <1>3, Source DEF IInv, OrigInv
  <1>5. \A c \in Index : diff[c] \in Int
    BY <1>4
  <1>6. IsFiniteSet(Index)
    BY SizePos, FS_Interval DEF Index
  <1>7. Total(diff, Index) \in Int
    <2>. HIDE DEF diff
    <2>. QED
      BY <1>5, <1>6, SumIsInt
  <1>8. data[k] \in [{0} -> Int]
    BY <1>1, <1>2, <1>3, Made DEF IInv
  <1>9. data' = [data EXCEPT ![k][0] = @ + Total(diff, Index)]
    BY DEF ResolveReduce
  <1>. HIDE DEF diff
  <1>10. data' = [data EXCEPT ![k] = [data[k] EXCEPT ![0] = data[k][0] + Total(diff, Index)]]
    BY <1>9
  <1>11. /\ \A v \in Vector : v # k => data'[v] = data[v]
         /\ data'[k] = [data[k] EXCEPT ![0] = data[k][0] + Total(diff, Index)]
    BY <1>2, <1>10 DEF IInv, Domains
  <1>. QED
    BY <1>7, <1>8, <1>11, Increased

-----------------------------------------------------------------------------
(* A step that changes neither contents nor snapshots nor tasks. *)
LEMMA QuietKept ==
  ASSUME IInv, ExecutorInv', rstep' \in 0 .. 5, undef' \in BOOLEAN,
         UNCHANGED <<prog, data, orig, contended, used, detached, issued, tdone>>
  PROVE  IInv'
  <1>1. TypeOK'
    BY DEF IInv, ExecutorInv, TypeOK, kind
  <1>2. OrigInv' /\ TaskInv' /\ StaleInv'
    BY DEF IInv, OrigInv, TaskInv, StaleInv, Started, kind, src
  <1>. QED
    BY <1>1, <1>2 DEF IInv, Domains

(* A new operation: its dependent is made, the source of a reduce frozen. *)
LEMMA IssueKept ==
  ASSUME IInv, ExecutorInv', IssueOp
  PROVE  IInv'
  <1>. DEFINE k == issued + 1
  <1>1. /\ k \in Op /\ k \in Vector /\ k > 0 /\ issued' = k /\ issued < MaxOps
        /\ prog \in Programs
    BY DEF IssueOp, Issue, IInv, TypeOK, ExecutorTypeOK, Op, Vector
  <1>2. UNCHANGED <<prog, contended, used, detached, rstep, undef, tdone>>
    BY DEF IssueOp, Issue
  <1>3. src(k) \in Vector /\ src(k) # k /\ data[src(k)] \in [Index -> Int]
    BY <1>1, Source DEF IInv
  <1>4. /\ DOMAIN data' = Vector
        /\ \A v \in Vector : v # k => data'[v] = data[v]
        /\ data'[k] = Fresh(k)
    BY <1>1 DEF IssueOp, IInv, Domains
  <1>5. /\ DOMAIN orig' = Vector
        /\ \A v \in Vector : v # src(k) => orig'[v] = orig[v]
        /\ orig'[src(k)] = IF is_monotonic(imaps(k)[1]) THEN orig[src(k)] ELSE data[src(k)]
    BY <1>3 DEF IssueOp, IInv, Domains
  <1>6. data'[k] \in IF kind(k) = "reduce" THEN [{0} -> Int] ELSE [Index -> Int]
    <2>1. [i \in {0} |-> 0] \in [{0} -> Int]
      OBVIOUS
    <2>. QED
      BY <1>3, <1>4, <2>1 DEF Fresh
  <1>7. \A v \in Vector : orig'[v] \in [Index -> Int] \cup {None}
    BY <1>3, <1>5 DEF IInv, TypeOK
  <1>. HIDE DEF k
  <1>8. TypeOK'
    <2>1. \A v \in Vector :
            data'[v] \in (IF v > issued' THEN {None}
                          ELSE IF v > 0 /\ kind(v) = "reduce" THEN [{0} -> Int]
                          ELSE [Index -> Int])
      <3>. SUFFICES ASSUME NEW v \in Vector
                    PROVE  data'[v] \in (IF v > issued' THEN {None}
                             ELSE IF v > 0 /\ kind(v) = "reduce" THEN [{0} -> Int]
                             ELSE [Index -> Int])
        OBVIOUS
      <3>1. CASE v = k
        BY <1>1, <1>6, <3>1 DEF Vector
      <3>2. CASE v # k
        <4>1. data'[v] = data[v] /\ (v > issued' <=> v > issued)
          BY <1>1, <1>4, <3>2 DEF Vector, k, IInv, TypeOK, ExecutorTypeOK
        <4>. QED
          BY <4>1 DEF IInv, TypeOK
      <3>. QED
        BY <3>1, <3>2
    <2>. QED
      BY <2>1, <1>2, <1>7 DEF IInv, ExecutorInv, TypeOK, kind
  <1>9. OrigInv'
    <2>. SUFFICES ASSUME NEW m \in Op, m <= k, kind(m) = "reduce"
                  PROVE  orig'[src(m)] \in [Index -> Int]
      BY <1>1, <1>2 DEF OrigInv, kind, src
    <2>1. CASE m = k
      BY <1>1, <1>3, <1>5, <2>1, Maps
    <2>2. CASE m # k
      <3>1. m <= issued
        BY <1>1, <2>2 DEF Op, k, IInv, TypeOK, ExecutorTypeOK
      <3>2. orig[src(m)] \in [Index -> Int] /\ src(m) \in Vector
        BY <3>1, <1>1, Program DEF IInv, OrigInv
      <3>. QED
        BY <3>2, <1>3, <1>5
    <2>. QED
      BY <2>1, <2>2
  <1>10. TaskInv'
    BY <1>1, <1>2 DEF IInv, TaskInv, Started, k, TypeOK, ExecutorTypeOK
  <1>11. StaleInv'
    <2>. SUFFICES ASSUME NEW m \in Op, NEW p \in Worker, Started(m, p), kind(m) # "reduce",
                         NEW c \in Index, Owns(p, c, Size), used[m][p][c] # data'[src(m)][c]
                  PROVE  c \in contended[src(m)]
      BY <1>2 DEF StaleInv, Started, kind, src
    <2>1. m <= issued
      BY DEF Started, IInv, TaskInv, ExecutorInv, IssuedInv, TypeOK, ExecutorTypeOK, Op
    <2>2. src(m) \in Vector /\ src(m) # k
      BY <1>1, <2>1, Program DEF k, IInv, TypeOK, ExecutorTypeOK, Op
    <2>. QED
      BY <1>4, <2>2 DEF IInv, StaleInv
  <1>. QED
    BY <1>2, <1>4, <1>5, <1>8, <1>9, <1>10, <1>11 DEF IInv, Domains

(* A snapshot is made: it is what the source holds. *)
LEMMA DetachKept ==
  ASSUME IInv, ExecutorInv', NEW p \in Worker, Detach(p)
  PROVE  IInv'
  <1>. DEFINE k == tdone[p] + 1
              u == IF is_monotonic(imaps(k)[1]) THEN data[src(k)] ELSE orig[src(k)]
  <1>1. k \in Op /\ k <= issued /\ k <= issued + 1 /\ prog \in Programs
    BY DEF Detach, IInv, TypeOK, ExecutorTypeOK, Op
  <1>2. /\ UNCHANGED <<prog, data, orig, contended, rstep, undef, issued, tdone>>
        /\ detached' = [detached EXCEPT ![p] = TRUE] /\ ~detached[p]
    BY DEF Detach, executorVars
  <1>3. u \in [Index -> Int] /\ (kind(k) # "reduce" => u = data[src(k)])
    BY <1>1, Maps, Source DEF IInv, OrigInv
  <1>4. used' = [used EXCEPT ![k][p] = u]
    BY DEF Detach
  <1>. HIDE DEF u
  <1>5. /\ DOMAIN used' = Op /\ \A m \in Op : DOMAIN used'[m] = Worker
        /\ used'[k][p] = u
        /\ \A m \in Op, q \in Worker : m # k \/ q # p => used'[m][q] = used[m][q]
    BY <1>1, <1>4 DEF IInv, Domains
  <1>6. /\ detached' \in [Worker -> BOOLEAN] /\ detached'[p]
        /\ \A q \in Worker : q # p => detached'[q] = detached[q]
    BY <1>2 DEF IInv, TypeOK
  <1>7. \A m \in Op, q \in Worker : Started(m, q)' <=> Started(m, q) \/ (m = k /\ q = p)
    BY <1>1, <1>2, <1>6 DEF Started, IInv, TypeOK, ExecutorTypeOK, Op
  <1>. HIDE DEF k
  <1>8. TypeOK'
    <2>1. \A m \in Op, q \in Worker : used'[m][q] \in [Index -> Int] \cup {None}
      BY <1>3, <1>5 DEF IInv, TypeOK
    <2>. QED
      BY <1>2, <1>6, <2>1 DEF IInv, ExecutorInv, TypeOK, kind
  <1>9. OrigInv'
    BY <1>2 DEF IInv, OrigInv, kind, src
  <1>10. TaskInv'
    <2>1. \A q \in Worker : detached'[q] => tdone'[q] < issued'
      BY <1>1, <1>2, <1>6 DEF k, IInv, TaskInv, TypeOK, ExecutorTypeOK
    <2>2. \A m \in Op, q \in Worker : Started(m, q)' => used'[m][q] \in [Index -> Int]
      BY <1>3, <1>5, <1>7 DEF IInv, TaskInv
    <2>. QED
      BY <2>1, <2>2 DEF TaskInv
  <1>11. StaleInv'
    <2>. SUFFICES ASSUME NEW m \in Op, NEW q \in Worker, Started(m, q)', kind(m) # "reduce",
                         NEW c \in Index, Owns(q, c, Size), used'[m][q][c] # data[src(m)][c]
                  PROVE  c \in contended[src(m)]
      BY <1>2 DEF StaleInv, kind, src
    <2>1. m # k \/ q # p
      BY <1>3, <1>5
    <2>. QED
      BY <2>1, <1>5, <1>7 DEF IInv, StaleInv
  <1>. QED
    BY <1>2, <1>5, <1>8, <1>9, <1>10, <1>11 DEF IInv, Domains

(***************************************************************************)
(* Contents of one vector v change.  They keep their type, and an element  *)
(* that a snapshot of v holds changes only when the change is recorded.    *)
(***************************************************************************)
LEMMA ContentsKept ==
  ASSUME IInv, ExecutorInv', NEW v \in Op, v <= issued,
         UNCHANGED <<prog, orig, used, issued>>,
         undef' \in BOOLEAN, rstep' \in 0 .. 5,
         detached' \in [Worker -> BOOLEAN],
         \A k \in Op, p \in Worker : Started(k, p)' <=> Started(k, p),
         \A p \in Worker : detached'[p] => tdone'[p] < issued,
         DOMAIN data' = Vector, \A w \in Vector : w # v => data'[w] = data[w],
         kind(v) = "reduce" => data'[v] \in [{0} -> Int],
         kind(v) # "reduce" => data'[v] \in [Index -> Int],
         DOMAIN contended' = Vector,
         \A w \in Vector : contended[w] \subseteq contended'[w] /\ contended'[w] \subseteq Index,
         kind(v) # "reduce" =>
           \A k \in Op, p \in Worker, c \in Index :
             Started(k, p) /\ src(k) = v /\ Owns(p, c, Size) /\ data'[v][c] # data[v][c]
               => c \in contended'[v]
  PROVE  IInv'
  <1>1. v \in Vector /\ v > 0 /\ prog \in Programs
    BY DEF Op, Vector, IInv, TypeOK
  <1>2. TypeOK'
    <2>1. \A w \in Vector :
            data'[w] \in (IF w > issued' THEN {None}
                          ELSE IF w > 0 /\ kind(w) = "reduce" THEN [{0} -> Int]
                          ELSE [Index -> Int])
      <3>. SUFFICES ASSUME NEW w \in Vector
                    PROVE  data'[w] \in (IF w > issued THEN {None}
                             ELSE IF w > 0 /\ kind(w) = "reduce" THEN [{0} -> Int]
                             ELSE [Index -> Int])
        OBVIOUS
      <3>1. CASE w = v
        <4>1. ~(v > issued)
          BY <1>1 DEF Vector, IInv, TypeOK, ExecutorTypeOK
        <4>. QED
          BY <1>1, <3>1, <4>1
      <3>2. CASE w # v
        BY <3>2 DEF IInv, TypeOK
      <3>. QED
        BY <3>1, <3>2
    <2>. QED
      BY <2>1 DEF IInv, ExecutorInv, TypeOK, kind
  <1>3. OrigInv' /\ TaskInv'
    BY DEF IInv, OrigInv, TaskInv, kind, src
  <1>4. StaleInv'
    <2>. SUFFICES ASSUME NEW k \in Op, NEW p \in Worker, Started(k, p), kind(k) # "reduce",
                         NEW c \in Index, Owns(p, c, Size), used[k][p][c] # data'[src(k)][c]
                  PROVE  c \in contended'[src(k)]
      BY DEF StaleInv, kind, src
    <2>1. src(k) \in Vector /\ (src(k) = v => kind(v) # "reduce")
      BY <1>1, Program
    <2>2. CASE used[k][p][c] # data[src(k)][c]
      BY <2>1, <2>2 DEF IInv, StaleInv
    <2>3. CASE used[k][p][c] = data[src(k)][c]
      BY <2>1, <2>3
    <2>. QED
      BY <2>2, <2>3
  <1>. QED
    BY <1>2, <1>3, <1>4 DEF IInv, Domains

(* A task is over: no later snapshot of its worker has been made. *)
LEMMA ReattachKept ==
  ASSUME IInv, ExecutorInv', NEW p \in Worker, Reattach(p)
  PROVE  IInv'
  <1>. DEFINE k == tdone[p] + 1
  <1>1. /\ detached[p] /\ k \in Op /\ k <= issued
        /\ UNCHANGED <<prog, orig, contended, used, rstep, undef, issued>>
    BY ReattachedTyped DEF Reattach, RunTask
  <1>2. /\ kind(k) = "reduce" => Reattached(k, p) \in [{0} -> Int]
        /\ kind(k) # "reduce" =>
             /\ Reattached(k, p) \in [Index -> Int]
             /\ \A j \in Index : ~Owns(p, j, Size) => Reattached(k, p)[j] = data[k][j]
    BY <1>1, ReattachedTyped
  <1>3. DOMAIN data' = Vector /\ data'[k] = Reattached(k, p)
        /\ \A w \in Vector : w # k => data'[w] = data[w]
    BY <1>1 DEF Reattach, IInv, Domains, Op, Vector
  <1>4. /\ tdone[p] \in Nat /\ tdone'[p] = k
        /\ \A q \in Worker : q # p => tdone'[q] = tdone[q]
        /\ detached' \in [Worker -> BOOLEAN] /\ ~detached'[p]
        /\ \A q \in Worker : q # p => detached'[q] = detached[q]
    BY DEF Reattach, RunTask, IInv, TypeOK, ExecutorTypeOK
  <1>5. \A m \in Op, q \in Worker : Started(m, q)' <=> Started(m, q)
    <2>. SUFFICES ASSUME NEW m \in Op, NEW q \in Worker
                  PROVE  Started(m, q)' <=> Started(m, q)
      OBVIOUS
    <2>1. CASE q = p
      BY <1>1, <1>4, <2>1 DEF Started, Op
    <2>2. CASE q # p
      BY <1>4, <2>2 DEF Started
    <2>. QED
      BY <2>1, <2>2
  <1>6. \A q \in Worker : detached'[q] => tdone'[q] < issued
    BY <1>4 DEF IInv, TaskInv
  <1>7. ASSUME NEW m \in Op, NEW q \in Worker, NEW c \in Index, Started(m, q), src(m) = k,
               Owns(q, c, Size), data'[k][c] # data[k][c], kind(k) # "reduce"
        PROVE  FALSE
    <2>1. Owns(p, c, Size)
      BY <1>2, <1>3, <1>7
    <2>2. q = p
      BY <1>7, <2>1, SizePos, OneOwner DEF Index
    <2>3. src(m) \in 0 .. m - 1
      BY Program DEF IInv, TypeOK
    <2>. QED
      BY <1>4, <1>7, <2>2, <2>3 DEF Started, Op
  <1>8. /\ rstep' \in 0 .. 5 /\ undef' \in BOOLEAN
        /\ DOMAIN contended' = Vector
        /\ \A w \in Vector : contended[w] \subseteq contended'[w] /\ contended'[w] \subseteq Index
    BY <1>1 DEF IInv, TypeOK, Domains
  <1>9. /\ kind(k) = "reduce" => data'[k] \in [{0} -> Int]
        /\ kind(k) # "reduce" => data'[k] \in [Index -> Int]
    BY <1>2, <1>3
  <1>10. UNCHANGED <<prog, orig, used, issued>>
    BY <1>1
  <1>. HIDE DEF k
  <1>11. kind(k) # "reduce" =>
           \A m \in Op, q \in Worker, c \in Index :
             Started(m, q) /\ src(m) = k /\ Owns(q, c, Size) /\ data'[k][c] # data[k][c]
               => c \in contended'[k]
    BY <1>7
  <1>. QED
    BY <1>1, <1>3, <1>4, <1>5, <1>6, <1>8, <1>9, <1>10, <1>11, ContentsKept

(* A round of a resolution: what it writes it records. *)
LEMMA ImapKept ==
  ASSUME IInv, ExecutorInv', ResolveImap
  PROVE  IInv'
  <1>. DEFINE k == resolving
  <1>1. k # 0 /\ kind(k) # "reduce" /\ rstep \in DOMAIN imaps(k) /\ rstep' = rstep + 1
    BY DEF ResolveImap
  <1>2. k \in Op /\ k \in Vector /\ k <= issued
    BY <1>1, Resolving
  <1>3. /\ UNCHANGED <<prog, orig, used, detached, issued, tdone>>
        /\ undef' \in BOOLEAN
    BY DEF ResolveImap, executorVars, IInv, TypeOK
  <1>4. /\ rstep \in 1 .. 4
        /\ Targets(k, rstep) \subseteq Index
        /\ \A j \in Targets(k, rstep) : Repaired(k, rstep, j) \in Int
    BY <1>1, ResolvedTyped
  <1>5. data[k] \in [Index -> Int]
    BY <1>1, <1>2, Made DEF IInv
  <1>6. /\ DOMAIN data' = Vector
        /\ \A w \in Vector : w # k => data'[w] = data[w]
        /\ data'[k] = [j \in Index |-> IF j \in Targets(k, rstep) THEN Repaired(k, rstep, j)
                                       ELSE data[k][j]]
    BY <1>2 DEF ResolveImap, IInv, Domains
  <1>7. data'[k] \in [Index -> Int]
    BY <1>4, <1>5, <1>6
  <1>8. /\ DOMAIN contended' = Vector
        /\ \A w \in Vector : w # k => contended'[w] = contended[w]
        /\ contended'[k] = contended[k] \cup Targets(k, rstep)
    BY <1>2 DEF ResolveImap, Recorded, IInv, Domains
  <1>9. \A w \in Vector : contended[w] \subseteq contended'[w] /\ contended'[w] \subseteq Index
    BY <1>4, <1>8 DEF IInv, TypeOK
  <1>10. \A c \in Index : data'[k][c] # data[k][c] => c \in contended'[k]
    BY <1>6, <1>8
  <1>11. /\ rstep' \in 0 .. 5 /\ detached' \in [Worker -> BOOLEAN]
         /\ \A m \in Op, p \in Worker : Started(m, p)' <=> Started(m, p)
         /\ \A p \in Worker : detached'[p] => tdone'[p] < issued
    BY <1>1, <1>3, <1>4 DEF Started, IInv, TypeOK, TaskInv
  <1>. HIDE DEF k
  <1>. QED
    BY <1>1, <1>2, <1>3, <1>6, <1>7, <1>8, <1>9, <1>10, <1>11, ContentsKept

(* The resolution of a reduce: nothing is made from its dependent. *)
LEMMA ReduceKept ==
  ASSUME IInv, ExecutorInv', ResolveReduce
  PROVE  IInv'
  <1>. DEFINE k == resolving
  <1>1. k # 0 /\ kind(k) = "reduce" /\ rstep' = 2
    BY DEF ResolveReduce
  <1>2. k \in Op /\ k \in Vector /\ k <= issued
    BY <1>1, Resolving
  <1>3. UNCHANGED <<prog, orig, contended, used, detached, undef, issued, tdone>>
    BY DEF ResolveReduce, executorVars
  <1>4. /\ \A w \in Vector : w # k => data'[w] = data[w]
        /\ data'[k] \in [{0} -> Int]
    BY ReduceTyped
  <1>5. DOMAIN data' = Vector
    BY DEF ResolveReduce, IInv, Domains
  <1>6. /\ DOMAIN contended' = Vector
        /\ \A w \in Vector : contended[w] \subseteq contended'[w] /\ contended'[w] \subseteq Index
    BY <1>3 DEF IInv, TypeOK, Domains
  <1>7. /\ undef' \in BOOLEAN /\ UNCHANGED <<prog, orig, used, issued>>
    BY <1>3 DEF IInv, TypeOK
  <1>8. /\ rstep' \in 0 .. 5 /\ detached' \in [Worker -> BOOLEAN]
        /\ \A m \in Op, p \in Worker : Started(m, p)' <=> Started(m, p)
        /\ \A p \in Worker : detached'[p] => tdone'[p] < issued
    BY <1>1, <1>3 DEF Started, IInv, TypeOK, TaskInv
  <1>. HIDE DEF k
  <1>. QED
    BY <1>1, <1>2, <1>4, <1>5, <1>6, <1>7, <1>8, ContentsKept

(* Every step keeps the invariant. *)
LEMMA StepKept ==
  ASSUME IInv, [Next]_vars
  PROVE  IInv'
  <1>1. ExecutorInv'
    BY ExecutorStep, ExecutorKept DEF IInv
  <1>2. ASSUME NEW k \in Op, StartResolution(k)
        PROVE  IInv'
    <2>1. rstep' \in 0 .. 5
      BY <1>2 DEF StartResolution
    <2>. QED
      BY <1>1, <1>2, <2>1, QuietKept DEF StartResolution, ResolveStart, IInv, TypeOK
  <1>3. CASE ResolveFrozen
    BY <1>1, <1>3, QuietKept DEF ResolveFrozen, executorVars, IInv, TypeOK
  <1>4. CASE EndResolution
    BY <1>1, <1>4, QuietKept DEF EndResolution, ResolveEnd, IInv, TypeOK
  <1>5. CASE Finish
    BY <1>1, <1>5, QuietKept DEF Finish, FinishReturn, dataVars, IInv, TypeOK
  <1>6. CASE UNCHANGED vars
    BY <1>1, <1>6, QuietKept DEF vars, IInv, TypeOK
  <1>. QED
    BY <1>1, <1>2, <1>3, <1>4, <1>5, <1>6, IssueKept, DetachKept, ReattachKept, ImapKept,
       ReduceKept DEF Next

(* The invariant holds at first. *)
LEMMA InitInv == Init => IInv
  <1>. SUFFICES ASSUME Init
                PROVE  IInv
    OBVIOUS
  <1>1. ExecutorInv /\ issued = 0 /\ tdone = [p \in Worker |-> 0]
    BY ExecutorInitInv DEF Init, ExecutorInit
  <1>2. TypeOK
    <2>1. \A v \in Vector : data[v] = IF v = 0 THEN InitData ELSE None
      BY DEF Init
    <2>2. \A v \in Vector : data[v] \in (IF v > issued THEN {None}
                                         ELSE IF v > 0 /\ kind(v) = "reduce" THEN [{0} -> Int]
                                         ELSE [Index -> Int])
      BY <1>1, <2>1, InitDataAssumption DEF Vector
    <2>3. \A k \in Op, p \in Worker : used[k][p] \in [Index -> Int] \cup {None}
      BY DEF Init
    <2>4. /\ prog \in Programs
          /\ \A v \in Vector : orig[v] \in [Index -> Int] \cup {None}
      BY DEF Init
    <2>5. \A v \in Vector : contended[v] \subseteq Index
      BY DEF Init
    <2>6. rstep \in 0 .. 5
      BY DEF Init
    <2>7. detached \in [Worker -> BOOLEAN]
      BY Zenon DEF Init
    <2>8. undef \in BOOLEAN
      BY Zenon DEF Init
    <2>. QED
      BY <1>1, <2>2, <2>3, <2>4, <2>5, <2>6, <2>7, <2>8 DEF TypeOK, ExecutorInv
  <1>3. Domains
    BY DEF Init, Domains
  <1>4. OrigInv /\ TaskInv /\ StaleInv
    BY <1>1 DEF Init, OrigInv, TaskInv, StaleInv, Started, Op
  <1>. QED
    BY <1>1, <1>2, <1>3, <1>4 DEF IInv

(* The invariant of vectors and their operations. *)
THEOREM ContVectorInvariance == Spec => []IInv
  BY InitInv, StepKept, PTL DEF Spec

(***************************************************************************)
(* The contents of every vector, frozen copy and snapshot have the size    *)
(* and the type of its operation, whatever clients issue and whenever      *)
(* tasks and resolutions run.                                              *)
(***************************************************************************)
THEOREM ContVectorTyped == Spec => []TypeOK
  BY ContVectorInvariance, PTL DEF IInv

(***************************************************************************)
(* An element of a source that has changed since a worker computed from it *)
(* is at the bounds of the partitions or in contended: resolve_monotonic   *)
(* looks at it.                                                            *)
(***************************************************************************)
LEMMA Tracked ==
  ASSUME IInv, NEW k \in Op, kind(k) # "reduce", NEW i \in DOMAIN imaps(k),
         NEW c \in Index, NEW p \in Worker, tdone[p] >= k,
         Owns(p, Apply(imaps(k)[i], c), Size), used[k][p][c] # data[src(k)][c]
  PROVE  c \in Icontended(imaps(k)[i], Size) \cup contended[src(k)]
  <1>1. CASE Owns(p, c, Size)
    BY <1>1 DEF IInv, StaleInv, Started
  <1>2. CASE ~Owns(p, c, Size)
    <2>1. PICK o \in -1 .. 1 : imaps(k)[i] = offset(o)
      BY Maps DEF IInv, TypeOK
    <2>2. Owns(p, c - o, Size)
      BY <2>1 DEF Apply, offset
    <2>3. c \in Crossing(offset(o), p, Size)
      BY <1>2, <2>2, SizePos, CrossingFound DEF Index
    <2>. QED
      BY <2>1, <2>3 DEF Icontended
  <1>. QED
    BY <1>1, <1>2

(* No stale value escapes a resolution, for any program and any size. *)
THEOREM StaleTracked == Spec => []TrackedStale
  <1>1. IInv => TrackedStale
    <2>1. IInv => issued \in 0 .. MaxOps
      BY DEF IInv, TypeOK, ExecutorTypeOK
    <2>. QED
      BY <2>1, Tracked DEF TrackedStale, Op
  <1>. QED
    BY <1>1, ContVectorInvariance, PTL

(* A step writes to no vector whose operation finish() has waited for. *)
LEMMA SettledStep ==
  ASSUME IInv, [Next]_vars, NEW k \in 1 .. finished
  PROVE  data'[k] = data[k]
  <1>1. /\ k \in Vector /\ k <= finished /\ finished <= issued /\ DOMAIN data = Vector
        /\ issued \in Nat /\ finished \in Nat /\ resolving \in Nat
        /\ \A p \in Worker : tdone[p] \in Nat /\ finished <= tdone[p]
    BY DEF IInv, ExecutorInv, IssuedInv, TypeOK, ExecutorTypeOK, Domains, Vector
  <1>2. CASE IssueOp
    BY <1>1, <1>2 DEF IssueOp
  <1>3. ASSUME NEW p \in Worker, Reattach(p)
        PROVE  data'[k] = data[k]
    BY <1>1, <1>3 DEF Reattach
  <1>4. CASE ResolveImap
    <2>1. finished < resolving
      BY <1>4, Resolving DEF ResolveImap
    <2>. QED
      BY <1>1, <1>4, <2>1 DEF ResolveImap
  <1>5. CASE ResolveReduce
    <2>1. finished < resolving
      BY <1>5, Resolving DEF ResolveReduce
    <2>. QED
      BY <1>1, <1>5, <2>1, ReduceTyped
  <1>6. CASE UNCHANGED data
    BY <1>6
  <1>7. UNCHANGED data \/ IssueOp \/ (\E p \in Worker : Reattach(p)) \/ ResolveImap \/ ResolveReduce
    BY DEF Next, vars, Detach, StartResolution, ResolveFrozen, EndResolution, Finish, dataVars
  <1>. QED
    BY <1>2, <1>3, <1>4, <1>5, <1>6, <1>7

(* What a client reads after finish() never changes again. *)
THEOREM FinishSettles == Spec => Settled
  <1>1. IInv /\ [Next]_vars => [\A k \in 1 .. finished : data'[k] = data[k]]_vars
    BY SettledStep
  <1>. QED
    BY <1>1, ContVectorInvariance, PTL DEF Spec, Settled

-----------------------------------------------------------------------------
(***************************************************************************)
(* Chains of stencils.  A stale element is repaired, its repairs make      *)
(* stale what was computed from it: contended grows by one element either  *)
(* way per operation, starting at the bounds of the partitions.  As long   *)
(* as it reaches neither end of the vector, where the kernel computes      *)
(* nothing and the repair would, each resolution turns what the tasks      *)
(* computed from the snapshots into what they would compute from the       *)
(* source as it is in the end.                                             *)
(***************************************************************************)
Stencils ==
  \A pr \in Programs : \A k \in Op : pr[k].kind = "stencil" /\ pr[k].s = Kernel

LongPartitions ==
  Size > 1 /\ \A p \in Worker : partition(p, Size).b - partition(p, Size).a >= MaxOps

Interior == 1 .. Size - 2

(* c is at most as far from the bound of a partition as v - 1 stencils reach. *)
Near(v, c) ==
  \E p \in Worker : LET a == partition(p, Size).a
                    IN  a > 0 /\ a - (v - 1) <= c /\ c <= a + (v - 2)

(* How stale the snapshot of worker p is, and what round i adds for that at j. *)
Stale(k, p, c) == data[src(k)][c] - used[k][p][c]

Correction(k, p, j, i) ==
  <<Stale(k, p, j), Kernel * Stale(k, p, j - 1),
    -2 * Kernel * Stale(k, p, j), Kernel * Stale(k, p, j + 1)>>[i]

(* What the dependent holds at j when the resolution has come to round r. *)
Fixed(k, p, j, r) ==
  KernelAt(k, p, used[k][p], j) +
    (IF j \in Interior
     THEN (IF r > 1 THEN Correction(k, p, j, 1) ELSE 0) +
          (IF r > 2 THEN Correction(k, p, j, 2) ELSE 0) +
          (IF r > 3 THEN Correction(k, p, j, 3) ELSE 0) +
          (IF r > 4 THEN Correction(k, p, j, 4) ELSE 0)
     ELSE 0)

Round(k) == IF resolving = k THEN rstep ELSE 1

RoundInv == resolving # 0 => rstep \in 1 .. 5

(* Contended elements are near the bounds of the partitions. *)
NearInv == contended[0] = {} /\ \A v \in Op : \A c \in contended[v] : Near(v, c)

(* The input of the client does not change. *)
InputInv ==
  /\ data[0] = InitData
  /\ \A k \in Op, p \in Worker : Started(k, p) /\ src(k) = 0 => used[k][p] = InitData

(* What tasks and the rounds of the resolution so far have computed. *)
ComputedInv ==
  \A k \in Op, p \in Worker : tdone[p] >= k /\ (rruns[k] = 0 \/ resolving = k) =>
    \A j \in Index : Owns(p, j, Size) => data[k][j] = Fixed(k, p, j, Round(k))

(* What a resolution leaves behind is what the sequential program computes. *)
DoneInv == \A k \in Op : rruns[k] >= 1 /\ resolving # k => data[k] = Expected[k]

SeqInv == RoundInv /\ NearInv /\ InputInv /\ ComputedInv /\ DoneInv /\ ~undef

(* The operations of a program of stencils. *)
LEMMA StencilOp ==
  ASSUME Stencils, prog \in Programs, NEW k \in Op
  PROVE  /\ kind(k) = "stencil" /\ prog[k].s = Kernel
         /\ DOMAIN imaps(k) = 1 .. 4
         /\ imaps(k)[1] = offset(0) /\ imaps(k)[2] = offset(-1)
         /\ imaps(k)[3] = offset(0) /\ imaps(k)[4] = offset(1)
         /\ \A c \in Int : /\ Apply(imaps(k)[1], c) = c /\ Apply(imaps(k)[2], c) = c + 1
                           /\ Apply(imaps(k)[3], c) = c /\ Apply(imaps(k)[4], c) = c - 1
  <1>1. kind(k) = "stencil" /\ prog[k].s = Kernel
    BY DEF Stencils, kind
  <1>2. imaps(k) = <<offset(0), offset(-1), offset(0), offset(1)>>
    BY <1>1, Maps
  <1>. QED
    BY <1>1, <1>2 DEF Apply, offset

(* What a stencil makes of a vector. *)
Stenciled(x) ==
  [i \in Index |-> IF i \in Interior THEN x[i] + Kernel * (x[i - 1] - 2 * x[i] + x[i + 1])
                  ELSE x[i]]

(* Expected is what its definition says: each vector is made from an earlier one. *)
LEMMA ExpectedIs ==
  ASSUME Stencils, prog \in Programs
  PROVE  Expected[0] = InitData /\ \A v \in Op : Expected[v] = Stenciled(Expected[src(v)])
  <1>. DEFINE body(g, v) == IF v = 0 THEN InitData ELSE Sequential(g, v)
              Good(n) == \E g : g = [v \in 0 .. n |-> body(g, v)]
              Bad == {n \in Nat : n <= MaxOps /\ ~Good(n)}
  <1>1. \A g, v : v \in Op => Sequential(g, v) = Stenciled(g[src(v)])
    <2>. SUFFICES ASSUME NEW g, NEW v \in Op
                  PROVE  Sequential(g, v) = Stenciled(g[src(v)])
      OBVIOUS
    <2>1. kind(v) = "stencil" /\ prog[v].s = Kernel
      BY StencilOp
    <2>. QED
      BY <2>1 DEF Sequential, Stenciled, Interior
  <1>2. \A v \in Op : src(v) \in 0 .. v - 1
    BY Program
  <1>3. Bad = {}
    <2>. SUFFICES ASSUME Bad # {}
                  PROVE  FALSE
      OBVIOUS
    <2>1. PICK n \in Bad : \A m \in Bad : n <= m
      <3>1. Bad \subseteq Nat
        OBVIOUS
      <3>. HIDE DEF Bad
      <3>. QED
        BY <3>1, LeastNumber
    <2>2. n \in Nat /\ n <= MaxOps
      BY <2>1
    <2>3. n # 0
      <3>. SUFFICES ASSUME n = 0
                    PROVE  FALSE
        OBVIOUS
      <3>1. [v \in 0 .. 0 |-> InitData] = [v \in 0 .. 0 |-> body([w \in 0 .. 0 |-> InitData], v)]
        OBVIOUS
      <3>2. Good(0)
        BY <3>1
      <3>. QED
        BY <2>1, <3>2
    <2>4. PICK g : g = [v \in 0 .. n - 1 |-> body(g, v)]
      <3>1. n - 1 \in Nat /\ n - 1 <= MaxOps /\ ~(n <= n - 1)
        BY <2>2, <2>3
      <3>2. Good(n - 1)
        BY <2>1, <3>1
      <3>. QED
        BY <3>2
    <2>. DEFINE f == [v \in 0 .. n |-> body(g, v)]
    <2>5. ASSUME NEW v \in 0 .. n
          PROVE  body(f, v) = body(g, v)
      <3>1. CASE v = 0
        BY <3>1
      <3>2. CASE v # 0
        <4>1. v \in Op /\ src(v) \in 0 .. n - 1 /\ src(v) \in 0 .. n
          BY <3>2, <2>2, <1>2 DEF Op
        <4>2. f[src(v)] = g[src(v)]
          BY <4>1, <2>4
        <4>3. Sequential(f, v) = Sequential(g, v)
          BY <4>1, <4>2, <1>1, Zenon
        <4>. QED
          BY <4>3
      <3>. QED
        BY <3>1, <3>2
    <2>6. f = [v \in 0 .. n |-> body(f, v)]
      BY <2>5
    <2>. HIDE DEF f
    <2>. QED
      BY <2>1, <2>6
  <1>4. \E g : g = [v \in Vector |-> body(g, v)]
    <2>1. MaxOps \in Nat
      OBVIOUS
    <2>2. Good(MaxOps)
      BY <1>3, <2>1
    <2>. QED
      BY <2>2 DEF Vector
  <1>5. Expected = CHOOSE g : g = [v \in Vector |-> body(g, v)]
    BY DEF Expected
  <1>6. Expected = [v \in Vector |-> body(Expected, v)]
    <2>. HIDE DEF body
    <2>. QED
      BY <1>4, <1>5, Zenon
  <1>7. Expected[0] = InitData
    BY <1>6 DEF Vector
  <1>8. \A v \in Op : Expected[v] = Sequential(Expected, v)
    BY <1>6 DEF Vector, Op
  <1>. QED
    BY <1>1, <1>7, <1>8

(* Bounds between partitions are far from both ends of the vector. *)
LEMMA FarBounds ==
  ASSUME LongPartitions, NEW p \in Worker
  PROVE  /\ partition(p, Size).a \in Nat /\ partition(p, Size).b \in Nat
         /\ partition(p, Size).b <= Size
         /\ Size - partition(p, Size).a >= MaxOps
         /\ partition(p, Size).a > 0 => partition(p, Size).a >= MaxOps
         /\ p \in Nat /\ partition(p, Size).b = Lesser(ChunkSz(Size) * (p + 1), Size)
  <1>1. Size \in Nat \ {0} /\ Size > 1 /\ p \in Nat /\ 0 \in Worker /\ p + 1 \in Nat
    BY SizePos DEF LongPartitions, Worker
  <1>2. /\ partition(p, Size).a \in Nat /\ partition(p, Size).a = ChunkSz(Size) * p
        /\ partition(p, Size).b \in Nat /\ partition(p, Size).b <= Size
        /\ partition(p, Size).b - partition(p, Size).a >= MaxOps
    BY <1>1, PartitionBounds DEF LongPartitions
  <1>3. ChunkSz(Size) \in Nat /\ ChunkSz(Size) >= MaxOps
    <2>1. ChunkSz(Size) \in Nat
      BY <1>1, ChunksReach
    <2>2. /\ partition(0, Size).a = ChunkSz(Size) * 0
          /\ partition(0, Size).b - partition(0, Size).a >= MaxOps
      BY <1>1, PartitionBounds DEF LongPartitions
    <2>3. partition(0, Size).b <= ChunkSz(Size)
      BY <1>1, <2>1 DEF partition, Lesser
    <2>4. partition(0, Size).b \in Nat
      BY <1>1, PartitionBounds
    <2>. QED
      BY <2>1, <2>2, <2>3, <2>4
  <1>4. partition(p, Size).a > 0 => partition(p, Size).a >= MaxOps
    <2>. SUFFICES ASSUME p # 0
                  PROVE  ChunkSz(Size) * p >= MaxOps
      BY <1>2, <1>3
    <2>1. ChunkSz(Size) * 1 <= ChunkSz(Size) * p
      BY <1>1, <1>3, MulMonotonic
    <2>. QED
      BY <2>1, <1>1, <1>2, <1>3
  <1>5. partition(p, Size).b = Lesser(ChunkSz(Size) * (p + 1), Size)
    BY DEF partition
  <1>6. Size - partition(p, Size).a >= MaxOps
    BY <1>1, <1>2
  <1>. QED
    BY <1>1, <1>2, <1>4, <1>5, <1>6

(* What v operations can reach from the bounds is in the interior. *)
LEMMA NearInterior ==
  ASSUME LongPartitions, NEW v \in Op, NEW c \in Int, Near(v, c)
  PROVE  c \in Interior
  <1>1. PICK p \in Worker : /\ partition(p, Size).a > 0
                            /\ partition(p, Size).a - (v - 1) <= c
                            /\ c <= partition(p, Size).a + (v - 2)
    BY DEF Near
  <1>2. /\ partition(p, Size).a \in Nat /\ partition(p, Size).a >= MaxOps
        /\ Size - partition(p, Size).a >= MaxOps
    BY <1>1, FarBounds
  <1>. QED
    BY <1>1, <1>2, SizePos DEF Op, Interior

(* The partition of a worker starts where an index is its own and the one before is not. *)
LEMMA StartsHere ==
  ASSUME NEW c \in Index, NEW p \in Worker, Owns(p, c, Size), ~Owns(p, c - 1, Size)
  PROVE  partition(p, Size).a = c
  <1>1. partition(p, Size).a \in Nat /\ partition(p, Size).b \in Nat /\ Size \in Nat
    BY SizePos, PartitionBounds
  <1>. QED
    BY <1>1 DEF Owns, Index

(***************************************************************************)
(* What round i of the resolution of a stencil changes: the element c of   *)
(* the source is contended, or it is next to the bound of a partition.     *)
(***************************************************************************)
LEMMA ChangedNear ==
  ASSUME IInv, SeqInv, Stencils, LongPartitions, NEW k \in Op, k <= issued,
         \A p \in Worker : tdone[p] >= k,
         NEW i \in 1 .. 4, NEW c \in Changed(k, i)
  PROVE  /\ c \in Index /\ Apply(imaps(k)[i], c) \in Int /\ Near(k, Apply(imaps(k)[i], c))
         /\ used[k][Owner(Apply(imaps(k)[i], c))][c] # data[src(k)][c]
  <1>. DEFINE v == src(k)
              j == Apply(imaps(k)[i], c)
              p == Owner(j)
  <1>1. /\ prog \in Programs /\ kind(k) = "stencil" /\ DOMAIN imaps(k) = 1 .. 4
        /\ v \in 0 .. k - 1 /\ v \in Vector
    BY StencilOp, Program DEF IInv, TypeOK
  <1>2. c \in Index
    <2>1. \E o \in -1 .. 1 : imaps(k)[i] = offset(o)
      BY <1>1, Maps
    <2>2. Candidates(k, i) \subseteq Index
      BY <1>1, <2>1, CrossingInside DEF Candidates, IInv, TypeOK
    <2>. QED
      BY <2>2 DEF Changed, InRange
  <1>3. Size \in Nat /\ c \in Int
    BY <1>2, SizePos DEF Index
  <1>4. /\ i = 1 => j = c
        /\ i = 2 => j = c + 1
        /\ i = 3 => j = c
        /\ i = 4 => j = c - 1
    BY <1>1, <1>3, StencilOp
  <1>5. j \in Index
    <2>1. j \in 0 .. Size /\ j < Size
      BY DEF Changed, InRange
    <2>. QED
      BY <1>3, <2>1 DEF Index
  <1>6. p \in Worker /\ Owns(p, j, Size)
    BY <1>5, OwnerOwns
  <1>7. used[k][p][c] # data[v][c]
    BY <1>1 DEF Changed, Differs, trck
  <1>8. Started(k, p)
    BY <1>6 DEF Started
  <1>9. v # 0
    BY <1>6, <1>7, <1>8 DEF SeqInv, InputInv
  <1>10. v \in Op /\ k >= v + 1 /\ v >= 1
    BY <1>1, <1>9 DEF Op
  <1>. HIDE DEF v, j, p
  <1>11. CASE c \in contended[v]
    <2>1. Near(v, c)
      BY <1>10, <1>11 DEF SeqInv, NearInv
    <2>2. PICK q \in Worker : /\ partition(q, Size).a > 0
                              /\ partition(q, Size).a - (v - 1) <= c
                              /\ c <= partition(q, Size).a + (v - 2)
      BY <2>1 DEF Near
    <2>3. partition(q, Size).a \in Nat
      BY FarBounds
    <2>4. partition(q, Size).a - (k - 1) <= j /\ j <= partition(q, Size).a + (k - 2)
      BY <1>3, <1>4, <1>10, <2>2, <2>3 DEF Op
    <2>5. Near(k, j)
      BY <2>2, <2>4 DEF Near
    <2>. QED
      BY <1>2, <1>5, <1>7, <2>5 DEF v, j, p, Index
  <1>12. CASE c \notin contended[v]
    <2>1. ~Owns(p, c, Size)
      BY <1>1, <1>2, <1>6, <1>7, <1>8, <1>12 DEF IInv, StaleInv, v
    <2>2. i = 2 \/ i = 4
      BY <1>4, <1>6, <2>1
    <2>3. PICK q \in Worker : partition(q, Size).a > 0 /\ (j = partition(q, Size).a
                                                           \/ j = partition(q, Size).a - 1)
      <3>1. CASE i = 2
        <4>1. c = j - 1
          BY <1>3, <1>4, <3>1
        <4>2. partition(p, Size).a = j
          BY <1>5, <1>6, <2>1, <4>1, StartsHere
        <4>. QED
          BY <1>2, <1>3, <1>4, <1>6, <3>1, <4>2 DEF Index
      <3>2. CASE i = 4
        <4>1. j = c - 1
          BY <1>4, <3>2
        <4>2. Owner(c) \in Worker /\ Owns(Owner(c), c, Size)
          BY <1>2, OwnerOwns
        <4>3. ~Owns(Owner(c), j, Size)
          BY <1>5, <1>6, <2>1, <4>2, SizePos, OneOwner DEF Index
        <4>4. partition(Owner(c), Size).a = c
          BY <1>2, <4>1, <4>2, <4>3, StartsHere
        <4>5. c > 0
          BY <1>3, <1>5, <4>1 DEF Index
        <4>. QED
          BY <4>1, <4>2, <4>4, <4>5
      <3>. QED
        BY <2>2, <3>1, <3>2
    <2>4. partition(q, Size).a \in Nat
      BY FarBounds
    <2>5. partition(q, Size).a - (k - 1) <= j /\ j <= partition(q, Size).a + (k - 2)
      BY <1>10, <2>3, <2>4 DEF Op
    <2>6. Near(k, j)
      BY <2>3, <2>5 DEF Near
    <2>. QED
      BY <1>2, <1>5, <1>7, <2>6 DEF v, j, p, Index
  <1>. QED
    BY <1>11, <1>12

(* No round writes behind the end of the dependent. *)
LEMMA NoneBeyond ==
  ASSUME IInv, SeqInv, Stencils, LongPartitions, NEW k \in Op, NEW i \in 1 .. 4
  PROVE  ~Undefined(k, i)
  <1>1. /\ prog \in Programs /\ kind(k) = "stencil" /\ DOMAIN imaps(k) = 1 .. 4
        /\ src(k) \in Vector /\ (src(k) # 0 => src(k) \in Op)
    BY StencilOp, Program DEF IInv, TypeOK
  <1>2. Size \in Nat /\ Size > 1
    BY SizePos DEF LongPartitions
  <1>3. ASSUME NEW c \in Candidates(k, i)
        PROVE  c \in Index /\ (i = 2 => c # Size - 1)
    <2>1. CASE c \in contended[src(k)]
      <3>1. c \in Index
        BY <1>1, <2>1 DEF IInv, TypeOK
      <3>2. src(k) \in Op /\ Near(src(k), c)
        BY <1>1, <2>1 DEF SeqInv, NearInv
      <3>3. c \in Interior
        BY <1>2, <3>1, <3>2, NearInterior DEF Index
      <3>. QED
        BY <1>2, <3>1, <3>3 DEF Interior
    <2>2. CASE c \in Icontended(imaps(k)[i], Size)
      <3>1. c \in Index
        <4>1. \E o \in -1 .. 1 : imaps(k)[i] = offset(o)
          BY <1>1, Maps
        <4>. QED
          BY <2>2, <4>1, CrossingInside
      <3>2. ASSUME i = 2, c = Size - 1
            PROVE  FALSE
        <4>1. PICK o \in Int : o = -1 /\ imaps(k)[i] = offset(o)
          BY <1>1, <3>2, StencilOp
        <4>2. PICK p \in Worker : c \in Crossing(offset(o), p, Size)
          BY <2>2, <4>1 DEF Icontended
        <4>. DEFINE a == partition(p, Size).a
                    b == partition(p, Size).b
                    lo == safe_mapping(offset(o), a, 0, Size)
                    hi == safe_mapping(offset(o), b, 0, Size)
        <4>3. a \in Nat /\ b \in Nat /\ b <= Size /\ a < b
          BY <1>2, PartitionBounds, ContSizeAssumption
        <4>. HIDE DEF a, b
        <4>4. a \in Int /\ b \in Int
          BY <4>3
        <4>5. /\ lo.ran = lo.dom - o
              /\ lo.dom = IF a + o < 0 THEN 0 ELSE IF a + o > Size THEN Size ELSE a + o
          BY <1>2, <4>4, SafeMapping, Zenon
        <4>6. /\ hi.ran = hi.dom - o
              /\ hi.dom = IF b + o < 0 THEN 0 ELSE IF b + o > Size THEN Size ELSE b + o
          BY <1>2, <4>4, SafeMapping, Zenon
        <4>. HIDE DEF lo, hi
        <4>7. c \in (lo.dom .. lo.ran - 1) \cup (hi.ran .. hi.dom - 1)
          BY <4>2 DEF Crossing, lo, hi, a, b
        <4>. QED
          BY <1>2, <3>2, <4>1, <4>3, <4>5, <4>6, <4>7
      <3>. QED
        BY <3>1, <3>2
    <2>. QED
      BY <2>1, <2>2 DEF Candidates
  <1>4. ASSUME NEW c \in InRange(k, i)
        PROVE  Apply(imaps(k)[i], c) # Size
    <2>1. c \in Index /\ (i = 2 => c # Size - 1)
      BY <1>3 DEF InRange
    <2>2. c \in Int /\ c >= 0 /\ c <= Size - 1
      BY <1>2, <2>1 DEF Index
    <2>3. /\ i = 1 => Apply(imaps(k)[i], c) = c
          /\ i = 2 => Apply(imaps(k)[i], c) = c + 1
          /\ i = 3 => Apply(imaps(k)[i], c) = c
          /\ i = 4 => Apply(imaps(k)[i], c) = c - 1
      BY <1>1, <2>2, StencilOp
    <2>. QED
      BY <1>2, <2>1, <2>2, <2>3
  <1>. QED
    BY <1>1, <1>4 DEF Undefined

(* Source index that round i takes for index j of the dependent. *)
From(i, j) == <<j, j - 1, j, j + 1>>[i]

(***************************************************************************)
(* Round i adds its correction to every element of the interior: either it *)
(* is written, or the snapshot is not stale there.  The ends it leaves     *)
(* alone.                                                                  *)
(***************************************************************************)
LEMMA RoundCorrects ==
  ASSUME IInv, SeqInv, Stencils, LongPartitions, NEW k \in Op, k <= issued,
         \A p \in Worker : tdone[p] >= k,
         NEW i \in 1 .. 4, NEW j \in Index, NEW p \in Worker, Owns(p, j, Size)
  PROVE  (IF j \in Targets(k, i) THEN Repaired(k, i, j) ELSE data[k][j]) =
           data[k][j] + IF j \in Interior THEN Correction(k, p, j, i) ELSE 0
  <1>1. /\ prog \in Programs /\ kind(k) = "stencil" /\ prog[k].s = Kernel
        /\ DOMAIN imaps(k) = 1 .. 4
    BY StencilOp DEF IInv, TypeOK
  <1>2. Size \in Nat /\ j \in Int /\ Kernel \in Int
    BY SizePos, KernelAssumption DEF Index
  <1>3. k <= issued + 1
    BY DEF IInv, TypeOK, ExecutorTypeOK, Op
  <1>4. data[src(k)] \in [Index -> Int] /\ data[k] \in [Index -> Int] /\ k \in Vector
    <2>1. k \in Vector
      BY DEF Op, Vector
    <2>. QED
      BY <1>1, <1>3, <2>1, Source, Made DEF IInv
  <1>5. Owner(j) = p
    BY OwnerOwns, SizePos, OneOwner DEF Index
  <1>6. \A c \in Int : Apply(imaps(k)[i], c) = j <=> c = From(i, j)
    <2>1. \A c \in Int : /\ Apply(imaps(k)[1], c) = c /\ Apply(imaps(k)[2], c) = c + 1
                         /\ Apply(imaps(k)[3], c) = c /\ Apply(imaps(k)[4], c) = c - 1
      BY <1>1, StencilOp
    <2>2. CASE i = 1
      BY <1>2, <2>1, <2>2 DEF From
    <2>3. CASE i = 2
      BY <1>2, <2>1, <2>3 DEF From
    <2>4. CASE i = 3
      BY <1>2, <2>1, <2>4 DEF From
    <2>5. CASE i = 4
      BY <1>2, <2>1, <2>5 DEF From
    <2>. QED
      BY <2>2, <2>3, <2>4, <2>5
  <1>7. used[k][p] \in [Index -> Int]
    <2>1. Started(k, p)
      BY DEF Started
    <2>. QED
      BY <2>1 DEF IInv, TaskInv
  <1>8. CASE j \in Targets(k, i)
    <2>. DEFINE c == CHOOSE x \in Changed(k, i) : Apply(imaps(k)[i], x) = j
    <2>1. c \in Changed(k, i) /\ Apply(imaps(k)[i], c) = j
      BY <1>8 DEF Targets
    <2>. HIDE DEF c
    <2>2. c \in Index /\ c \in Int /\ Near(k, j)
      BY <1>2, <2>1, ChangedNear DEF Index
    <2>3. j \in Interior
      BY <1>2, <2>2, NearInterior
    <2>4. c = From(i, j)
      BY <1>6, <2>1, <2>2
    <2>5. trck(k, i, c) = used[k][p][c]
      BY <1>5, <2>1 DEF trck
    <2>6. Repaired(k, i, j) = data[k][j] + <<1, Kernel, -2 * Kernel, Kernel>>[i] * Stale(k, p, c)
      BY <1>1, <2>5 DEF Repaired, Repair, Stale, c
    <2>7. Stale(k, p, c) \in Int
      BY <1>4, <1>7, <2>2 DEF Stale
    <2>8. <<1, Kernel, -2 * Kernel, Kernel>>[i] * Stale(k, p, c) = Correction(k, p, j, i)
      <3>1. CASE i = 1
        BY <1>2, <2>4, <2>7, <3>1 DEF Correction, From
      <3>2. CASE i = 2
        BY <1>2, <2>4, <2>7, <3>2 DEF Correction, From
      <3>3. CASE i = 3
        BY <1>2, <2>4, <2>7, <3>3 DEF Correction, From
      <3>4. CASE i = 4
        BY <1>2, <2>4, <2>7, <3>4 DEF Correction, From
      <3>. QED
        BY <3>1, <3>2, <3>3, <3>4
    <2>. QED
      BY <1>8, <2>3, <2>6, <2>8
  <1>9. CASE j \notin Targets(k, i) /\ j \in Interior
    <2>. DEFINE c == From(i, j)
    <2>1. c \in Index /\ c \in Int
      <3>1. j - 1 \in Index /\ j + 1 \in Index
        BY <1>2, <1>9 DEF Index, Interior
      <3>. QED
        BY <1>2, <3>1 DEF From, Index
    <2>. HIDE DEF c
    <2>2. Apply(imaps(k)[i], c) = j
      BY <1>6, <2>1 DEF c
    <2>3. c \notin Changed(k, i)
      BY <1>9, <2>2 DEF Targets
    <2>4. used[k][p][c] = data[src(k)][c]
      <3>. SUFFICES ASSUME used[k][p][c] # data[src(k)][c]
                    PROVE  FALSE
        OBVIOUS
      <3>1. c \in Candidates(k, i)
        BY <1>1, <2>1, <2>2, Tracked DEF Candidates
      <3>2. c \in InRange(k, i)
        BY <1>2, <2>2, <3>1 DEF InRange, Index
      <3>3. Differs(k, i, c)
        BY <1>5, <2>2 DEF Differs, trck
      <3>. QED
        BY <1>2, <2>2, <2>3, <3>2, <3>3 DEF Changed, Index
    <2>5. Stale(k, p, c) = 0
      BY <1>4, <2>1, <2>4 DEF Stale
    <2>6. Correction(k, p, j, i) = 0
      <3>1. CASE i = 1
        BY <1>2, <2>5, <3>1 DEF Correction, From, c
      <3>2. CASE i = 2
        BY <1>2, <2>5, <3>2 DEF Correction, From, c
      <3>3. CASE i = 3
        BY <1>2, <2>5, <3>3 DEF Correction, From, c
      <3>4. CASE i = 4
        BY <1>2, <2>5, <3>4 DEF Correction, From, c
      <3>. QED
        BY <3>1, <3>2, <3>3, <3>4
    <2>. QED
      BY <1>4, <1>9, <2>6
  <1>10. CASE j \notin Targets(k, i) /\ j \notin Interior
    BY <1>4, <1>10
  <1>. QED
    BY <1>8, <1>9, <1>10

(* What a task of a stencil computes. *)
LEMMA KernelIs ==
  ASSUME Stencils, prog \in Programs, NEW k \in Op, NEW p \in Worker,
         NEW u \in [Index -> Int], NEW j \in Index, Owns(p, j, Size), LongPartitions
  PROVE  KernelAt(k, p, u, j) = Stenciled(u)[j]
  <1>1. kind(k) = "stencil"
    BY StencilOp
  <1>2. /\ Size \in Nat \ {0} /\ j \in Int /\ 0 <= j /\ j < Size
        /\ partition(p, Size).a \in Nat
        /\ partition(p, Size).b \in Nat /\ partition(p, Size).b <= Size
        /\ partition(p, Size).a < partition(p, Size).b
    BY SizePos, PartitionBounds, ContSizeAssumption DEF Index
  <1>3. /\ KernelLo(p, Size) = IF partition(p, Size).a = 0 THEN 1 ELSE partition(p, Size).a
        /\ KernelHi(p, Size) = IF partition(p, Size).b = Size THEN Size - 1
                               ELSE partition(p, Size).b
    BY <1>2, KernelRange
  <1>4. j \in Ranges[p] <=> j \in Interior
    <2>1. Ranges[p] = KernelLo(p, Size) .. KernelHi(p, Size) - 1
      BY DEF Ranges
    <2>. QED
      BY <1>2, <1>3, <2>1 DEF Owns, Interior
  <1>. QED
    BY <1>1, <1>4 DEF KernelAt, Stenciled

(***************************************************************************)
(* After the last round the dependent is the stencil of the source as it   *)
(* is now, in the interior by the corrections and at the ends because the  *)
(* snapshots are not stale there.                                          *)
(***************************************************************************)
LEMMA RoundsCorrect ==
  ASSUME IInv, SeqInv, Stencils, LongPartitions, resolving # 0, rstep = 5
  PROVE  data[resolving] = Stenciled(data[src(resolving)])
  <1>. DEFINE k == resolving
              d == data[src(k)]
  <1>1. /\ k \in Op /\ k \in Vector /\ k <= issued
        /\ \A p \in Worker : tdone[p] >= k /\ used[k][p] \in [Index -> Int]
    BY Resolving
  <1>2. prog \in Programs /\ kind(k) = "stencil" /\ k <= issued + 1
    BY <1>1, StencilOp DEF IInv, TypeOK, ExecutorTypeOK, Op
  <1>3. d \in [Index -> Int] /\ data[k] \in [Index -> Int]
    BY <1>1, <1>2, Source, Made DEF IInv
  <1>4. ASSUME NEW j \in Index
        PROVE  data[k][j] = Stenciled(d)[j]
    <2>1. PICK p \in Worker : Owns(p, j, Size)
      BY OwnerOwns
    <2>. DEFINE u == used[k][p]
    <2>2. u \in [Index -> Int]
      BY <1>1
    <2>3. data[k][j] = Fixed(k, p, j, 5)
      BY <1>1, <2>1 DEF SeqInv, ComputedInv, Round
    <2>4. KernelAt(k, p, u, j) = Stenciled(u)[j]
      BY <1>1, <1>2, <2>1, <2>2, KernelIs
    <2>. HIDE DEF u, d, k
    <2>5. CASE j \in Interior
      <3>1. j - 1 \in Index /\ j + 1 \in Index /\ j \in Int /\ Size \in Nat
        BY <2>5, SizePos DEF Index, Interior
      <3>2. /\ u[j] \in Int /\ u[j - 1] \in Int /\ u[j + 1] \in Int
            /\ d[j] \in Int /\ d[j - 1] \in Int /\ d[j + 1] \in Int /\ Kernel \in Int
        BY <1>3, <2>2, <3>1, KernelAssumption
      <3>3. /\ Stenciled(u)[j] = u[j] + Kernel * (u[j - 1] - 2 * u[j] + u[j + 1])
            /\ Stenciled(d)[j] = d[j] + Kernel * (d[j - 1] - 2 * d[j] + d[j + 1])
        BY <2>5 DEF Stenciled
      <3>4. /\ Correction(k, p, j, 1) = d[j] - u[j]
            /\ Correction(k, p, j, 2) = Kernel * (d[j - 1] - u[j - 1])
            /\ Correction(k, p, j, 3) = -2 * Kernel * (d[j] - u[j])
            /\ Correction(k, p, j, 4) = Kernel * (d[j + 1] - u[j + 1])
        BY DEF Correction, Stale, d, u
      <3>5. Fixed(k, p, j, 5) = Stenciled(u)[j] + ((d[j] - u[j])
              + Kernel * (d[j - 1] - u[j - 1]) + -2 * Kernel * (d[j] - u[j])
              + Kernel * (d[j + 1] - u[j + 1]))
        BY <2>4, <2>5, <3>4 DEF Fixed, u
      <3>. QED
        BY <2>3, <3>2, <3>3, <3>5
    <2>6. CASE j \notin Interior
      <3>1. Fixed(k, p, j, 5) = Stenciled(u)[j] + 0
        BY <2>4, <2>6 DEF Fixed, u
      <3>2. Stenciled(u)[j] = u[j] /\ Stenciled(d)[j] = d[j]
        BY <2>6 DEF Stenciled
      <3>3. u[j] = d[j]
        <4>. SUFFICES ASSUME u[j] # d[j]
                      PROVE  FALSE
          OBVIOUS
        <4>1. Started(k, p)
          BY <1>1 DEF Started
        <4>2. j \in contended[src(k)]
          BY <1>1, <1>2, <2>1, <4>1 DEF IInv, StaleInv, d, u
        <4>3. src(k) # 0 /\ src(k) \in Op
          BY <1>1, <1>2, <4>2, Program DEF SeqInv, NearInv
        <4>4. Near(src(k), j) /\ j \in Int
          BY <4>2, <4>3, SizePos DEF SeqInv, NearInv, Index
        <4>. QED
          BY <2>6, <4>3, <4>4, NearInterior
      <3>4. u[j] \in Int
        BY <2>2
      <3>. QED
        BY <2>3, <3>1, <3>2, <3>3, <3>4
    <2>. QED
      BY <2>5, <2>6
  <1>5. data[k] = [j \in Index |-> data[k][j]] /\ Stenciled(d) = [j \in Index |-> Stenciled(d)[j]]
    BY <1>3 DEF Stenciled
  <1>. QED
    BY <1>4, <1>5


(* Before the first round a task's own result is what the dependent holds. *)
LEMMA FixedFirst ==
  ASSUME Stencils, prog \in Programs, LongPartitions, NEW k \in Op, NEW p \in Worker,
         used[k][p] \in [Index -> Int], NEW j \in Index, Owns(p, j, Size)
  PROVE  /\ Fixed(k, p, j, 1) = KernelAt(k, p, used[k][p], j)
         /\ KernelAt(k, p, used[k][p], j) = Stenciled(used[k][p])[j]
         /\ Stenciled(used[k][p])[j] \in Int
  <1>. DEFINE u == used[k][p]
  <1>1. KernelAt(k, p, u, j) = Stenciled(u)[j]
    BY KernelIs
  <1>2. Stenciled(u)[j] \in Int
    <2>1. u[j] \in Int /\ Kernel \in Int
      BY KernelAssumption
    <2>2. CASE j \in Interior
      <3>1. j - 1 \in Index /\ j + 1 \in Index
        BY <2>2, SizePos DEF Index, Interior
      <3>2. u[j - 1] \in Int /\ u[j + 1] \in Int
        BY <3>1
      <3>. HIDE DEF u
      <3>. QED
        BY <2>1, <2>2, <3>2 DEF Stenciled
    <2>. HIDE DEF u
    <2>3. CASE j \notin Interior
      BY <2>1, <2>3 DEF Stenciled
    <2>. QED
      BY <2>2, <2>3
  <1>. HIDE DEF u
  <1>3. Fixed(k, p, j, 1) = KernelAt(k, p, u, j) + 0
    BY DEF Fixed, u
  <1>. QED
    BY <1>1, <1>2, <1>3 DEF u

(* Contents that nobody has written yet. *)
LEMMA SeqInit ==
  ASSUME Init
  PROVE  SeqInv
  <1>1. /\ tdone = [p \in Worker |-> 0] /\ rruns = [k \in Op |-> 0] /\ resolving = 0
        /\ contended = [v \in Vector |-> {}] /\ detached = [p \in Worker |-> FALSE]
        /\ data = [v \in Vector |-> IF v = 0 THEN InitData ELSE None] /\ undef = FALSE
    BY DEF Init, ExecutorInit
  <1>2. 0 \in Vector /\ Op \subseteq Vector
    BY DEF Vector, Op
  <1>3. \A k \in Op, p \in Worker : ~Started(k, p) /\ ~(tdone[p] >= k)
    BY <1>1 DEF Started, Op
  <1>. QED
    BY <1>1, <1>2, <1>3
       DEF SeqInv, RoundInv, NearInv, InputInv, ComputedInv, DoneInv

(* The sequential program is the same at every step. *)
LEMMA ExpectedSame ==
  ASSUME prog' = prog
  PROVE  Expected' = Expected
  <1>1. \A g, v : Sequential(g, v)' = Sequential(g, v)
    BY DEF Sequential, src, kind
  <1>. QED
    BY <1>1, Zenon DEF Expected

(* A step that touches no vector, round or resolution. *)
LEMMA SeqQuiet ==
  ASSUME IInv, IInv', SeqInv, Stencils, LongPartitions,
         UNCHANGED <<prog, contended, rruns, resolving, rstep, undef>>,
         UNCHANGED <<used, detached, tdone, data>>
  PROVE  SeqInv'
  <1>1. Expected' = Expected
    BY ExpectedSame
  <1>2. \A k, p, j, r : Fixed(k, p, j, r)' = Fixed(k, p, j, r)
    BY DEF Fixed, KernelAt, Correction, Stale, src, kind
  <1>3. RoundInv' /\ NearInv' /\ InputInv' /\ ~undef'
    BY DEF SeqInv, RoundInv, NearInv, InputInv, Started, src
  <1>4. ComputedInv'
    BY <1>2 DEF SeqInv, ComputedInv, Round
  <1>5. DoneInv'
    BY <1>1 DEF SeqInv, DoneInv
  <1>. QED
    BY <1>3, <1>4, <1>5 DEF SeqInv

(* What a round adds depends on the snapshot, and on the source only after the first. *)
LEMMA FixedKept ==
  ASSUME Stencils, prog \in Programs, UNCHANGED prog,
         NEW k \in Op, NEW p \in Worker, used'[k][p] = used[k][p]
  PROVE  /\ \A j : Fixed(k, p, j, 1)' = Fixed(k, p, j, 1)
         /\ data'[src(k)] = data[src(k)] => \A j, r : Fixed(k, p, j, r)' = Fixed(k, p, j, r)
  <1>1. kind(k) = "stencil"
    BY StencilOp
  <1>2. \A u, j : KernelAt(k, p, u, j)' = KernelAt(k, p, u, j)
    BY <1>1 DEF KernelAt, kind
  <1>3. \A j : Fixed(k, p, j, 1)' = Fixed(k, p, j, 1)
    BY <1>2 DEF Fixed
  <1>4. ASSUME data'[src(k)] = data[src(k)]
        PROVE  \A j, r : Fixed(k, p, j, r)' = Fixed(k, p, j, r)
    BY <1>2, <1>4 DEF Fixed, Correction, Stale, src
  <1>. QED
    BY <1>3, <1>4

(* A new operation writes to a vector of its own. *)
LEMMA SeqIssue ==
  ASSUME IInv, SeqInv, Stencils, IssueOp
  PROVE  SeqInv'
  <1>. DEFINE k == issued + 1
  <1>1. /\ prog \in Programs /\ issued \in Nat /\ k > 0
        /\ \A w \in Vector : w # k => data'[w] = data[w]
        /\ UNCHANGED <<prog, contended, used, detached, rstep, undef, tdone, rruns, resolving>>
    BY DEF IssueOp, Issue, IInv, TypeOK, ExecutorTypeOK, Domains
  <1>2. \A m \in Op, p \in Worker : tdone[p] >= m => m < k
    BY <1>1 DEF IInv, ExecutorInv, IssuedInv, TypeOK, ExecutorTypeOK, Op
  <1>3. \A m \in Op : rruns[m] >= 1 => m < k
    BY <1>1 DEF IInv, ExecutorInv, OrderInv, Op
  <1>. HIDE DEF k
  <1>4. Op \subseteq Vector /\ 0 \in Vector /\ k # 0
    BY <1>1 DEF Op, Vector
  <1>5. Expected' = Expected
    BY <1>1, ExpectedSame
  <1>6. RoundInv' /\ NearInv' /\ InputInv' /\ ~undef'
    BY <1>1, <1>4 DEF SeqInv, RoundInv, NearInv, InputInv, Started, src
  <1>7. \A m \in Op : m # k => data'[m] = data[m]
    BY <1>1, <1>4
  <1>8. \A m \in Op, p \in Worker : \A j, r : m < k /\ m # k => Fixed(m, p, j, r)' = Fixed(m, p, j, r)
    <2>. SUFFICES ASSUME NEW m \in Op, m < k, m # k, NEW p \in Worker, NEW j, NEW r
                  PROVE  Fixed(m, p, j, r)' = Fixed(m, p, j, r)
      OBVIOUS
    <2>1. src(m) \in 0 .. m - 1 /\ src(m) \in Vector
      BY <1>1, Program
    <2>2. data'[src(m)] = data[src(m)]
      BY <1>1, <2>1 DEF Op, k
    <2>. QED
      BY <1>1, <2>2, FixedKept
  <1>9. \A m \in Op : m < k => m # k
    BY <1>1 DEF Op, k
  <1>10. ComputedInv'
    BY <1>1, <1>2, <1>7, <1>8, <1>9 DEF SeqInv, ComputedInv, Round
  <1>11. DoneInv'
    BY <1>1, <1>3, <1>5, <1>7, <1>9 DEF SeqInv, DoneInv
  <1>. QED
    BY <1>6, <1>10, <1>11 DEF SeqInv

(* A snapshot of the client's input is the input. *)
LEMMA SeqDetach ==
  ASSUME IInv, SeqInv, Stencils, NEW p \in Worker, Detach(p)
  PROVE  SeqInv'
  <1>. DEFINE k == tdone[p] + 1
  <1>1. /\ k \in Op /\ prog \in Programs /\ tdone[p] \in Nat
        /\ UNCHANGED <<prog, data, contended, rstep, undef, tdone, rruns, resolving>>
        /\ detached' = [detached EXCEPT ![p] = TRUE] /\ ~detached[p]
    BY DEF Detach, executorVars, IInv, TypeOK, ExecutorTypeOK, Op
  <1>2. kind(k) = "stencil" /\ is_monotonic(imaps(k)[1])
    BY <1>1, StencilOp, Maps
  <1>3. used' = [used EXCEPT ![k][p] = data[src(k)]]
    BY <1>2 DEF Detach
  <1>4. /\ used'[k][p] = data[src(k)]
        /\ \A m \in Op, q \in Worker : m # k \/ q # p => used'[m][q] = used[m][q]
    BY <1>1, <1>3 DEF IInv, Domains
  <1>5. \A m \in Op, q \in Worker : Started(m, q)' => Started(m, q) \/ (m = k /\ q = p)
    BY <1>1 DEF Started, IInv, TypeOK, ExecutorTypeOK, Op
  <1>6. \A m \in Op, q \in Worker : tdone[q] >= m => m # k \/ q # p
    BY <1>1 DEF Op
  <1>. HIDE DEF k
  <1>7. Expected' = Expected
    BY <1>1, ExpectedSame
  <1>8. RoundInv' /\ NearInv' /\ ~undef'
    BY <1>1 DEF SeqInv, RoundInv, NearInv
  <1>9. InputInv'
    BY <1>1, <1>4, <1>5 DEF SeqInv, InputInv, src
  <1>10. \A m \in Op, q \in Worker : \A j, r :
           m # k \/ q # p => Fixed(m, q, j, r)' = Fixed(m, q, j, r)
    BY <1>1, <1>4, FixedKept
  <1>11. ComputedInv'
    BY <1>1, <1>6, <1>10 DEF SeqInv, ComputedInv, Round
  <1>12. DoneInv'
    BY <1>1, <1>7 DEF SeqInv, DoneInv
  <1>. QED
    BY <1>8, <1>9, <1>11, <1>12 DEF SeqInv

(* A task leaves in its partition what it has computed. *)
LEMMA SeqReattach ==
  ASSUME IInv, SeqInv, Stencils, LongPartitions, NEW p \in Worker, Reattach(p)
  PROVE  SeqInv'
  <1>. DEFINE k == tdone[p] + 1
  <1>1. /\ detached[p] /\ k \in Op /\ k \in Vector /\ k # 0 /\ prog \in Programs
        /\ tdone[p] \in Nat
        /\ UNCHANGED <<prog, contended, used, rstep, undef, rruns, resolving>>
    BY ReattachedTyped DEF Reattach, RunTask, IInv, TypeOK, ExecutorTypeOK, Op, Vector
  <1>2. kind(k) = "stencil"
    BY <1>1, StencilOp
  <1>3. /\ data'[k] = [i \in Index |-> IF i \in Chunk(p) THEN KernelAt(k, p, used[k][p], i)
                                       ELSE data[k][i]]
        /\ \A w \in Vector : w # k => data'[w] = data[w]
    BY <1>1, <1>2 DEF Reattach, Reattached, IInv, Domains
  <1>4. /\ tdone'[p] = k
        /\ \A q \in Worker : q # p => tdone'[q] = tdone[q]
        /\ ~detached'[p]
        /\ \A q \in Worker : q # p => detached'[q] = detached[q]
    BY DEF Reattach, RunTask, IInv, TypeOK, ExecutorTypeOK
  <1>5. \A m \in Op, q \in Worker : Started(m, q)' => Started(m, q)
    <2>. SUFFICES ASSUME NEW m \in Op, NEW q \in Worker
                  PROVE  Started(m, q)' => Started(m, q)
      OBVIOUS
    <2>1. CASE q = p
      BY <1>1, <1>4, <2>1 DEF Started, Op
    <2>2. CASE q # p
      BY <1>4, <2>2 DEF Started
    <2>. QED
      BY <2>1, <2>2
  <1>6. rruns[k] = 0 /\ resolving # k
    <2>1. ~(rruns[k] >= 1)
      BY <1>1 DEF IInv, ExecutorInv, OrderInv
    <2>2. rruns[k] \in Nat
      BY <1>1 DEF IInv, ExecutorInv, ExecutorTypeOK
    <2>. QED
      BY <1>1, <2>1, <2>2 DEF IInv, ExecutorInv, FinishedInv
  <1>7. \A m \in Op, q \in Worker : tdone'[q] >= m <=> tdone[q] >= m \/ (m = k /\ q = p)
    <2>. SUFFICES ASSUME NEW m \in Op, NEW q \in Worker
                  PROVE  tdone'[q] >= m <=> tdone[q] >= m \/ (m = k /\ q = p)
      OBVIOUS
    <2>1. CASE q = p
      BY <1>1, <1>4, <2>1 DEF Op
    <2>2. CASE q # p
      BY <1>4, <2>2
    <2>. QED
      BY <2>1, <2>2
  <1>. HIDE DEF k
  <1>8. Op \subseteq Vector /\ 0 \in Vector
    BY DEF Op, Vector
  <1>9. Expected' = Expected
    BY <1>1, ExpectedSame
  <1>10. RoundInv' /\ NearInv' /\ ~undef'
    BY <1>1 DEF SeqInv, RoundInv, NearInv
  <1>11. InputInv'
    BY <1>1, <1>3, <1>5, <1>8 DEF SeqInv, InputInv, src
  <1>12. ASSUME NEW m \in Op, NEW q \in Worker, tdone'[q] >= m, rruns[m] = 0 \/ resolving = m,
                NEW j \in Index, Owns(q, j, Size)
         PROVE  data'[m][j] = Fixed(m, q, j, Round(m))'
    <2>1. CASE m = k
      <3>1. j \in Chunk(q)
        BY <1>12, ChunkIndices
      <3>2. Started(k, q)
        BY <1>1, <1>7, <1>12, <2>1 DEF Started, k
      <3>3. used[k][q] \in [Index -> Int] /\ used'[k][q] \in [Index -> Int]
        BY <1>1, <3>2 DEF IInv, TaskInv
      <3>4. Fixed(k, q, j, 1) = KernelAt(k, q, used[k][q], j)
        BY <1>1, <1>12, <3>3, FixedFirst
      <3>5. data'[k][j] = KernelAt(k, q, used[k][q], j)
        <4>1. CASE q = p
          BY <1>3, <3>1, <4>1
        <4>2. CASE q # p
          <5>1. tdone[q] >= k
            BY <1>7, <1>12, <2>1, <4>2
          <5>2. j \notin Chunk(p)
            BY <1>12, <4>2, ChunkIndices, SizePos, OneOwner DEF Index
          <5>3. data[k][j] = Fixed(k, q, j, 1)
            BY <1>1, <1>6, <1>12, <5>1 DEF SeqInv, ComputedInv, Round
          <5>. QED
            BY <1>3, <3>4, <5>2, <5>3
        <4>. QED
          BY <4>1, <4>2
      <3>6. Fixed(m, q, j, 1)' = Fixed(m, q, j, 1)
        BY <1>1, FixedKept
      <3>7. Round(m)' = 1
        BY <1>1, <1>6, <2>1 DEF Round
      <3>. QED
        BY <2>1, <3>4, <3>5, <3>6, <3>7
    <2>2. CASE m # k
      <3>1. tdone[q] >= m /\ data'[m] = data[m]
        BY <1>3, <1>7, <1>8, <1>12, <2>2
      <3>2. data[m][j] = Fixed(m, q, j, Round(m))
        BY <1>12, <3>1 DEF SeqInv, ComputedInv
      <3>3. CASE resolving = m
        <4>1. src(m) \in 0 .. m - 1 /\ src(m) \in Vector /\ m <= tdone[p]
          BY <1>1, <3>3, Program, Resolving DEF Op
        <4>2. data'[src(m)] = data[src(m)]
          BY <1>1, <1>3, <4>1 DEF Op, k
        <4>3. \A i, r : Fixed(m, q, i, r)' = Fixed(m, q, i, r)
          BY <1>1, <4>2, FixedKept
        <4>. QED
          BY <1>1, <3>1, <3>2, <4>3 DEF Round
      <3>4. CASE resolving # m
        <4>1. Round(m) = 1 /\ Round(m)' = 1
          BY <1>1, <3>4 DEF Round
        <4>2. Fixed(m, q, j, 1)' = Fixed(m, q, j, 1)
          BY <1>1, FixedKept
        <4>. QED
          BY <3>1, <3>2, <4>1, <4>2
      <3>. QED
        BY <3>3, <3>4
    <2>. QED
      BY <2>1, <2>2
  <1>13. ComputedInv'
    BY <1>1, <1>12 DEF ComputedInv
  <1>14. DoneInv'
    BY <1>1, <1>3, <1>6, <1>8, <1>9 DEF SeqInv, DoneInv
  <1>. QED
    BY <1>10, <1>11, <1>13, <1>14 DEF SeqInv

(* A correction is a number. *)
LEMMA CorrectionIsInt ==
  ASSUME IInv, NEW k \in Op, NEW p \in Worker, k <= issued, tdone[p] >= k, kind(k) = "stencil",
         NEW j \in Interior, NEW i \in 1 .. 4
  PROVE  Correction(k, p, j, i) \in Int
  <1>1. used[k][p] \in [Index -> Int]
    BY DEF IInv, TaskInv, Started
  <1>2. data[src(k)] \in [Index -> Int]
    <2>1. k <= issued + 1
      BY DEF IInv, TypeOK, ExecutorTypeOK, Op
    <2>. QED
      BY <2>1, Source DEF IInv
  <1>3. j - 1 \in Index /\ j \in Index /\ j + 1 \in Index
    BY SizePos DEF Index, Interior
  <1>4. Stale(k, p, j - 1) \in Int /\ Stale(k, p, j) \in Int /\ Stale(k, p, j + 1) \in Int
    BY <1>1, <1>2, <1>3 DEF Stale
  <1>. QED
    BY <1>4, KernelAssumption DEF Correction

(* The resolution that starts is the first of its operation. *)
LEMMA SeqStart ==
  ASSUME IInv, SeqInv, Stencils, MaxRuns = 1, NEW k \in Op, StartResolution(k)
  PROVE  SeqInv'
  <1>1. /\ prog \in Programs /\ k # 0
        /\ UNCHANGED <<prog, data, contended, used, detached, undef, tdone>>
        /\ resolving = 0 /\ resolving' = k
    BY DEF StartResolution, ResolveStart, IInv, TypeOK, Op
  <1>2. /\ rruns[k] = 0 /\ \A m \in Op : m # k => rruns'[m] = rruns[m]
        /\ rruns'[k] = 1
    BY DEF StartResolution, ResolveStart, IInv, TypeOK, ExecutorTypeOK
  <1>3. rstep' = 1
    BY StencilOp DEF StartResolution, IInv, TypeOK
  <1>4. Expected' = Expected
    BY <1>1, ExpectedSame
  <1>5. RoundInv' /\ NearInv' /\ InputInv' /\ ~undef'
    BY <1>1, <1>3 DEF SeqInv, RoundInv, NearInv, InputInv, Started, src
  <1>6. \A m \in Op : Round(m)' = 1 /\ Round(m) = 1
    BY <1>1, <1>3 DEF Round, Op
  <1>7. \A m \in Op, p \in Worker : \A j : Fixed(m, p, j, 1)' = Fixed(m, p, j, 1)
    BY <1>1, FixedKept
  <1>8. ComputedInv'
    BY <1>1, <1>2, <1>6, <1>7 DEF SeqInv, ComputedInv
  <1>9. DoneInv'
    BY <1>1, <1>2, <1>4 DEF SeqInv, DoneInv, Op
  <1>. QED
    BY <1>5, <1>8, <1>9 DEF SeqInv

(* A round adds its correction and stays near the bounds. *)
LEMMA SeqImap ==
  ASSUME IInv, SeqInv, Stencils, LongPartitions, ResolveImap
  PROVE  SeqInv'
  <1>. DEFINE k == resolving
  <1>1. k # 0 /\ rstep \in DOMAIN imaps(k) /\ rstep' = rstep + 1
    BY DEF ResolveImap
  <1>2. /\ k \in Op /\ k \in Vector /\ k <= issued
        /\ \A p \in Worker : tdone[p] >= k
    BY <1>1, Resolving
  <1>3. /\ prog \in Programs
        /\ UNCHANGED <<prog, used, detached, tdone, rruns, resolving>>
        /\ rstep \in 1 .. 4
    BY <1>1, <1>2, StencilOp DEF ResolveImap, executorVars, IInv, TypeOK
  <1>4. /\ \A w \in Vector : w # k => data'[w] = data[w]
        /\ data'[k] = [j \in Index |-> IF j \in Targets(k, rstep) THEN Repaired(k, rstep, j)
                                       ELSE data[k][j]]
    BY <1>2 DEF ResolveImap, IInv, Domains
  <1>5. /\ \A w \in Vector : w # k => contended'[w] = contended[w]
        /\ contended'[k] = contended[k] \cup Targets(k, rstep)
    BY <1>2 DEF ResolveImap, Recorded, IInv, Domains
  <1>6. undef' = (undef \/ Undefined(k, rstep))
    BY DEF ResolveImap
  <1>7. ~undef'
    BY <1>2, <1>3, <1>6, NoneBeyond DEF SeqInv
  <1>8. \A j \in Targets(k, rstep) : Near(k, j)
    BY <1>2, <1>3, ChangedNear DEF Targets
  <1>9. ASSUME NEW j \in Index, NEW p \in Worker, Owns(p, j, Size)
        PROVE  data'[k][j] = Fixed(k, p, j, rstep + 1)
    <2>1. data'[k][j] = data[k][j] + IF j \in Interior THEN Correction(k, p, j, rstep) ELSE 0
      BY <1>2, <1>3, <1>4, <1>9, RoundCorrects
    <2>2. data[k][j] = Fixed(k, p, j, rstep)
      BY <1>2, <1>9 DEF SeqInv, ComputedInv, Round
    <2>3. KernelAt(k, p, used[k][p], j) \in Int
      <3>1. used[k][p] \in [Index -> Int]
        BY <1>1, Resolving
      <3>. HIDE DEF k
      <3>. QED
        BY <1>2, <1>3, <1>9, <3>1, FixedFirst
    <2>4. j \in Interior => \A i \in 1 .. 4 : Correction(k, p, j, i) \in Int
      BY <1>2, <1>3, StencilOp, CorrectionIsInt
    <2>. QED
      BY <1>3, <2>1, <2>2, <2>3, <2>4 DEF Fixed
  <1>. HIDE DEF k
  <1>10. Op \subseteq Vector /\ 0 \in Vector
    BY DEF Op, Vector
  <1>11. RoundInv'
    BY <1>1, <1>3 DEF RoundInv
  <1>12. NearInv'
    <2>1. \A v \in Op : \A c \in contended'[v] : Near(v, c)
      BY <1>5, <1>8, <1>10 DEF SeqInv, NearInv
    <2>. QED
      BY <1>1, <1>5, <1>10, <2>1 DEF SeqInv, NearInv
  <1>13. InputInv'
    BY <1>1, <1>3, <1>4, <1>10 DEF SeqInv, InputInv, Started, src
  <1>14. ASSUME NEW m \in Op, NEW p \in Worker, tdone[p] >= m, rruns[m] = 0 \/ resolving = m,
                NEW j \in Index, Owns(p, j, Size)
         PROVE  data'[m][j] = Fixed(m, p, j, Round(m))'
    <2>1. CASE m = k
      <3>1. src(m) \in 0 .. m - 1 /\ src(m) \in Vector
        BY <1>3, Program
      <3>2. data'[src(m)] = data[src(m)]
        BY <1>4, <2>1, <3>1 DEF Op
      <3>3. \A r : Fixed(m, p, j, r)' = Fixed(m, p, j, r)
        BY <1>3, <3>2, FixedKept
      <3>4. Round(m)' = rstep + 1
        BY <1>1, <1>3, <2>1 DEF Round, k
      <3>5. data'[m][j] = Fixed(m, p, j, rstep + 1)
        BY <1>9, <1>14, <2>1
      <3>. QED
        BY <3>3, <3>4, <3>5
    <2>2. CASE m # k
      <3>1. Round(m) = 1 /\ Round(m)' = 1 /\ data'[m] = data[m]
        BY <1>3, <1>4, <1>10, <2>2 DEF Round, k
      <3>2. Fixed(m, p, j, 1)' = Fixed(m, p, j, 1)
        BY <1>3, FixedKept
      <3>3. data[m][j] = Fixed(m, p, j, Round(m))
        BY <1>14 DEF SeqInv, ComputedInv
      <3>. QED
        BY <3>1, <3>2, <3>3
    <2>. QED
      BY <2>1, <2>2
  <1>15. ComputedInv'
    BY <1>3, <1>14 DEF ComputedInv
  <1>16. Expected' = Expected
    BY <1>3, ExpectedSame
  <1>17. DoneInv'
    BY <1>3, <1>4, <1>10, <1>16 DEF SeqInv, DoneInv, k
  <1>. QED
    BY <1>7, <1>11, <1>12, <1>13, <1>15, <1>17 DEF SeqInv

(* A resolution ends when its vector is as the sequential program computes it. *)
LEMMA SeqEnd ==
  ASSUME IInv, SeqInv, Stencils, LongPartitions, EndResolution
  PROVE  SeqInv'
  <1>. DEFINE k == resolving
  <1>1. /\ k # 0 /\ resolving' = 0 /\ rstep = Len(imaps(k)) + 1
        /\ UNCHANGED <<prog, data, contended, used, detached, undef, tdone, rruns>>
    BY DEF EndResolution, ResolveEnd
  <1>2. k \in Op /\ prog \in Programs
    BY <1>1, Resolving DEF IInv, TypeOK
  <1>3. rstep = 5
    <2>1. imaps(k) = <<offset(0), offset(-1), offset(0), offset(1)>>
      BY <1>2, StencilOp, Maps
    <2>. QED
      BY <1>1, <2>1
  <1>4. data[k] = Expected[k]
    <2>1. data[k] = Stenciled(data[src(k)])
      BY <1>1, <1>3, RoundsCorrect
    <2>2. Expected[k] = Stenciled(Expected[src(k)]) /\ Expected[0] = InitData
      BY <1>2, ExpectedIs
    <2>3. data[src(k)] = Expected[src(k)]
      <3>1. CASE src(k) = 0
        BY <2>2, <3>1 DEF SeqInv, InputInv
      <3>2. CASE src(k) # 0
        <4>1. src(k) \in Op /\ src(k) < k
          BY <1>2, <3>2, Program DEF Op
        <4>2. rruns[src(k)] >= 1
          BY <1>1, <1>2, <4>1 DEF IInv, ExecutorInv, OrderInv, FinishedInv
        <4>. QED
          BY <4>1, <4>2 DEF SeqInv, DoneInv, Op
      <3>. QED
        BY <3>1, <3>2
    <2>. QED
      BY <2>1, <2>2, <2>3
  <1>5. rruns[k] >= 1
    BY <1>1 DEF IInv, ExecutorInv, FinishedInv
  <1>. HIDE DEF k
  <1>6. Expected' = Expected
    BY <1>1, ExpectedSame
  <1>7. RoundInv' /\ NearInv' /\ InputInv' /\ ~undef'
    BY <1>1 DEF SeqInv, RoundInv, NearInv, InputInv, Started, src
  <1>8. ComputedInv'
    <2>1. \A m \in Op, p \in Worker : \A j : Fixed(m, p, j, 1)' = Fixed(m, p, j, 1)
      BY <1>1, <1>2, FixedKept
    <2>2. \A m \in Op : rruns[m] = 0 => Round(m) = 1 /\ Round(m)' = 1
      BY <1>1, <1>5 DEF Round, Op, k
    <2>. QED
      BY <1>1, <2>1, <2>2 DEF SeqInv, ComputedInv, Op
  <1>9. DoneInv'
    BY <1>1, <1>4, <1>6 DEF SeqInv, DoneInv, k
  <1>. QED
    BY <1>7, <1>8, <1>9 DEF SeqInv

(* Every step keeps what the tasks and the rounds have computed. *)
LEMMA SeqKept ==
  ASSUME IInv, SeqInv, Stencils, LongPartitions, MaxRuns = 1, [Next]_vars
  PROVE  SeqInv'
  <1>1. IInv'
    BY StepKept
  <1>2. CASE ResolveFrozen
    BY <1>2 DEF ResolveFrozen, SeqInv, RoundInv
  <1>3. CASE ResolveReduce
    <2>1. kind(resolving) = "stencil"
      BY <1>3, StencilOp, Resolving DEF ResolveReduce, IInv, TypeOK
    <2>. QED
      BY <1>3, <2>1 DEF ResolveReduce
  <1>4. CASE Finish \/ UNCHANGED vars
    <2>1. UNCHANGED <<prog, contended, rruns, resolving, rstep, undef>>
      BY <1>4 DEF Finish, FinishReturn, dataVars, vars
    <2>2. UNCHANGED <<used, detached, tdone, data>>
      BY <1>4 DEF Finish, FinishReturn, dataVars, vars
    <2>. QED
      BY <1>1, <2>1, <2>2, SeqQuiet
  <1>. QED
    BY <1>2, <1>3, <1>4, SeqIssue, SeqDetach, SeqReattach, SeqStart, SeqImap, SeqEnd DEF Next

(***************************************************************************)
(* A chain or tree of stencils over long partitions, resolved once each:   *)
(* however tasks, snapshots and resolutions interleave, every vector ends  *)
(* up as the sequential program computes it, and nothing undefined happens *)
(* on the way.                                                             *)
(***************************************************************************)
THEOREM SequentialStencils ==
  ASSUME Stencils, LongPartitions, MaxRuns = 1
  PROVE  Spec => []ResolvedIsSequential
  <1>1. IInv /\ SeqInv /\ [Next]_vars => (IInv /\ SeqInv)'
    BY StepKept, SeqKept
  <1>2. Init => IInv /\ SeqInv
    BY InitInv, SeqInit
  <1>3. SeqInv => ResolvedIsSequential
    BY DEF SeqInv, DoneInv, ResolvedIsSequential
  <1>. QED
    BY <1>1, <1>2, <1>3, PTL DEF Spec
=============================================================================
