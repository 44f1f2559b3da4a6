-------------------------------- MODULE Trie --------------------------------
(***************************************************************************)
(* The bit-partitioned tries behind ps_vector, tr_vector and bp_vector     *)
(* (bp_vector.h, bp_vector_base-impl.h, tr_vector-impl.h, bp_vector-impl.h,*)
(* bp_vector_iterator.h) as operators on an explicit heap of nodes.        *)
(*                                                                         *)
(* A heap is a sequence of nodes and a pointer an index into it, 0 being   *)
(* the null pointer. Memory is never reused, which only leaves out what    *)
(* the reference counts release. A vector is a record of the members of    *)
(* bp_vector_base and of `kind', the template argument TDer. An operation  *)
(* takes a record m with the heap, m.h, the vector, m.v, and whether the   *)
(* code has left the defined behaviour, m.ub, and returns the record after *)
(* the operation.                                                          *)
(***************************************************************************)
EXTENDS Integers, Sequences, FiniteSetsExt

CONSTANT BP_BITS    \* CTTS_BPBITS, a parameter of the build

ASSUME BPBitsAssumption == BP_BITS \in Nat \ {0}

\* 1 << n
Two[n \in Nat] == IF n = 0 THEN 1 ELSE 2 * Two[n-1]

BP_WIDTH == Two[BP_BITS]
\* BP_WIDTH to the power k: the elements under a node k levels above a leaf's slot
Width(k) == Two[k * BP_BITS]
Slot == 0..(BP_WIDTH - 1)
Kind == {"bp", "ps", "tr"}
Null == 0

Node == [type: {"branches", "leaves"}, id: Int, slot: [Slot -> Int]]
Vector == [kind: Kind, sz: Nat, shift: Nat, root: Nat, id: Nat]

\* bp_node(type, id): null branches, value-initialised leaves
Zeroes == [d \in Slot |-> 0]
NewNode(type, id) == [type |-> type, id |-> id, slot |-> Zeroes]

\* i >> s & BP_MASK
Digit(i, s) == (i \div Two[s]) % BP_WIDTH
calc_depth(v) == v.shift \div BP_BITS + 1
capacity(v) == Width(calc_depth(v))
\* util.h: the first multiple of m that is not below i
next_multiple(i, m) == ((i + m - 1) \div m) * m

\* default constructors: an empty leaf under id (0 for bp and ps)
Empty(h, kind, id) ==
    [h |-> Append(h, NewNode("leaves", id)),
     v |-> [kind |-> kind, sz |-> 0, shift |-> 0, root |-> Len(h) + 1, id |-> id],
     ub |-> FALSE]

-----------------------------------------------------------------------------
(* Paths. The nodes on the path to element i are counted from the root, 0, *)
(* down to the leaf.                                                       *)

Leaf(m) == calc_depth(m.v) - 1

\* the node that slot s of node n points to; nothing lies below a null
Child(h, n, s) == IF n \in DOMAIN h THEN h[n].slot[s] ELSE Null

\* node d on the path to i in the vector v
Walk(h, v, i, d) ==
    LET at[k \in 0..(calc_depth(v) - 1)] ==
            IF k = 0 THEN v.root
            ELSE Child(h, at[k-1], Digit(i, v.shift - (k-1) * BP_BITS))
    IN  at[d]

\* node d on the path to i holds x where the path goes on: a pointer in
\* branches, element i in a leaf
Put(m, i, d, x) ==
    [m EXCEPT !.h[Walk(m.h, m.v, i, d)].slot[Digit(i, m.v.shift - d * BP_BITS)] = x]

\* a new node becomes node d on the path to i
Hang(m, i, d, node) ==
    LET grown == [m EXCEPT !.h = Append(@, node)]
    IN  IF d = 0 THEN [grown EXCEPT !.v.root = Len(m.h) + 1]
                 ELSE Put(grown, i, d - 1, Len(m.h) + 1)

\* operator[]
Read(m, i) == m.h[Walk(m.h, m.v, i, Leaf(m))].slot[Digit(i, 0)]

\* what at(i) returns for every i < sz
Contents(m) == [i \in 1..m.v.sz |-> Read(m, i - 1)]

-----------------------------------------------------------------------------
(* Path copying *)

\* node_copy_impl of the three classes, as the ids of the nodes that are
\* written in place; every other node is copied first
node_keep(v) == CASE v.kind = "ps" -> {}
                  [] v.kind = "tr" -> {v.id}
                  [] v.kind = "bp" -> Int

\* the test of the iterators, the same for every class
iter_keep(v) == {v.id}

\* replaces node k on the path to i by a copy under the vector's id, unless
\* its id is in keep
OwnNode(m, i, k, keep) ==
    LET node == m.h[Walk(m.h, m.v, i, k)]
    IN  IF node.id \in keep THEN m
        ELSE Hang(m, i, k, [node EXCEPT !.id = m.v.id])

\* the same for every node on the path, down to node d
Own(m, i, d, keep) ==
    LET path[k \in 0..d] == OwnNode(IF k = 0 THEN m ELSE path[k-1], i, k, keep)
    IN  path[d]

\* writes element i through the path that Own makes
Write(m, i, x, keep) == Put(Own(m, i, Leaf(m), keep), i, Leaf(m), x)

\* bp_vector_base::set; the result shares with m whatever was not copied
set(m, i, x) == Write(m, i, x, node_keep(m.v))

\* mutant: a transient that never asks whose node it writes
MutSetInPlace(m, i, x) == Write(m, i, x, Int)

\* tr_vector::mut_set and bp_vector::mut_set make the tests node_copy_impl
\* makes for their class
mut_set(m, i, x) == Write(m, i, x, node_keep(m.v))

-----------------------------------------------------------------------------
(* Growing: the part push_back and the two mut_push_back have in common,   *)
(* when sz is a multiple of BP_WIDTH. nid is the id of constructed nodes.  *)

\* how often the loop over depth_cap runs, depth_ins being one less
Depths(v) == Min({k \in 0..calc_depth(v) : v.sz % Width(calc_depth(v) - k) = 0})

\* mutant: the new root does not count as a level
RotateKeepsShift(m, nid) ==
    Hang(m, 0, 0, [NewNode("branches", nid) EXCEPT !.slot[0] = m.v.root])

\* the trie is full: a new root over the old one
Rotate(m, nid) ==
    Hang([m EXCEPT !.v.shift = @ + BP_BITS], 0, 0,
         [NewNode("branches", nid) EXCEPT !.slot[0] = m.v.root])

Longer(m) == [m EXCEPT !.v.sz = @ + 1]

\* constructs the nodes of the path below node ins, the last one a leaf
Extend(m, ins, x, nid) ==
    LET chain[d \in ins..Leaf(m)] ==
            IF d = ins THEN m
            ELSE Hang(chain[d-1], m.v.sz, d,
                      NewNode(IF d = Leaf(m) THEN "leaves" ELSE "branches", nid))
    IN  Longer(Put(chain[Leaf(m)], m.v.sz, Leaf(m), x))

Grow(m, x, nid) ==
    LET k == Depths(m.v)
    IN  IF k = 0 THEN Extend(Rotate(Own(m, m.v.sz, 0, node_keep(m.v)), nid), 0, x, nid)
                 ELSE Extend(Own(m, m.v.sz, k - 1, node_keep(m.v)), k - 1, x, nid)

\* bp_vector_base::push_back
push_back(m, x) ==
    IF m.v.sz % BP_WIDTH # 0 THEN Longer(set(m, m.v.sz, x))
                             ELSE Grow(m, x, m.v.id)

\* tr_vector::mut_push_back and bp_vector::mut_push_back: the first element
\* goes into the root leaf, whoever's it is. nid as in Grow.
mut_push_back(m, x, nid) ==
    CASE m.v.sz % BP_WIDTH # 0 -> Longer(mut_set(m, m.v.sz, x))
      [] m.v.sz % BP_WIDTH = 0 /\ m.v.sz < BP_WIDTH -> Longer(Put(m, m.v.sz, 0, x))
      [] OTHER -> Grow(m, x, nid)

-----------------------------------------------------------------------------
(* Iterators. `leaf' is the index of the first element of the leaf that    *)
(* cur points into, `off' the distance of cur from its beginning, i the    *)
(* member of that name. Both classes move alike.                           *)

Begin == [i |-> 0, leaf |-> 0, off |-> 0]
SamePlace(x, y) == x.leaf = y.leaf /\ x.off = y.off

\* operator++
Incr(it, sz) ==
    IF it.off + 1 # BP_WIDTH THEN [it EXCEPT !.off = @ + 1]
    ELSE IF it.i + BP_WIDTH = sz
         THEN [it EXCEPT !.i = @ + BP_WIDTH, !.off = BP_WIDTH]
         ELSE [i |-> it.i + BP_WIDTH, leaf |-> it.i + BP_WIDTH, off |-> 0]

\* mutant: + stays in the leaf when it lands right behind it
PlusStays(it, n, sz) ==
    IF sz = 0 \/ n = 0 THEN it
    ELSE IF BP_WIDTH - it.off >= n THEN [it EXCEPT !.off = @ + n]
    ELSE LET far == it.i + it.off + n
             i == IF far >= sz THEN sz - 1 ELSE far
             first == i - (i % BP_WIDTH)
         IN  [i |-> first, leaf |-> first,
              off |-> (i % BP_WIDTH) + (IF far >= sz THEN 1 ELSE 0)]

\* operator+
Plus(it, n, sz) ==
    IF sz = 0 \/ n = 0 THEN it
    ELSE IF BP_WIDTH - it.off > n THEN [it EXCEPT !.off = @ + n]
    ELSE LET far == it.i + it.off + n
             i == IF far >= sz THEN sz - 1 ELSE far
             first == i - (i % BP_WIDTH)
         IN  [i |-> first, leaf |-> first,
              off |-> (i % BP_WIDTH) + (IF far >= sz THEN 1 ELSE 0)]

\* The positions `for (it = begin() + a; it != begin() + b; ++it)' visits;
\* 2 * sz + 1 of them stand for a loop that misses its end.
Visited(a, b, sz) ==
    LET last == 2 * sz + 1
        end == Plus(Begin, b, sz)
        it[k \in 0..last] == IF k = 0 THEN Plus(Begin, a, sz) ELSE Incr(it[k-1], sz)
        n == Min({last} \cup {k \in 0..last : SamePlace(it[k], end)})
    IN  [k \in 1..n |-> it[k-1].leaf + it[k-1].off]

\* What the constructor of a mutable iterator and its operator+ do to the
\* vector: the path to the first element, and the one to element i, are owned
TouchBegin(m) == Own(m, 0, Leaf(m), iter_keep(m.v))
Touch(m, i) ==
    IF m.v.sz = 0 THEN TouchBegin(m)
    ELSE Own(TouchBegin(m), IF i >= m.v.sz THEN m.v.sz - 1 ELSE i, Leaf(m),
             iter_keep(m.v))

\* *it = val[position] for the positions in a sequence
WriteAll(m, at, val) ==
    LET pass[k \in 0..Len(at)] ==
            IF k = 0 THEN m
            ELSE Write(pass[k-1], at[k], val[at[k]], iter_keep(m.v))
    IN  pass[Len(at)]

\* for (it = begin() + a; it != end; ++it) { *it = val[position]; } with end
\* taken first, as the kernels and assign do
Each(m, a, b, val) == WriteAll(Touch(Touch(m, b), a), Visited(a, b, m.v.sz), val)

-----------------------------------------------------------------------------
(* Comparing two versions by the ids of their nodes *)

\* mutant: skips a subtree as large as the one above
NextDiffFar(h, v, other, i) ==
    LET id(x, j, k) == h[Walk(h, x, j, k)].id
        next[j \in 0..(v.sz + capacity(v))] ==
            IF j >= v.sz \/ id(v, j, 0) = id(other, j, 0) THEN v.sz
            ELSE LET eq == {k \in 1..(v.shift \div BP_BITS) : id(v, j, k) = id(other, j, k)}
                 IN  IF eq = {} THEN j
                     ELSE next[j + capacity(v) \div Width(Min(eq) - 1)]
    IN  next[i]

\* next_diff_ids(other, i): the first element from i on that lies under no
\* node with the id of the other trie's node in the same place
next_diff_ids(h, v, other, i) ==
    LET id(x, j, k) == h[Walk(h, x, j, k)].id
        next[j \in 0..(v.sz + capacity(v))] ==
            IF j >= v.sz \/ id(v, j, 0) = id(other, j, 0) THEN v.sz
            ELSE LET eq == {k \in 1..(v.shift \div BP_BITS) : id(v, j, k) = id(other, j, k)}
                 IN  IF eq = {} THEN j
                     ELSE next[j + capacity(v) \div Width(Min(eq))]
    IN  next[i]

\* the elements the loop of resolve visits, from 0 by next_diff_ids(++c)
DiffVisited(h, v, other) ==
    LET from[k \in 0..v.sz] ==
            IF k = 0 THEN next_diff_ids(h, v, other, 0)
            ELSE IF from[k-1] = v.sz THEN v.sz
            ELSE next_diff_ids(h, v, other, from[k-1] + 1)
    IN  {from[k] : k \in 0..v.sz} \ {v.sz}

-----------------------------------------------------------------------------
(* Copying a range of one vector into another, sharing whole branches. The *)
(* code leaves the defined behaviour when it takes a null or a leaf for    *)
(* branches, or a range of two arrays.                                     *)

\* how far the paths of a and b run together
contained_at_shift(m, a, b) ==
    LET apart == {k \in 1..Leaf(m) : Walk(m.h, m.v, a, k) # Walk(m.h, m.v, b, k)}
    IN  m.v.shift - Min(apart \cup {Leaf(m)}) * BP_BITS

\* the node whose array get_branch(depth, i) returns, Null for ub; a depth
\* of 0 is no depth and ends in the leaf
get_branch(m, depth, i) ==
    LET n == IF depth = 0 THEN Null ELSE Walk(m.h, m.v, i, depth - 1)
    IN  IF n # Null /\ m.h[n].type = "branches" THEN n ELSE Null

\* the slots from..to-1 of node n are copied to node d on the path to i
CopySlots(m, n, i, d, from, to) ==
    [m EXCEPT !.h[Walk(m.h, m.v, i, d)].slot =
        [k \in Slot |-> IF k \in from..(to - 1) THEN m.h[n].slot[k] ELSE @[k]]]

\* std::copy(other.get_branch(d, i).cbegin() + from,
\*           other.get_branch(d, j).cbegin() + to,
\*           this->get_branch(d, i).begin() + from)
CopyBranches(m, other, d, i, j, from, to) ==
    LET n == get_branch([m EXCEPT !.v = other], d, i)
    IN  IF \/ m.ub \/ n = Null \/ from > to
           \/ get_branch([m EXCEPT !.v = other], d, j) # n
           \/ get_branch(m, d, i) = Null
        THEN [m EXCEPT !.ub = TRUE]
        ELSE CopySlots(Own(m, i, d - 1, node_keep(m.v)), n, i, d - 1, from, to)

\* element by element through the iterators
CopyElements(m, other, a, b) ==
    IF m.ub THEN m
    ELSE Each(m, a, b, [i \in Nat |-> Read([m EXCEPT !.v = other], i)])

\* the multiple of m that b is cut back to
Floor(b, m) == (b \div m) * m

\* a range within a leaf's width: up to the next leaf, then the rest
Short(m, other, a, b) ==
    LET ar == next_multiple(a, BP_WIDTH)
        split == IF ar < b THEN ar ELSE b
    IN  CopyElements(CopyElements(m, other, a, split), other, split, b)

\* phase 1: elements up to the next leaf
First(m, other, a) ==
    LET ar == next_multiple(a, BP_WIDTH)
    IN  IF ar > a THEN CopyElements(m, other, a, ar) ELSE m

\* phase 2: branches of ever larger subtrees, up to last_d
Upwards(m, other, a, last_d) ==
    LET up[k \in 0..(last_d - 1)] ==
            IF k = 0 THEN m
            ELSE LET ai == next_multiple(a, Width(k))
                     ar == next_multiple(ai, Width(k+1))
                 IN  IF ai = ar THEN up[k-1]
                     ELSE CopyBranches(up[k-1], other, calc_depth(m.v) - k, ai, ar - 1,
                                       Digit(ai, k * BP_BITS), BP_WIDTH)
    IN  up[last_d - 1]

\* phase 3: branches of the subtrees that a and b have in common
Across(m, other, a, b, last_d) ==
    LET ar == next_multiple(a, Width(last_d))
        br == Floor(b, Width(last_d))
        off(i) == LET g == Digit(i, last_d * BP_BITS)
                  IN  IF g = 0 /\ i = m.v.sz THEN BP_WIDTH ELSE g
    IN  IF ar = br THEN m
        ELSE CopyBranches(m, other, calc_depth(m.v) - last_d, ar, br, off(ar), off(br))

\* phase 4: branches of ever smaller subtrees, down to the leaves
Downwards(m, other, b, last_d) ==
    LET down[k \in 1..last_d] ==    \* after the step for subtrees of 2^k leaves
            IF k = last_d THEN m
            ELSE LET bi == Floor(b, Width(k+1))
                     br == Floor(b, Width(k))
                     g == Digit(br, k * BP_BITS)
                 IN  IF bi = br THEN down[k+1]
                     ELSE CopyBranches(down[k+1], other, calc_depth(m.v) - k, bi, br - 1,
                                       Digit(bi, k * BP_BITS),
                                       IF g = 0 THEN BP_WIDTH ELSE g)
    IN  down[1]

\* phase 5: elements from the last leaf
Last(m, other, b) ==
    LET br == Floor(b, BP_WIDTH)
    IN  IF b > br THEN CopyElements(m, other, br, b) ELSE m

\* the five phases one after the other
Phases(m, other, a, b, last_d) ==
    Last(Downwards(Across(Upwards(First(m, other, a), other, a, last_d),
                          other, a, b, last_d), other, b, last_d), other, b)

\* this->assign(other, a, b)
assign(m, other, a, b) ==
    IF b - a < BP_WIDTH THEN Short(m, other, a, b)
    ELSE Phases(m, other, a, b, contained_at_shift(m, a, b) \div BP_BITS + 1)
=============================================================================
