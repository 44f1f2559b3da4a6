--------------------------- MODULE BpVectorProofs ---------------------------
(***************************************************************************)
(* Programs over vector variables that share nodes, for every number of    *)
(* variables, every BP_BITS and every length: the inductive invariant      *)
(* World, that each kind of step keeps it, and what follows from it.       *)
(***************************************************************************)
EXTENDS BpVector, TrieProofs, SequenceTheorems

USE BPBitsAssumption

-----------------------------------------------------------------------------
(* The invariant of a program: H is the heap, P the places of its nodes, Vs *)
(* the vector of each variable, D who may be written, U the next id.       *)

\* the vectors are tries
Tries(H, P, Vs) ==
  /\ IsHeap(H, P)
  /\ \A h \in Handle : IsVec(H, P, Vs[h]) /\ Full(H, Vs[h])

\* the nodes v writes in place, as far as the discipline goes
Owns(H, v, n) == IF v.kind = "tr" THEN H[n].id = v.id ELSE n \in Nodes(H, v)

\* the ids are older than the next; transients that may be written have their own
Ids(H, Vs, D, U) ==
  /\ U \in Nat \ {0}
  /\ \A n \in DOMAIN H : H[n].id < U
  /\ \A h \in Handle : IF Vs[h].kind = "tr" THEN Vs[h].id \in 1 .. U - 1 ELSE Vs[h].id = 0
  /\ \A h, k \in Handle :
       h # k /\ D[h] # "shared" /\ D[k] # "shared" /\ Vs[h].kind = "tr" /\ Vs[k].kind = "tr"
         => Vs[h].id # Vs[k].id

\* no bp_vector reaches a node of a transient, nor one of another bp_vector
\* that may be written
Plain(H, Vs, D) ==
  /\ \A h \in Handle : Vs[h].kind = "bp" => \A n \in Nodes(H, Vs[h]) : H[n].id <= 0
  /\ \A h, k \in Handle :
       h # k /\ D[h] # "shared" /\ D[k] # "shared" /\ Vs[h].kind = "bp" /\ Vs[k].kind = "bp"
         => \A n \in Nodes(H, Vs[h]) : n \notin Nodes(H, Vs[k])

\* nobody else reaches the nodes of a sole owner
Soles(H, Vs, D) ==
  \A s, k \in Handle : s # k /\ D[s] = "sole" =>
    \A n \in Nodes(H, Vs[k]) : ~Owns(H, Vs[s], n)

\* the others reach the nodes of one that may grow only under its elements
Tips(H, Vs, D) ==
  \A t, k \in Handle : t # k /\ D[t] # "shared" /\ Vs[t].kind # "ps" =>
    \A j \in 0 .. Vs[k].sz - 1, e \in 0 .. Lv(Vs[k]) :
      Owns(H, Vs[t], On(H, Vs[k], j, e)) => j < Vs[t].sz

\* the invariant
World(H, P, Vs, D, U) ==
  /\ Vs \in [Handle -> Vector] /\ D \in [Handle -> {"sole", "tip", "shared"}]
  /\ Tries(H, P, Vs) /\ Ids(H, Vs, D, U) /\ Plain(H, Vs, D) /\ Soles(H, Vs, D) /\ Tips(H, Vs, D)

-----------------------------------------------------------------------------
(* A vector v becomes v2: what set, push_back and the iterators have in    *)
(* common.                                                                 *)

\* the result of such an operation
Written(H, P, v, H2, P2, v2, keep, nid) ==
  /\ IsHeap(H2, P2) /\ IsVec(H2, P2, v2) /\ Full(H2, v2)
  /\ Len(H) <= Len(H2)
  /\ \A n \in DOMAIN H : P2[n] = P[n] /\ H2[n].id = H[n].id
  /\ v2.id = v.id /\ v2.kind = v.kind /\ v.sz <= v2.sz
  /\ \A n \in Len(H) + 1 .. Len(H2) : H2[n].id \in {v.id, nid}
  /\ \A n \in Nodes(H2, v2) : n > Len(H) \/ n \in Nodes(H, v)
  /\ \A j \in 0 .. v2.sz - 1, e \in 0 .. Lv(v2) :
       \/ On(H2, v2, j, e) > Len(H)
       \/ j < v.sz /\ e \in 0 .. Lv(v) /\ On(H2, v2, j, e) = On(H, v, j, e)
       \/ /\ v.kind # "ps" /\ On(H2, v2, j, e) \in Nodes(H, v)
          /\ H[On(H2, v2, j, e)].id \in keep

\* every path of u is as it was or joins v2
Follows(H, H2, u, v, v2, keep) ==
  \A j \in Room(u) :
    \/ Stays(H, H2, u, j)
    \/ \E f : Joins(H, H2, u, v, v2, j, f) /\ H[On(H, u, j, f)].id \in keep

\* t may write nodes that bear its id or, being no transient, those it reaches
Claims(Vs, D, t) == D[t] = "sole" \/ (D[t] = "tip" /\ Vs[t].kind # "ps")

\* the variable g became v2
Became(Vs, Vs2, g, v2) == Vs2 = [Vs EXCEPT ![g] = v2]

\* who may write after h became g
Passed(Vs, D, D2, g, h) ==
  /\ D2 \in [Handle -> {"sole", "tip", "shared"}]
  /\ \A k \in Handle : k # g /\ k # h => D2[k] = D[k]
  /\ g = h => D2[h] = D[h]
  /\ g # h => /\ D2[h] = "shared"
              /\ \/ D2[g] = "shared"
                 \/ D2[g] = "tip" /\ D[h] # "shared" /\ Vs[h].kind # "ps"

\* the variable g becomes h after such an operation
Turn(H, P, Vs, D, U, H2, P2, v2, D2, g, h, keep, nid) ==
  /\ World(H, P, Vs, D, U)
  /\ g \in Handle /\ h \in Handle
  /\ Written(H, P, Vs[h], H2, P2, v2, keep, nid)
  /\ \A k \in Handle \ {g} : Follows(H, H2, Vs[k], Vs[h], v2, keep)
  /\ \A n \in Nodes(H, Vs[h]) : H[n].id \in keep => Owns(H, Vs[h], n) /\ Claims(Vs, D, h)
  /\ Vs[h].kind # "ps" => D[h] # "shared"
  /\ Vs[h].kind = "ps" /\ g # h => keep = {}
  /\ nid \in Int /\ (IF Vs[h].kind = "tr" THEN nid = Vs[h].id ELSE nid <= 0)
  /\ Passed(Vs, D, D2, g, h)

-----------------------------------------------------------------------------
(* What the invariant says of one variable.                                *)
LEMMA WorldFacts ==
  ASSUME NEW H, NEW P, NEW Vs, NEW D, NEW U, World(H, P, Vs, D, U), NEW k \in Handle
  PROVE  /\ H \in Seq(Node) /\ Len(H) \in Nat /\ DOMAIN H = 1 .. Len(H) /\ Null \notin DOMAIN H
         /\ IsHeap(H, P) /\ IsVec(H, P, Vs[k]) /\ Vs[k] \in Vector /\ Lv(Vs[k]) \in Nat
         /\ Full(H, Vs[k]) /\ Vs[k].sz \in Nat /\ Vs[k].id \in Int /\ Vs[k].kind \in Kind
         /\ U \in Nat /\ \A n \in DOMAIN H : H[n].id \in Int
         /\ Room(Vs[k]) \subseteq Nat
         /\ \A j \in 0 .. Vs[k].sz - 1 : j \in Room(Vs[k])
  <1>1. /\ H \in Seq(Node) /\ IsHeap(H, P) /\ IsVec(H, P, Vs[k]) /\ Full(H, Vs[k])
        /\ Vs[k] \in Vector /\ U \in Nat
    BY DEF World, Tries, IsHeap, Ids
  <1>2. Len(H) \in Nat /\ DOMAIN H = 1 .. Len(H) /\ Null \notin DOMAIN H
        /\ \A n \in DOMAIN H : H[n] \in Node
    BY <1>1 DEF Null
  <1>3. \A n \in DOMAIN H : H[n].id \in Int
    BY <1>2 DEF Node
  <1>4. Lv(Vs[k]) \in Nat /\ Room(Vs[k]) \subseteq Nat
    BY <1>1, RoomFacts
  <1>5. Vs[k].sz \in Nat /\ Vs[k].id \in Int /\ Vs[k].kind \in Kind
    BY <1>1 DEF Vector
  <1>6. Vs[k].sz <= Width(Lv(Vs[k]) + 1) /\ Width(Lv(Vs[k]) + 1) \in Nat
    <2>1. Lv(Vs[k]) + 1 \in Nat
      BY <1>4
    <2>. QED
      BY <1>1, <2>1, WidthFacts DEF IsVec
  <1>7. \A j \in 0 .. Vs[k].sz - 1 : j \in Room(Vs[k])
    <2>1. \A j \in 0 .. Vs[k].sz - 1 : j \in Nat /\ j < Width(Lv(Vs[k]) + 1)
      BY <1>5, <1>6
    <2>. QED
      BY <1>1, <2>1, RoomFacts
  <1>. QED
    BY <1>1, <1>2, <1>3, <1>4, <1>5, <1>7

(* The first vectors follow whoever does not write their nodes. *)
LEMMA UntouchedFollows ==
  ASSUME NEW H, NEW P, IsHeap(H, P), NEW u, IsVec(H, P, u), NEW H2 \in Seq(Node),
         Len(H) <= Len(H2), \A n \in Nodes(H, u) : H2[n] = H[n], NEW v, NEW v2, NEW keep
  PROVE  Follows(H, H2, u, v, v2, keep)
  <1>1. SamePaths(H, u, H2, u)
    BY Untouched
  <1>2. ASSUME NEW j \in Room(u)
        PROVE  Stays(H, H2, u, j)
    <2>1. ASSUME NEW e \in 0 .. Lv(u), On(H, u, j, e) \in DOMAIN H
          PROVE  H2[On(H, u, j, e)] = H[On(H, u, j, e)]
      <3>1. On(H, u, j, e) # Null
        BY <2>1 DEF IsHeap, Null
      <3>2. On(H, u, j, e) \in Nodes(H, u)
        BY <3>1 DEF Nodes
      <3>. QED
        BY <3>2
    <2>. QED
      BY <1>1, <2>1 DEF SamePaths, Stays
  <1>. QED
    BY <1>2 DEF Follows

(* What a turn says of both heaps.                                         *)
LEMMA TurnFacts ==
  ASSUME NEW H, NEW P, NEW Vs, NEW D, NEW U, NEW H2, NEW P2, NEW v2, NEW D2, NEW g, NEW h,
         NEW keep, NEW nid, Turn(H, P, Vs, D, U, H2, P2, v2, D2, g, h, keep, nid)
  PROVE  /\ World(H, P, Vs, D, U) /\ g \in Handle /\ h \in Handle
         /\ H2 \in Seq(Node) /\ Len(H2) \in Nat /\ DOMAIN H2 = 1 .. Len(H2)
         /\ Len(H) \in Nat /\ DOMAIN H = 1 .. Len(H) /\ Len(H) <= Len(H2)
         /\ IsHeap(H2, P2) /\ IsVec(H2, P2, v2) /\ v2 \in Vector /\ Full(H2, v2)
         /\ v2.id = Vs[h].id /\ v2.kind = Vs[h].kind /\ Vs[h].sz <= v2.sz
         /\ Vs[h].sz \in Nat /\ v2.sz \in Nat
         /\ \A n \in DOMAIN H : n \in DOMAIN H2 /\ H2[n].id = H[n].id /\ P2[n] = P[n]
         /\ \A n \in DOMAIN H2 : n \notin DOMAIN H <=> n > Len(H)
  <1>1. /\ World(H, P, Vs, D, U) /\ g \in Handle /\ h \in Handle
        /\ Written(H, P, Vs[h], H2, P2, v2, keep, nid)
    BY DEF Turn
  <1>2. Len(H) \in Nat /\ DOMAIN H = 1 .. Len(H) /\ Vs[h].sz \in Nat
    BY <1>1, WorldFacts
  <1>3. /\ IsHeap(H2, P2) /\ IsVec(H2, P2, v2) /\ Full(H2, v2) /\ Len(H) <= Len(H2)
        /\ v2.id = Vs[h].id /\ v2.kind = Vs[h].kind /\ Vs[h].sz <= v2.sz
        /\ \A n \in DOMAIN H : H2[n].id = H[n].id /\ P2[n] = P[n]
    BY <1>1 DEF Written
  <1>4. H2 \in Seq(Node) /\ Len(H2) \in Nat /\ DOMAIN H2 = 1 .. Len(H2) /\ v2 \in Vector
    BY <1>3 DEF IsHeap, IsVec
  <1>5. v2.sz \in Nat
    BY <1>4 DEF Vector
  <1>6. \A n \in DOMAIN H : n \in DOMAIN H2
    BY <1>2, <1>3, <1>4
  <1>7. \A n \in DOMAIN H2 : n \notin DOMAIN H <=> n > Len(H)
    BY <1>2, <1>4
  <1>. QED
    BY <1>1, <1>2, <1>3, <1>4, <1>5, <1>6, <1>7

(* A path that joins the pusher's new trie leads to one of its old elements. *)
LEMMA JoinShort ==
  ASSUME NEW H, NEW P, NEW Vs, NEW D, NEW U, NEW H2, NEW P2, NEW v2, NEW D2, NEW g, NEW h,
         NEW keep, NEW nid, Turn(H, P, Vs, D, U, H2, P2, v2, D2, g, h, keep, nid),
         NEW k \in Handle, k # g, NEW j \in 0 .. Vs[k].sz - 1, NEW f,
         Joins(H, H2, Vs[k], Vs[h], v2, j, f), H[On(H, Vs[k], j, f)].id \in keep
  PROVE  j < Vs[h].sz
  <1>. DEFINE p == On(H, Vs[k], j, f)
  <1>1. World(H, P, Vs, D, U) /\ h \in Handle
    BY TurnFacts
  <1>2. CASE k = h
    <2>1. Vs[h].sz \in Nat
      BY TurnFacts
    <2>. QED
      BY <1>2, <2>1
  <1>3. CASE k # h
    <2>1. p \in Nodes(H, Vs[h]) /\ f \in 0 .. Lv(Vs[k])
      BY DEF Joins
    <2>2. Owns(H, Vs[h], p) /\ Claims(Vs, D, h)
      BY <2>1 DEF Turn
    <2>3. j \in Room(Vs[k])
      BY <1>1, WorldFacts
    <2>4. p \in Nodes(H, Vs[k])
      BY <2>1, <2>3 DEF Nodes
    <2>5. CASE D[h] = "sole"
      BY <1>1, <1>3, <2>2, <2>4, <2>5 DEF World, Soles
    <2>6. CASE D[h] = "tip" /\ Vs[h].kind # "ps"
      <3>1. D[h] # "shared"
        BY <2>6
      <3>. QED
        BY <1>1, <1>3, <2>1, <2>2, <2>6, <3>1 DEF World, Tips
    <2>. QED
      BY <2>2, <2>5, <2>6 DEF Claims
  <1>. QED
    BY <1>2, <1>3

(* No transient, nor a vector that shares its nodes with one that may be  *)
(* written, joins the pusher's new trie.                                   *)
LEMMA JoinNone ==
  ASSUME NEW H, NEW P, NEW Vs, NEW D, NEW U, NEW H2, NEW P2, NEW v2, NEW D2, NEW g, NEW h,
         NEW keep, NEW nid, Turn(H, P, Vs, D, U, H2, P2, v2, D2, g, h, keep, nid),
         NEW t \in Handle, t # g, t # h, Claims(Vs, D, t), Vs[t].kind # "tr",
         NEW p \in Nodes(H, Vs[h]), H[p].id \in keep
  PROVE  p \notin Nodes(H, Vs[t])
  <1>. SUFFICES ASSUME p \in Nodes(H, Vs[t])
                PROVE  FALSE
    OBVIOUS
  <1>1. World(H, P, Vs, D, U) /\ h \in Handle /\ Vs[t].kind \in Kind /\ Vs[h].kind \in Kind
    BY TurnFacts, WorldFacts
  <1>2. Owns(H, Vs[h], p) /\ Claims(Vs, D, h)
    BY DEF Turn
  <1>3. CASE D[t] = "sole"
    BY <1>1, <1>3 DEF World, Soles, Owns
  <1>4. CASE D[t] # "sole"
    <2>1. D[t] = "tip" /\ Vs[t].kind = "bp"
      BY <1>1, <1>4 DEF Claims, Kind
    <2>2. H[p].id <= 0
      BY <1>1, <2>1 DEF World, Plain
    <2>3. CASE Vs[h].kind = "tr"
      <3>1. H[p].id = Vs[h].id
        BY <1>2, <2>3 DEF Owns
      <3>2. Vs[h].id \in 1 .. U - 1
        BY <1>1, <2>3 DEF World, Ids
      <3>3. U \in Nat
        BY <1>1, WorldFacts
      <3>. QED
        BY <2>2, <3>1, <3>2, <3>3
    <2>4. CASE D[h] = "sole"
      BY <1>1, <1>2, <2>4 DEF World, Soles
    <2>5. CASE Vs[h].kind # "tr" /\ D[h] # "sole"
      <3>1. Vs[h].kind = "bp" /\ D[h] = "tip"
        BY <1>1, <1>2, <2>5 DEF Claims, Kind
      <3>2. D[h] # "shared" /\ D[t] # "shared"
        BY <2>1, <3>1
      <3>. QED
        BY <1>1, <2>1, <3>1, <3>2 DEF World, Plain
    <2>. QED
      BY <2>3, <2>4, <2>5
  <1>. QED
    BY <1>3, <1>4

(* Hence it reaches the nodes it reached. *)
LEMMA OnlyOwn ==
  ASSUME NEW H, NEW P, NEW Vs, NEW D, NEW U, NEW H2, NEW P2, NEW v2, NEW D2, NEW g, NEW h,
         NEW keep, NEW nid, Turn(H, P, Vs, D, U, H2, P2, v2, D2, g, h, keep, nid),
         NEW t \in Handle, t # g, t # h, Claims(Vs, D, t), Vs[t].kind # "tr",
         NEW n \in Nodes(H2, Vs[t])
  PROVE  n \in Nodes(H, Vs[t])
  <1>1. PICK j \in Room(Vs[t]), e \in 0 .. Lv(Vs[t]) : n = On(H2, Vs[t], j, e)
    BY DEF Nodes
  <1>2. n # Null
    BY DEF Nodes
  <1>3. CASE Stays(H, H2, Vs[t], j)
    BY <1>1, <1>2, <1>3 DEF Stays, Nodes
  <1>4. ASSUME NEW f, Joins(H, H2, Vs[t], Vs[h], v2, j, f), H[On(H, Vs[t], j, f)].id \in keep
        PROVE  FALSE
    <2>1. On(H, Vs[t], j, f) \in Nodes(H, Vs[h]) /\ f \in 0 .. Lv(Vs[t])
      BY <1>4 DEF Joins
    <2>2. On(H, Vs[t], j, f) # Null
      BY <2>1 DEF Nodes
    <2>3. On(H, Vs[t], j, f) \in Nodes(H, Vs[t])
      BY <2>1, <2>2 DEF Nodes
    <2>. QED
      BY <1>4, <2>1, <2>3, JoinNone
  <1>5. Follows(H, H2, Vs[t], Vs[h], v2, keep)
    BY DEF Turn
  <1>. QED
    BY <1>3, <1>4, <1>5 DEF Follows

(* Who owns a node after the step owned it before, unless it is new. *)
LEMMA OwnsBack ==
  ASSUME NEW H, NEW P, NEW Vs, NEW D, NEW U, NEW H2, NEW P2, NEW v2, NEW D2, NEW g, NEW h,
         NEW keep, NEW nid, Turn(H, P, Vs, D, U, H2, P2, v2, D2, g, h, keep, nid),
         NEW Vs2, Became(Vs, Vs2, g, v2),
         NEW t \in Handle, Claims(Vs2, D2, t), NEW n \in DOMAIN H2, Owns(H2, Vs2[t], n)
  PROVE  /\ t # g => t # h /\ Claims(Vs, D, t) /\ n \in DOMAIN H /\ Owns(H, Vs[t], n)
         /\ t = g /\ n \in DOMAIN H => Owns(H, Vs[h], n)
  <1>1. /\ World(H, P, Vs, D, U) /\ h \in Handle /\ g \in Handle /\ Passed(Vs, D, D2, g, h)
        /\ Vs \in [Handle -> Vector]
    BY TurnFacts DEF Turn, World
  <1>2. /\ DOMAIN H = 1 .. Len(H) /\ Len(H) \in Nat /\ DOMAIN H2 = 1 .. Len(H2)
        /\ Len(H2) \in Nat /\ v2.id = Vs[h].id /\ v2.kind = Vs[h].kind
        /\ \A y \in DOMAIN H : H2[y].id = H[y].id
    BY TurnFacts
  <1>3. CASE t = g
    <2>1. Vs2[t] = v2
      BY <1>1, <1>3 DEF Became
    <2>2. ASSUME n \in DOMAIN H
          PROVE  Owns(H, Vs[h], n)
      <3>1. CASE Vs[h].kind = "tr"
        BY <1>2, <2>1, <2>2, <3>1 DEF Owns
      <3>2. CASE Vs[h].kind # "tr"
        <4>1. n \in Nodes(H2, v2)
          BY <1>2, <2>1, <3>2 DEF Owns
        <4>2. n > Len(H) \/ n \in Nodes(H, Vs[h])
          BY <4>1 DEF Turn, Written
        <4>3. ~(n > Len(H))
          BY <1>2, <2>2
        <4>. QED
          BY <3>2, <4>2, <4>3 DEF Owns
      <3>. QED
        BY <3>1, <3>2
    <2>. QED
      BY <1>3, <2>2
  <1>4. CASE t # g
    <2>1. Vs2[t] = Vs[t]
      BY <1>1, <1>4 DEF Became
    <2>2. t # h
      BY <1>1, <1>4 DEF Passed, Claims
    <2>3. D2[t] = D[t]
      BY <1>1, <1>4, <2>2 DEF Passed
    <2>4. Claims(Vs, D, t)
      BY <2>1, <2>3 DEF Claims
    <2>5. CASE Vs[t].kind = "tr"
      <3>1. H2[n].id = Vs[t].id
        BY <2>1, <2>5 DEF Owns
      <3>2. n \in DOMAIN H
        <4>1. SUFFICES ASSUME n \notin DOMAIN H
                       PROVE  FALSE
          OBVIOUS
        <4>2. n \in Len(H) + 1 .. Len(H2)
          BY <1>2, <4>1
        <4>3. H2[n].id \in {Vs[h].id, nid}
          BY <4>2 DEF Turn, Written
        <4>4. Vs[t].id \in 1 .. U - 1 /\ U \in Nat
          BY <1>1, <2>5, WorldFacts DEF World, Ids
        <4>5. CASE Vs[h].kind = "tr"
          <5>1. nid = Vs[h].id /\ D[h] # "shared"
            BY <4>5 DEF Turn
          <5>2. D[t] # "shared"
            BY <2>4 DEF Claims
          <5>3. Vs[h].id # Vs[t].id
            BY <1>1, <2>2, <2>5, <4>5, <5>1, <5>2 DEF World, Ids
          <5>. QED
            BY <3>1, <4>3, <5>1, <5>3
        <4>6. CASE Vs[h].kind # "tr"
          <5>1. nid <= 0 /\ nid \in Int
            BY <4>6 DEF Turn
          <5>2. Vs[h].id = 0
            BY <1>1, <4>6 DEF World, Ids
          <5>. QED
            BY <3>1, <4>3, <4>4, <5>1, <5>2
        <4>. QED
          BY <4>5, <4>6
      <3>3. Owns(H, Vs[t], n)
        BY <1>2, <2>5, <3>1, <3>2 DEF Owns
      <3>. QED
        BY <1>4, <2>2, <2>4, <3>2, <3>3
    <2>6. CASE Vs[t].kind # "tr"
      <3>1. n \in Nodes(H2, Vs[t])
        BY <2>1, <2>6 DEF Owns
      <3>2. n \in Nodes(H, Vs[t])
        BY <1>4, <2>2, <2>4, <2>6, <3>1, OnlyOwn
      <3>3. n \in DOMAIN H
        <4>1. IsHeap(H, P) /\ IsVec(H, P, Vs[t])
          BY <1>1, WorldFacts
        <4>. QED
          BY <3>2, <4>1, NodesIn
      <3>4. Owns(H, Vs[t], n)
        BY <2>6, <3>2 DEF Owns
      <3>. QED
        BY <1>4, <2>2, <2>4, <3>3, <3>4
    <2>. QED
      BY <2>5, <2>6
  <1>. QED
    BY <1>3, <1>4

(* The vectors are tries after a turn.                                     *)
LEMMA TurnTries ==
  ASSUME NEW H, NEW P, NEW Vs, NEW D, NEW U, NEW H2, NEW P2, NEW v2, NEW D2, NEW g, NEW h,
         NEW keep, NEW nid, Turn(H, P, Vs, D, U, H2, P2, v2, D2, g, h, keep, nid),
         NEW Vs2, Became(Vs, Vs2, g, v2)
  PROVE  Tries(H2, P2, Vs2)
  <1>1. /\ World(H, P, Vs, D, U) /\ g \in Handle /\ h \in Handle /\ Vs \in [Handle -> Vector]
        /\ IsHeap(H2, P2) /\ IsVec(H2, P2, v2) /\ Full(H2, v2)
        /\ Vs[h].sz <= v2.sz /\ Vs[h].sz \in Nat /\ v2.sz \in Nat
        /\ \A n \in DOMAIN H : n \in DOMAIN H2 /\ P2[n] = P[n]
    BY TurnFacts DEF World
  <1>2. ASSUME NEW k \in Handle
        PROVE  IsVec(H2, P2, Vs2[k]) /\ Full(H2, Vs2[k])
    <2>1. CASE k = g
      BY <1>1, <2>1 DEF Became
    <2>2. CASE k # g
      <3>. DEFINE u == Vs[k]
      <3>1. Vs2[k] = u
        BY <1>1, <2>2 DEF Became
      <3>2. /\ IsVec(H, P, u) /\ Full(H, u) /\ u \in Vector /\ 0 \in 0 .. Lv(u)
            /\ \A j \in 0 .. u.sz - 1 : j \in Room(u)
        BY <1>1, WorldFacts
      <3>3. IsVec(H2, P2, u)
        BY <1>1, <3>2 DEF IsVec
      <3>4. ASSUME NEW j \in 0 .. u.sz - 1
            PROVE  On(H2, u, j, 0) # Null
        <4>1. CASE Stays(H, H2, u, j)
          BY <3>2, <4>1 DEF Stays, Full
        <4>2. ASSUME NEW f, Joins(H, H2, u, Vs[h], v2, j, f), H[On(H, u, j, f)].id \in keep
              PROVE  On(H2, u, j, 0) # Null
          <5>1. j < Vs[h].sz
            BY <2>2, <4>2, JoinShort
          <5>2. j \in 0 .. v2.sz - 1
            <6>1. u.sz \in Nat
              BY <3>2 DEF Vector
            <6>. HIDE DEF u
            <6>. QED
              BY <1>1, <5>1, <6>1
          <5>3. On(H2, v2, j, 0) # Null
            BY <1>1, <5>2 DEF Full
          <5>4. 0 \in 0 .. f
            <6>1. f \in 0 .. Lv(u) /\ Lv(u) \in Nat
              BY <3>2, RoomFacts, <4>2 DEF Joins
            <6>. HIDE DEF u
            <6>. QED
              BY <6>1
          <5>. QED
            BY <4>2, <5>3, <5>4 DEF Joins
        <4>3. Follows(H, H2, u, Vs[h], v2, keep)
          BY <2>2 DEF Turn
        <4>. QED
          BY <3>2, <4>1, <4>2, <4>3 DEF Follows
      <3>5. Full(H2, u)
        BY <3>2, <3>4 DEF Full
      <3>. QED
        BY <3>1, <3>3, <3>5
    <2>. QED
      BY <2>1, <2>2
  <1>. QED
    BY <1>1, <1>2 DEF Tries

(* Kinds and owners after a turn.                                          *)
LEMMA TurnKinds ==
  ASSUME NEW H, NEW P, NEW Vs, NEW D, NEW U, NEW H2, NEW P2, NEW v2, NEW D2, NEW g, NEW h,
         NEW keep, NEW nid, Turn(H, P, Vs, D, U, H2, P2, v2, D2, g, h, keep, nid),
         NEW Vs2, Became(Vs, Vs2, g, v2)
  PROVE  /\ Vs2 \in [Handle -> Vector] /\ Vs2[g] = v2
         /\ \A k \in Handle : k # g => Vs2[k] = Vs[k]
         /\ D2 \in [Handle -> {"sole", "tip", "shared"}]
         /\ \A k \in Handle : k # g /\ D2[k] # "shared" => k # h /\ D2[k] = D[k]
         /\ D2[g] # "shared" => D[h] # "shared"
         /\ D2[g] = "sole" => g = h /\ D[h] = "sole"
  <1>1. /\ g \in Handle /\ h \in Handle /\ Vs \in [Handle -> Vector] /\ v2 \in Vector
        /\ Passed(Vs, D, D2, g, h)
    <2>1. g \in Handle /\ h \in Handle /\ World(H, P, Vs, D, U) /\ v2 \in Vector
      BY TurnFacts
    <2>2. Passed(Vs, D, D2, g, h)
      BY DEF Turn
    <2>. QED
      BY <2>1, <2>2 DEF World
  <1>2. Vs2 \in [Handle -> Vector] /\ Vs2[g] = v2 /\ \A k \in Handle : k # g => Vs2[k] = Vs[k]
    BY <1>1 DEF Became
  <1>3. \A k \in Handle : k # g /\ D2[k] # "shared" => k # h /\ D2[k] = D[k]
    BY <1>1 DEF Passed
  <1>4. D2[g] # "shared" => D[h] # "shared"
    BY <1>1 DEF Passed
  <1>5. D2[g] = "sole" => g = h /\ D[h] = "sole"
    BY <1>1 DEF Passed
  <1>6. D2 \in [Handle -> {"sole", "tip", "shared"}]
    BY <1>1 DEF Passed
  <1>. QED
    BY <1>2, <1>3, <1>4, <1>5, <1>6

(* The ids after a turn.                                                   *)
LEMMA TurnIds ==
  ASSUME NEW H, NEW P, NEW Vs, NEW D, NEW U, NEW H2, NEW P2, NEW v2, NEW D2, NEW g, NEW h,
         NEW keep, NEW nid, Turn(H, P, Vs, D, U, H2, P2, v2, D2, g, h, keep, nid),
         NEW Vs2, Became(Vs, Vs2, g, v2)
  PROVE  Ids(H2, Vs2, D2, U)
  <1>1. /\ World(H, P, Vs, D, U) /\ g \in Handle /\ h \in Handle /\ Ids(H, Vs, D, U)
        /\ v2.id = Vs[h].id /\ v2.kind = Vs[h].kind
        /\ \A n \in DOMAIN H : H2[n].id = H[n].id
        /\ Len(H) \in Nat /\ DOMAIN H = 1 .. Len(H)
        /\ Len(H2) \in Nat /\ DOMAIN H2 = 1 .. Len(H2)
    BY TurnFacts DEF World
  <1>2. U \in Nat \ {0}
    BY <1>1 DEF Ids
  <1>3. Vs[h].id < U /\ nid < U
    <2>1. CASE Vs[h].kind = "tr"
      <3>1. Vs[h].id \in 1 .. U - 1 /\ nid = Vs[h].id
        BY <1>1, <2>1 DEF Ids, Turn
      <3>. QED
        BY <1>2, <3>1
    <2>2. CASE Vs[h].kind # "tr"
      <3>1. Vs[h].id = 0 /\ nid <= 0 /\ nid \in Int
        BY <1>1, <2>2 DEF Ids, Turn
      <3>. QED
        BY <1>2, <3>1
    <2>. QED
      BY <2>1, <2>2
  <1>4. ASSUME NEW n \in DOMAIN H2
        PROVE  H2[n].id < U
    <2>1. CASE n \in DOMAIN H
      BY <1>1, <2>1 DEF Ids
    <2>2. CASE n \notin DOMAIN H
      <3>1. n \in Len(H) + 1 .. Len(H2)
        BY <1>1, <2>2
      <3>2. H2[n].id \in {Vs[h].id, nid}
        BY <3>1 DEF Turn, Written
      <3>. QED
        BY <1>3, <3>2
    <2>. QED
      BY <2>1, <2>2
  <1>5. ASSUME NEW k \in Handle
        PROVE  IF Vs2[k].kind = "tr" THEN Vs2[k].id \in 1 .. U - 1 ELSE Vs2[k].id = 0
    <2>1. CASE k = g
      <3>1. Vs2[k].kind = Vs[h].kind /\ Vs2[k].id = Vs[h].id
        BY <1>1, <2>1, TurnKinds
      <3>. QED
        BY <1>1, <3>1 DEF Ids
    <2>2. CASE k # g
      <3>1. Vs2[k] = Vs[k]
        BY <2>2, TurnKinds
      <3>. QED
        BY <1>1, <3>1 DEF Ids
    <2>. QED
      BY <2>1, <2>2
  <1>6. ASSUME NEW k \in Handle, NEW l \in Handle, k # l, D2[k] # "shared", D2[l] # "shared",
               Vs2[k].kind = "tr", Vs2[l].kind = "tr"
        PROVE  Vs2[k].id # Vs2[l].id
    <2>. DEFINE K == IF k = g THEN h ELSE k
                M == IF l = g THEN h ELSE l
    <2>1. /\ k # g => k # h /\ D2[k] = D[k] /\ Vs2[k] = Vs[k]
          /\ l # g => l # h /\ D2[l] = D[l] /\ Vs2[l] = Vs[l]
          /\ k = g => D[h] # "shared" /\ Vs2[k] = v2
          /\ l = g => D[h] # "shared" /\ Vs2[l] = v2
      BY <1>6, TurnKinds
    <2>2. K \in Handle /\ M \in Handle /\ K # M
      BY <1>1, <1>6, <2>1
    <2>3. /\ D[K] # "shared" /\ D[M] # "shared" /\ Vs[K].kind = "tr" /\ Vs[M].kind = "tr"
          /\ Vs2[k].id = Vs[K].id /\ Vs2[l].id = Vs[M].id
      BY <1>1, <1>6, <2>1
    <2>. QED
      BY <1>1, <2>2, <2>3 DEF Ids
  <1>. QED
    BY <1>2, <1>4, <1>5, <1>6 DEF Ids

(* The nodes of bp_vectors after a turn.                                   *)
LEMMA TurnPlain ==
  ASSUME NEW H, NEW P, NEW Vs, NEW D, NEW U, NEW H2, NEW P2, NEW v2, NEW D2, NEW g, NEW h,
         NEW keep, NEW nid, Turn(H, P, Vs, D, U, H2, P2, v2, D2, g, h, keep, nid),
         NEW Vs2, Became(Vs, Vs2, g, v2)
  PROVE  Plain(H2, Vs2, D2)
  <1>0. Vs2[g] = v2 /\ (D2[g] # "shared" => D[h] # "shared")
    <2>1. Vs2[g] = v2
      <3>1. Vs \in [Handle -> Vector] /\ g \in Handle
        BY TurnFacts DEF World
      <3>. QED
        BY <3>1 DEF Became
    <2>2. D2[g] # "shared" => D[h] # "shared"
      BY TurnKinds
    <2>. QED
      BY <2>1, <2>2
  <1>1. /\ World(H, P, Vs, D, U) /\ g \in Handle /\ h \in Handle /\ Plain(H, Vs, D)
        /\ v2.id = Vs[h].id /\ v2.kind = Vs[h].kind
        /\ \A n \in DOMAIN H : H2[n].id = H[n].id
        /\ Len(H) \in Nat /\ DOMAIN H = 1 .. Len(H)
        /\ Len(H2) \in Nat /\ DOMAIN H2 = 1 .. Len(H2)
        /\ IsHeap(H2, P2) /\ IsVec(H2, P2, v2) /\ IsHeap(H, P)
        /\ \A k \in Handle : IsVec(H, P, Vs[k])
    BY TurnFacts, WorldFacts DEF World
  <1>2. \A k \in Handle : Nodes(H, Vs[k]) \subseteq DOMAIN H
    BY <1>1, NodesIn
  <1>3. ASSUME Vs[h].kind = "bp", NEW n \in Nodes(H2, v2)
        PROVE  H2[n].id <= 0
    <2>1. n \in DOMAIN H2
      BY <1>1, NodesIn
    <2>2. CASE n > Len(H)
      <3>1. n \in Len(H) + 1 .. Len(H2)
        BY <1>1, <2>1, <2>2
      <3>2. H2[n].id \in {Vs[h].id, nid}
        BY <3>1 DEF Turn, Written
      <3>3. Vs[h].id = 0 /\ nid <= 0
        BY <1>1, <1>3 DEF World, Ids, Turn
      <3>. QED
        BY <3>2, <3>3
    <2>3. CASE n \in Nodes(H, Vs[h])
      <3>1. H[n].id <= 0 /\ n \in DOMAIN H
        BY <1>1, <1>2, <1>3, <2>3 DEF Plain
      <3>. QED
        BY <1>1, <3>1
    <2>. QED
      BY <2>2, <2>3 DEF Turn, Written
  <1>4. ASSUME NEW k \in Handle, Vs2[k].kind = "bp", NEW n \in Nodes(H2, Vs2[k])
        PROVE  H2[n].id <= 0
    <2>1. CASE k = g
      BY <1>1, <1>3, <1>4, <2>1, TurnKinds
    <2>2. CASE k # g
      <3>. DEFINE u == Vs[k]
      <3>1. Vs2[k] = u /\ u.kind = "bp"
        BY <1>4, <2>2, TurnKinds
      <3>2. ASSUME NEW y \in Nodes(H, u)
            PROVE  H2[y].id <= 0
        BY <1>1, <1>2, <3>1, <3>2 DEF Plain
      <3>3. PICK j \in Room(u), e \in 0 .. Lv(u) : n = On(H2, u, j, e)
        BY <1>4, <3>1 DEF Nodes
      <3>4. n # Null
        BY <1>4 DEF Nodes
      <3>5. CASE Stays(H, H2, u, j)
        <4>1. n \in Nodes(H, u)
          BY <3>3, <3>4, <3>5 DEF Stays, Nodes
        <4>. QED
          BY <3>2, <4>1
      <3>6. ASSUME NEW f, Joins(H, H2, u, Vs[h], v2, j, f), H[On(H, u, j, f)].id \in keep
            PROVE  H2[n].id <= 0
        <4>. DEFINE p == On(H, u, j, f)
        <4>1. p \in Nodes(H, Vs[h]) /\ f \in 0 .. Lv(u)
          BY <3>6 DEF Joins
        <4>2. p \in Nodes(H, u)
          <5>1. p # Null
            BY <4>1 DEF Nodes
          <5>. QED
            BY <4>1, <5>1 DEF Nodes
        <4>3. Owns(H, Vs[h], p) /\ Claims(Vs, D, h)
          BY <3>6, <4>1 DEF Turn
        <4>4. Vs[h].kind # "tr"
          <5>1. SUFFICES ASSUME Vs[h].kind = "tr"
                         PROVE  FALSE
            OBVIOUS
          <5>2. H[p].id = Vs[h].id
            BY <4>3, <5>1 DEF Owns
          <5>3. Vs[h].id \in 1 .. U - 1 /\ U \in Nat
            BY <1>1, <5>1, WorldFacts DEF World, Ids
          <5>4. H[p].id <= 0
            BY <1>1, <3>1, <4>2 DEF Plain
          <5>. QED
            BY <5>2, <5>3, <5>4
        <4>5. Vs[h].kind = "bp"
          <5>1. SUFFICES ASSUME Vs[h].kind # "bp"
                         PROVE  FALSE
            OBVIOUS
          <5>2. Vs[h].kind = "ps"
            <6>1. Vs[h].kind \in Kind
              BY <1>1, WorldFacts
            <6>. QED
              BY <4>4, <5>1, <6>1 DEF Kind
          <5>3. D[h] = "sole" /\ k # h
            BY <3>1, <4>3, <5>2 DEF Claims
          <5>. QED
            BY <1>1, <4>2, <4>3, <5>3 DEF World, Soles
        <4>6. e \in 0 .. f \/ e \in f .. Lv(u)
          <5>1. Lv(u) \in Nat
            BY <1>1, WorldFacts
          <5>. HIDE DEF u
          <5>. QED
            BY <4>1, <5>1
        <4>7. CASE e \in 0 .. f
          <5>1. n = On(H2, v2, j, e) /\ j \in Room(v2) /\ e \in 0 .. Lv(v2)
            <6>1. f \in 0 .. Lv(v2) /\ j \in Room(v2) /\ n = On(H2, v2, j, e)
              BY <3>3, <3>6, <4>7 DEF Joins
            <6>2. Lv(v2) \in Nat
              BY <1>1, RoomFacts DEF IsVec
            <6>. QED
              BY <4>7, <6>1, <6>2
          <5>2. n \in Nodes(H2, v2)
            BY <3>4, <5>1 DEF Nodes
          <5>. QED
            BY <1>3, <4>5, <5>2
        <4>8. CASE e \in f .. Lv(u)
          <5>1. n = On(H, u, j, e)
            BY <3>3, <3>6, <4>8 DEF Joins
          <5>2. n \in Nodes(H, u)
            BY <3>3, <3>4, <5>1 DEF Nodes
          <5>. QED
            BY <3>2, <5>2
        <4>. QED
          BY <4>6, <4>7, <4>8
      <3>7. Follows(H, H2, u, Vs[h], v2, keep)
        BY <2>2 DEF Turn
      <3>. QED
        BY <3>3, <3>5, <3>6, <3>7 DEF Follows
    <2>. QED
      BY <2>1, <2>2
  <1>5. ASSUME NEW k \in Handle, D2[k] # "shared", Vs2[k].kind = "bp", k # g,
               NEW n \in Nodes(H2, Vs2[k])
        PROVE  k # h /\ D[k] # "shared" /\ Vs[k].kind = "bp" /\ n \in Nodes(H, Vs[k])
    <2>1. k # h /\ D2[k] = D[k] /\ Vs2[k] = Vs[k]
      BY <1>5, TurnKinds
    <2>2. D[k] # "shared" /\ Vs[k].kind = "bp"
      BY <1>5, <2>1
    <2>3. Claims(Vs, D, k)
      BY <1>1, <2>2 DEF World, Claims
    <2>. QED
      BY <1>5, <2>1, <2>2, <2>3, OnlyOwn
  <1>6. ASSUME NEW k \in Handle, D2[k] # "shared", Vs2[k].kind = "bp", k # g, D2[g] # "shared",
               Vs2[g].kind = "bp", NEW n \in Nodes(H2, Vs2[g]), n \in Nodes(H2, Vs2[k])
        PROVE  FALSE
    <2>1. k # h /\ D[k] # "shared" /\ Vs[k].kind = "bp" /\ n \in Nodes(H, Vs[k])
      BY <1>5, <1>6
    <2>2. Vs2[g] = v2 /\ D[h] # "shared"
      BY <1>0, <1>6
    <2>3. n > Len(H) \/ n \in Nodes(H, Vs[h])
      BY <1>6, <2>2 DEF Turn, Written
    <2>4. ~(n > Len(H))
      <3>1. n \in 1 .. Len(H)
        BY <1>1, <1>2, <2>1
      <3>. QED
        BY <1>1, <3>1
    <2>5. Vs[h].kind = "bp"
      BY <1>1, <1>6, <2>2
    <2>. QED
      BY <1>1, <2>1, <2>2, <2>3, <2>4, <2>5 DEF Plain
  <1>7. ASSUME NEW k \in Handle, NEW l \in Handle, k # l, D2[k] # "shared", D2[l] # "shared",
               Vs2[k].kind = "bp", Vs2[l].kind = "bp", NEW n \in Nodes(H2, Vs2[k]),
               n \in Nodes(H2, Vs2[l])
        PROVE  FALSE
    <2>1. CASE k = g
      BY <1>6, <1>7, <2>1
    <2>2. CASE l = g
      BY <1>6, <1>7, <2>2
    <2>3. CASE k # g /\ l # g
      <3>1. D[k] # "shared" /\ Vs[k].kind = "bp" /\ n \in Nodes(H, Vs[k])
        BY <1>5, <1>7, <2>3
      <3>2. D[l] # "shared" /\ Vs[l].kind = "bp" /\ n \in Nodes(H, Vs[l])
        BY <1>5, <1>7, <2>3
      <3>. QED
        BY <1>1, <1>7, <3>1, <3>2 DEF Plain
    <2>. QED
      BY <2>1, <2>2, <2>3
  <1>. QED
    BY <1>4, <1>7 DEF Plain

(* Where the nodes on a path come from. *)
LEMMA NodesBack ==
  ASSUME NEW H, NEW P, NEW Vs, NEW D, NEW U, NEW H2, NEW P2, NEW v2, NEW D2, NEW g, NEW h,
         NEW keep, NEW nid, Turn(H, P, Vs, D, U, H2, P2, v2, D2, g, h, keep, nid),
         NEW k \in Handle, k # g, NEW n \in Nodes(H2, Vs[k])
  PROVE  \/ n \in Nodes(H, Vs[k])
         \/ /\ n \in Nodes(H2, v2)
            /\ \E p \in Nodes(H, Vs[k]) : p \in Nodes(H, Vs[h]) /\ H[p].id \in keep
  <1>. DEFINE u == Vs[k]
  <1>1. /\ h \in Handle /\ Lv(u) \in Nat /\ Lv(v2) \in Nat
    <2>1. h \in Handle /\ World(H, P, Vs, D, U) /\ v2 \in Vector
      BY TurnFacts
    <2>2. Lv(u) \in Nat
      BY <2>1, WorldFacts
    <2>. QED
      BY <2>1, <2>2, RoomFacts
  <1>2. PICK j \in Room(u), e \in 0 .. Lv(u) : n = On(H2, u, j, e)
    BY DEF Nodes
  <1>3. n # Null
    BY DEF Nodes
  <1>4. CASE Stays(H, H2, u, j)
    BY <1>2, <1>3, <1>4 DEF Stays, Nodes
  <1>5. ASSUME NEW f, Joins(H, H2, u, Vs[h], v2, j, f), H[On(H, u, j, f)].id \in keep
        PROVE  \/ n \in Nodes(H, Vs[k])
               \/ /\ n \in Nodes(H2, v2)
                  /\ \E p \in Nodes(H, Vs[k]) : p \in Nodes(H, Vs[h]) /\ H[p].id \in keep
    <2>. DEFINE p == On(H, u, j, f)
    <2>1. p \in Nodes(H, Vs[h]) /\ f \in 0 .. Lv(u) /\ f \in 0 .. Lv(v2) /\ j \in Room(v2)
      BY <1>5 DEF Joins
    <2>2. p \in Nodes(H, u)
      <3>1. p # Null
        BY <2>1 DEF Nodes
      <3>. QED
        BY <2>1, <3>1 DEF Nodes
    <2>3. CASE e \in f .. Lv(u)
      <3>1. n = On(H, u, j, e)
        BY <1>2, <1>5, <2>3 DEF Joins
      <3>. QED
        BY <1>2, <1>3, <3>1 DEF Nodes
    <2>4. CASE e \in 0 .. f
      <3>1. n = On(H2, v2, j, e)
        BY <1>2, <1>5, <2>4 DEF Joins
      <3>2. e \in 0 .. Lv(v2)
        BY <1>1, <2>1, <2>4
      <3>3. n \in Nodes(H2, v2)
        BY <1>3, <2>1, <3>1, <3>2 DEF Nodes
      <3>. QED
        BY <1>5, <2>1, <2>2, <3>3
    <2>5. e \in 0 .. f \/ e \in f .. Lv(u)
      <3>1. e \in 0 .. Lv(u)
        BY <1>2
      <3>. HIDE DEF u
      <3>. QED
        BY <1>1, <2>1, <3>1
    <2>. QED
      BY <2>3, <2>4, <2>5
  <1>6. Follows(H, H2, u, Vs[h], v2, keep)
    BY DEF Turn
  <1>. QED
    BY <1>4, <1>5, <1>6 DEF Follows

(* Sole owners after a turn.                                               *)
LEMMA TurnSoles ==
  ASSUME NEW H, NEW P, NEW Vs, NEW D, NEW U, NEW H2, NEW P2, NEW v2, NEW D2, NEW g, NEW h,
         NEW keep, NEW nid, Turn(H, P, Vs, D, U, H2, P2, v2, D2, g, h, keep, nid),
         NEW Vs2, Became(Vs, Vs2, g, v2)
  PROVE  Soles(H2, Vs2, D2)
  <1>. SUFFICES ASSUME NEW s \in Handle, NEW k \in Handle, s # k, D2[s] = "sole",
                       NEW n \in Nodes(H2, Vs2[k]), Owns(H2, Vs2[s], n)
                PROVE  FALSE
    BY DEF Soles
  <1>1. /\ World(H, P, Vs, D, U) /\ h \in Handle /\ g \in Handle /\ Soles(H, Vs, D)
        /\ Vs \in [Handle -> Vector] /\ Claims(Vs2, D2, s)
        /\ Len(H) \in Nat /\ DOMAIN H = 1 .. Len(H) /\ IsHeap(H, P)
        /\ \A l \in Handle : IsVec(H, P, Vs[l])
    BY TurnFacts, WorldFacts DEF World, Claims
  <1>2. n \in DOMAIN H2
    <2>1. Tries(H2, P2, Vs2)
      BY TurnTries
    <2>2. IsHeap(H2, P2) /\ IsVec(H2, P2, Vs2[k])
      BY <2>1 DEF Tries
    <2>. QED
      BY <2>2, NodesIn
  <1>3. /\ s # g => s # h /\ Claims(Vs, D, s) /\ n \in DOMAIN H /\ Owns(H, Vs[s], n)
        /\ s = g /\ n \in DOMAIN H => Owns(H, Vs[h], n)
    BY <1>1, <1>2, OwnsBack
  <1>4. /\ Vs2[g] = v2 /\ \A l \in Handle : l # g => Vs2[l] = Vs[l]
    BY <1>1 DEF Became
  <1>5. /\ s # g => D[s] = "sole"
        /\ s = g => g = h /\ D[h] = "sole"
    BY TurnKinds
  <1>6. \A y \in Nodes(H2, v2) : y \in DOMAIN H => y \in Nodes(H, Vs[h])
    <2>1. \A y \in Nodes(H2, v2) : y > Len(H) \/ y \in Nodes(H, Vs[h])
      BY DEF Turn, Written
    <2>. QED
      BY <1>1, <2>1
  <1>7. CASE s # g
    <2>1. n \in Nodes(H, Vs[h]) \/ (k # g /\ n \in Nodes(H, Vs[k]))
      <3>1. CASE k = g
        BY <1>3, <1>4, <1>6, <1>7, <3>1
      <3>2. CASE k # g
        <4>1. n \in Nodes(H2, Vs[k])
          BY <1>4, <3>2
        <4>2. n \in Nodes(H, Vs[k]) \/ n \in Nodes(H2, v2)
          BY <3>2, <4>1, NodesBack
        <4>. QED
          BY <1>3, <1>6, <1>7, <3>2, <4>2
      <3>. QED
        BY <3>1, <3>2
    <2>. QED
      BY <1>1, <1>3, <1>5, <1>7, <2>1 DEF Soles
  <1>8. CASE s = g
    <2>1. k # g /\ k # h /\ Vs2[k] = Vs[k]
      BY <1>4, <1>5, <1>8
    <2>2. n \in Nodes(H2, Vs[k])
      BY <2>1
    <2>3. CASE n \in Nodes(H, Vs[k])
      <3>1. n \in DOMAIN H
        BY <1>1, <2>3, NodesIn
      <3>2. Owns(H, Vs[h], n)
        BY <1>3, <1>8, <3>1
      <3>. QED
        BY <1>1, <1>5, <1>8, <2>1, <2>3, <3>2 DEF Soles
    <2>4. CASE \E p \in Nodes(H, Vs[k]) : p \in Nodes(H, Vs[h]) /\ H[p].id \in keep
      <3>1. PICK p \in Nodes(H, Vs[k]) : p \in Nodes(H, Vs[h]) /\ H[p].id \in keep
        BY <2>4
      <3>2. Owns(H, Vs[h], p)
        BY <3>1 DEF Turn
      <3>. QED
        BY <1>1, <1>5, <1>8, <2>1, <3>1, <3>2 DEF Soles
    <2>. QED
      BY <2>1, <2>2, <2>3, <2>4, NodesBack
  <1>. QED
    BY <1>7, <1>8

(* Two variables that may be written own no node in common. *)
LEMMA Exclusive ==
  ASSUME NEW H, NEW P, NEW Vs, NEW D, NEW U, World(H, P, Vs, D, U),
         NEW t \in Handle, NEW h \in Handle, t # h, D[t] # "shared", D[h] # "shared",
         Vs[t].kind # "ps", Vs[h].kind # "ps", NEW n \in Nodes(H, Vs[h]),
         Owns(H, Vs[t], n), Owns(H, Vs[h], n)
  PROVE  FALSE
  <1>1. Vs[t].kind \in Kind /\ Vs[h].kind \in Kind /\ U \in Nat
    BY WorldFacts
  <1>2. Ids(H, Vs, D, U) /\ Plain(H, Vs, D)
    BY DEF World
  <1>3. CASE Vs[t].kind = "tr" /\ Vs[h].kind = "tr"
    BY <1>2, <1>3 DEF Ids, Owns
  <1>4. CASE Vs[t].kind = "bp" /\ Vs[h].kind = "bp"
    <2>1. n \in Nodes(H, Vs[t])
      BY <1>4 DEF Owns
    <2>. QED
      BY <1>2, <1>4, <2>1 DEF Plain
  <1>5. ASSUME NEW r \in Handle, NEW b \in Handle, Vs[r].kind = "tr", Vs[b].kind = "bp",
               Owns(H, Vs[r], n), n \in Nodes(H, Vs[b])
        PROVE  FALSE
    <2>1. H[n].id = Vs[r].id
      BY <1>5 DEF Owns
    <2>2. Vs[r].id \in 1 .. U - 1
      BY <1>2, <1>5 DEF Ids
    <2>3. H[n].id <= 0
      BY <1>2, <1>5 DEF Plain
    <2>. QED
      BY <1>1, <2>1, <2>2, <2>3
  <1>6. CASE Vs[t].kind = "tr" /\ Vs[h].kind = "bp"
    BY <1>5, <1>6
  <1>7. CASE Vs[t].kind = "bp" /\ Vs[h].kind = "tr"
    <2>1. n \in Nodes(H, Vs[t])
      BY <1>7 DEF Owns
    <2>. QED
      BY <1>5, <1>7, <2>1
  <1>. QED
    BY <1>1, <1>3, <1>4, <1>6, <1>7 DEF Kind

(* Those that may grow after a turn.                                       *)
LEMMA TurnTips ==
  ASSUME NEW H, NEW P, NEW Vs, NEW D, NEW U, NEW H2, NEW P2, NEW v2, NEW D2, NEW g, NEW h,
         NEW keep, NEW nid, Turn(H, P, Vs, D, U, H2, P2, v2, D2, g, h, keep, nid),
         NEW Vs2, Became(Vs, Vs2, g, v2)
  PROVE  Tips(H2, Vs2, D2)
  <1>. SUFFICES ASSUME NEW t \in Handle, NEW k \in Handle, t # k, D2[t] # "shared",
                       Vs2[t].kind # "ps", NEW j \in 0 .. Vs2[k].sz - 1, NEW e \in 0 .. Lv(Vs2[k]),
                       Owns(H2, Vs2[t], On(H2, Vs2[k], j, e))
                PROVE  j < Vs2[t].sz
    BY DEF Tips
  <1>. DEFINE n == On(H2, Vs2[k], j, e)
  <1>1. /\ World(H, P, Vs, D, U) /\ h \in Handle /\ g \in Handle /\ Tips(H, Vs, D)
        /\ Vs \in [Handle -> Vector]
        /\ Len(H) \in Nat /\ DOMAIN H = 1 .. Len(H) /\ IsHeap(H, P)
        /\ Vs[h].sz <= v2.sz /\ Vs[h].sz \in Nat /\ v2.sz \in Nat
        /\ v2.kind = Vs[h].kind
    BY TurnFacts, WorldFacts DEF World
  <1>2. /\ Vs2[g] = v2 /\ \A l \in Handle : l # g => Vs2[l] = Vs[l]
    BY <1>1 DEF Became
  <1>3. /\ t # g => t # h /\ D2[t] = D[t] /\ D[t] # "shared"
        /\ t = g => D[h] # "shared"
    BY TurnKinds
  <1>4. D2[t] \in {"sole", "tip", "shared"} /\ Claims(Vs2, D2, t)
    <2>1. D2 \in [Handle -> {"sole", "tip", "shared"}]
      BY TurnKinds
    <2>2. D2[t] = "sole" \/ D2[t] = "tip"
      BY <2>1
    <2>. QED
      BY <2>2 DEF Claims
  <1>5. n \in DOMAIN H2
    <2>1. Tries(H2, P2, Vs2)
      BY TurnTries
    <2>2. IsHeap(H2, P2) /\ IsVec(H2, P2, Vs2[k]) /\ Full(H2, Vs2[k])
      BY <2>1 DEF Tries
    <2>. QED
      BY <2>2, FullPath
  <1>6. /\ t # g => t # h /\ Claims(Vs, D, t) /\ n \in DOMAIN H /\ Owns(H, Vs[t], n)
        /\ t = g /\ n \in DOMAIN H => Owns(H, Vs[h], n)
    BY <1>4, <1>5, OwnsBack
  <1>7. /\ t # g => Vs[t].kind # "ps" /\ Vs2[t].sz = Vs[t].sz /\ Vs[t].sz \in Nat
        /\ t = g => Vs[h].kind # "ps" /\ Vs2[t].sz = v2.sz
    BY <1>1, <1>2, WorldFacts
  <1>. HIDE DEF n
  \* the path of another variable to one of the pusher's elements
  <1>8. ASSUME t # g, n \in Nodes(H2, v2), NEW j2 \in 0 .. v2.sz - 1, NEW e2 \in 0 .. Lv(v2),
               n = On(H2, v2, j2, e2)
        PROVE  j2 < Vs[t].sz
    <2>1. ~(n > Len(H))
      <3>1. n \in 1 .. Len(H)
        BY <1>1, <1>6, <1>8
      <3>. QED
        BY <1>1, <3>1
    <2>2. \/ j2 < Vs[h].sz /\ e2 \in 0 .. Lv(Vs[h]) /\ n = On(H, Vs[h], j2, e2)
          \/ Vs[h].kind # "ps" /\ n \in Nodes(H, Vs[h]) /\ H[n].id \in keep
      BY <1>8, <2>1 DEF Turn, Written
    <2>3. CASE j2 < Vs[h].sz /\ e2 \in 0 .. Lv(Vs[h]) /\ n = On(H, Vs[h], j2, e2)
      <3>1. j2 \in 0 .. Vs[h].sz - 1
        BY <1>1, <2>3
      <3>2. t # h /\ D[t] # "shared" /\ Vs[t].kind # "ps" /\ Owns(H, Vs[t], n)
        BY <1>3, <1>6, <1>7, <1>8
      <3>. QED
        BY <1>1, <2>3, <3>1, <3>2 DEF Tips
    <2>4. CASE Vs[h].kind # "ps" /\ n \in Nodes(H, Vs[h]) /\ H[n].id \in keep
      <3>1. Owns(H, Vs[h], n) /\ D[h] # "shared"
        BY <2>4 DEF Turn
      <3>2. t # h /\ D[t] # "shared" /\ Vs[t].kind # "ps" /\ Owns(H, Vs[t], n)
        BY <1>3, <1>6, <1>7, <1>8
      <3>. QED
        BY <1>1, <2>4, <3>1, <3>2, Exclusive
    <2>. QED
      BY <2>2, <2>3, <2>4
  <1>9. CASE k = g
    <2>1. t # g /\ j \in 0 .. v2.sz - 1 /\ e \in 0 .. Lv(v2) /\ n = On(H2, v2, j, e)
      BY <1>2, <1>9 DEF n
    <2>2. n \in Nodes(H2, v2)
      <3>1. IsHeap(H2, P2) /\ IsVec(H2, P2, v2) /\ Full(H2, v2)
        BY TurnFacts
      <3>. QED
        BY <2>1, <3>1, FullPath
    <2>. QED
      BY <1>7, <1>8, <2>1, <2>2
  <1>10. CASE k # g
    <2>. DEFINE u == Vs[k]
    <2>1. /\ Vs2[k] = u /\ j \in 0 .. u.sz - 1 /\ e \in 0 .. Lv(u) /\ n = On(H2, u, j, e)
      BY <1>2, <1>10 DEF n
    <2>2. /\ IsVec(H, P, u) /\ Full(H, u) /\ j \in Room(u) /\ Lv(u) \in Nat /\ u.sz \in Nat
      BY <1>1, <2>1, WorldFacts
    <2>3. ASSUME n = On(H, u, j, e)
          PROVE  j < Vs2[t].sz
      <3>1. n \in DOMAIN H
        BY <1>1, <2>1, <2>2, <2>3, FullPath
      <3>2. CASE t # g
        <4>1. D[t] # "shared" /\ Vs[t].kind # "ps" /\ Owns(H, Vs[t], n)
          BY <1>3, <1>6, <1>7, <3>2
        <4>2. j < Vs[t].sz
          BY <1>1, <2>1, <2>3, <4>1 DEF Tips
        <4>. QED
          BY <1>7, <3>2, <4>2
      <3>3. CASE t = g /\ k = h
        <4>1. j < Vs[h].sz
          BY <1>1, <2>1, <3>3
        <4>. QED
          BY <1>1, <1>7, <2>1, <3>3, <4>1
      <3>4. CASE t = g /\ k # h
        <4>1. D[h] # "shared" /\ Vs[h].kind # "ps" /\ Owns(H, Vs[h], n)
          BY <1>3, <1>6, <1>7, <3>1, <3>4
        <4>2. j < Vs[h].sz
          BY <1>1, <2>1, <2>3, <3>4, <4>1 DEF Tips
        <4>. QED
          BY <1>1, <1>7, <2>1, <3>4, <4>2
      <3>. QED
        BY <3>2, <3>3, <3>4
    <2>4. CASE Stays(H, H2, u, j)
      <3>1. n = On(H, u, j, e)
        BY <2>1, <2>4 DEF Stays
      <3>. QED
        BY <2>3, <3>1
    <2>5. ASSUME NEW f, Joins(H, H2, u, Vs[h], v2, j, f), H[On(H, u, j, f)].id \in keep
          PROVE  j < Vs2[t].sz
      <3>1. j < Vs[h].sz
        BY <1>10, <2>1, <2>5, JoinShort
      <3>2. j \in 0 .. v2.sz - 1
        <4>1. j \in Nat
          BY <2>1, <2>2
        <4>. QED
          BY <1>1, <3>1, <4>1
      <3>3. CASE t = g
        BY <1>1, <1>7, <3>2, <3>3
      <3>4. CASE t # g /\ e \in f .. Lv(u)
        <4>1. n = On(H, u, j, e)
          BY <2>1, <2>5, <3>4 DEF Joins
        <4>. QED
          BY <2>3, <4>1
      <3>5. CASE t # g /\ e \in 0 .. f
        <4>1. n = On(H2, v2, j, e) /\ f \in 0 .. Lv(v2)
          BY <2>1, <2>5, <3>5 DEF Joins
        <4>2. e \in 0 .. Lv(v2)
          <5>1. Lv(v2) \in Nat
            <6>1. v2 \in Vector
              BY TurnFacts
            <6>. QED
              BY <6>1, RoomFacts
          <5>. QED
            BY <3>5, <4>1, <5>1
        <4>3. n \in Nodes(H2, v2)
          <5>1. IsHeap(H2, P2) /\ IsVec(H2, P2, v2) /\ Full(H2, v2)
            BY TurnFacts
          <5>. QED
            BY <3>2, <4>1, <4>2, <5>1, FullPath
        <4>. QED
          BY <1>7, <1>8, <3>2, <3>5, <4>1, <4>2, <4>3
      <3>6. e \in 0 .. f \/ e \in f .. Lv(u)
        <4>1. f \in 0 .. Lv(u)
          BY <2>5 DEF Joins
        <4>2. e \in 0 .. Lv(u)
          BY <2>1
        <4>. HIDE DEF u
        <4>. QED
          BY <2>2, <4>1, <4>2
      <3>. QED
        BY <3>3, <3>4, <3>5, <3>6
    <2>6. Follows(H, H2, u, Vs[h], v2, keep)
      BY <1>10 DEF Turn
    <2>. QED
      BY <2>2, <2>4, <2>5, <2>6 DEF Follows
  <1>. QED
    BY <1>9, <1>10

(* The invariant survives a step of this form. *)
LEMMA TurnWorld ==
  ASSUME NEW H, NEW P, NEW Vs, NEW D, NEW U, NEW H2, NEW P2, NEW v2, NEW D2, NEW g, NEW h,
         NEW keep, NEW nid, Turn(H, P, Vs, D, U, H2, P2, v2, D2, g, h, keep, nid),
         NEW Vs2, Became(Vs, Vs2, g, v2)
  PROVE  World(H2, P2, Vs2, D2, U)
  <1>1. Vs2 \in [Handle -> Vector] /\ D2 \in [Handle -> {"sole", "tip", "shared"}]
    <2>1. Vs \in [Handle -> Vector] /\ v2 \in Vector
      BY TurnFacts DEF World
    <2>2. Vs2 \in [Handle -> Vector]
      BY <2>1 DEF Became
    <2>3. D2 \in [Handle -> {"sole", "tip", "shared"}]
      BY DEF Turn, Passed
    <2>. QED
      BY <2>2, <2>3
  <1>2. Tries(H2, P2, Vs2) /\ Ids(H2, Vs2, D2, U)
    BY TurnTries, TurnIds
  <1>3. Plain(H2, Vs2, D2) /\ Soles(H2, Vs2, D2) /\ Tips(H2, Vs2, D2)
    BY TurnPlain, TurnSoles, TurnTips
  <1>. QED
    BY <1>1, <1>2, <1>3 DEF World

\* what an operation takes for a vector
Taking(m, H, v) == m = [h |-> H, v |-> v, ub |-> FALSE]

(* The operations start from a trie.                                       *)
LEMMA TakingFits ==
  ASSUME NEW H, NEW P, NEW Vs, NEW D, NEW U, World(H, P, Vs, D, U), NEW h \in Handle,
         NEW m, Taking(m, H, Vs[h])
  PROVE  Fits(m, P) /\ m.h = H /\ m.v = Vs[h]
  <1>1. m.h = H /\ m.v = Vs[h] /\ m.ub = FALSE
    BY DEF Taking
  <1>2. H \in Seq(Node) /\ Vs[h] \in Vector /\ IsHeap(H, P) /\ IsVec(H, P, Vs[h])
    BY WorldFacts
  <1>3. m \in Record
    BY <1>2 DEF Taking, Record
  <1>. QED
    BY <1>1, <1>2, <1>3 DEF Fits

(* A push is a step that keeps the invariant. *)
LEMMA PushTurn ==
  ASSUME NEW H, NEW P, NEW Vs, NEW D, NEW U, World(H, P, Vs, D, U), NEW g \in Handle,
         NEW h \in Handle, NEW m, Taking(m, H, Vs[h]), NEW r, NEW P2, NEW x, NEW nid \in Int,
         NEW keep, keep = node_keep(Vs[h]), Pushed(m, P, r, P2, x, keep, nid, 1),
         Vs[h].kind # "ps" => D[h] # "shared",
         IF Vs[h].kind = "tr" THEN nid = Vs[h].id ELSE nid <= 0,
         NEW D2, Passed(Vs, D, D2, g, h)
  PROVE  Turn(H, P, Vs, D, U, r.h, P2, r.v, D2, g, h, keep, nid)
  <1>. DEFINE v == Vs[h]
              H2 == r.h
              v2 == r.v
  <1>1. Fits(m, P) /\ m.h = H /\ m.v = v
    BY TakingFits
  <1>2. /\ Fits(r, P2) /\ IsHeap(H2, P2) /\ IsVec(H2, P2, v2) /\ Len(H) <= Len(H2)
        /\ \A n \in DOMAIN H : P2[n] = P[n] /\ H2[n].id = H[n].id
        /\ v2.sz = v.sz + 1 /\ v2.id = v.id /\ v2.kind = v.kind
        /\ \A n \in Len(H) + 1 .. Len(H2) : H2[n].id \in {v.id, nid}
    <2>1. /\ Fits(r, P2) /\ Len(m.h) <= Len(r.h)
          /\ \A n \in DOMAIN m.h : P2[n] = P[n] /\ r.h[n].id = m.h[n].id
          /\ r.v.sz = m.v.sz + 1 /\ r.v.id = m.v.id /\ r.v.kind = m.v.kind
          /\ \A n \in Len(m.h) + 1 .. Len(r.h) : r.h[n].id \in {m.v.id, nid}
      BY DEF Pushed
    <2>2. IsHeap(r.h, P2) /\ IsVec(r.h, P2, r.v)
      BY <2>1, FitsFacts
    <2>. QED
      BY <1>1, <2>1, <2>2
  <1>3. /\ v.sz \in Nat /\ Len(H) \in Nat /\ DOMAIN H = 1 .. Len(H) /\ v.kind \in Kind
        /\ D \in [Handle -> {"sole", "tip", "shared"}]
    BY WorldFacts DEF World
  <1>. HIDE DEF v, H2, v2
  <1>4. Full(H2, v2)
    <2>1. ASSUME NEW j \in 0 .. v2.sz - 1
          PROVE  On(H2, v2, j, 0) # Null
      <3>1. j \in 0 .. v.sz - 1 \/ j = v.sz
        BY <1>2, <1>3
      <3>2. CASE j \in 0 .. v.sz - 1
        BY <1>1, <3>2 DEF Pushed, H2, v2
      <3>3. CASE j = v.sz
        BY <1>1, <3>3 DEF Pushed, H2, v2
      <3>. QED
        BY <3>1, <3>2, <3>3
    <2>2. v2.sz # 0
      BY <1>2, <1>3
    <2>. QED
      BY <2>1, <2>2 DEF Full
  <1>5. ASSUME NEW j \in Room(v2), NEW e \in 0 .. Lv(v2), On(H2, v2, j, e) # Null
        PROVE  \/ On(H2, v2, j, e) > Len(H)
               \/ /\ j \in Room(v) /\ e \in 0 .. Lv(v)
                  /\ On(H2, v2, j, e) = On(H, v, j, e) /\ On(H2, v2, j, e) \in Nodes(H, v)
    <2>1. \/ On(H2, v2, j, e) > Len(H)
          \/ /\ j \in Room(v) /\ e \in 0 .. Lv(v)
             /\ On(H2, v2, j, e) = On(H, v, j, e)
      BY <1>1, <1>5 DEF Pushed, H2, v2
    <2>. QED
      BY <1>5, <2>1 DEF Nodes
  <1>6. ASSUME NEW n \in Nodes(H2, v2)
        PROVE  n > Len(H) \/ n \in Nodes(H, v)
    <2>1. PICK j \in Room(v2), e \in 0 .. Lv(v2) : n = On(H2, v2, j, e)
      BY <1>6 DEF Nodes
    <2>2. n # Null
      BY <1>6 DEF Nodes
    <2>. QED
      BY <1>5, <2>1, <2>2
  <1>7. keep = {} \/ v.kind # "ps"
    BY DEF node_keep, v
  <1>8. ASSUME NEW j \in 0 .. v2.sz - 1, NEW e \in 0 .. Lv(v2)
        PROVE  \/ On(H2, v2, j, e) > Len(H)
               \/ j < v.sz /\ e \in 0 .. Lv(v) /\ On(H2, v2, j, e) = On(H, v, j, e)
               \/ /\ v.kind # "ps" /\ On(H2, v2, j, e) \in Nodes(H, v)
                  /\ H[On(H2, v2, j, e)].id \in keep
    <2>. DEFINE n == On(H2, v2, j, e)
    <2>1. j \in Room(v2) /\ n # Null /\ n \in DOMAIN H2
      BY <1>2, <1>4, FullPath
    <2>2. \/ n > Len(H)
          \/ e \in 0 .. Lv(v) /\ n = On(H, v, j, e) /\ n \in Nodes(H, v)
      BY <1>5, <2>1
    <2>3. j \in 0 .. v.sz - 1 \/ j = v.sz
      BY <1>2, <1>3
    <2>4. CASE j \in 0 .. v.sz - 1
      <3>1. j < v.sz
        BY <1>3, <2>4
      <3>. QED
        BY <2>2, <3>1
    <2>5. CASE j = v.sz /\ ~(n > Len(H))
      <3>1. Mine(H2, n, Len(H), keep)
        BY <1>1, <2>5 DEF Pushed, H2, v2
      <3>2. H2[n].id \in keep
        BY <2>5, <3>1 DEF Mine
      <3>3. n \in Nodes(H, v)
        BY <2>2, <2>5
      <3>4. n \in DOMAIN H
        <4>1. IsHeap(H, P) /\ IsVec(H, P, v)
          BY <1>1, FitsFacts
        <4>. QED
          BY <3>3, <4>1, NodesIn
      <3>. QED
        BY <1>2, <1>7, <3>2, <3>3, <3>4
    <2>. QED
      BY <2>3, <2>4, <2>5
  <1>9. v.sz <= v2.sz
    BY <1>2, <1>3
  <1>10. Written(H, P, v, H2, P2, v2, keep, nid)
    BY <1>2, <1>4, <1>6, <1>8, <1>9 DEF Written
  <1>11. ASSUME NEW k \in Handle
         PROVE  Follows(H, H2, Vs[k], v, v2, keep)
    <2>1. IsVec(H, P, Vs[k])
      BY WorldFacts
    <2>2. ASSUME NEW j \in Room(Vs[k])
          PROVE  \/ Stays(H, H2, Vs[k], j)
                 \/ \E f : /\ Joins(H, H2, Vs[k], v, v2, j, f)
                           /\ H[On(H, Vs[k], j, f)].id \in keep
      <3>. DEFINE u == Vs[k]
      <3>1. IsVec(m.h, P, u)
        BY <1>1, <2>1
      <3>. HIDE DEF u
      <3>2. ASSUME NEW j2 \in Room(u)
            PROVE  \/ Stays(m.h, r.h, u, j2)
                   \/ \E f : /\ Joins(m.h, r.h, u, m.v, r.v, j2, f)
                             /\ m.h[On(m.h, u, j2, f)].id \in keep
        BY <1>1, <3>1, Sharing
      <3>. QED
        BY <1>1, <3>2 DEF H2, v2, u
    <2>. QED
      BY <2>2 DEF Follows
  <1>12. ASSUME NEW n \in Nodes(H, v), H[n].id \in keep
         PROVE  Owns(H, v, n) /\ Claims(Vs, D, h)
    <2>1. v.kind # "ps"
      BY <1>7, <1>12
    <2>2. Claims(Vs, D, h)
      BY <1>3, <2>1 DEF Claims, v
    <2>3. CASE v.kind = "tr"
      <3>1. keep = {v.id}
        BY <2>3 DEF node_keep, v
      <3>. QED
        BY <1>12, <2>2, <2>3, <3>1 DEF Owns
    <2>4. CASE v.kind # "tr"
      BY <1>12, <2>2, <2>4 DEF Owns
    <2>. QED
      BY <2>3, <2>4
  <1>13. v.kind = "ps" /\ g # h => keep = {}
    BY <1>7
  <1>. QED
    BY <1>10, <1>11, <1>12, <1>13 DEF Turn, v, H2, v2

(* So is an edit by a sole owner, or one that copies every node. *)
LEMMA EditTurn ==
  ASSUME NEW H, NEW P, NEW Vs, NEW D, NEW U, World(H, P, Vs, D, U), NEW g \in Handle,
         NEW h \in Handle, NEW m, Taking(m, H, Vs[h]), NEW r, NEW P2,
         NEW keep, Edits(m, P, r, P2, Len(H), keep, {}),
         \/ keep = {} /\ Vs[h].kind = "ps"
         \/ /\ D[h] = "sole" /\ g = h
            /\ \A n \in Nodes(H, Vs[h]) : H[n].id \in keep => Owns(H, Vs[h], n),
         NEW D2, Passed(Vs, D, D2, g, h), NEW nid, nid = Vs[h].id
  PROVE  Turn(H, P, Vs, D, U, r.h, P2, r.v, D2, g, h, keep, nid)
  <1>. DEFINE v == Vs[h]
              H2 == r.h
              v2 == r.v
  <1>1. Fits(m, P) /\ m.h = H /\ m.v = v
    BY TakingFits
  <1>2. /\ Fits(r, P2) /\ IsHeap(H2, P2) /\ IsVec(H2, P2, v2) /\ Len(H) <= Len(H2)
        /\ v2.sz = v.sz /\ v2.id = v.id /\ v2.kind = v.kind
        /\ Lv(v2) = Lv(v) /\ Room(v2) = Room(v)
    <2>1. /\ Fits(r, P2) /\ Len(m.h) <= Len(r.h)
          /\ r.v.sz = m.v.sz /\ r.v.id = m.v.id /\ r.v.kind = m.v.kind
          /\ Lv(r.v) = Lv(m.v) /\ Room(r.v) = Room(m.v)
      BY <1>1, EditsFacts
    <2>2. IsHeap(r.h, P2) /\ IsVec(r.h, P2, r.v)
      BY <2>1, FitsFacts
    <2>. QED
      BY <1>1, <2>1, <2>2
  <1>3. /\ \A n \in DOMAIN H : P2[n] = P[n] /\ H2[n].id = H[n].id
        /\ \A n \in Len(H) + 1 .. Len(H2) : H2[n].id \in {v.id, nid}
    BY <1>1 DEF Edits
  <1>4. /\ v.sz \in Nat /\ Len(H) \in Nat /\ DOMAIN H = 1 .. Len(H) /\ Full(H, v)
        /\ IsHeap(H, P) /\ IsVec(H, P, v) /\ Lv(v) \in Nat /\ v.id \in Int
        /\ H \in Seq(Node) /\ \A j \in 0 .. v.sz - 1 : j \in Room(v)
    BY WorldFacts
  <1>. HIDE DEF v, H2, v2
  <1>5. ASSUME NEW j \in Room(v), NEW e \in 0 .. Lv(v)
        PROVE  \/ On(H2, v2, j, e) = On(H, v, j, e)
               \/ On(H2, v2, j, e) > Len(H)
    BY <1>1, <1>5 DEF Edits, H2, v2
  <1>6. Full(H2, v2)
    <2>1. ASSUME NEW j \in 0 .. v.sz - 1
          PROVE  On(H2, v2, j, 0) # Null
      <3>1. j \in Room(v) /\ On(H, v, j, 0) # Null /\ 0 \in 0 .. Lv(v)
        BY <1>4 DEF Full
      <3>. QED
        BY <1>1, <3>1, EditsKeep DEF H2, v2
    <2>2. v2.sz = 0 => Lv(v2) = 0
      BY <1>2, <1>4 DEF Full
    <2>. QED
      BY <1>2, <2>1, <2>2 DEF Full
  <1>7. ASSUME NEW n \in Nodes(H2, v2)
        PROVE  n > Len(H) \/ n \in Nodes(H, v)
    <2>1. PICK j \in Room(v), e \in 0 .. Lv(v) : n = On(H2, v2, j, e)
      BY <1>2, <1>7 DEF Nodes
    <2>2. n # Null
      BY <1>7 DEF Nodes
    <2>. QED
      BY <1>5, <2>1, <2>2 DEF Nodes
  <1>8. ASSUME NEW j \in 0 .. v2.sz - 1, NEW e \in 0 .. Lv(v2)
        PROVE  \/ On(H2, v2, j, e) > Len(H)
               \/ j < v.sz /\ e \in 0 .. Lv(v) /\ On(H2, v2, j, e) = On(H, v, j, e)
    <2>1. j \in 0 .. v.sz - 1 /\ e \in 0 .. Lv(v)
      BY <1>2
    <2>2. j < v.sz
      BY <1>4, <2>1
    <2>. QED
      BY <1>4, <1>5, <2>1, <2>2
  <1>9. v.sz <= v2.sz
    BY <1>2, <1>4
  <1>10. Written(H, P, v, H2, P2, v2, keep, nid)
    BY <1>2, <1>3, <1>6, <1>7, <1>8, <1>9 DEF Written
  <1>11. ASSUME NEW k \in Handle \ {g}
         PROVE  Follows(H, H2, Vs[k], v, v2, keep)
    <2>1. IsVec(H, P, Vs[k]) /\ H2 \in Seq(Node)
      BY <1>2, WorldFacts DEF IsHeap
    <2>2. ASSUME NEW n \in Nodes(H, Vs[k])
          PROVE  H2[n] = H[n]
      <3>1. SUFFICES ASSUME H2[n] # H[n]
                     PROVE  FALSE
        OBVIOUS
      <3>2. n \in DOMAIN H
        BY <1>4, <2>1, <2>2, NodesIn
      <3>3. Mine(H, n, Len(H), keep) /\ n \in Nodes(H, v)
        BY <1>1, <3>1, <3>2 DEF Edits, H2
      <3>4. H[n].id \in keep
        <4>1. ~(n > Len(H))
          BY <1>4, <3>2
        <4>. QED
          BY <3>3, <4>1 DEF Mine
      <3>5. D[h] = "sole" /\ g = h /\ Owns(H, Vs[h], n)
        BY <3>3, <3>4 DEF v
      <3>. QED
        BY <3>5 DEF World, Soles
    <2>. QED
      BY <1>2, <1>4, <2>1, <2>2, UntouchedFollows
  <1>12. ASSUME NEW n \in Nodes(H, v), H[n].id \in keep
         PROVE  Owns(H, v, n) /\ Claims(Vs, D, h)
    BY <1>12 DEF Claims, v
  <1>13. v.kind = "ps" /\ g # h => keep = {}
    OBVIOUS
  <1>14. v.kind # "ps" => D[h] # "shared"
    BY DEF v
  <1>15. nid \in Int /\ (IF v.kind = "tr" THEN nid = v.id ELSE nid <= 0)
    <2>1. nid = v.id
      BY DEF v
    <2>2. v.kind # "tr" => v.id = 0
      BY DEF World, Ids, v
    <2>. QED
      BY <1>4, <2>1, <2>2
  <1>. QED
    BY <1>10, <1>11, <1>12, <1>13, <1>14, <1>15 DEF Turn, v, H2, v2

-----------------------------------------------------------------------------
(* The steps of the program. *)

\* the invariant, with P the places of the nodes
Placed(P) == ops \in Nat /\ World(heap, P, vec, hold, unique_id)
\* the inductive invariant
Valid == \E P : Placed(P)

(* Who may write after a step that leaves it as it is.                     *)
LEMMA HoldPassed ==
  ASSUME NEW Vs, NEW D \in [Handle -> {"sole", "tip", "shared"}], NEW h \in Handle
  PROVE  Passed(Vs, D, D, h, h)
  BY DEF Passed

(* The same when g and h share under one id.                               *)
LEMMA TogetherPassed ==
  ASSUME hold \in [Handle -> {"sole", "tip", "shared"}], NEW g \in Handle, NEW h \in Handle
  PROVE  Passed(vec, hold, Together(g, h), g, h)
  <1>1. CASE g = h
    BY <1>1, HoldPassed DEF Together
  <1>2. CASE g # h
    <2>. DEFINE E == [hold EXCEPT ![g] = "shared", ![h] = "shared"]
    <2>1. E \in [Handle -> {"sole", "tip", "shared"}]
      OBVIOUS
    <2>2. \A k \in Handle : k # g /\ k # h => E[k] = hold[k]
      OBVIOUS
    <2>3. E[h] = "shared" /\ E[g] = "shared"
      OBVIOUS
    <2>4. Together(g, h) = E
      BY <1>2 DEF Together
    <2>. HIDE DEF E
    <2>. QED
      BY <1>2, <2>1, <2>2, <2>3, <2>4 DEF Passed
  <1>. QED
    BY <1>1, <1>2

(* The same when h grew into g.                                            *)
LEMMA GrownPassed ==
  ASSUME hold \in [Handle -> {"sole", "tip", "shared"}], NEW g \in Handle, NEW h \in Handle,
         hold[h] # "shared", vec[h].kind # "ps"
  PROVE  Passed(vec, hold, Grown(g, h), g, h)
  <1>1. CASE g = h
    <2>1. Grown(g, h) = [hold EXCEPT ![g] = @]
      BY <1>1 DEF Grown, Together
    <2>2. Grown(g, h) = hold
      BY <2>1
    <2>. QED
      BY <1>1, <2>2, HoldPassed
  <1>2. CASE g # h
    <2>. DEFINE E == [hold EXCEPT ![g] = "shared", ![h] = "shared"]
                F == [E EXCEPT ![g] = "tip"]
    <2>1. F \in [Handle -> {"sole", "tip", "shared"}]
      OBVIOUS
    <2>2. \A k \in Handle : k # g /\ k # h => F[k] = hold[k]
      OBVIOUS
    <2>3. F[h] = "shared" /\ F[g] = "tip"
      BY <1>2
    <2>4. Grown(g, h) = F
      <3>1. Together(g, h) = E
        BY <1>2 DEF Together
      <3>. HIDE DEF E
      <3>. QED
        BY <1>2, <3>1 DEF Grown
    <2>. HIDE DEF E, F
    <2>. QED
      BY <1>2, <2>1, <2>2, <2>3, <2>4 DEF Passed
  <1>. QED
    BY <1>1, <1>2

(* A variable is given what a turn makes. *)
LEMMA StoreTurn ==
  ASSUME NEW P, Placed(P), NEW g \in Handle, NEW h \in Handle, NEW r, NEW P2, NEW E, NEW keep,
         NEW nid, Turn(heap, P, vec, hold, unique_id, r.h, P2, r.v, E, g, h, keep, nid),
         Store(g, r, E), unique_id' = unique_id
  PROVE  Valid'
  <1>1. /\ heap' = r.h /\ hold' = E /\ ops' \in Nat /\ Became(vec, vec', g, r.v)
    BY DEF Store, Became, Placed
  <1>. DEFINE Vs2 == vec'
  <1>2. Became(vec, Vs2, g, r.v)
    BY <1>1
  <1>. HIDE DEF Vs2
  <1>3. World(r.h, P2, Vs2, E, unique_id)
    BY <1>2, TurnWorld
  <1>4. Placed(P2)'
    BY <1>1, <1>3 DEF Placed, Vs2
  <1>. QED
    BY <1>4 DEF Valid

\* the facts of one variable that its steps start from
Starts(P, m, h) ==
  /\ m = At(h) /\ Taking(m, heap, vec[h])
  /\ Fits(m, P) /\ m.h = heap /\ m.v = vec[h] /\ Full(m.h, m.v)
  /\ World(heap, P, vec, hold, unique_id)
  /\ hold \in [Handle -> {"sole", "tip", "shared"}]
  /\ vec[h].kind \in Kind /\ vec[h].id \in Int /\ vec[h].sz \in Nat
  /\ (vec[h].kind # "tr" => vec[h].id = 0)
  /\ X \in Int /\ Len(heap) \in Nat

(* Every variable has these facts.                                         *)
LEMMA StartFacts ==
  ASSUME NEW P, Placed(P), NEW h \in Handle
  PROVE  Starts(P, At(h), h)
  <1>. DEFINE m == At(h)
  <1>1. World(heap, P, vec, hold, unique_id) /\ ops \in Nat
    BY DEF Placed
  <1>2. Taking(m, heap, vec[h])
    BY DEF Taking, At
  <1>. HIDE DEF m
  <1>3. Fits(m, P) /\ m.h = heap /\ m.v = vec[h]
    BY <1>1, <1>2, TakingFits
  <1>4. /\ Full(heap, vec[h]) /\ vec[h].kind \in Kind /\ vec[h].id \in Int /\ vec[h].sz \in Nat
        /\ Len(heap) \in Nat
    BY <1>1, WorldFacts
  <1>5. hold \in [Handle -> {"sole", "tip", "shared"}]
    BY <1>1 DEF World
  <1>6. vec[h].kind # "tr" => vec[h].id = 0
    BY <1>1 DEF World, Ids
  <1>7. X \in Int
    BY <1>1 DEF X
  <1>8. Full(m.h, m.v)
    BY <1>3, <1>4
  <1>. QED
    BY <1>1, <1>2, <1>3, <1>4, <1>5, <1>6, <1>7, <1>8 DEF Starts, m

\* g becomes r.v, which is h after x was pushed
PushMove(P, r, P2, E, g, h, keep, nid) ==
  /\ Turn(heap, P, vec, hold, unique_id, r.h, P2, r.v, E, g, h, keep, nid)
  /\ Pushed(At(h), P, r, P2, X, keep, nid, 1)
  /\ Store(g, r, E) /\ unique_id' = unique_id

\* g becomes r.v, which is h with the values xs for the elements in S
EditMove(P, r, P2, E, g, h, keep, nid, S, xs) ==
  /\ Turn(heap, P, vec, hold, unique_id, r.h, P2, r.v, E, g, h, keep, nid)
  /\ Filled(At(h), P, r, P2, S, xs, Len(heap), keep)
  /\ keep = {} \/ (hold[h] = "sole" /\ g = h)
  /\ Store(g, r, E) /\ unique_id' = unique_id

(* push_back is such a move.                                               *)
LEMMA PushBackTurn ==
  ASSUME NEW P, Placed(P), NEW g \in Handle, NEW h \in Handle, PushBack(g, h)
  PROVE  \E r, P2, E, keep, nid : PushMove(P, r, P2, E, g, h, keep, nid)
  <1>. DEFINE m == At(h)
              r == push_back(m, X)
              keep == node_keep(vec[h])
              nid == vec[h].id
              E == IF vec[h].kind = "ps" THEN Together(g, h) ELSE Grown(g, h)
              x == X
  <1>1. Starts(P, m, h)
    BY StartFacts
  <1>2. /\ vec[h].kind = "ps" \/ hold[h] # "shared"
        /\ Store(g, r, E) /\ unique_id' = unique_id
    BY DEF PushBack
  <1>3. Passed(vec, hold, E, g, h)
    <2>1. hold \in [Handle -> {"sole", "tip", "shared"}]
      BY <1>1 DEF Starts
    <2>. QED
      BY <1>2, <2>1, TogetherPassed, GrownPassed
  <1>. HIDE DEF m, x, E
  <1>4. PICK P2 : Pushed(m, P, r, P2, x, keep, nid, 1)
    <2>1. Fits(m, P) /\ Full(m.h, m.v) /\ x \in Int /\ keep = node_keep(m.v) /\ nid = m.v.id
      BY <1>1 DEF Starts, x
    <2>. HIDE DEF keep, nid
    <2>. QED
      BY <2>1, PushBackIs DEF x
  <1>. HIDE DEF r
  <1>5. Turn(heap, P, vec, hold, unique_id, r.h, P2, r.v, E, g, h, keep, nid)
    <2>1. /\ Taking(m, heap, vec[h]) /\ nid \in Int
          /\ World(heap, P, vec, hold, unique_id)
          /\ IF vec[h].kind = "tr" THEN nid = vec[h].id ELSE nid <= 0
      BY <1>1 DEF Starts
    <2>2. vec[h].kind # "ps" => hold[h] # "shared"
      BY <1>2
    <2>3. keep = node_keep(vec[h])
      OBVIOUS
    <2>. HIDE DEF keep, nid
    <2>. QED
      BY <1>3, <1>4, <2>1, <2>2, <2>3, PushTurn
  <1>6. Pushed(At(h), P, r, P2, X, keep, nid, 1)
    BY <1>4 DEF m, x
  <1>. HIDE DEF keep, nid
  <1>7. PushMove(P, r, P2, E, g, h, keep, nid)
    BY <1>2, <1>5, <1>6 DEF PushMove
  <1>. QED
    BY <1>7

(* The invariant survives push_back.                                       *)
LEMMA PushBackStep ==
  ASSUME NEW P, Placed(P), NEW g \in Handle, NEW h \in Handle, PushBack(g, h)
  PROVE  Valid'
  <1>1. PICK r, P2, E, keep, nid : PushMove(P, r, P2, E, g, h, keep, nid)
    BY PushBackTurn
  <1>2. /\ Turn(heap, P, vec, hold, unique_id, r.h, P2, r.v, E, g, h, keep, nid)
        /\ Store(g, r, E) /\ unique_id' = unique_id
    BY <1>1 DEF PushMove
  <1>. QED
    BY <1>2, StoreTurn

(* mut_push_back is such a move, unless it goes into the shared leaf of an *)
(* empty vector.                                                           *)
LEMMA MutPushBackTurn ==
  ASSUME NEW P, Placed(P), NEW h \in Handle, NEW junk \in {0, -1}, MutPushBack(h, junk),
         EmptyShared = FALSE
  PROVE  \E r, P2, E, keep, nid : PushMove(P, r, P2, E, h, h, keep, nid)
  <1>. DEFINE m == At(h)
              nid == IF vec[h].kind = "bp" THEN junk ELSE vec[h].id
              r == mut_push_back(m, X, nid)
              keep == node_keep(vec[h])
              x == X
  <1>1. Starts(P, m, h)
    BY StartFacts
  <1>2. /\ vec[h].kind # "ps" /\ hold[h] # "shared"
        /\ heap[vec[h].root].id = vec[h].id \/ vec[h].sz > 0
        /\ Store(h, r, hold) /\ unique_id' = unique_id
    BY DEF MutPushBack
  <1>3. Passed(vec, hold, hold, h, h)
    <2>1. hold \in [Handle -> {"sole", "tip", "shared"}]
      BY <1>1 DEF Starts
    <2>. QED
      BY <2>1, HoldPassed
  <1>4. /\ nid \in Int
        /\ IF vec[h].kind = "tr" THEN nid = vec[h].id ELSE nid <= 0
    BY <1>1, <1>2 DEF Starts, Kind
  <1>. HIDE DEF m, x, nid
  <1>5. vec[h].sz = 0 => heap[vec[h].root].id \in keep
    <2>1. vec[h].root \in DOMAIN heap /\ \A n \in DOMAIN heap : heap[n].id \in Int
      <3>1. World(heap, P, vec, hold, unique_id)
        BY <1>1 DEF Starts
      <3>2. IsVec(heap, P, vec[h]) /\ \A n \in DOMAIN heap : heap[n].id \in Int
        BY <3>1, WorldFacts
      <3>. QED
        BY <3>2 DEF IsVec
    <2>2. vec[h].kind \in {"bp", "tr"}
      BY <1>1, <1>2 DEF Starts, Kind
    <2>3. CASE vec[h].kind = "bp"
      BY <2>1, <2>3 DEF node_keep
    <2>4. CASE vec[h].kind = "tr"
      BY <1>2, <2>4 DEF node_keep
    <2>. QED
      BY <2>2, <2>3, <2>4
  <1>6. PICK P2 : Pushed(m, P, r, P2, x, keep, nid, 1)
    <2>1. Fits(m, P) /\ Full(m.h, m.v) /\ x \in Int /\ keep = node_keep(m.v)
      BY <1>1 DEF Starts, x
    <2>2. m.v.sz = 0 => m.h[m.v.root].id \in keep
      BY <1>1, <1>5 DEF Starts
    <2>. HIDE DEF keep
    <2>. QED
      BY <1>4, <2>1, <2>2, MutPushBackIs DEF x
  <1>. HIDE DEF r
  <1>7. Turn(heap, P, vec, hold, unique_id, r.h, P2, r.v, hold, h, h, keep, nid)
    <2>1. Taking(m, heap, vec[h]) /\ World(heap, P, vec, hold, unique_id)
      BY <1>1 DEF Starts
    <2>2. keep = node_keep(vec[h])
      OBVIOUS
    <2>. HIDE DEF keep
    <2>. QED
      BY <1>2, <1>3, <1>4, <1>6, <2>1, <2>2, PushTurn
  <1>8. Pushed(At(h), P, r, P2, X, keep, nid, 1)
    BY <1>6 DEF m, x
  <1>. HIDE DEF keep
  <1>9. PushMove(P, r, P2, hold, h, h, keep, nid)
    BY <1>2, <1>7, <1>8 DEF PushMove
  <1>. QED
    BY <1>9

(* The invariant survives mut_push_back.                                   *)
LEMMA MutPushBackStep ==
  ASSUME NEW P, Placed(P), NEW h \in Handle, NEW junk \in {0, -1}, MutPushBack(h, junk),
         EmptyShared = FALSE
  PROVE  Valid'
  <1>1. PICK r, P2, E, keep, nid : PushMove(P, r, P2, E, h, h, keep, nid)
    BY MutPushBackTurn
  <1>2. /\ Turn(heap, P, vec, hold, unique_id, r.h, P2, r.v, E, h, h, keep, nid)
        /\ Store(h, r, E) /\ unique_id' = unique_id
    BY <1>1 DEF PushMove
  <1>. QED
    BY <1>2, StoreTurn

(* set and mut_set are such moves.                                         *)
LEMMA SetTurn ==
  ASSUME NEW P, Placed(P), NEW g \in Handle, NEW h \in Handle, NEW i \in 0 .. vec[h].sz - 1,
         NEW r, r = Write(At(h), i, X, node_keep(vec[h])),
         vec[h].kind = "ps" \/ (g = h /\ hold[h] = "sole"),
         NEW E, Passed(vec, hold, E, g, h), Store(g, r, E), unique_id' = unique_id,
         NEW xs, xs = [j \in Nat |-> X]
  PROVE  \E P2, keep, nid : EditMove(P, r, P2, E, g, h, keep, nid, {i}, xs)
  <1>. DEFINE m == At(h)
              keep == node_keep(vec[h])
  <1>1. Starts(P, m, h)
    BY StartFacts
  <1>2. r = Write(m, i, X, keep)
    OBVIOUS
  <1>. HIDE DEF m
  <1>3. PICK P2 : Filled(m, P, r, P2, {i}, xs, Len(heap), keep)
    <2>1. /\ Fits(m, P) /\ Full(m.h, m.v) /\ X \in Int /\ Len(heap) \in Nat
          /\ Len(heap) <= Len(m.h) /\ i \in 0 .. m.v.sz - 1 /\ m.v.sz \in Nat
      BY <1>1 DEF Starts
    <2>2. xs[i] = X /\ xs[i] \in Int
      BY <2>1
    <2>. HIDE DEF keep
    <2>3. r = Write(m, i, xs[i], keep)
      BY <1>2, <2>2
    <2>4. \E P2 : Filled(m, P, Write(m, i, xs[i], keep), P2, {i}, xs, Len(heap), keep)
      BY <2>1, <2>2, FillOne
    <2>. QED
      BY <2>3, <2>4
  <1>31. Edits(m, P, r, P2, Len(heap), keep, {})
    BY <1>3 DEF Filled
  <1>4. \/ keep = {} /\ vec[h].kind = "ps"
        \/ /\ hold[h] = "sole" /\ g = h
           /\ \A n \in Nodes(heap, vec[h]) : heap[n].id \in keep => Owns(heap, vec[h], n)
    <2>1. CASE vec[h].kind = "ps"
      BY <2>1 DEF node_keep
    <2>2. CASE vec[h].kind # "ps"
      <3>1. vec[h].kind = "tr" \/ vec[h].kind = "bp"
        BY <1>1, <2>2 DEF Starts, Kind
      <3>2. CASE vec[h].kind = "tr"
        BY <3>2 DEF node_keep, Owns
      <3>3. CASE vec[h].kind = "bp"
        BY <3>3 DEF Owns
      <3>. QED
        BY <2>2, <3>1, <3>2, <3>3
    <2>. QED
      BY <2>1, <2>2
  <1>. HIDE DEF keep
  <1>. DEFINE nid == vec[h].id
  <1>5. Turn(heap, P, vec, hold, unique_id, r.h, P2, r.v, E, g, h, keep, nid)
    <2>1. Taking(m, heap, vec[h]) /\ World(heap, P, vec, hold, unique_id)
      BY <1>1 DEF Starts
    <2>2. nid = vec[h].id
      OBVIOUS
    <2>. HIDE DEF nid
    <2>. QED
      BY <1>31, <1>4, <2>1, <2>2, EditTurn
  <1>. HIDE DEF nid
  <1>6. Filled(At(h), P, r, P2, {i}, xs, Len(heap), keep)
    BY <1>3 DEF m
  <1>7. EditMove(P, r, P2, E, g, h, keep, nid, {i}, xs)
    BY <1>4, <1>5, <1>6 DEF EditMove
  <1>. QED
    BY <1>7

(* The invariant survives them.                                            *)
LEMMA SetStep ==
  ASSUME NEW P, Placed(P), NEW g \in Handle, NEW h \in Handle, NEW i \in 0 .. vec[h].sz - 1,
         NEW r, r = Write(At(h), i, X, node_keep(vec[h])),
         vec[h].kind = "ps" \/ (g = h /\ hold[h] = "sole"),
         NEW E, Passed(vec, hold, E, g, h), Store(g, r, E), unique_id' = unique_id
  PROVE  Valid'
  <1>. DEFINE xs == [j \in Nat |-> X]
  <1>1. xs = [j \in Nat |-> X]
    OBVIOUS
  <1>. HIDE DEF xs
  <1>2. PICK P2, keep, nid : EditMove(P, r, P2, E, g, h, keep, nid, {i}, xs)
    BY <1>1, SetTurn
  <1>3. Turn(heap, P, vec, hold, unique_id, r.h, P2, r.v, E, g, h, keep, nid)
    BY <1>2 DEF EditMove
  <1>. QED
    BY <1>3, StoreTurn

(* A loop of a mutable iterator is such a move.                            *)
LEMMA ForEachTurn ==
  ASSUME NEW P, Placed(P), NEW h \in Handle, NEW b \in 0 .. vec[h].sz, NEW a \in 0 .. b,
         ForEach(h, a, b), NEW x, x = [i \in Nat |-> X]
  PROVE  \E r, P2, keep, nid : EditMove(P, r, P2, hold, h, h, keep, nid, a .. b - 1, x)
  <1>. DEFINE m == At(h)
              keep == iter_keep(vec[h])
              r == Each(m, a, b, x)
  <1>1. Starts(P, m, h)
    BY StartFacts
  <1>2. hold[h] = "sole" /\ Store(h, r, hold) /\ unique_id' = unique_id
    BY DEF ForEach
  <1>. HIDE DEF m
  <1>3. PICK P2 : Filled(m, P, r, P2, a .. b - 1, x, Len(heap), keep)
    <2>1. /\ Fits(m, P) /\ Full(m.h, m.v) /\ X \in Int /\ Len(heap) \in Nat /\ m.v.sz \in Nat
          /\ Len(heap) <= Len(m.h) /\ b \in 0 .. m.v.sz /\ keep = iter_keep(m.v)
      BY <1>1 DEF Starts
    <2>2. b \in Nat /\ a \in Nat /\ a <= b /\ b <= m.v.sz
      BY <2>1
    <2>3. \A j \in a .. b - 1 : x[j] \in Int
      BY <2>1, <2>2
    <2>. HIDE DEF keep
    <2>. QED
      BY <2>1, <2>2, <2>3, EachIs
  <1>. HIDE DEF r
  <1>4. Edits(m, P, r, P2, Len(heap), keep, {})
    BY <1>3 DEF Filled
  <1>5. \A n \in Nodes(heap, vec[h]) : heap[n].id \in keep => Owns(heap, vec[h], n)
    BY DEF Owns, iter_keep
  <1>6. Passed(vec, hold, hold, h, h)
    <2>1. hold \in [Handle -> {"sole", "tip", "shared"}]
      BY <1>1 DEF Starts
    <2>. QED
      BY <2>1, HoldPassed
  <1>. HIDE DEF keep
  <1>. DEFINE nid == vec[h].id
  <1>7. Turn(heap, P, vec, hold, unique_id, r.h, P2, r.v, hold, h, h, keep, nid)
    <2>1. Taking(m, heap, vec[h]) /\ World(heap, P, vec, hold, unique_id)
      BY <1>1 DEF Starts
    <2>2. nid = vec[h].id
      OBVIOUS
    <2>. HIDE DEF nid
    <2>. QED
      BY <1>2, <1>4, <1>5, <1>6, <2>1, <2>2, EditTurn
  <1>. HIDE DEF nid
  <1>8. Filled(At(h), P, r, P2, a .. b - 1, x, Len(heap), keep)
    BY <1>3 DEF m
  <1>9. EditMove(P, r, P2, hold, h, h, keep, nid, a .. b - 1, x)
    BY <1>2, <1>7, <1>8 DEF EditMove
  <1>. QED
    BY <1>9

(* The invariant survives it.                                              *)
LEMMA ForEachStep ==
  ASSUME NEW P, Placed(P), NEW h \in Handle, NEW b \in 0 .. vec[h].sz, NEW a \in 0 .. b,
         ForEach(h, a, b)
  PROVE  Valid'
  <1>. DEFINE x == [i \in Nat |-> X]
  <1>1. x = [i \in Nat |-> X]
    OBVIOUS
  <1>. HIDE DEF x
  <1>2. PICK r, P2, keep, nid : EditMove(P, r, P2, hold, h, h, keep, nid, a .. b - 1, x)
    BY <1>1, ForEachTurn
  <1>3. /\ Turn(heap, P, vec, hold, unique_id, r.h, P2, r.v, hold, h, h, keep, nid)
        /\ Store(h, r, hold) /\ unique_id' = unique_id
    BY <1>2 DEF EditMove
  <1>. QED
    BY <1>3, StoreTurn

(* Steps that give a variable the trie of another, and write no node. *)

\* k keeps its vector, and may lose the right to write it
Keeps(Vs, D, Vs2, D2, g, h, k) ==
  /\ k # g /\ Vs2[k] = Vs[k]
  /\ D2[k] # "shared" => D[k] # "shared"
  /\ D2[k] = "sole" => D[k] = "sole" /\ k # h
  /\ k = h => Vs[k].kind # "bp"
\* k is a transient under an id that no node has
Renewed(Vs2, U, U2, k) == Vs2[k].kind = "tr" /\ Vs2[k].id = U /\ U < U2
\* k may only be read
Loses(Vs, Vs2, D2, U2, g, h, k) ==
  /\ D2[k] = "shared"
  /\ IF Vs2[k].kind = "tr" THEN Vs2[k].id \in 1 .. U2 - 1 ELSE Vs2[k].id = 0
  /\ Vs2[k].kind = "bp" => Vs[h].kind = "bp" /\ k \in {g, h}
\* the variable g gets the trie of h
Alike(H, P, Vs, D, U, Vs2, D2, U2, g, h) ==
  /\ World(H, P, Vs, D, U)
  /\ g \in Handle /\ h \in Handle /\ U2 \in Nat /\ U <= U2
  /\ Vs2 \in [Handle -> Vector] /\ D2 \in [Handle -> {"sole", "tip", "shared"}]
  /\ \A k \in Handle : \E o \in {k, h} :
       /\ (k = g => o = h) /\ (k # g => o = k)
       /\ Vs2[k].sz = Vs[o].sz /\ Vs2[k].root = Vs[o].root /\ Vs2[k].shift = Vs[o].shift
  /\ \A k \in Handle : \/ Keeps(Vs, D, Vs2, D2, g, h, k)
                       \/ Renewed(Vs2, U, U2, k)
                       \/ Loses(Vs, Vs2, D2, U2, g, h, k)
  /\ \A k, l \in Handle : Renewed(Vs2, U, U2, k) /\ Renewed(Vs2, U, U2, l) => k = l

\* k has the trie that o had
Origin(H, Vs, Vs2, g, h, k, o) ==
  /\ o \in Handle /\ (k = g => o = h) /\ (k # g => o = k)
  /\ Vs2[k].sz = Vs[o].sz /\ Lv(Vs2[k]) = Lv(Vs[o]) /\ Room(Vs2[k]) = Room(Vs[o])
  /\ Vs2[k].root = Vs[o].root /\ Vs2[k].shift = Vs[o].shift
  /\ \A j \in Nat, e \in 0 .. Lv(Vs2[k]) : On(H, Vs2[k], j, e) = On(H, Vs[o], j, e)
  /\ Nodes(H, Vs2[k]) = Nodes(H, Vs[o])

(* Whose trie each variable has.                                           *)
LEMMA AlikeOrigin ==
  ASSUME NEW H, NEW P, NEW Vs, NEW D, NEW U, NEW Vs2, NEW D2, NEW U2, NEW g, NEW h,
         Alike(H, P, Vs, D, U, Vs2, D2, U2, g, h), NEW k \in Handle
  PROVE  \E o : Origin(H, Vs, Vs2, g, h, k, o)
  <1>1. PICK o \in {k, h} :
          /\ (k = g => o = h) /\ (k # g => o = k)
          /\ Vs2[k].sz = Vs[o].sz /\ Vs2[k].root = Vs[o].root /\ Vs2[k].shift = Vs[o].shift
    BY DEF Alike
  <1>2. o \in Handle /\ World(H, P, Vs, D, U) /\ Vs2 \in [Handle -> Vector] /\ Vs2[k] \in Vector
    BY DEF Alike
  <1>3. /\ H \in Seq(Node) /\ Vs[o] \in Vector /\ IsVec(H, P, Vs[o]) /\ Room(Vs[o]) \subseteq Nat
    BY <1>2, WorldFacts
  <1>4. Vs[o].shift = Lv(Vs[o]) * BP_BITS
    BY <1>3 DEF IsVec
  <1>. DEFINE u == Vs[o]
              w == Vs2[k]
  <1>5. /\ Lv(w) = Lv(u) /\ Room(w) = Room(u)
        /\ \A j \in Nat, e \in 0 .. Lv(u) : On(H, w, j, e) = On(H, u, j, e)
    <2>1. u \in Vector /\ w \in Vector /\ u.shift = Lv(u) * BP_BITS /\ w.root = u.root
          /\ w.shift = u.shift
      BY <1>1, <1>2, <1>3, <1>4
    <2>. HIDE DEF u, w
    <2>. QED
      BY <1>3, <2>1, SameTrie
  <1>6. Nodes(H, w) = Nodes(H, u)
    <2>. HIDE DEF u, w
    <2>1. Room(u) \subseteq Nat
      BY <1>3 DEF u
    <2>2. \A j \in Room(u), e \in 0 .. Lv(u) : On(H, w, j, e) = On(H, u, j, e)
      BY <1>5, <2>1
    <2>. QED
      BY <1>5, <2>2 DEF Nodes
  <1>7. Origin(H, Vs, Vs2, g, h, k, o)
    BY <1>1, <1>2, <1>5, <1>6 DEF Origin
  <1>. QED
    BY <1>7

(* What such a step says of the invariant before it.                       *)
LEMMA AlikeFacts ==
  ASSUME NEW H, NEW P, NEW Vs, NEW D, NEW U, NEW Vs2, NEW D2, NEW U2, NEW g, NEW h,
         Alike(H, P, Vs, D, U, Vs2, D2, U2, g, h)
  PROVE  /\ World(H, P, Vs, D, U) /\ g \in Handle /\ h \in Handle
         /\ U \in Nat \ {0} /\ U2 \in Nat \ {0} /\ U <= U2
         /\ \A n \in DOMAIN H : H[n].id \in Int /\ H[n].id < U
         /\ \A k \in Handle : \/ Keeps(Vs, D, Vs2, D2, g, h, k)
                              \/ Renewed(Vs2, U, U2, k)
                              \/ Loses(Vs, Vs2, D2, U2, g, h, k)
  <1>1. World(H, P, Vs, D, U) /\ g \in Handle /\ h \in Handle /\ U2 \in Nat /\ U <= U2
    BY DEF Alike
  <1>2. U \in Nat \ {0} /\ \A n \in DOMAIN H : H[n].id < U
    BY <1>1 DEF World, Ids
  <1>3. \A n \in DOMAIN H : H[n].id \in Int
    BY <1>1, WorldFacts
  <1>4. \A k \in Handle : \/ Keeps(Vs, D, Vs2, D2, g, h, k)
                          \/ Renewed(Vs2, U, U2, k)
                          \/ Loses(Vs, Vs2, D2, U2, g, h, k)
    BY DEF Alike
  <1>. QED
    BY <1>1, <1>2, <1>3, <1>4

(* The vectors are tries after it.                                         *)
LEMMA AlikeTries ==
  ASSUME NEW H, NEW P, NEW Vs, NEW D, NEW U, NEW Vs2, NEW D2, NEW U2, NEW g, NEW h,
         Alike(H, P, Vs, D, U, Vs2, D2, U2, g, h)
  PROVE  Tries(H, P, Vs2)
  <1>1. World(H, P, Vs, D, U) /\ g \in Handle /\ h \in Handle
    BY AlikeFacts
  <1>2. ASSUME NEW k \in Handle
        PROVE  IsVec(H, P, Vs2[k]) /\ Full(H, Vs2[k])
    <2>1. PICK o : Origin(H, Vs, Vs2, g, h, k, o)
      BY AlikeOrigin
    <2>2. o \in Handle /\ Vs2[k] \in Vector
      BY <2>1 DEF Origin, Alike
    <2>3. IsVec(H, P, Vs[o]) /\ Full(H, Vs[o]) /\ Vs[o].sz \in Nat /\ Lv(Vs[o]) \in Nat
      BY <1>1, <2>2, WorldFacts
    <2>4. IsVec(H, P, Vs2[k])
      BY <2>1, <2>2, <2>3 DEF IsVec, Origin
    <2>5. Full(H, Vs2[k])
      <3>1. \A j \in 0 .. Vs2[k].sz - 1 : On(H, Vs2[k], j, 0) = On(H, Vs[o], j, 0)
        <4>1. 0 \in 0 .. Lv(Vs2[k])
          BY <2>1, <2>3 DEF Origin
        <4>2. \A j \in Nat : On(H, Vs2[k], j, 0) = On(H, Vs[o], j, 0)
          BY <2>1, <4>1 DEF Origin
        <4>3. \A j \in 0 .. Vs2[k].sz - 1 : j \in Nat
          OBVIOUS
        <4>. QED
          BY <4>2, <4>3
      <3>2. Vs2[k].sz = Vs[o].sz /\ Lv(Vs2[k]) = Lv(Vs[o])
        BY <2>1 DEF Origin
      <3>. QED
        BY <2>3, <3>1, <3>2 DEF Full
    <2>. QED
      BY <2>4, <2>5
  <1>3. IsHeap(H, P)
    BY <1>1 DEF World, Tries
  <1>. QED
    BY <1>2, <1>3 DEF Tries

(* The ids after it.                                                       *)
LEMMA AlikeIds ==
  ASSUME NEW H, NEW P, NEW Vs, NEW D, NEW U, NEW Vs2, NEW D2, NEW U2, NEW g, NEW h,
         Alike(H, P, Vs, D, U, Vs2, D2, U2, g, h)
  PROVE  Ids(H, Vs2, D2, U2)
  <1>1. /\ World(H, P, Vs, D, U) /\ U \in Nat \ {0} /\ U2 \in Nat \ {0} /\ U <= U2
        /\ \A n \in DOMAIN H : H[n].id \in Int /\ H[n].id < U
    BY AlikeFacts
  <1>2. Ids(H, Vs, D, U)
    BY <1>1 DEF World
  <1>3. ASSUME NEW k \in Handle
        PROVE  IF Vs2[k].kind = "tr" THEN Vs2[k].id \in 1 .. U2 - 1 ELSE Vs2[k].id = 0
    <2>1. CASE Keeps(Vs, D, Vs2, D2, g, h, k)
      <3>1. Vs2[k] = Vs[k]
        BY <2>1 DEF Keeps
      <3>2. IF Vs[k].kind = "tr" THEN Vs[k].id \in 1 .. U - 1 ELSE Vs[k].id = 0
        BY <1>2 DEF Ids
      <3>. QED
        BY <1>1, <3>1, <3>2
    <2>2. CASE Renewed(Vs2, U, U2, k)
      BY <1>1, <2>2 DEF Renewed
    <2>3. CASE Loses(Vs, Vs2, D2, U2, g, h, k)
      BY <2>3 DEF Loses
    <2>. QED
      BY <2>1, <2>2, <2>3, AlikeFacts
  <1>4. ASSUME NEW k \in Handle, NEW l \in Handle, k # l, D2[k] # "shared", D2[l] # "shared",
               Vs2[k].kind = "tr", Vs2[l].kind = "tr"
        PROVE  Vs2[k].id # Vs2[l].id
    <2>1. ASSUME NEW t \in Handle, D2[t] # "shared", Vs2[t].kind = "tr"
          PROVE  \/ Keeps(Vs, D, Vs2, D2, g, h, t) /\ Vs2[t] = Vs[t] /\ D[t] # "shared"
                    /\ Vs[t].id \in 1 .. U - 1
                 \/ Renewed(Vs2, U, U2, t) /\ Vs2[t].id = U
      <3>1. ~Loses(Vs, Vs2, D2, U2, g, h, t)
        BY <2>1 DEF Loses
      <3>2. CASE Keeps(Vs, D, Vs2, D2, g, h, t)
        <4>1. Vs2[t] = Vs[t] /\ D[t] # "shared"
          BY <2>1, <3>2 DEF Keeps
        <4>2. IF Vs[t].kind = "tr" THEN Vs[t].id \in 1 .. U - 1 ELSE Vs[t].id = 0
          BY <1>2 DEF Ids
        <4>. QED
          BY <2>1, <3>2, <4>1, <4>2
      <3>3. CASE Renewed(Vs2, U, U2, t)
        BY <3>3 DEF Renewed
      <3>. QED
        BY <3>1, <3>2, <3>3, AlikeFacts
    <2>2. ~(Renewed(Vs2, U, U2, k) /\ Renewed(Vs2, U, U2, l))
      BY <1>4 DEF Alike
    <2>3. CASE Vs2[k] = Vs[k] /\ D[k] # "shared" /\ Vs2[l] = Vs[l] /\ D[l] # "shared"
      <3>1. Vs[k].kind = "tr" /\ Vs[l].kind = "tr"
        BY <1>4, <2>3
      <3>2. Vs[k].id # Vs[l].id
        BY <1>2, <1>4, <2>3, <3>1 DEF Ids
      <3>. QED
        BY <2>3, <3>2
    <2>4. CASE Vs2[k].id = U /\ Vs2[l] = Vs[l] /\ Vs[l].id \in 1 .. U - 1
      BY <1>1, <2>4
    <2>5. CASE Vs2[l].id = U /\ Vs2[k] = Vs[k] /\ Vs[k].id \in 1 .. U - 1
      BY <1>1, <2>5
    <2>6. /\ \/ Vs2[k] = Vs[k] /\ D[k] # "shared" /\ Vs[k].id \in 1 .. U - 1
             \/ Renewed(Vs2, U, U2, k) /\ Vs2[k].id = U
          /\ \/ Vs2[l] = Vs[l] /\ D[l] # "shared" /\ Vs[l].id \in 1 .. U - 1
             \/ Renewed(Vs2, U, U2, l) /\ Vs2[l].id = U
      BY <1>4, <2>1
    <2>. QED
      BY <2>2, <2>3, <2>4, <2>5, <2>6
  <1>5. \A n \in DOMAIN H : H[n].id < U2
    BY <1>1
  <1>. QED
    BY <1>1, <1>3, <1>4, <1>5 DEF Ids

(* The nodes of bp_vectors after it.                                       *)
LEMMA AlikePlain ==
  ASSUME NEW H, NEW P, NEW Vs, NEW D, NEW U, NEW Vs2, NEW D2, NEW U2, NEW g, NEW h,
         Alike(H, P, Vs, D, U, Vs2, D2, U2, g, h)
  PROVE  Plain(H, Vs2, D2)
  <1>1. World(H, P, Vs, D, U) /\ h \in Handle
    BY AlikeFacts
  <1>2. Plain(H, Vs, D)
    BY <1>1 DEF World
  <1>3. ASSUME NEW k \in Handle, Vs2[k].kind = "bp"
        PROVE  \A n \in Nodes(H, Vs2[k]) : H[n].id <= 0
    <2>1. PICK o : Origin(H, Vs, Vs2, g, h, k, o)
      BY AlikeOrigin
    <2>2. o \in Handle /\ Nodes(H, Vs2[k]) = Nodes(H, Vs[o])
      BY <2>1 DEF Origin
    <2>3. Vs[o].kind = "bp"
      <3>1. CASE Keeps(Vs, D, Vs2, D2, g, h, k)
        BY <1>3, <2>1, <3>1 DEF Keeps, Origin
      <3>2. CASE Renewed(Vs2, U, U2, k)
        BY <1>3, <3>2 DEF Renewed
      <3>3. CASE Loses(Vs, Vs2, D2, U2, g, h, k)
        BY <1>3, <2>1, <3>3 DEF Loses, Origin
      <3>. QED
        BY <3>1, <3>2, <3>3, AlikeFacts
    <2>. QED
      BY <1>2, <2>2, <2>3 DEF Plain
  <1>4. ASSUME NEW k \in Handle, NEW l \in Handle, k # l, D2[k] # "shared", D2[l] # "shared",
               Vs2[k].kind = "bp", Vs2[l].kind = "bp", NEW n \in Nodes(H, Vs2[k])
        PROVE  n \notin Nodes(H, Vs2[l])
    <2>1. ASSUME NEW t \in Handle, D2[t] # "shared", Vs2[t].kind = "bp"
          PROVE  Vs2[t] = Vs[t] /\ D[t] # "shared"
      <3>1. ~Loses(Vs, Vs2, D2, U2, g, h, t) /\ ~Renewed(Vs2, U, U2, t)
        BY <2>1 DEF Loses, Renewed
      <3>2. Keeps(Vs, D, Vs2, D2, g, h, t)
        BY <3>1, AlikeFacts
      <3>. QED
        BY <2>1, <3>2 DEF Keeps
    <2>2. Vs2[k] = Vs[k] /\ Vs2[l] = Vs[l] /\ D[k] # "shared" /\ D[l] # "shared"
      BY <1>4, <2>1
    <2>3. Vs[k].kind = "bp" /\ Vs[l].kind = "bp" /\ n \in Nodes(H, Vs[k])
      BY <1>4, <2>2
    <2>4. n \notin Nodes(H, Vs[l])
      BY <1>2, <1>4, <2>2, <2>3 DEF Plain
    <2>. QED
      BY <2>2, <2>4
  <1>. QED
    BY <1>3, <1>4 DEF Plain

\* no node is owned by a transient under a new id
LEMMA RenewedOwns ==
  ASSUME NEW H, NEW P, NEW Vs, NEW D, NEW U, NEW Vs2, NEW D2, NEW U2, NEW g, NEW h,
         Alike(H, P, Vs, D, U, Vs2, D2, U2, g, h), NEW t, Renewed(Vs2, U, U2, t),
         NEW n \in DOMAIN H
  PROVE  ~Owns(H, Vs2[t], n)
  <1>1. H[n].id \in Int /\ H[n].id < U /\ U \in Nat
    BY AlikeFacts
  <1>2. H[n].id # Vs2[t].id /\ Vs2[t].kind = "tr"
    BY <1>1 DEF Renewed
  <1>. QED
    BY <1>2 DEF Owns

(* Sole owners after it.                                                   *)
LEMMA AlikeSoles ==
  ASSUME NEW H, NEW P, NEW Vs, NEW D, NEW U, NEW Vs2, NEW D2, NEW U2, NEW g, NEW h,
         Alike(H, P, Vs, D, U, Vs2, D2, U2, g, h)
  PROVE  Soles(H, Vs2, D2)
  <1>1. World(H, P, Vs, D, U) /\ h \in Handle
    BY AlikeFacts
  <1>2. Soles(H, Vs, D)
    BY <1>1 DEF World
  <1>3. ASSUME NEW s \in Handle, NEW k \in Handle, s # k, D2[s] = "sole",
               NEW n \in Nodes(H, Vs2[k])
        PROVE  ~Owns(H, Vs2[s], n)
    <2>1. PICK o : Origin(H, Vs, Vs2, g, h, k, o)
      BY AlikeOrigin
    <2>2. o \in Handle /\ n \in Nodes(H, Vs[o]) /\ (k = g => o = h) /\ (k # g => o = k)
      BY <1>3, <2>1 DEF Origin
    <2>3. n \in DOMAIN H
      BY <1>1, <2>2, NodesIn, WorldFacts
    <2>4. CASE Keeps(Vs, D, Vs2, D2, g, h, s)
      <3>1. Vs2[s] = Vs[s] /\ D[s] = "sole" /\ s # h /\ s # g
        BY <1>3, <2>4 DEF Keeps
      <3>2. s # o
        BY <1>3, <2>2, <3>1
      <3>. QED
        BY <1>2, <2>2, <3>1, <3>2 DEF Soles
    <2>5. CASE Renewed(Vs2, U, U2, s)
      BY <2>3, <2>5, RenewedOwns
    <2>6. CASE Loses(Vs, Vs2, D2, U2, g, h, s)
      BY <1>3, <2>6 DEF Loses
    <2>. QED
      BY <2>4, <2>5, <2>6, AlikeFacts
  <1>. QED
    BY <1>3 DEF Soles

(* Those that may grow after it.                                           *)
LEMMA AlikeTips ==
  ASSUME NEW H, NEW P, NEW Vs, NEW D, NEW U, NEW Vs2, NEW D2, NEW U2, NEW g, NEW h,
         Alike(H, P, Vs, D, U, Vs2, D2, U2, g, h)
  PROVE  Tips(H, Vs2, D2)
  <1>1. World(H, P, Vs, D, U) /\ h \in Handle
    BY AlikeFacts
  <1>2. Tips(H, Vs, D)
    BY <1>1 DEF World
  <1>3. ASSUME NEW t \in Handle, NEW k \in Handle, t # k, D2[t] # "shared", Vs2[t].kind # "ps",
               NEW j \in 0 .. Vs2[k].sz - 1, NEW e \in 0 .. Lv(Vs2[k]),
               Owns(H, Vs2[t], On(H, Vs2[k], j, e))
        PROVE  j < Vs2[t].sz
    <2>1. PICK o : Origin(H, Vs, Vs2, g, h, k, o)
      BY AlikeOrigin
    <2>2. /\ o \in Handle /\ (k = g => o = h) /\ (k # g => o = k)
          /\ e \in 0 .. Lv(Vs[o]) /\ Vs2[k].sz = Vs[o].sz
      BY <2>1 DEF Origin
    <2>3. On(H, Vs2[k], j, e) = On(H, Vs[o], j, e)
      <3>1. j \in Nat
        OBVIOUS
      <3>. QED
        BY <2>1, <3>1 DEF Origin
    <2>4. IsHeap(H, P) /\ IsVec(H, P, Vs[o]) /\ Full(H, Vs[o]) /\ Vs[o].sz \in Nat
      BY <1>1, <2>2, WorldFacts
    <2>5. j \in 0 .. Vs[o].sz - 1
      BY <2>2
    <2>6. On(H, Vs[o], j, e) \in DOMAIN H
      BY <2>2, <2>4, <2>5, FullPath
    <2>7. CASE Keeps(Vs, D, Vs2, D2, g, h, t)
      <3>1. Vs2[t] = Vs[t] /\ D[t] # "shared" /\ Vs[t].kind # "ps"
        BY <1>3, <2>7 DEF Keeps
      <3>2. CASE t = o
        BY <2>4, <2>5, <3>1, <3>2
      <3>3. CASE t # o
        <4>1. Owns(H, Vs[t], On(H, Vs[o], j, e))
          BY <1>3, <2>3, <3>1
        <4>2. j < Vs[t].sz
          BY <1>2, <2>2, <2>5, <3>1, <3>3, <4>1 DEF Tips
        <4>. QED
          BY <3>1, <4>2
      <3>. QED
        BY <3>2, <3>3
    <2>8. CASE Renewed(Vs2, U, U2, t)
      BY <1>3, <2>3, <2>6, <2>8, RenewedOwns
    <2>9. CASE Loses(Vs, Vs2, D2, U2, g, h, t)
      BY <1>3, <2>9 DEF Loses
    <2>. QED
      BY <2>7, <2>8, <2>9, AlikeFacts
  <1>. QED
    BY <1>3 DEF Tips

(* The invariant survives a step of this form. *)
LEMMA AlikeWorld ==
  ASSUME NEW H, NEW P, NEW Vs, NEW D, NEW U, NEW Vs2, NEW D2, NEW U2, NEW g, NEW h,
         Alike(H, P, Vs, D, U, Vs2, D2, U2, g, h)
  PROVE  World(H, P, Vs2, D2, U2)
  <1>1. Vs2 \in [Handle -> Vector] /\ D2 \in [Handle -> {"sole", "tip", "shared"}]
    BY DEF Alike
  <1>. QED
    BY <1>1, AlikeTries, AlikeIds, AlikePlain, AlikeSoles, AlikeTips DEF World

\* what these steps start from
LEMMA AlikeStarts ==
  ASSUME NEW P, Placed(P)
  PROVE  /\ World(heap, P, vec, hold, unique_id)
         /\ vec \in [Handle -> Vector] /\ hold \in [Handle -> {"sole", "tip", "shared"}]
         /\ unique_id \in Nat \ {0} /\ ops \in Nat
         /\ \A k \in Handle : IF vec[k].kind = "tr" THEN vec[k].id \in 1 .. unique_id - 1
                              ELSE vec[k].id = 0
  <1>1. World(heap, P, vec, hold, unique_id) /\ ops \in Nat
    BY DEF Placed
  <1>2. vec \in [Handle -> Vector] /\ hold \in [Handle -> {"sole", "tip", "shared"}]
    BY <1>1 DEF World
  <1>3. Ids(heap, vec, hold, unique_id)
    BY <1>1 DEF World
  <1>4. unique_id \in Nat \ {0} /\ \A k \in Handle :
          IF vec[k].kind = "tr" THEN vec[k].id \in 1 .. unique_id - 1 ELSE vec[k].id = 0
    BY <1>3 DEF Ids
  <1>. QED
    BY <1>1, <1>2, <1>4

(* The invariant survives a step of this form.                             *)
LEMMA StoreAlike ==
  ASSUME NEW P, Placed(P), NEW g, NEW h, NEW Vs2, NEW D2, NEW U2,
         Alike(heap, P, vec, hold, unique_id, Vs2, D2, U2, g, h),
         heap' = heap, vec' = Vs2, hold' = D2, unique_id' = U2, ops' \in Nat
  PROVE  Valid'
  <1>1. World(heap, P, Vs2, D2, U2)
    BY AlikeWorld
  <1>2. Placed(P)'
    BY <1>1 DEF Placed
  <1>. QED
    BY <1>2 DEF Valid

\* g gets w, which has the trie of h
Lent(Vs2, D2, g, h, w, E) ==
  /\ Vs2 = [vec EXCEPT ![g] = w] /\ D2 = E
  /\ w.sz = vec[h].sz /\ w.root = vec[h].root /\ w.shift = vec[h].shift

\* what every variable has then
Holds(Vs2, g, h, w) ==
  /\ Vs2 \in [Handle -> Vector] /\ Vs2[g] = w
  /\ \A k \in Handle : k # g => Vs2[k] = vec[k]
  /\ \A k \in Handle : \E o \in {k, h} :
       /\ (k = g => o = h) /\ (k # g => o = k)
       /\ Vs2[k].sz = vec[o].sz /\ Vs2[k].root = vec[o].root /\ Vs2[k].shift = vec[o].shift

(* One variable was given a trie.                                          *)
LEMMA LentFacts ==
  ASSUME vec \in [Handle -> Vector], NEW g \in Handle, NEW h \in Handle, NEW Vs2, NEW D2,
         NEW w \in Vector, NEW E, Lent(Vs2, D2, g, h, w, E)
  PROVE  Holds(Vs2, g, h, w)
  <1>1. Vs2 \in [Handle -> Vector] /\ Vs2[g] = w /\ \A k \in Handle : k # g => Vs2[k] = vec[k]
    BY DEF Lent
  <1>2. w.sz = vec[h].sz /\ w.root = vec[h].root /\ w.shift = vec[h].shift
    BY DEF Lent
  <1>. QED
    BY <1>1, <1>2 DEF Holds

(* The invariant survives copying a vector with its id.                    *)
LEMMA CopyStep ==
  ASSUME NEW P, Placed(P), NEW g \in Handle, NEW h \in Handle, Copy(g, h)
  PROVE  Valid'
  <1>. DEFINE Vs2 == [vec EXCEPT ![g] = vec[h]]
              D2 == [hold EXCEPT ![g] = "shared", ![h] = "shared"]
  <1>1. /\ g # h /\ heap' = heap /\ vec' = Vs2 /\ hold' = D2 /\ unique_id' = unique_id
        /\ ops' = ops + 1
    BY DEF Copy, Store, At, Together
  <1>2. /\ World(heap, P, vec, hold, unique_id)
        /\ vec \in [Handle -> Vector] /\ hold \in [Handle -> {"sole", "tip", "shared"}]
        /\ unique_id \in Nat \ {0} /\ ops \in Nat
        /\ \A k \in Handle : IF vec[k].kind = "tr" THEN vec[k].id \in 1 .. unique_id - 1
                             ELSE vec[k].id = 0
    BY AlikeStarts
  <1>3. /\ D2 \in [Handle -> {"sole", "tip", "shared"}]
        /\ D2[g] = "shared" /\ D2[h] = "shared"
        /\ \A k \in Handle : k # g /\ k # h => D2[k] = hold[k]
    BY <1>2
  <1>. DEFINE w == vec[h]
  <1>4. Lent(Vs2, D2, g, h, w, D2) /\ w \in Vector
    BY <1>2 DEF Lent
  <1>. HIDE DEF Vs2, D2, w
  <1>5. /\ Vs2 \in [Handle -> Vector] /\ Vs2[g] = w
        /\ \A k \in Handle : k # g => Vs2[k] = vec[k]
        /\ \A k \in Handle : \E o \in {k, h} :
              /\ (k = g => o = h) /\ (k # g => o = k)
              /\ Vs2[k].sz = vec[o].sz /\ Vs2[k].root = vec[o].root /\ Vs2[k].shift = vec[o].shift
    <2>1. Holds(Vs2, g, h, w)
      BY <1>2, <1>4, LentFacts
    <2>. QED
      BY <2>1 DEF Holds
  <1>6. ASSUME NEW k \in Handle
        PROVE  \/ Keeps(vec, hold, Vs2, D2, g, h, k)
               \/ Loses(vec, Vs2, D2, unique_id, g, h, k)
    <2>1. CASE k # g /\ k # h
      BY <1>3, <1>5, <2>1 DEF Keeps
    <2>2. CASE k = g
      BY <1>2, <1>3, <1>5, <2>2 DEF Loses, w
    <2>3. CASE k = h
      BY <1>1, <1>2, <1>3, <1>5, <2>3 DEF Loses
    <2>. QED
      BY <2>1, <2>2, <2>3
  <1>7. \A k \in Handle : ~Renewed(Vs2, unique_id, unique_id, k)
    BY <1>2 DEF Renewed
  <1>8. Alike(heap, P, vec, hold, unique_id, Vs2, D2, unique_id, g, h)
    BY <1>2, <1>3, <1>5, <1>6, <1>7 DEF Alike
  <1>9. ops' \in Nat
    BY <1>1, <1>2
  <1>. QED
    BY <1>1, <1>8, <1>9, StoreAlike

(* Who may write when g starts from a snapshot of h.                       *)
LEMMA ApartIs ==
  ASSUME hold \in [Handle -> {"sole", "tip", "shared"}], NEW g \in Handle, NEW h \in Handle,
         NEW x \in {"sole", "shared"}
  PROVE  /\ Apart(g, h, x) \in [Handle -> {"sole", "tip", "shared"}]
         /\ Apart(g, h, x)[g] = x
         /\ \A k \in Handle : k # g /\ k # h => Apart(g, h, x)[k] = hold[k]
         /\ g # h => /\ Apart(g, h, x)[h] # "sole"
                     /\ Apart(g, h, x)[h] # "shared" => hold[h] # "shared"
  BY DEF Apart

(* It survives new_id and make_transient.                                  *)
LEMMA NewIdStep ==
  ASSUME NEW P, Placed(P), NEW g \in Handle, NEW h \in Handle, NewId(g, h)
  PROVE  Valid'
  <1>. DEFINE w == [vec[h] EXCEPT !.kind = "tr", !.id = unique_id]
              Vs2 == [vec EXCEPT ![g] = w]
              D2 == Apart(g, h, "sole")
              U2 == unique_id + 1
  <1>1. /\ vec[h].kind \in {"tr", "ps"} /\ heap' = heap /\ hold' = D2
        /\ unique_id' = U2 /\ ops' = ops + 1
        /\ vec' = Vs2
    BY DEF NewId, Store, At
  <1>2. /\ World(heap, P, vec, hold, unique_id)
        /\ vec \in [Handle -> Vector] /\ hold \in [Handle -> {"sole", "tip", "shared"}]
        /\ unique_id \in Nat \ {0} /\ ops \in Nat
        /\ \A k \in Handle : IF vec[k].kind = "tr" THEN vec[k].id \in 1 .. unique_id - 1
                             ELSE vec[k].id = 0
    BY AlikeStarts
  <1>3. /\ D2 \in [Handle -> {"sole", "tip", "shared"}]
        /\ D2[g] = "sole"
        /\ \A k \in Handle : k # g /\ k # h => D2[k] = hold[k]
        /\ g # h => D2[h] # "sole" /\ (D2[h] # "shared" => hold[h] # "shared")
    BY <1>2, ApartIs
  <1>4. /\ w \in Vector /\ w.kind = "tr" /\ w.id = unique_id
        /\ w.sz = vec[h].sz /\ w.root = vec[h].root /\ w.shift = vec[h].shift
    BY <1>2 DEF Vector, Kind
  <1>. HIDE DEF w
  <1>5. Lent(Vs2, D2, g, h, w, D2)
    BY <1>4 DEF Lent
  <1>. HIDE DEF Vs2, D2
  <1>6. /\ Vs2 \in [Handle -> Vector] /\ Vs2[g] = w
        /\ \A k \in Handle : k # g => Vs2[k] = vec[k]
        /\ \A k \in Handle : \E o \in {k, h} :
              /\ (k = g => o = h) /\ (k # g => o = k)
              /\ Vs2[k].sz = vec[o].sz /\ Vs2[k].root = vec[o].root /\ Vs2[k].shift = vec[o].shift
    <2>1. Holds(Vs2, g, h, w)
      BY <1>2, <1>4, <1>5, LentFacts
    <2>. QED
      BY <2>1 DEF Holds
  <1>7. /\ U2 \in Nat /\ unique_id < U2 /\ unique_id <= U2 /\ unique_id \in Nat
    BY <1>2
  <1>. HIDE DEF U2
  <1>8. ASSUME NEW k \in Handle
        PROVE  \/ Keeps(vec, hold, Vs2, D2, g, h, k)
               \/ k = g /\ Renewed(Vs2, unique_id, U2, k)
    <2>1. CASE k # g /\ k # h
      BY <1>3, <1>6, <2>1 DEF Keeps
    <2>2. CASE k = g
      BY <1>4, <1>6, <1>7, <2>2 DEF Renewed
    <2>3. CASE k = h /\ k # g
      BY <1>1, <1>3, <1>6, <2>3 DEF Keeps
    <2>. QED
      BY <2>1, <2>2, <2>3
  <1>9. ASSUME NEW k \in Handle, k # g
        PROVE  ~Renewed(Vs2, unique_id, U2, k)
    <2>1. Vs2[k] = vec[k]
      BY <1>6, <1>9
    <2>2. IF vec[k].kind = "tr" THEN vec[k].id \in 1 .. unique_id - 1 ELSE vec[k].id = 0
      BY <1>2
    <2>. QED
      BY <1>7, <2>1, <2>2 DEF Renewed
  <1>10. \A k, l \in Handle :
           Renewed(Vs2, unique_id, U2, k) /\ Renewed(Vs2, unique_id, U2, l) => k = l
    BY <1>9
  <1>11. \A k \in Handle : \/ Keeps(vec, hold, Vs2, D2, g, h, k)
                           \/ Renewed(Vs2, unique_id, U2, k)
                           \/ Loses(vec, Vs2, D2, U2, g, h, k)
    BY <1>8
  <1>12. Alike(heap, P, vec, hold, unique_id, Vs2, D2, U2, g, h)
    BY <1>2, <1>3, <1>6, <1>7, <1>10, <1>11 DEF Alike
  <1>13. ops' \in Nat
    BY <1>1, <1>2
  <1>. QED
    BY <1>1, <1>12, <1>13, StoreAlike

(* It survives make_persistent.                                            *)
LEMMA MakePersistentStep ==
  ASSUME NEW P, Placed(P), NEW g \in Handle, NEW h \in Handle, MakePersistent(g, h)
  PROVE  Valid'
  <1>. DEFINE w == [vec[h] EXCEPT !.kind = "ps", !.id = 0]
              Vs2 == [vec EXCEPT ![g] = w]
              D2 == Apart(g, h, "shared")
  <1>1. /\ vec[h].kind = "tr" /\ heap' = heap /\ hold' = D2
        /\ unique_id' = unique_id /\ ops' = ops + 1
        /\ vec' = Vs2
    BY DEF MakePersistent, Store, At
  <1>2. /\ World(heap, P, vec, hold, unique_id)
        /\ vec \in [Handle -> Vector] /\ hold \in [Handle -> {"sole", "tip", "shared"}]
        /\ unique_id \in Nat \ {0} /\ ops \in Nat
        /\ \A k \in Handle : IF vec[k].kind = "tr" THEN vec[k].id \in 1 .. unique_id - 1
                             ELSE vec[k].id = 0
    BY AlikeStarts
  <1>3. /\ D2 \in [Handle -> {"sole", "tip", "shared"}]
        /\ D2[g] = "shared"
        /\ \A k \in Handle : k # g /\ k # h => D2[k] = hold[k]
        /\ g # h => D2[h] # "sole" /\ (D2[h] # "shared" => hold[h] # "shared")
    BY <1>2, ApartIs
  <1>4. /\ w \in Vector /\ w.kind = "ps" /\ w.id = 0
        /\ w.sz = vec[h].sz /\ w.root = vec[h].root /\ w.shift = vec[h].shift
    BY <1>2 DEF Vector, Kind
  <1>. HIDE DEF w
  <1>5. Lent(Vs2, D2, g, h, w, D2)
    BY <1>4 DEF Lent
  <1>. HIDE DEF Vs2, D2
  <1>6. /\ Vs2 \in [Handle -> Vector] /\ Vs2[g] = w
        /\ \A k \in Handle : k # g => Vs2[k] = vec[k]
        /\ \A k \in Handle : \E o \in {k, h} :
              /\ (k = g => o = h) /\ (k # g => o = k)
              /\ Vs2[k].sz = vec[o].sz /\ Vs2[k].root = vec[o].root /\ Vs2[k].shift = vec[o].shift
    <2>1. Holds(Vs2, g, h, w)
      BY <1>2, <1>4, <1>5, LentFacts
    <2>. QED
      BY <2>1 DEF Holds
  <1>7. ASSUME NEW k \in Handle
        PROVE  \/ Keeps(vec, hold, Vs2, D2, g, h, k)
               \/ Loses(vec, Vs2, D2, unique_id, g, h, k)
    <2>1. CASE k # g /\ k # h
      BY <1>3, <1>6, <2>1 DEF Keeps
    <2>2. CASE k = g
      BY <1>3, <1>4, <1>6, <2>2 DEF Loses
    <2>3. CASE k = h /\ k # g
      BY <1>1, <1>3, <1>6, <2>3 DEF Keeps
    <2>. QED
      BY <2>1, <2>2, <2>3
  <1>8. \A k \in Handle : ~Renewed(Vs2, unique_id, unique_id, k)
    BY <1>2 DEF Renewed
  <1>9. Alike(heap, P, vec, hold, unique_id, Vs2, D2, unique_id, g, h)
    BY <1>2, <1>3, <1>6, <1>7, <1>8 DEF Alike
  <1>10. ops' \in Nat
    BY <1>1, <1>2
  <1>. QED
    BY <1>1, <1>9, <1>10, StoreAlike

(* It survives freeze.                                                     *)
LEMMA FreezeStep ==
  ASSUME NEW P, Placed(P), NEW g \in Handle, NEW h \in Handle, Freeze(g, h)
  PROVE  Valid'
  <1>. DEFINE w == [vec[h] EXCEPT !.id = unique_id]
              Vs2 == [vec EXCEPT ![g] = vec[h], ![h].id = unique_id]
              D2 == [hold EXCEPT ![g] = "shared", ![h] = "sole"]
              U2 == unique_id + 1
  <1>1. /\ g # h /\ vec[h].kind = "tr" /\ heap' = heap /\ hold' = D2
        /\ unique_id' = U2 /\ ops' = ops + 1
        /\ vec' = Vs2
    BY DEF Freeze
  <1>2. /\ World(heap, P, vec, hold, unique_id)
        /\ vec \in [Handle -> Vector] /\ hold \in [Handle -> {"sole", "tip", "shared"}]
        /\ unique_id \in Nat \ {0} /\ ops \in Nat
        /\ \A k \in Handle : IF vec[k].kind = "tr" THEN vec[k].id \in 1 .. unique_id - 1
                             ELSE vec[k].id = 0
    BY AlikeStarts
  <1>3. /\ D2 \in [Handle -> {"sole", "tip", "shared"}]
        /\ D2[g] = "shared"
        /\ \A k \in Handle : k # g /\ k # h => D2[k] = hold[k]
    BY <1>1, <1>2
  <1>4. /\ w \in Vector /\ w.kind = "tr" /\ w.id = unique_id
        /\ w.sz = vec[h].sz /\ w.root = vec[h].root /\ w.shift = vec[h].shift
    BY <1>1, <1>2 DEF Vector
  <1>5. /\ Vs2 \in [Handle -> Vector] /\ Vs2[g] = vec[h] /\ Vs2[h] = w
        /\ \A k \in Handle : k # g /\ k # h => Vs2[k] = vec[k]
    <2>. DEFINE V1 == [vec EXCEPT ![g] = vec[h]]
    <2>1. V1 \in [Handle -> Vector] /\ V1[h] = vec[h] /\ V1[g] = vec[h]
          /\ \A k \in Handle : k # g => V1[k] = vec[k]
      BY <1>1, <1>2
    <2>2. Vs2 = [V1 EXCEPT ![h] = w]
      <3>1. Vs2 = [V1 EXCEPT ![h] = [@ EXCEPT !.id = unique_id]]
        OBVIOUS
      <3>. HIDE DEF V1
      <3>. QED
        BY <1>2, <2>1, <3>1
    <2>. HIDE DEF V1, Vs2, w
    <2>. QED
      BY <1>1, <1>4, <2>1, <2>2
  <1>. HIDE DEF w, Vs2, D2
  <1>6. \A k \in Handle : \E o \in {k, h} :
              /\ (k = g => o = h) /\ (k # g => o = k)
              /\ Vs2[k].sz = vec[o].sz /\ Vs2[k].root = vec[o].root /\ Vs2[k].shift = vec[o].shift
    BY <1>1, <1>4, <1>5
  <1>7. /\ U2 \in Nat /\ unique_id < U2 /\ unique_id <= U2 /\ unique_id \in Nat
        /\ \A i \in 1 .. unique_id - 1 : i \in 1 .. U2 - 1
    BY <1>2
  <1>. HIDE DEF U2
  <1>8. ASSUME NEW k \in Handle
        PROVE  \/ Keeps(vec, hold, Vs2, D2, g, h, k)
               \/ k = h /\ Renewed(Vs2, unique_id, U2, k)
               \/ Loses(vec, Vs2, D2, U2, g, h, k)
    <2>1. CASE k # g /\ k # h
      BY <1>3, <1>5, <2>1 DEF Keeps
    <2>2. CASE k = g
      BY <1>1, <1>2, <1>3, <1>5, <1>7, <2>2 DEF Loses
    <2>3. CASE k = h
      BY <1>4, <1>5, <1>7, <2>3 DEF Renewed
    <2>. QED
      BY <2>1, <2>2, <2>3
  <1>9. ASSUME NEW k \in Handle, k # h
        PROVE  ~Renewed(Vs2, unique_id, U2, k)
    <2>1. Vs2[k] = vec[k] \/ Vs2[k] = vec[h]
      BY <1>5, <1>9
    <2>2. \A l \in {k, h} : IF vec[l].kind = "tr" THEN vec[l].id \in 1 .. unique_id - 1 ELSE vec[l].id = 0
      BY <1>2
    <2>. QED
      BY <1>7, <2>1, <2>2 DEF Renewed
  <1>10. \A k, l \in Handle :
           Renewed(Vs2, unique_id, U2, k) /\ Renewed(Vs2, unique_id, U2, l) => k = l
    BY <1>9
  <1>11. \A k \in Handle : \/ Keeps(vec, hold, Vs2, D2, g, h, k)
                           \/ Renewed(Vs2, unique_id, U2, k)
                           \/ Loses(vec, Vs2, D2, U2, g, h, k)
    BY <1>8
  <1>12. Alike(heap, P, vec, hold, unique_id, Vs2, D2, U2, g, h)
    BY <1>2, <1>3, <1>5, <1>6, <1>7, <1>10, <1>11 DEF Alike
  <1>13. ops' \in Nat
    BY <1>1, <1>2
  <1>. QED
    BY <1>1, <1>12, <1>13, StoreAlike

(* The invariant survives the construction of a vector. *)
LEMMA NewWorld ==
  ASSUME NEW H, NEW P, NEW Vs, NEW D, NEW U, World(H, P, Vs, D, U), NEW H2, NEW P2, NEW e,
         NEW kind \in Kind, NEW id, id = (IF kind = "tr" THEN U ELSE 0),
         NEW U2, U2 = (IF kind = "tr" THEN U + 1 ELSE U),
         Sown(H, P, H2, P2, e, kind, id), NEW g \in Handle, NEW Vs2, Became(Vs, Vs2, g, e),
         NEW D2, D2 = [D EXCEPT ![g] = "sole"]
  PROVE  World(H2, P2, Vs2, D2, U2)
  <1>1. /\ Vs \in [Handle -> Vector] /\ D \in [Handle -> {"sole", "tip", "shared"}]
        /\ Tries(H, P, Vs) /\ Ids(H, Vs, D, U) /\ Plain(H, Vs, D) /\ Soles(H, Vs, D) /\ Tips(H, Vs, D)
    BY DEF World
  <1>2. /\ IsHeap(H, P) /\ U \in Nat \ {0} /\ U2 \in Nat \ {0} /\ U <= U2 /\ id \in Nat /\ id < U2
        /\ \A n \in DOMAIN H : H[n].id \in Int /\ H[n].id < U
    <2>1. IsHeap(H, P) /\ U \in Nat \ {0} /\ \A n \in DOMAIN H : H[n].id < U
      BY <1>1 DEF Tries, Ids
    <2>2. \A n \in DOMAIN H : H[n].id \in Int
      BY WorldFacts
    <2>. QED
      BY <2>1, <2>2
  <1>3. /\ IsHeap(H2, P2) /\ IsVec(H2, P2, e) /\ Full(H2, e) /\ e \in Vector
        /\ e.kind = kind /\ e.id = id /\ e.sz = 0
        /\ Nodes(H2, e) = {Len(H) + 1} /\ H2[Len(H) + 1].id = id
        /\ \A n \in DOMAIN H : H2[n] = H[n] /\ P2[n] = P[n]
    BY DEF Sown, IsVec
  <1>4. /\ Vs2 \in [Handle -> Vector] /\ Vs2[g] = e /\ \A k \in Handle : k # g => Vs2[k] = Vs[k]
    BY <1>1, <1>3 DEF Became
  <1>5. /\ D2 \in [Handle -> {"sole", "tip", "shared"}]
        /\ D2[g] = "sole" /\ \A k \in Handle : k # g => D2[k] = D[k]
    BY <1>1
  <1>6. /\ Len(H) \in Nat /\ DOMAIN H = 1 .. Len(H)
        /\ \A n \in DOMAIN H2 : n \in DOMAIN H \/ n = Len(H) + 1
        /\ Len(H) + 1 \notin DOMAIN H
    <2>1. H \in Seq(Node) /\ H2 \in Seq(Node) /\ Len(H2) = Len(H) + 1
      BY <1>2, <1>3 DEF IsHeap, Sown
    <2>. QED
      BY <2>1
  <1>7. ASSUME NEW k \in Handle, k # g
        PROVE  /\ Vs2[k] = Vs[k] /\ IsVec(H, P, Vs[k]) /\ Full(H, Vs[k])
               /\ Alive(H, H2, P2, Vs[k]) /\ Nodes(H2, Vs[k]) = Nodes(H, Vs[k])
               /\ Nodes(H, Vs[k]) \subseteq DOMAIN H
    <2>1. Vs2[k] = Vs[k] /\ IsVec(H, P, Vs[k]) /\ Full(H, Vs[k])
      BY <1>1, <1>4, <1>7 DEF Tries
    <2>2. Alive(H, H2, P2, Vs[k])
      BY <1>2, <2>1, SownOther
    <2>3. Nodes(H, Vs[k]) \subseteq DOMAIN H
      BY <1>2, <2>1, NodesIn
    <2>. QED
      BY <2>1, <2>2, <2>3 DEF Alive
  <1>8. Tries(H2, P2, Vs2)
    <2>1. ASSUME NEW k \in Handle
          PROVE  IsVec(H2, P2, Vs2[k]) /\ Full(H2, Vs2[k])
      <3>1. CASE k = g
        BY <1>3, <1>4, <3>1
      <3>2. CASE k # g
        BY <1>7, <3>2 DEF Alive
      <3>. QED
        BY <3>1, <3>2
    <2>. QED
      BY <1>3, <2>1 DEF Tries
  <1>9. ASSUME NEW k \in Handle, k # g
        PROVE  IF Vs[k].kind = "tr" THEN Vs[k].id \in 1 .. U - 1 ELSE Vs[k].id = 0
    BY <1>1 DEF Ids
  <1>10. Ids(H2, Vs2, D2, U2)
    <2>1. ASSUME NEW n \in DOMAIN H2
          PROVE  H2[n].id < U2
      <3>1. CASE n \in DOMAIN H
        <4>1. H2[n] = H[n] /\ H[n].id \in Int /\ H[n].id < U
          BY <1>2, <1>3, <3>1
        <4>. QED
          BY <1>2, <4>1
      <3>2. CASE n = Len(H) + 1
        BY <1>2, <1>3, <3>2
      <3>. QED
        BY <1>6, <3>1, <3>2
    <2>2. ASSUME NEW k \in Handle
          PROVE  IF Vs2[k].kind = "tr" THEN Vs2[k].id \in 1 .. U2 - 1 ELSE Vs2[k].id = 0
      <3>1. CASE k = g
        <4>1. Vs2[k].kind = kind /\ Vs2[k].id = id
          BY <1>3, <1>4, <3>1
        <4>2. IF kind = "tr" THEN id \in 1 .. U2 - 1 ELSE id = 0
          BY <1>2
        <4>. QED
          BY <4>1, <4>2
      <3>2. CASE k # g
        BY <1>2, <1>7, <1>9, <3>2
      <3>. QED
        BY <3>1, <3>2
    <2>3. ASSUME NEW h \in Handle, NEW k \in Handle, h # k, D2[h] # "shared", D2[k] # "shared",
                 Vs2[h].kind = "tr", Vs2[k].kind = "tr"
          PROVE  Vs2[h].id # Vs2[k].id
      <3>1. CASE h # g /\ k # g
        <4>1. /\ Vs2[h] = Vs[h] /\ Vs2[k] = Vs[k] /\ D2[h] = D[h] /\ D2[k] = D[k]
          BY <1>4, <1>5, <3>1
        <4>2. D[h] # "shared" /\ D[k] # "shared" /\ Vs[h].kind = "tr" /\ Vs[k].kind = "tr"
          BY <2>3, <4>1
        <4>3. Vs[h].id # Vs[k].id
          BY <1>1, <2>3, <4>2 DEF Ids
        <4>. QED
          BY <4>1, <4>3
      <3>2. ASSUME NEW l \in Handle, l # g, Vs2[l].kind = "tr", Vs2[g].kind = "tr"
            PROVE  Vs2[l].id # Vs2[g].id
        <4>1. Vs2[l] = Vs[l] /\ Vs2[g].id = U
          BY <1>3, <1>4, <3>2
        <4>2. Vs[l].id \in 1 .. U - 1
          BY <1>9, <3>2, <4>1
        <4>. QED
          BY <1>2, <4>1, <4>2
      <3>3. CASE h = g
        BY <2>3, <3>2, <3>3
      <3>4. CASE k = g
        BY <2>3, <3>2, <3>4
      <3>. QED
        BY <3>1, <3>3, <3>4
    <2>. QED
      BY <1>2, <2>1, <2>2, <2>3 DEF Ids
  <1>11. Plain(H2, Vs2, D2)
    <2>1. ASSUME NEW h \in Handle, Vs2[h].kind = "bp", NEW n \in Nodes(H2, Vs2[h])
          PROVE  H2[n].id <= 0
      <3>1. CASE h = g
        <4>1. n = Len(H) + 1 /\ id = 0
          BY <1>3, <1>4, <2>1, <3>1
        <4>. QED
          BY <1>3, <4>1
      <3>2. CASE h # g
        <4>1. n \in Nodes(H, Vs[h]) /\ H2[n] = H[n] /\ Vs[h].kind = "bp"
          BY <1>3, <1>7, <2>1, <3>2
        <4>2. H[n].id <= 0
          BY <1>1, <4>1 DEF Plain
        <4>. QED
          BY <4>1, <4>2
      <3>. QED
        BY <3>1, <3>2
    <2>2. ASSUME NEW h \in Handle, NEW k \in Handle, h # k, D2[h] # "shared", D2[k] # "shared",
                 Vs2[h].kind = "bp", Vs2[k].kind = "bp", NEW n \in Nodes(H2, Vs2[h])
          PROVE  n \notin Nodes(H2, Vs2[k])
      <3>1. CASE h # g /\ k # g
        <4>1. /\ Vs2[h] = Vs[h] /\ Vs2[k] = Vs[k] /\ D2[h] = D[h] /\ D2[k] = D[k]
              /\ Nodes(H2, Vs[h]) = Nodes(H, Vs[h]) /\ Nodes(H2, Vs[k]) = Nodes(H, Vs[k])
          BY <1>5, <1>7, <3>1
        <4>2. /\ D[h] # "shared" /\ D[k] # "shared" /\ Vs[h].kind = "bp" /\ Vs[k].kind = "bp"
              /\ n \in Nodes(H, Vs[h])
          BY <2>2, <4>1
        <4>3. n \notin Nodes(H, Vs[k])
          BY <1>1, <2>2, <4>2 DEF Plain
        <4>. QED
          BY <4>1, <4>3
      <3>2. CASE h = g
        <4>1. n = Len(H) + 1 /\ k # g
          BY <1>3, <1>4, <2>2, <3>2
        <4>. QED
          BY <1>6, <1>7, <4>1
      <3>3. CASE k = g
        <4>1. Nodes(H2, Vs2[k]) = {Len(H) + 1} /\ h # g
          BY <1>3, <1>4, <2>2, <3>3
        <4>2. n \in DOMAIN H
          BY <1>7, <2>2, <4>1
        <4>. QED
          BY <1>6, <4>1, <4>2
      <3>. QED
        BY <3>1, <3>2, <3>3
    <2>. QED
      BY <2>1, <2>2 DEF Plain
  \* g owns no node of the others, and they do not own its
  <1>12. ASSUME NEW n \in DOMAIN H
         PROVE  ~Owns(H2, Vs2[g], n)
    <2>1. CASE kind = "tr"
      <3>1. Vs2[g].kind = "tr" /\ Vs2[g].id = U /\ H2[n].id # U
        BY <1>2, <1>3, <1>4, <2>1
      <3>. QED
        BY <3>1 DEF Owns
    <2>2. CASE kind # "tr"
      <3>1. Vs2[g].kind # "tr" /\ n \notin Nodes(H2, Vs2[g])
        BY <1>3, <1>4, <1>6, <2>2
      <3>. QED
        BY <3>1 DEF Owns
    <2>. QED
      BY <2>1, <2>2
  <1>13. ASSUME NEW k \in Handle, k # g, NEW n \in DOMAIN H
         PROVE  Owns(H2, Vs2[k], n) <=> Owns(H, Vs[k], n)
    BY <1>3, <1>7, <1>13 DEF Owns
  <1>14. ASSUME NEW k \in Handle, k # g
         PROVE  ~Owns(H2, Vs2[k], Len(H) + 1)
    <2>1. CASE Vs[k].kind = "tr"
      <3>1. Vs[k].id \in 1 .. U - 1 /\ Vs2[k] = Vs[k]
        BY <1>7, <1>9, <1>14, <2>1
      <3>2. id = U \/ id = 0
        OBVIOUS
      <3>3. H2[Len(H) + 1].id # Vs2[k].id
        BY <1>2, <1>3, <3>1, <3>2
      <3>. QED
        BY <2>1, <3>1, <3>3 DEF Owns
    <2>2. CASE Vs[k].kind # "tr"
      <3>1. Vs2[k] = Vs[k] /\ Len(H) + 1 \notin Nodes(H2, Vs2[k])
        BY <1>6, <1>7, <1>14
      <3>. QED
        BY <2>2, <3>1 DEF Owns
    <2>. QED
      BY <2>1, <2>2
  <1>15. Soles(H2, Vs2, D2)
    <2>1. ASSUME NEW s \in Handle, NEW k \in Handle, s # k, D2[s] = "sole", NEW n \in Nodes(H2, Vs2[k])
          PROVE  ~Owns(H2, Vs2[s], n)
      <3>1. CASE k = g
        <4>1. n = Len(H) + 1 /\ s # g
          BY <1>3, <1>4, <2>1, <3>1
        <4>. QED
          BY <1>14, <4>1
      <3>2. CASE k # g
        <4>1. n \in Nodes(H, Vs[k]) /\ n \in DOMAIN H
          BY <1>7, <2>1, <3>2
        <4>2. CASE s = g
          BY <1>12, <4>1, <4>2
        <4>3. CASE s # g
          <5>1. D[s] = "sole"
            BY <1>5, <2>1, <4>3
          <5>2. ~Owns(H, Vs[s], n)
            BY <1>1, <2>1, <4>1, <5>1 DEF Soles
          <5>. QED
            BY <1>13, <4>1, <4>3, <5>2
        <4>. QED
          BY <4>2, <4>3
      <3>. QED
        BY <3>1, <3>2
    <2>. QED
      BY <2>1 DEF Soles
  <1>16. Tips(H2, Vs2, D2)
    <2>1. ASSUME NEW t \in Handle, NEW k \in Handle, t # k, D2[t] # "shared", Vs2[t].kind # "ps",
                 NEW j \in 0 .. Vs2[k].sz - 1, NEW f \in 0 .. Lv(Vs2[k]),
                 Owns(H2, Vs2[t], On(H2, Vs2[k], j, f))
          PROVE  j < Vs2[t].sz
      <3>1. CASE k = g
        <4>1. Vs2[k].sz = 0
          BY <1>3, <1>4, <3>1
        <4>. QED
          BY <2>1, <4>1
      <3>2. CASE k # g
        <4>1. Vs2[k] = Vs[k] /\ j \in 0 .. Vs[k].sz - 1 /\ f \in 0 .. Lv(Vs[k])
          BY <1>7, <2>1, <3>2
        <4>2. j \in Room(Vs[k]) /\ On(H, Vs[k], j, f) \in DOMAIN H
          BY <1>2, <1>7, <3>2, <4>1, FullPath
        <4>3. On(H2, Vs[k], j, f) = On(H, Vs[k], j, f)
          BY <1>7, <3>2, <4>1, <4>2 DEF Alive
        <4>4. t # g
          BY <1>12, <2>1, <4>1, <4>2, <4>3
        <4>5. /\ Owns(H, Vs[t], On(H, Vs[k], j, f)) /\ D[t] # "shared" /\ Vs2[t] = Vs[t]
              /\ Vs[t].kind # "ps"
          BY <1>4, <1>5, <1>13, <2>1, <4>1, <4>2, <4>3, <4>4
        <4>6. j < Vs[t].sz
          BY <1>1, <2>1, <4>1, <4>5 DEF Tips
        <4>. QED
          BY <4>5, <4>6
      <3>. QED
        BY <3>1, <3>2
    <2>. QED
      BY <2>1 DEF Tips
  <1>. QED
    BY <1>4, <1>5, <1>8, <1>10, <1>11, <1>15, <1>16 DEF World

(* The invariant survives default construction.                            *)
LEMMA NewStep ==
  ASSUME NEW P, Placed(P), NEW g \in Handle, NEW kind \in Kind, New(g, kind)
  PROVE  Valid'
  <1>. DEFINE id == IF kind = "tr" THEN unique_id ELSE 0
              U2 == IF kind = "tr" THEN unique_id + 1 ELSE unique_id
              H2 == Empty(heap, kind, id).h
              P2 == Grafted(P, Len(heap) + 1, 0, 0)
              e == Empty(heap, kind, id).v
              Vs2 == [vec EXCEPT ![g] = e]
              D2 == [hold EXCEPT ![g] = "sole"]
  <1>1. /\ heap' = H2 /\ vec' = Vs2 /\ hold' = D2 /\ unique_id' = U2 /\ ops' = ops + 1
    BY DEF New, Store, Alone
  <1>2. World(heap, P, vec, hold, unique_id) /\ ops \in Nat /\ IsHeap(heap, P) /\ unique_id \in Nat
    BY DEF Placed, World, Tries, Ids
  <1>3. Sown(heap, P, H2, P2, e, kind, id)
    <2>1. id \in Nat
      BY <1>2
    <2>. HIDE DEF id
    <2>. QED
      BY <1>2, <2>1, EmptyIs
  <1>4. /\ id = (IF kind = "tr" THEN unique_id ELSE 0)
        /\ U2 = (IF kind = "tr" THEN unique_id + 1 ELSE unique_id)
        /\ Became(vec, Vs2, g, e) /\ D2 = [hold EXCEPT ![g] = "sole"]
    BY DEF Became
  <1>. HIDE DEF id, U2, H2, P2, e, Vs2, D2
  <1>5. World(H2, P2, Vs2, D2, U2)
    BY <1>2, <1>3, <1>4, NewWorld
  <1>6. PICK Q : Q = P2
    OBVIOUS
  <1>7. Placed(Q)'
    BY <1>1, <1>2, <1>5, <1>6 DEF Placed
  <1>. QED
    BY <1>7 DEF Valid

-----------------------------------------------------------------------------
(* The first vector. *)

\* c holds the elements 1..k in nodes under one id
Grew(c, P, kind, id, k) ==
  /\ Fits(c, P) /\ Full(c.h, c.v)
  /\ c.v.kind = kind /\ c.v.id = id /\ c.v.sz = k
  /\ \A n \in DOMAIN c.h : c.h[n].id = id
  /\ \A j \in 0 .. k - 1 : Cell(c.h, c.v, j) = j + 1

(* A push onto a vector that is full makes one that is full. *)
LEMMA PushedFull ==
  ASSUME NEW m, NEW P, Fits(m, P), NEW r, NEW P2, NEW x, NEW keep, NEW nid,
         Pushed(m, P, r, P2, x, keep, nid, 1)
  PROVE  Fits(r, P2) /\ Full(r.h, r.v) /\ m.v.sz \in Nat /\ r.v.sz = m.v.sz + 1
         /\ r.v.kind = m.v.kind /\ r.v.id = m.v.id
  <1>1. m.v \in Vector
    BY FitsFacts
  <1>2. m.v.sz \in Nat
    BY <1>1 DEF Vector
  <1>3. /\ Fits(r, P2) /\ r.v.sz = m.v.sz + 1 /\ r.v.kind = m.v.kind /\ r.v.id = m.v.id
        /\ On(r.h, r.v, m.v.sz, 0) # Null
        /\ \A j \in 0 .. m.v.sz - 1 : On(r.h, r.v, j, 0) # Null
    BY DEF Pushed
  <1>4. Full(r.h, r.v)
    BY <1>2, <1>3 DEF Full
  <1>. QED
    BY <1>2, <1>3, <1>4

\* one more push
Longer1(c, kind, id, k) ==
  IF kind = "ps" THEN push_back(c, k) ELSE mut_push_back(c, k, id)

(* It holds for one more element.                                          *)
LEMMA GrewNext ==
  ASSUME NEW c, NEW P, NEW kind \in Kind, NEW id, id = (IF kind = "tr" THEN 1 ELSE 0),
         NEW k \in Nat, Grew(c, P, kind, id, k)
  PROVE  \E P2 : Grew(Longer1(c, kind, id, k + 1), P2, kind, id, k + 1)
  <1>. DEFINE r == Longer1(c, kind, id, k + 1)
              keep == node_keep(c.v)
              x == k + 1
  <1>1. /\ Fits(c, P) /\ Full(c.h, c.v) /\ c.v.kind = kind /\ c.v.id = id /\ c.v.sz = k
        /\ \A n \in DOMAIN c.h : c.h[n].id = id
        /\ \A j \in 0 .. k - 1 : Cell(c.h, c.v, j) = j + 1
    BY DEF Grew
  <1>2. \E P2 : Pushed(c, P, r, P2, x, keep, id, 1)
    <2>0. x \in Int /\ id \in Int
      OBVIOUS
    <2>1. CASE kind = "ps"
      <3>1. r = push_back(c, x)
        BY <2>1 DEF Longer1
      <3>2. \E P2 : Pushed(c, P, push_back(c, x), P2, x, keep, c.v.id, 1)
        <4>. HIDE DEF x
        <4>. QED
          BY <1>1, <2>0, PushBackIs
      <3>. HIDE DEF r, x, keep
      <3>. QED
        BY <1>1, <3>1, <3>2
    <2>2. CASE kind # "ps"
      <3>1. r = mut_push_back(c, x, id)
        BY <2>2 DEF Longer1
      <3>2. c.h[c.v.root].id \in keep
        <4>1. c.v.root \in DOMAIN c.h
          BY <1>1, FitsFacts DEF IsVec
        <4>2. c.h[c.v.root].id = id
          BY <1>1, <4>1
        <4>3. kind = "tr" \/ kind = "bp"
          BY <2>2 DEF Kind
        <4>4. CASE kind = "tr"
          BY <1>1, <4>2, <4>4 DEF node_keep
        <4>5. CASE kind = "bp"
          <5>1. keep = Int
            BY <1>1, <4>5 DEF node_keep
          <5>. QED
            BY <2>0, <4>2, <5>1
        <4>. QED
          BY <4>3, <4>4, <4>5
      <3>3. \E P2 : Pushed(c, P, mut_push_back(c, x, id), P2, x, keep, id, 1)
        <4>. HIDE DEF x
        <4>. QED
          BY <1>1, <2>0, <3>2, MutPushBackIs
      <3>. HIDE DEF r, x, keep
      <3>. QED
        BY <3>1, <3>3
    <2>. QED
      BY <2>1, <2>2
  <1>. HIDE DEF r, keep
  <1>3. PICK P2 : Pushed(c, P, r, P2, x, keep, id, 1)
    BY <1>2
  <1>4. /\ Fits(r, P2) /\ Full(r.h, r.v) /\ r.v.sz = k + 1 /\ r.v.kind = kind /\ r.v.id = id
    <2>. HIDE DEF x
    <2>. QED
      BY <1>1, <1>3, PushedFull
  <1>5. ASSUME NEW n \in DOMAIN r.h
        PROVE  r.h[n].id = id
    <2>1. /\ DOMAIN c.h = 1 .. Len(c.h) /\ DOMAIN r.h = 1 .. Len(r.h)
          /\ Len(c.h) \in Nat /\ Len(r.h) \in Nat
      BY <1>1, <1>4, FitsFacts
    <2>2. CASE n \in DOMAIN c.h
      <3>1. r.h[n].id = c.h[n].id
        BY <1>3, <2>2 DEF Pushed
      <3>. QED
        BY <1>1, <2>2, <3>1
    <2>3. CASE n \notin DOMAIN c.h
      <3>1. n \in Len(c.h) + 1 .. Len(r.h)
        BY <2>1, <2>3
      <3>2. r.h[n].id \in {c.v.id, id}
        BY <1>3, <3>1 DEF Pushed
      <3>. QED
        BY <1>1, <3>2
    <2>. QED
      BY <2>2, <2>3
  <1>6. ASSUME NEW j \in 0 .. k
        PROVE  Cell(r.h, r.v, j) = j + 1
    <2>1. CASE j = k
      BY <1>1, <1>3, <2>1 DEF Pushed
    <2>2. CASE j # k
      <3>1. j \in 0 .. k - 1
        BY <2>2
      <3>2. Cell(r.h, r.v, j) = Cell(c.h, c.v, j)
        BY <1>1, <1>3, <3>1 DEF Pushed
      <3>. QED
        BY <1>1, <3>1, <3>2
    <2>. QED
      BY <2>1, <2>2
  <1>7. \A j \in 0 .. (k + 1) - 1 : Cell(r.h, r.v, j) = j + 1
    BY <1>6
  <1>8. Grew(r, P2, kind, id, k + 1)
    BY <1>4, <1>5, <1>7 DEF Grew
  <1>. QED
    BY <1>8 DEF r

(* It holds for the first vector.                                          *)
LEMMA BuiltIs ==
  ASSUME NEW kind \in Kind, NEW n \in Nat, NEW id, id = (IF kind = "tr" THEN 1 ELSE 0)
  PROVE  \E P : Grew(Built(kind, n), P, kind, id, n)
  <1>. DEFINE z == Empty(<<>>, kind, id)
              Good(c, k) == c \in Record /\ \E P : Grew(c, P, kind, id, k)
              T == [k \in 0 .. n |-> {c \in Record : Good(c, k)}]
              g == [k \in 1 .. n |-> [c \in Record |-> Longer1(c, kind, id, k)]]
              StepOf(f, k) == IF k = 0 THEN z ELSE Longer1(f[k-1], kind, id, k)
              Defines(f) == f = [k \in 0 .. n |-> StepOf(f, k)]
              b == CHOOSE f : Defines(f)
  <1>1. Good(z, 0)
    <2>. DEFINE P == <<>>
                P2 == Grafted(P, Len(<<>>) + 1, 0, 0)
    <2>1. IsHeap(<<>>, P)
      BY DEF IsHeap
    <2>2. id \in Nat
      OBVIOUS
    <2>3. Sown(<<>>, P, z.h, P2, z.v, kind, id)
      <3>. HIDE DEF P
      <3>. QED
        BY <2>1, <2>2, EmptyIs
    <2>4. z.ub \in BOOLEAN /\ z = [h |-> z.h, v |-> z.v, ub |-> z.ub]
      BY DEF Empty
    <2>. HIDE DEF P2, z, P
    <2>5. /\ IsHeap(z.h, P2) /\ IsVec(z.h, P2, z.v) /\ Full(z.h, z.v)
          /\ z.v.kind = kind /\ z.v.id = id /\ z.v.sz = 0
          /\ Len(z.h) = Len(<<>>) + 1 /\ z.h[Len(<<>>) + 1].id = id
      BY <2>3 DEF Sown
    <2>6. z.h \in Seq(Node) /\ z.v \in Vector
      BY <2>5 DEF IsHeap, IsVec
    <2>7. z \in Record
      BY <2>4, <2>6 DEF Record
    <2>8. \A y \in DOMAIN z.h : z.h[y].id = id
      <3>1. Len(<<>>) + 1 = 1 /\ 1 .. 1 = {1}
        OBVIOUS
      <3>2. DOMAIN z.h = {1}
        BY <2>5, <2>6, <3>1
      <3>. QED
        BY <2>5, <3>1, <3>2
    <2>9. Grew(z, P2, kind, id, 0)
      BY <2>5, <2>7, <2>8 DEF Grew, Fits
    <2>. QED
      BY <2>7, <2>9
  <1>2. ASSUME NEW k \in 1 .. n, NEW c, Good(c, k - 1)
        PROVE  Good(Longer1(c, kind, id, k), k)
    <2>1. k - 1 \in Nat /\ (k - 1) + 1 = k
      OBVIOUS
    <2>2. PICK P : Grew(c, P, kind, id, k - 1)
      BY <1>2
    <2>. DEFINE l == k - 1
    <2>3. l \in Nat /\ Grew(c, P, kind, id, l) /\ l + 1 = k
      BY <2>1, <2>2
    <2>. HIDE DEF l
    <2>4. \E P2 : Grew(Longer1(c, kind, id, l + 1), P2, kind, id, l + 1)
      BY <2>3, GrewNext
    <2>. DEFINE r == Longer1(c, kind, id, k)
    <2>5. PICK P2 : Grew(r, P2, kind, id, k)
      BY <2>3, <2>4
    <2>. HIDE DEF r
    <2>6. r \in Record
      BY <2>5 DEF Grew, Fits
    <2>7. Good(r, k)
      BY <2>5, <2>6
    <2>. QED
      BY <2>7 DEF r
  <1>. HIDE DEF Good
  <1>3. z \in Record
    BY <1>1 DEF Good
  <1>4. T \in [0 .. n -> SUBSET Record] /\ z \in T[0]
    <2>. HIDE DEF z
    <2>. QED
      BY <1>1, <1>3
  <1>. HIDE DEF z
  <1>5. ASSUME NEW k \in 1 .. n, NEW c \in T[k - 1]
        PROVE  g[k][c] = Longer1(c, kind, id, k) /\ g[k][c] \in T[k]
    <2>1. k - 1 \in 0 .. n /\ k \in 0 .. n
      OBVIOUS
    <2>2. c \in Record /\ Good(c, k - 1)
      BY <2>1
    <2>3. Good(Longer1(c, kind, id, k), k)
      BY <1>2, <2>2
    <2>4. Longer1(c, kind, id, k) \in Record
      BY <2>3 DEF Good
    <2>5. g[k][c] = Longer1(c, kind, id, k)
      BY <2>2
    <2>. QED
      BY <2>1, <2>3, <2>4, <2>5
  <1>6. PICK q : Course(q, n, Record, z, g, T)
    <2>1. \A k \in 1 .. n : \A c \in T[k - 1] : g[k][c] \in T[k]
      BY <1>5
    <2>. HIDE DEF T, g
    <2>. QED
      BY <1>4, <2>1, Courses
  <1>7. /\ q \in [0 .. n -> Record] /\ q[0] = z
        /\ \A k \in 1 .. n : q[k] = Longer1(q[k - 1], kind, id, k)
    <2>1. /\ q \in [0 .. n -> Record] /\ q[0] = z
          /\ \A k \in 1 .. n : q[k] = g[k][q[k - 1]]
          /\ \A k \in 0 .. n : q[k] \in T[k]
      BY <1>6 DEF Course
    <2>. HIDE DEF T, g
    <2>2. ASSUME NEW k \in 1 .. n
          PROVE  q[k] = Longer1(q[k - 1], kind, id, k)
      <3>1. k - 1 \in 0 .. n
        OBVIOUS
      <3>2. q[k - 1] \in T[k - 1]
        BY <2>1, <3>1
      <3>. QED
        BY <1>5, <2>1, <3>2
    <2>. QED
      BY <2>1, <2>2
  <1>. HIDE DEF T, g
  <1>8. Defines(q)
    <2>1. \A k \in 0 .. n : q[k] = StepOf(q, k)
      <3>1. ASSUME NEW k \in 0 .. n
            PROVE  q[k] = StepOf(q, k)
        BY <1>7
      <3>. QED
        BY <3>1
    <2>. HIDE DEF StepOf
    <2>. QED
      BY <1>7, <2>1
  <1>9. Defines(b)
    <2>. HIDE DEF Defines
    <2>. QED
      BY <1>8, Zenon
  <1>10. Built(kind, n) = b[n]
    BY DEF Built, Longer1, z
  <1>11. \A k \in 0 .. n : b[k] = StepOf(b, k)
    <2>. HIDE DEF StepOf, b
    <2>. QED
      BY <1>9
  <1>. HIDE DEF b, Defines
  <1>12. \A k \in 0 .. n : Good(b[k], k)
    <2>. DEFINE W == {k \in 0 .. n : Good(b[k], k)}
    <2>1. 0 \in W
      BY <1>1, <1>11
    <2>2. ASSUME NEW k \in 1 .. n, k - 1 \in W
          PROVE  k \in W
      <3>1. Good(b[k - 1], k - 1)
        BY <2>2
      <3>2. b[k] = Longer1(b[k - 1], kind, id, k)
        BY <1>11
      <3>3. Good(b[k], k)
        BY <1>2, <3>1, <3>2
      <3>. QED
        BY <3>3
    <2>. HIDE DEF W
    <2>3. \A k \in 0 .. n : k \in W
      BY <2>1, <2>2, Induct
    <2>. QED
      BY <2>3 DEF W
  <1>13. Good(b[n], n)
    BY <1>12
  <1>. QED
    BY <1>10, <1>13 DEF Good

\* the variable f holds v and may write it; the others share e
FirstHeld(Vs, D, f, v, e) ==
  /\ Vs = [h \in Handle |-> IF h = f THEN v ELSE e]
  /\ D = [h \in Handle |-> IF h = f THEN "sole" ELSE "shared"]

(* One variable holds the first vector and the others an empty one. *)
LEMMA FirstWorld ==
  ASSUME NEW b, NEW P, NEW kind \in Kind, NEW id, id = (IF kind = "tr" THEN 1 ELSE 0), NEW n,
         Grew(b, P, kind, id, n), NEW H2, NEW P2, NEW e, Sown(b.h, P, H2, P2, e, "ps", 0),
         NEW f \in Handle, NEW Vs, NEW D, FirstHeld(Vs, D, f, b.v, e)
  PROVE  World(H2, P2, Vs, D, 2)
  <1>. DEFINE v == b.v
              H == b.h
  <1>1. /\ Fits(b, P) /\ Full(H, v) /\ v.kind = kind /\ v.id = id
        /\ \A y \in DOMAIN H : H[y].id = id
    BY DEF Grew
  <1>2. IsHeap(H, P) /\ IsVec(H, P, v) /\ v \in Vector /\ Len(H) \in Nat /\ DOMAIN H = 1 .. Len(H)
    BY <1>1, FitsFacts
  <1>. HIDE DEF H, v
  <1>3. /\ IsHeap(H2, P2) /\ IsVec(H2, P2, e) /\ Full(H2, e) /\ e \in Vector
        /\ e.kind = "ps" /\ e.id = 0 /\ e.sz = 0
        /\ Nodes(H2, e) = {Len(H) + 1} /\ H2[Len(H) + 1].id = 0
        /\ \A y \in DOMAIN H : H2[y] = H[y]
    BY DEF Sown, IsVec, H
  <1>4. Alive(H, H2, P2, v)
    BY <1>2, SownOther DEF H
  <1>5. IsVec(H2, P2, v) /\ Full(H2, v) /\ Nodes(H2, v) = Nodes(H, v)
    BY <1>1, <1>4 DEF Alive, H, v
  <1>6. Nodes(H, v) \subseteq DOMAIN H /\ Len(H) + 1 \notin Nodes(H, v)
    BY <1>2, NodesIn
  <1>7. /\ Vs \in [Handle -> Vector] /\ Vs[f] = v /\ \A k \in Handle : k # f => Vs[k] = e
        /\ D \in [Handle -> {"sole", "tip", "shared"}]
        /\ D[f] = "sole" /\ \A k \in Handle : k # f => D[k] = "shared"
    BY <1>2, <1>3 DEF v, FirstHeld
  <1>8. Tries(H2, P2, Vs)
    <2>1. ASSUME NEW k \in Handle
          PROVE  IsVec(H2, P2, Vs[k]) /\ Full(H2, Vs[k])
      <3>1. CASE k = f
        BY <1>5, <1>7, <3>1
      <3>2. CASE k # f
        BY <1>3, <1>7, <3>2
      <3>. QED
        BY <3>1, <3>2
    <2>. QED
      BY <1>3, <2>1 DEF Tries
  <1>9. \A y \in DOMAIN H2 : y \in DOMAIN H \/ y = Len(H) + 1
    <2>1. H2 \in Seq(Node) /\ Len(H2) = Len(H) + 1
      BY <1>3 DEF Sown, IsHeap, H
    <2>. QED
      BY <1>2, <2>1
  <1>10. Ids(H2, Vs, D, 2)
    <2>1. ASSUME NEW y \in DOMAIN H2
          PROVE  H2[y].id < 2
      <3>1. CASE y \in DOMAIN H
        <4>1. H2[y].id = id
          BY <1>1, <1>3, <3>1 DEF H
        <4>. QED
          BY <4>1
      <3>2. CASE y = Len(H) + 1
        BY <1>3, <3>2
      <3>. QED
        BY <1>9, <3>1, <3>2
    <2>2. ASSUME NEW k \in Handle
          PROVE  IF Vs[k].kind = "tr" THEN Vs[k].id \in 1 .. 2 - 1 ELSE Vs[k].id = 0
      <3>1. CASE k = f
        <4>1. Vs[k].kind = kind /\ Vs[k].id = id
          BY <1>1, <1>7, <3>1 DEF v
        <4>. QED
          BY <4>1
      <3>2. CASE k # f
        <4>1. Vs[k].kind = "ps" /\ Vs[k].id = 0
          BY <1>3, <1>7, <3>2
        <4>. QED
          BY <4>1
      <3>. QED
        BY <3>1, <3>2
    <2>3. \A h, k \in Handle : h # k => D[h] = "shared" \/ D[k] = "shared"
      BY <1>7
    <2>. QED
      BY <2>1, <2>2, <2>3 DEF Ids
  <1>11. Plain(H2, Vs, D)
    <2>1. ASSUME NEW h \in Handle, Vs[h].kind = "bp", NEW y \in Nodes(H2, Vs[h])
          PROVE  H2[y].id <= 0
      <3>1. h = f
        BY <1>3, <1>7, <2>1
      <3>2. kind = "bp" /\ y \in DOMAIN H
        BY <1>1, <1>5, <1>6, <1>7, <2>1, <3>1 DEF v
      <3>3. H2[y].id = id /\ id = 0
        BY <1>1, <1>3, <3>2 DEF H
      <3>. QED
        BY <3>3
    <2>2. \A h, k \in Handle : h # k => D[h] = "shared" \/ D[k] = "shared"
      BY <1>7
    <2>. QED
      BY <2>1, <2>2 DEF Plain
  <1>12. Soles(H2, Vs, D)
    <2>1. ASSUME NEW s \in Handle, NEW k \in Handle, s # k, D[s] = "sole", NEW y \in Nodes(H2, Vs[k])
          PROVE  ~Owns(H2, Vs[s], y)
      <3>1. s = f /\ k # f
        BY <1>7, <2>1
      <3>2. y = Len(H) + 1 /\ Vs[s] = v
        BY <1>3, <1>7, <2>1, <3>1
      <3>3. CASE kind = "tr"
        <4>1. v.kind = "tr" /\ v.id = 1 /\ H2[y].id = 0
          BY <1>1, <1>3, <3>2, <3>3 DEF v
        <4>. QED
          BY <3>2, <4>1 DEF Owns
      <3>4. CASE kind # "tr"
        <4>1. v.kind # "tr" /\ y \notin Nodes(H2, v)
          BY <1>1, <1>5, <1>6, <3>2, <3>4 DEF v
        <4>. QED
          BY <3>2, <4>1 DEF Owns
      <3>. QED
        BY <3>3, <3>4
    <2>. QED
      BY <2>1 DEF Soles
  <1>13. Tips(H2, Vs, D)
    <2>1. ASSUME NEW t \in Handle, NEW k \in Handle, t # k, D[t] # "shared"
          PROVE  Vs[k].sz = 0
      BY <1>3, <1>7, <2>1
    <2>2. \A t, k \in Handle : t # k /\ D[t] # "shared" => 0 .. Vs[k].sz - 1 = {}
      BY <2>1
    <2>. QED
      BY <2>2 DEF Tips
  <1>. QED
    BY <1>7, <1>8, <1>10, <1>11, <1>12, <1>13 DEF World

(* The program starts in the invariant. *)
LEMMA InitValid ==
  ASSUME Init
  PROVE  Valid
  <1>1. PICK kind \in Kind, n \in InitSizes, f \in Handle :
          LET b == Built(kind, n)
              e == Empty(b.h, "ps", 0)
          IN  /\ heap = e.h
              /\ vec = [h \in Handle |-> IF h = f THEN b.v ELSE e.v]
              /\ unique_id = 2
              /\ hold = [h \in Handle |-> IF h = f THEN "sole" ELSE "shared"]
              /\ ops = 0
    BY DEF Init
  <1>. DEFINE id == IF kind = "tr" THEN 1 ELSE 0
              b == Built(kind, n)
  <1>2. n \in Nat
    BY BpVectorAssumption
  <1>3. PICK P : Grew(b, P, kind, id, n)
    <2>1. id = (IF kind = "tr" THEN 1 ELSE 0)
      OBVIOUS
    <2>. HIDE DEF id
    <2>. QED
      BY <1>2, <2>1, BuiltIs
  <1>. DEFINE H2 == Empty(b.h, "ps", 0).h
              P2 == Grafted(P, Len(b.h) + 1, 0, 0)
              e == Empty(b.h, "ps", 0).v
  <1>4. Sown(b.h, P, H2, P2, e, "ps", 0)
    <2>1. IsHeap(b.h, P)
      BY <1>3 DEF Grew, Fits
    <2>2. "ps" \in Kind /\ 0 \in Nat
      BY DEF Kind
    <2>. HIDE DEF b
    <2>. QED
      BY <2>1, <2>2, EmptyIs
  <1>5. /\ heap = H2 /\ vec = [h \in Handle |-> IF h = f THEN b.v ELSE e]
        /\ hold = [h \in Handle |-> IF h = f THEN "sole" ELSE "shared"]
        /\ unique_id = 2 /\ ops = 0
    BY <1>1
  <1>6. id = (IF kind = "tr" THEN 1 ELSE 0)
    OBVIOUS
  <1>. HIDE DEF H2, P2, e, b, id
  <1>7. FirstHeld(vec, hold, f, b.v, e)
    BY <1>5 DEF FirstHeld
  <1>8. World(H2, P2, vec, hold, 2)
    BY <1>3, <1>4, <1>6, <1>7, FirstWorld
  <1>9. Placed(P2)
    BY <1>5, <1>8 DEF Placed
  <1>. QED
    BY <1>9 DEF Valid

-----------------------------------------------------------------------------
(* assign: g takes over nodes of h. *)

\* g, the only owner of its nodes, was edited and may now share nodes with h
Traded(H, P, Vs, D, U, m, r, P2, g, h) ==
  /\ World(H, P, Vs, D, U) /\ g \in Handle /\ h \in Handle /\ g # h
  /\ D[g] = "sole" /\ Vs[g].kind = "tr"
  /\ Vs[h].sz = Vs[g].sz /\ Vs[h].shift = Vs[g].shift
  /\ Taking(m, H, Vs[g])
  /\ Edits(m, P, r, P2, Len(H), {Vs[g].id}, {Vs[h]})

(* The types after a trade.                                                *)
LEMMA TradedFacts ==
  ASSUME NEW H, NEW P, NEW Vs, NEW D, NEW U, NEW m, NEW r, NEW P2, NEW g, NEW h,
         Traded(H, P, Vs, D, U, m, r, P2, g, h)
  PROVE  /\ World(H, P, Vs, D, U) /\ g \in Handle /\ h \in Handle /\ g # h
         /\ D[g] = "sole" /\ Vs[g].kind = "tr"
         /\ Vs[h].sz = Vs[g].sz /\ Lv(Vs[h]) = Lv(Vs[g]) /\ Room(Vs[h]) = Room(Vs[g])
         /\ IsHeap(r.h, P2) /\ IsVec(r.h, P2, r.v) /\ r.v \in Vector
         /\ r.v.sz = Vs[g].sz /\ r.v.id = Vs[g].id /\ r.v.kind = "tr" /\ Lv(r.v) = Lv(Vs[g])
         /\ Room(r.v) = Room(Vs[g])
         /\ Len(H) \in Nat /\ Len(r.h) \in Nat /\ Len(H) <= Len(r.h)
         /\ DOMAIN H = 1 .. Len(H) /\ DOMAIN r.h = 1 .. Len(r.h)
         /\ \A n \in DOMAIN H : P2[n] = P[n] /\ r.h[n].id = H[n].id /\ n \in DOMAIN r.h
         /\ \A n \in DOMAIN r.h : n \notin DOMAIN H => n > Len(H) /\ r.h[n].id = Vs[g].id
  <1>1. /\ World(H, P, Vs, D, U) /\ g \in Handle /\ h \in Handle /\ g # h
        /\ D[g] = "sole" /\ Vs[g].kind = "tr"
        /\ Vs[h].sz = Vs[g].sz /\ Vs[h].shift = Vs[g].shift /\ Taking(m, H, Vs[g])
        /\ Edits(m, P, r, P2, Len(H), {Vs[g].id}, {Vs[h]})
    BY DEF Traded
  <1>2. Fits(m, P) /\ m.h = H /\ m.v = Vs[g]
    BY <1>1, TakingFits
  <1>3. /\ Fits(r, P2) /\ r.h \in Seq(Node) /\ r.v \in Vector
        /\ Lv(r.v) = Lv(m.v) /\ Room(r.v) = Room(m.v)
        /\ r.v.sz = m.v.sz /\ r.v.id = m.v.id /\ r.v.kind = m.v.kind
        /\ Len(m.h) \in Nat /\ Len(r.h) \in Nat /\ Len(m.h) <= Len(r.h)
        /\ DOMAIN m.h = 1 .. Len(m.h) /\ DOMAIN r.h = 1 .. Len(r.h)
    BY <1>1, <1>2, EditsFacts
  <1>4. IsHeap(r.h, P2) /\ IsVec(r.h, P2, r.v)
    BY <1>3 DEF Fits
  <1>5. /\ \A n \in DOMAIN H : P2[n] = P[n] /\ r.h[n].id = H[n].id
        /\ \A n \in Len(H) + 1 .. Len(r.h) : r.h[n].id = Vs[g].id
    BY <1>1, <1>2 DEF Edits
  <1>6. ASSUME NEW n \in DOMAIN r.h, n \notin DOMAIN H
        PROVE  n > Len(H) /\ n \in Len(H) + 1 .. Len(r.h)
    <2>1. /\ DOMAIN H = 1 .. Len(H) /\ DOMAIN r.h = 1 .. Len(r.h) /\ Len(H) \in Nat
      BY <1>2, <1>3
    <2>. QED
      BY <1>6, <2>1
  <1>7. \A n \in DOMAIN H : n \in DOMAIN r.h
    <2>1. DOMAIN H = 1 .. Len(H) /\ DOMAIN r.h = 1 .. Len(r.h) /\ Len(H) <= Len(r.h)
          /\ Len(H) \in Nat /\ Len(r.h) \in Nat
      BY <1>2, <1>3
    <2>. QED
      BY <2>1
  <1>8. Lv(Vs[h]) = Lv(Vs[g]) /\ Room(Vs[h]) = Room(Vs[g])
    BY <1>1 DEF Lv, Room
  <1>. QED
    BY <1>1, <1>2, <1>3, <1>4, <1>5, <1>6, <1>7, <1>8

(* No other variable's nodes are written. *)
LEMMA TradedOther ==
  ASSUME NEW H, NEW P, NEW Vs, NEW D, NEW U, NEW m, NEW r, NEW P2, NEW g, NEW h,
         Traded(H, P, Vs, D, U, m, r, P2, g, h), NEW k \in Handle, k # g
  PROVE  /\ Alive(H, r.h, P2, Vs[k])
         /\ \A n \in Nodes(H, Vs[k]) : n \in DOMAIN H /\ r.h[n] = H[n] /\ H[n].id # Vs[g].id
  <1>1. /\ World(H, P, Vs, D, U) /\ g \in Handle /\ D[g] = "sole" /\ Vs[g].kind = "tr"
        /\ IsHeap(r.h, P2) /\ Len(H) \in Nat /\ Len(H) <= Len(r.h) /\ DOMAIN H = 1 .. Len(H)
        /\ \A n \in DOMAIN H : P2[n] = P[n] /\ n \in DOMAIN r.h
    BY TradedFacts
  <1>2. IsHeap(H, P) /\ IsVec(H, P, Vs[k]) /\ Vs[k] \in Vector /\ Full(H, Vs[k])
    BY <1>1, WorldFacts
  <1>3. Nodes(H, Vs[k]) \subseteq DOMAIN H
    BY <1>2, NodesIn
  <1>4. ASSUME NEW n \in Nodes(H, Vs[k])
        PROVE  H[n].id # Vs[g].id
    <2>1. ~Owns(H, Vs[g], n)
      BY <1>1 DEF World, Soles
    <2>. QED
      BY <1>1, <2>1 DEF Owns
  <1>5. ASSUME NEW n \in Nodes(H, Vs[k])
        PROVE  r.h[n] = H[n]
    <2>1. Edits(m, P, r, P2, Len(H), {Vs[g].id}, {Vs[h]}) /\ Taking(m, H, Vs[g])
      BY DEF Traded
    <2>2. m.h = H
      BY <1>1, <2>1, TakingFits
    <2>3. n \in DOMAIN m.h /\ ~Mine(m.h, n, Len(H), {Vs[g].id})
      <3>1. n \in DOMAIN H /\ H[n].id \notin {Vs[g].id}
        BY <1>3, <1>4
      <3>2. ~(n > Len(H))
        BY <1>1, <3>1
      <3>. QED
        BY <2>2, <3>1, <3>2 DEF Mine
    <2>4. r.h[n] = m.h[n]
      BY <2>1, <2>3 DEF Edits
    <2>. QED
      BY <2>2, <2>4
  <1>6. SamePaths(H, Vs[k], r.h, Vs[k])
    <2>1. r.h \in Seq(Node)
      BY <1>1 DEF IsHeap
    <2>. QED
      BY <1>1, <1>2, <1>5, <2>1, Untouched
  <1>7. Nodes(r.h, Vs[k]) = Nodes(H, Vs[k])
    BY <1>6 DEF Nodes, SamePaths
  <1>8. IsVec(r.h, P2, Vs[k])
    <2>1. Vs[k].root \in DOMAIN H /\ P[Vs[k].root] = <<Lv(Vs[k]), 0>>
      BY <1>2 DEF IsVec
    <2>2. Vs[k].root \in DOMAIN r.h /\ P2[Vs[k].root] = <<Lv(Vs[k]), 0>>
      BY <1>1, <2>1
    <2>. QED
      BY <1>2, <2>2 DEF IsVec
  <1>9. Full(r.h, Vs[k])
    <2>. DEFINE u == Vs[k]
    <2>1. u \in Vector /\ 0 \in 0 .. Lv(u)
      BY <1>2, Levels
    <2>2. \A j \in 0 .. u.sz - 1 : j \in Room(u) /\ On(H, u, j, 0) # Null
      <3>. HIDE DEF u
      <3>1. IsHeap(H, P) /\ IsVec(H, P, u) /\ Full(H, u)
        BY <1>2 DEF u
      <3>. QED
        BY <2>1, <3>1, FullPath
    <2>3. \A j \in 0 .. u.sz - 1 : On(r.h, u, j, 0) # Null
      BY <1>6, <2>1, <2>2 DEF SamePaths
    <2>. QED
      BY <1>2, <2>3 DEF Full
  <1>10. Alive(H, r.h, P2, Vs[k])
    BY <1>6, <1>7, <1>8, <1>9 DEF Alive, SamePaths
  <1>. QED
    BY <1>3, <1>4, <1>5, <1>10

\* node e on the path to j is v's old one, a new one, or w's
Hails(H, v, w, h2, v2, j, e) ==
  \/ On(h2, v2, j, e) = On(H, v, j, e)
  \/ On(h2, v2, j, e) > Len(H)
  \/ On(h2, v2, j, e) = On(H, w, j, e)

(* Where the nodes of g are from. *)
LEMMA TradedPath ==
  ASSUME NEW H, NEW P, NEW Vs, NEW D, NEW U, NEW m, NEW r, NEW P2, NEW g, NEW h,
         Traded(H, P, Vs, D, U, m, r, P2, g, h), NEW v, v = Vs[g], NEW w, w = Vs[h],
         NEW j \in Room(v), NEW e \in 0 .. Lv(v)
  PROVE  Hails(H, v, w, r.h, r.v, j, e)
  <1>1. Edits(m, P, r, P2, Len(H), {v.id}, {w}) /\ Taking(m, H, v)
        /\ World(H, P, Vs, D, U) /\ g \in Handle
    BY DEF Traded
  <1>2. m.h = H /\ m.v = v
    BY <1>1, TakingFits
  <1>3. \A i \in Room(m.v), f \in 0 .. Lv(m.v) :
          \/ On(r.h, r.v, i, f) = On(m.h, m.v, i, f)
          \/ On(r.h, r.v, i, f) > Len(m.h)
          \/ \E u \in {w} : On(r.h, r.v, i, f) = On(m.h, u, i, f)
    BY <1>1 DEF Edits
  <1>. QED
    BY <1>2, <1>3 DEF Hails

(* Every element of g has a path.                                          *)
LEMMA TradedFull ==
  ASSUME NEW H, NEW P, NEW Vs, NEW D, NEW U, NEW m, NEW r, NEW P2, NEW g, NEW h,
         Traded(H, P, Vs, D, U, m, r, P2, g, h)
  PROVE  Full(r.h, r.v)
  <1>1. /\ World(H, P, Vs, D, U) /\ g \in Handle /\ h \in Handle
        /\ r.v.sz = Vs[g].sz /\ Vs[h].sz = Vs[g].sz /\ Lv(r.v) = Lv(Vs[g]) /\ Lv(Vs[h]) = Lv(Vs[g])
        /\ Len(H) \in Nat
    BY TradedFacts
  <1>2. /\ IsHeap(H, P) /\ IsVec(H, P, Vs[g]) /\ Full(H, Vs[g]) /\ Vs[g] \in Vector
        /\ IsVec(H, P, Vs[h]) /\ Full(H, Vs[h])
    BY <1>1, WorldFacts
  <1>3. 0 \in 0 .. Lv(Vs[g]) /\ 0 \in 0 .. Lv(Vs[h])
    BY <1>1, <1>2, Levels
  <1>4. ASSUME NEW j \in 0 .. Vs[g].sz - 1
        PROVE  On(r.h, r.v, j, 0) # Null
    <2>1. j \in Room(Vs[g]) /\ On(H, Vs[g], j, 0) # Null
      BY <1>2, <1>3, FullPath
    <2>2. On(H, Vs[h], j, 0) # Null
      BY <1>1, <1>2, <1>3, FullPath
    <2>3. Hails(H, Vs[g], Vs[h], r.h, r.v, j, 0)
      BY <1>3, <2>1, TradedPath
    <2>5. \/ On(r.h, r.v, j, 0) = On(H, Vs[g], j, 0)
          \/ On(r.h, r.v, j, 0) > Len(H)
          \/ On(r.h, r.v, j, 0) = On(H, Vs[h], j, 0)
      BY <2>3 DEF Hails
    <2>4. CASE On(r.h, r.v, j, 0) > Len(H)
      BY <1>1, <2>4 DEF Null
    <2>. QED
      BY <2>1, <2>2, <2>5, <2>4
  <1>. QED
    BY <1>1, <1>2, <1>4 DEF Full

\* the variable h may only be read from now on, and g became r.v
Trading(H, P, Vs, D, U, m, r, P2, Vs2, D2, g, h) ==
  /\ Traded(H, P, Vs, D, U, m, r, P2, g, h)
  /\ Became(Vs, Vs2, g, r.v)
  /\ D2 = [D EXCEPT ![h] = "shared"]

(* Kinds and owners after a trade.                                         *)
LEMMA TradingKinds ==
  ASSUME NEW H, NEW P, NEW Vs, NEW D, NEW U, NEW m, NEW r, NEW P2, NEW Vs2, NEW D2, NEW g, NEW h,
         Trading(H, P, Vs, D, U, m, r, P2, Vs2, D2, g, h)
  PROVE  /\ Traded(H, P, Vs, D, U, m, r, P2, g, h)
         /\ Vs2 \in [Handle -> Vector] /\ Vs2[g] = r.v
         /\ \A k \in Handle : k # g => Vs2[k] = Vs[k]
         /\ D2 \in [Handle -> {"sole", "tip", "shared"}]
         /\ \A k \in Handle : D2[k] # "shared" => k # h /\ D2[k] = D[k]
  <1>1. /\ Traded(H, P, Vs, D, U, m, r, P2, g, h) /\ Became(Vs, Vs2, g, r.v)
        /\ D2 = [D EXCEPT ![h] = "shared"]
    BY DEF Trading
  <1>2. World(H, P, Vs, D, U) /\ g \in Handle /\ h \in Handle /\ r.v \in Vector
    BY <1>1, TradedFacts
  <1>3. Vs \in [Handle -> Vector] /\ D \in [Handle -> {"sole", "tip", "shared"}]
    BY <1>2 DEF World
  <1>. DEFINE w == r.v
  <1>. HIDE DEF w
  <1>4. Vs2 = [Vs EXCEPT ![g] = w] /\ w \in Vector
    BY <1>1, <1>2 DEF Became, w
  <1>5. Vs2 \in [Handle -> Vector] /\ Vs2[g] = w /\ \A k \in Handle : k # g => Vs2[k] = Vs[k]
    BY <1>2, <1>3, <1>4
  <1>6. /\ D2 \in [Handle -> {"sole", "tip", "shared"}]
        /\ \A k \in Handle : D2[k] # "shared" => k # h /\ D2[k] = D[k]
    BY <1>1, <1>2, <1>3
  <1>. QED
    BY <1>1, <1>5, <1>6 DEF w

(* The vectors are tries after a trade.                                    *)
LEMMA TradingTries ==
  ASSUME NEW H, NEW P, NEW Vs, NEW D, NEW U, NEW m, NEW r, NEW P2, NEW Vs2, NEW D2, NEW g, NEW h,
         Trading(H, P, Vs, D, U, m, r, P2, Vs2, D2, g, h)
  PROVE  Tries(r.h, P2, Vs2)
  <1>1. /\ Traded(H, P, Vs, D, U, m, r, P2, g, h) /\ Vs2[g] = r.v
        /\ \A k \in Handle : k # g => Vs2[k] = Vs[k]
    BY TradingKinds
  <1>2. IsHeap(r.h, P2) /\ IsVec(r.h, P2, r.v) /\ World(H, P, Vs, D, U)
    BY <1>1, TradedFacts
  <1>3. Full(r.h, r.v)
    BY <1>1, TradedFull
  <1>4. ASSUME NEW k \in Handle, k # g
        PROVE  IsVec(r.h, P2, Vs2[k]) /\ Full(r.h, Vs2[k])
    <2>1. Alive(H, r.h, P2, Vs[k])
      BY <1>1, <1>4, TradedOther
    <2>2. Full(H, Vs[k])
      BY <1>2, WorldFacts
    <2>3. Vs2[k] = Vs[k]
      BY <1>1, <1>4
    <2>. QED
      BY <2>1, <2>2, <2>3 DEF Alive
  <1>. QED
    BY <1>1, <1>2, <1>3, <1>4 DEF Tries

(* The ids after a trade.                                                  *)
LEMMA TradingIds ==
  ASSUME NEW H, NEW P, NEW Vs, NEW D, NEW U, NEW m, NEW r, NEW P2, NEW Vs2, NEW D2, NEW g, NEW h,
         Trading(H, P, Vs, D, U, m, r, P2, Vs2, D2, g, h)
  PROVE  Ids(r.h, Vs2, D2, U)
  <1>1. /\ Traded(H, P, Vs, D, U, m, r, P2, g, h) /\ Vs2[g] = r.v
        /\ \A k \in Handle : k # g => Vs2[k] = Vs[k]
        /\ \A k \in Handle : D2[k] # "shared" => k # h /\ D2[k] = D[k]
    BY TradingKinds
  <1>2. /\ World(H, P, Vs, D, U) /\ g \in Handle /\ Vs[g].kind = "tr"
        /\ r.v.id = Vs[g].id /\ r.v.kind = "tr"
        /\ \A n \in DOMAIN H : r.h[n].id = H[n].id
        /\ \A n \in DOMAIN r.h : n \notin DOMAIN H => r.h[n].id = Vs[g].id
    BY <1>1, TradedFacts
  <1>3. /\ U \in Nat \ {0}
        /\ \A n \in DOMAIN H : H[n].id < U
        /\ \A k \in Handle : IF Vs[k].kind = "tr" THEN Vs[k].id \in 1 .. U - 1 ELSE Vs[k].id = 0
        /\ \A s, k \in Handle :
             s # k /\ D[s] # "shared" /\ D[k] # "shared" /\ Vs[s].kind = "tr" /\ Vs[k].kind = "tr"
               => Vs[s].id # Vs[k].id
    BY <1>2 DEF World, Ids
  <1>4. \A k \in Handle : Vs2[k].kind = Vs[k].kind /\ Vs2[k].id = Vs[k].id
    BY <1>1, <1>2
  <1>5. ASSUME NEW n \in DOMAIN r.h
        PROVE  r.h[n].id < U
    <2>1. CASE n \in DOMAIN H
      BY <1>2, <1>3, <2>1
    <2>2. CASE n \notin DOMAIN H
      <3>1. Vs[g].id \in 1 .. U - 1
        BY <1>2, <1>3
      <3>. QED
        BY <1>2, <1>3, <2>2, <3>1
    <2>. QED
      BY <2>1, <2>2
  <1>6. \A k \in Handle : IF Vs2[k].kind = "tr" THEN Vs2[k].id \in 1 .. U - 1 ELSE Vs2[k].id = 0
    BY <1>3, <1>4
  <1>7. \A s, k \in Handle :
          s # k /\ D2[s] # "shared" /\ D2[k] # "shared" /\ Vs2[s].kind = "tr" /\ Vs2[k].kind = "tr"
            => Vs2[s].id # Vs2[k].id
    BY <1>1, <1>3, <1>4
  <1>. QED
    BY <1>3, <1>5, <1>6, <1>7 DEF Ids

(* The nodes of bp_vectors after a trade.                                  *)
LEMMA TradingPlain ==
  ASSUME NEW H, NEW P, NEW Vs, NEW D, NEW U, NEW m, NEW r, NEW P2, NEW Vs2, NEW D2, NEW g, NEW h,
         Trading(H, P, Vs, D, U, m, r, P2, Vs2, D2, g, h)
  PROVE  Plain(r.h, Vs2, D2)
  <1>1. /\ Traded(H, P, Vs, D, U, m, r, P2, g, h) /\ Vs2[g] = r.v
        /\ \A k \in Handle : k # g => Vs2[k] = Vs[k]
        /\ \A k \in Handle : D2[k] # "shared" => k # h /\ D2[k] = D[k]
    BY TradingKinds
  <1>2. World(H, P, Vs, D, U) /\ g \in Handle /\ r.v.kind = "tr"
    BY <1>1, TradedFacts
  <1>3. Plain(H, Vs, D)
    BY <1>2 DEF World
  <1>4. ASSUME NEW k \in Handle, Vs2[k].kind = "bp"
        PROVE  /\ k # g /\ Vs2[k] = Vs[k] /\ Vs[k].kind = "bp" /\ Nodes(r.h, Vs2[k]) = Nodes(H, Vs[k])
               /\ \A n \in Nodes(H, Vs[k]) : r.h[n].id <= 0
    <2>1. k # g
      BY <1>1, <1>2, <1>4
    <2>2. Vs2[k] = Vs[k] /\ Vs[k].kind = "bp"
      BY <1>1, <1>4, <2>1
    <2>3. /\ Alive(H, r.h, P2, Vs[k])
          /\ \A n \in Nodes(H, Vs[k]) : r.h[n] = H[n]
      BY <1>1, <2>1, TradedOther
    <2>4. Nodes(r.h, Vs[k]) = Nodes(H, Vs[k])
      BY <2>3 DEF Alive
    <2>5. \A n \in Nodes(H, Vs[k]) : H[n].id <= 0
      BY <1>3, <2>2 DEF Plain
    <2>. QED
      BY <2>1, <2>2, <2>3, <2>4, <2>5
  <1>5. \A k \in Handle : Vs2[k].kind = "bp" => \A n \in Nodes(r.h, Vs2[k]) : r.h[n].id <= 0
    BY <1>4
  <1>6. ASSUME NEW s \in Handle, NEW k \in Handle, s # k, D2[s] # "shared", D2[k] # "shared",
               Vs2[s].kind = "bp", Vs2[k].kind = "bp"
        PROVE  \A n \in Nodes(r.h, Vs2[s]) : n \notin Nodes(r.h, Vs2[k])
    <2>1. D[s] # "shared" /\ D[k] # "shared"
      BY <1>1, <1>6
    <2>2. /\ Vs[s].kind = "bp" /\ Nodes(r.h, Vs2[s]) = Nodes(H, Vs[s])
          /\ Vs[k].kind = "bp" /\ Nodes(r.h, Vs2[k]) = Nodes(H, Vs[k])
      BY <1>4, <1>6
    <2>3. \A n \in Nodes(H, Vs[s]) : n \notin Nodes(H, Vs[k])
      BY <1>3, <1>6, <2>1, <2>2 DEF Plain
    <2>. QED
      BY <2>2, <2>3
  <1>. QED
    BY <1>5, <1>6 DEF Plain

(* What another variable owns it owned before. *)
LEMMA TradingOwns ==
  ASSUME NEW H, NEW P, NEW Vs, NEW D, NEW U, NEW m, NEW r, NEW P2, NEW Vs2, NEW D2, NEW g, NEW h,
         Trading(H, P, Vs, D, U, m, r, P2, Vs2, D2, g, h),
         NEW t \in Handle, t # g, D2[t] # "shared", NEW n \in DOMAIN r.h, Owns(r.h, Vs2[t], n)
  PROVE  /\ t # h /\ D2[t] = D[t] /\ Vs2[t] = Vs[t]
         /\ n \in DOMAIN H /\ ~(n > Len(H)) /\ Owns(H, Vs[t], n)
  <1>1. /\ Traded(H, P, Vs, D, U, m, r, P2, g, h) /\ Vs2[t] = Vs[t]
        /\ t # h /\ D2[t] = D[t] /\ D[t] # "shared"
    BY TradingKinds
  <1>2. /\ World(H, P, Vs, D, U) /\ g \in Handle /\ Vs[g].kind = "tr" /\ D[g] = "sole"
        /\ \A y \in DOMAIN H : r.h[y].id = H[y].id
        /\ \A y \in DOMAIN r.h : y \notin DOMAIN H => r.h[y].id = Vs[g].id
        /\ DOMAIN H = 1 .. Len(H) /\ Len(H) \in Nat
    BY <1>1, TradedFacts
  <1>3. CASE Vs[t].kind = "tr"
    <2>1. r.h[n].id = Vs[t].id
      BY <1>1, <1>3 DEF Owns
    <2>2. Vs[t].id # Vs[g].id
      BY <1>1, <1>2, <1>3 DEF World, Ids
    <2>3. n \in DOMAIN H
      BY <1>2, <2>1, <2>2
    <2>4. Owns(H, Vs[t], n)
      BY <1>2, <1>3, <2>1, <2>3 DEF Owns
    <2>5. ~(n > Len(H))
      BY <1>2, <2>3
    <2>. QED
      BY <1>1, <2>3, <2>4, <2>5
  <1>4. CASE Vs[t].kind # "tr"
    <2>1. n \in Nodes(r.h, Vs[t])
      BY <1>1, <1>4 DEF Owns
    <2>2. /\ Alive(H, r.h, P2, Vs[t])
          /\ \A y \in Nodes(H, Vs[t]) : y \in DOMAIN H
      BY <1>1, TradedOther
    <2>3. n \in Nodes(H, Vs[t]) /\ n \in DOMAIN H
      BY <2>1, <2>2 DEF Alive
    <2>4. Owns(H, Vs[t], n)
      BY <1>4, <2>3 DEF Owns
    <2>5. ~(n > Len(H))
      BY <1>2, <2>3
    <2>. QED
      BY <1>1, <2>3, <2>4, <2>5
  <1>. QED
    BY <1>3, <1>4

(* No other variable reaches a node that g owns. *)
LEMMA TradingLone ==
  ASSUME NEW H, NEW P, NEW Vs, NEW D, NEW U, NEW m, NEW r, NEW P2, NEW Vs2, NEW D2, NEW g, NEW h,
         Trading(H, P, Vs, D, U, m, r, P2, Vs2, D2, g, h),
         NEW k \in Handle, k # g, NEW n \in Nodes(r.h, Vs2[k])
  PROVE  ~Owns(r.h, Vs2[g], n)
  <1>1. /\ Traded(H, P, Vs, D, U, m, r, P2, g, h) /\ Vs2[k] = Vs[k] /\ Vs2[g] = r.v
    BY TradingKinds
  <1>2. r.v.id = Vs[g].id /\ r.v.kind = "tr"
    BY <1>1, TradedFacts
  <1>3. /\ Alive(H, r.h, P2, Vs[k])
        /\ \A y \in Nodes(H, Vs[k]) : r.h[y] = H[y] /\ H[y].id # Vs[g].id
    BY <1>1, TradedOther
  <1>4. n \in Nodes(H, Vs[k])
    BY <1>1, <1>3 DEF Alive
  <1>5. r.h[n].id # Vs2[g].id /\ Vs2[g].kind = "tr"
    BY <1>1, <1>2, <1>3, <1>4
  <1>. QED
    BY <1>5 DEF Owns

(* Sole owners after a trade.                                              *)
LEMMA TradingSoles ==
  ASSUME NEW H, NEW P, NEW Vs, NEW D, NEW U, NEW m, NEW r, NEW P2, NEW Vs2, NEW D2, NEW g, NEW h,
         Trading(H, P, Vs, D, U, m, r, P2, Vs2, D2, g, h)
  PROVE  Soles(r.h, Vs2, D2)
  <1>1. /\ Traded(H, P, Vs, D, U, m, r, P2, g, h) /\ Vs2[g] = r.v
        /\ \A k \in Handle : k # g => Vs2[k] = Vs[k]
    BY TradingKinds
  <1>2. /\ World(H, P, Vs, D, U) /\ g \in Handle /\ h \in Handle /\ g # h
        /\ IsHeap(r.h, P2) /\ IsVec(r.h, P2, r.v)
        /\ Lv(Vs[h]) = Lv(Vs[g]) /\ Room(Vs[h]) = Room(Vs[g])
        /\ Lv(r.v) = Lv(Vs[g]) /\ Room(r.v) = Room(Vs[g])
    BY <1>1, TradedFacts
  <1>3. Tries(r.h, P2, Vs2)
    BY TradingTries
  <1>4. SUFFICES ASSUME NEW s \in Handle, NEW k \in Handle, s # k, D2[s] = "sole",
                        NEW n \in Nodes(r.h, Vs2[k]), Owns(r.h, Vs2[s], n)
                 PROVE  FALSE
    BY DEF Soles
  <1>5. s # g
    BY <1>4, TradingLone
  <1>6. n \in DOMAIN r.h
    <2>1. IsVec(r.h, P2, Vs2[k])
      BY <1>3 DEF Tries
    <2>. QED
      BY <1>2, <2>1, NodesIn
  <1>7. /\ s # h /\ D[s] = "sole" /\ n \in DOMAIN H /\ ~(n > Len(H)) /\ Owns(H, Vs[s], n)
    BY <1>4, <1>5, <1>6, TradingOwns
  <1>8. \A y \in Handle \ {s} : n \notin Nodes(H, Vs[y])
    BY <1>2, <1>7 DEF World, Soles
  <1>9. CASE k # g
    <2>1. Alive(H, r.h, P2, Vs[k]) /\ Vs2[k] = Vs[k]
      BY <1>1, <1>9, TradedOther
    <2>2. n \in Nodes(H, Vs[k])
      BY <2>1 DEF Alive
    <2>. QED
      BY <1>4, <1>8, <2>2
  <1>10. CASE k = g
    <2>1. PICK j \in Room(r.v), e \in 0 .. Lv(r.v) : n = On(r.h, r.v, j, e) /\ n # Null
      BY <1>1, <1>10 DEF Nodes
    <2>2. j \in Room(Vs[g]) /\ e \in 0 .. Lv(Vs[g]) /\ j \in Room(Vs[h]) /\ e \in 0 .. Lv(Vs[h])
      BY <1>2
    <2>3. Hails(H, Vs[g], Vs[h], r.h, r.v, j, e)
      BY <1>1, <2>2, TradedPath
    <2>4. n = On(H, Vs[g], j, e) \/ n = On(H, Vs[h], j, e)
      BY <1>7, <2>1, <2>3 DEF Hails
    <2>5. n \in Nodes(H, Vs[g]) \/ n \in Nodes(H, Vs[h])
      BY <2>1, <2>2, <2>4 DEF Nodes
    <2>. QED
      BY <1>2, <1>5, <1>7, <1>8, <2>5
  <1>. QED
    BY <1>9, <1>10

(* Those that may grow after a trade.                                      *)
LEMMA TradingTips ==
  ASSUME NEW H, NEW P, NEW Vs, NEW D, NEW U, NEW m, NEW r, NEW P2, NEW Vs2, NEW D2, NEW g, NEW h,
         Trading(H, P, Vs, D, U, m, r, P2, Vs2, D2, g, h)
  PROVE  Tips(r.h, Vs2, D2)
  <1>1. /\ Traded(H, P, Vs, D, U, m, r, P2, g, h) /\ Vs2[g] = r.v
        /\ \A k \in Handle : k # g => Vs2[k] = Vs[k]
    BY TradingKinds
  <1>2. /\ World(H, P, Vs, D, U) /\ g \in Handle /\ h \in Handle /\ g # h
        /\ IsHeap(r.h, P2) /\ IsVec(r.h, P2, r.v) /\ r.v.sz = Vs[g].sz /\ Vs[h].sz = Vs[g].sz
        /\ Lv(Vs[h]) = Lv(Vs[g]) /\ Room(Vs[h]) = Room(Vs[g])
        /\ Lv(r.v) = Lv(Vs[g]) /\ Room(r.v) = Room(Vs[g])
    BY <1>1, TradedFacts
  <1>3. Tries(r.h, P2, Vs2)
    BY TradingTries
  <1>4. SUFFICES ASSUME NEW t \in Handle, NEW k \in Handle, t # k, D2[t] # "shared",
                        Vs2[t].kind # "ps", NEW j \in 0 .. Vs2[k].sz - 1, NEW e \in 0 .. Lv(Vs2[k]),
                        Owns(r.h, Vs2[t], On(r.h, Vs2[k], j, e))
                 PROVE  j < Vs2[t].sz
    BY DEF Tips
  <1>. DEFINE n == On(r.h, Vs2[k], j, e)
              u == Vs2[k]
  <1>5. u.sz = Vs2[k].sz /\ Lv(u) = Lv(Vs2[k]) /\ j \in 0 .. u.sz - 1 /\ e \in 0 .. Lv(u)
        /\ n = On(r.h, u, j, e)
    OBVIOUS
  <1>6. n \in Nodes(r.h, Vs2[k]) /\ n \in DOMAIN r.h /\ j \in Room(u)
    <2>1. IsVec(r.h, P2, u) /\ Full(r.h, u)
      BY <1>3 DEF Tries
    <2>. HIDE DEF n, u
    <2>2. On(r.h, u, j, e) \in Nodes(r.h, u) /\ On(r.h, u, j, e) \in DOMAIN r.h /\ j \in Room(u)
      BY <1>2, <1>5, <2>1, FullPath
    <2>. QED
      BY <1>5, <2>2 DEF u
  <1>7. t # g
    BY <1>4, <1>6, TradingLone
  <1>8. /\ t # h /\ D[t] # "shared" /\ Vs2[t] = Vs[t]
        /\ n \in DOMAIN H /\ ~(n > Len(H)) /\ Owns(H, Vs[t], n)
    <2>. HIDE DEF n
    <2>1. Owns(r.h, Vs2[t], n)
      BY <1>4 DEF n
    <2>2. D2[t] = D[t] /\ t # h /\ Vs2[t] = Vs[t]
          /\ n \in DOMAIN H /\ ~(n > Len(H)) /\ Owns(H, Vs[t], n)
      BY <1>4, <1>6, <1>7, <2>1, TradingOwns
    <2>. QED
      BY <1>4, <2>2
  <1>9. \A y \in Handle, x \in Nat, d \in Nat :
          y # t /\ x \in 0 .. Vs[y].sz - 1 /\ d \in 0 .. Lv(Vs[y]) /\ n = On(H, Vs[y], x, d)
            => x < Vs[t].sz
    <2>. HIDE DEF n
    <2>1. Vs[t].kind # "ps"
      BY <1>4, <1>8
    <2>. QED
      BY <1>2, <1>8, <2>1 DEF World, Tips
  <1>10. j \in Nat /\ e \in Nat
    OBVIOUS
  <1>11. CASE k # g
    <2>1. Alive(H, r.h, P2, Vs[k]) /\ u = Vs[k]
      BY <1>1, <1>11, TradedOther
    <2>. HIDE DEF n, u
    <2>2. n = On(H, Vs[k], j, e)
      BY <1>5, <1>6, <2>1 DEF Alive
    <2>3. j < Vs[t].sz
      BY <1>4, <1>5, <1>9, <1>10, <2>1, <2>2
    <2>. QED
      BY <1>8, <2>3
  <1>12. CASE k = g
    <2>1. u = r.v
      BY <1>1, <1>12
    <2>. HIDE DEF n, u
    <2>2. /\ j \in Room(Vs[g]) /\ e \in 0 .. Lv(Vs[g]) /\ e \in 0 .. Lv(Vs[h])
          /\ j \in 0 .. Vs[g].sz - 1 /\ j \in 0 .. Vs[h].sz - 1
      BY <1>2, <1>5, <1>6, <2>1
    <2>3. Hails(H, Vs[g], Vs[h], r.h, r.v, j, e)
      BY <1>1, <2>2, TradedPath
    <2>4. n = On(H, Vs[g], j, e) \/ n = On(H, Vs[h], j, e)
      BY <1>5, <1>8, <2>1, <2>3 DEF Hails
    <2>5. j < Vs[t].sz
      BY <1>2, <1>7, <1>8, <1>9, <1>10, <2>2, <2>4
    <2>. QED
      BY <1>8, <2>5
  <1>. QED
    BY <1>11, <1>12

(* The invariant survives an assign. *)
LEMMA TradingWorld ==
  ASSUME NEW H, NEW P, NEW Vs, NEW D, NEW U, NEW m, NEW r, NEW P2, NEW Vs2, NEW D2, NEW g, NEW h,
         Trading(H, P, Vs, D, U, m, r, P2, Vs2, D2, g, h)
  PROVE  World(r.h, P2, Vs2, D2, U)
  <1>1. Vs2 \in [Handle -> Vector] /\ D2 \in [Handle -> {"sole", "tip", "shared"}]
    BY TradingKinds
  <1>. QED
    BY <1>1, TradingTries, TradingIds, TradingPlain, TradingSoles, TradingTips DEF World

(* A sole owner may take over nodes of another transient. *)
LEMMA AssignLends ==
  ASSUME NEW P, Placed(P), NEW g \in Handle, NEW h \in Handle, g # h, hold[g] = "sole",
         vec[g].kind = "tr", vec[g].sz = vec[h].sz, vec[g].shift = vec[h].shift,
         NEW keep, keep = {vec[g].id}
  PROVE  Lends(At(g), P, vec[h], Len(heap), keep)
  <1>. DEFINE m == At(g)
              w == vec[h]
  <1>1. Starts(P, m, g)
    BY StartFacts
  <1>2. /\ Fits(m, P) /\ m.h = heap /\ m.v = vec[g] /\ Full(m.h, m.v)
        /\ World(heap, P, vec, hold, unique_id) /\ Len(heap) \in Nat
    BY <1>1 DEF Starts
  <1>3. IsHeap(heap, P) /\ IsVec(heap, P, w) /\ Full(heap, w) /\ DOMAIN heap = 1 .. Len(heap)
    BY <1>2, WorldFacts
  <1>4. Lv(w) = Lv(m.v)
    BY <1>2 DEF Lv
  <1>5. ASSUME NEW n \in Nodes(heap, w)
        PROVE  ~Mine(heap, n, Len(heap), keep)
    <2>1. n \in DOMAIN heap
      BY <1>3, NodesIn
    <2>2. n <= Len(heap) /\ ~(n > Len(heap))
      BY <1>2, <1>3, <2>1
    <2>3. Soles(heap, vec, hold)
      BY <1>2 DEF World
    <2>4. ~Owns(heap, vec[g], n)
      BY <2>3 DEF Soles
    <2>5. heap[n].id # vec[g].id
      BY <2>4 DEF Owns
    <2>. QED
      BY <2>2, <2>5 DEF Mine
  <1>. HIDE DEF m
  <1>6. Elsewhere(m.h, P, m.v, Len(heap), keep, {w})
    BY <1>2, <1>3, <1>4, <1>5 DEF Elsewhere
  <1>. QED
    BY <1>2, <1>3, <1>6 DEF Lends, m

(* A variable is given what assign makes. *)
LEMMA StoreTraded ==
  ASSUME NEW P, Placed(P), NEW g \in Handle, NEW h \in Handle, NEW m, NEW r, NEW P2, NEW E,
         Traded(heap, P, vec, hold, unique_id, m, r, P2, g, h),
         E = [hold EXCEPT ![h] = "shared"], Store(g, r, E), unique_id' = unique_id
  PROVE  Valid'
  <1>1. /\ heap' = r.h /\ hold' = E /\ ops' \in Nat /\ Became(vec, vec', g, r.v)
    BY DEF Store, Became, Placed
  <1>. DEFINE Vs2 == vec'
  <1>2. Became(vec, Vs2, g, r.v)
    BY <1>1
  <1>. HIDE DEF Vs2
  <1>3. Trading(heap, P, vec, hold, unique_id, m, r, P2, Vs2, E, g, h)
    BY <1>2 DEF Trading
  <1>4. World(r.h, P2, Vs2, E, unique_id)
    BY <1>3, TradingWorld
  <1>5. Placed(P2)'
    BY <1>1, <1>4 DEF Placed, Vs2
  <1>. QED
    BY <1>5 DEF Valid

(* A range that is not astray is copied.                                   *)
LEMMA AstrayNot ==
  ASSUME NEW v \in Vector, v.shift = Lv(v) * BP_BITS, v.sz <= Width(Lv(v) + 1),
         NEW b \in 1 .. v.sz, NEW a \in 0 .. b - 1, ~Astray(v, a, b)
  PROVE  b - a < BP_WIDTH \/ Clear(v, a, b)
  <1>. DEFINE L == Lv(v)
              w == Width(L + 1)
  <1>1. L \in Nat /\ capacity(v) = w /\ w \in Nat /\ v.sz \in Nat /\ BP_WIDTH \in Nat
        /\ BP_BITS \in Nat \ {0} /\ v.shift = L * BP_BITS
    BY Levels, WidthFacts, BPBitsAssumption DEF Vector
  <1>. HIDE DEF L, w
  <1>2. CASE b - a < BP_WIDTH
    BY <1>2
  <1>3. CASE b # w
    <2>1. b \in Nat /\ b < w
      BY <1>1, <1>3 DEF w, L
    <2>2. b \in Room(v)
      BY <1>1, <2>1 DEF Room, w, L
    <2>. QED
      BY <2>2 DEF Clear
  <1>4. CASE b = w /\ ~(b - a < BP_WIDTH)
    <2>1. v.shift # 0 /\ (v.shift <= BP_BITS \/ Digit(a, v.shift) # 0)
      <3>1. b = capacity(v) /\ b - a >= BP_WIDTH /\ v.shift \in Int
        BY <1>1, <1>4
      <3>. QED
        BY <1>1, <3>1 DEF Astray
    <2>2. L >= 1
      BY <1>1, <2>1
    <2>3. CASE v.shift <= BP_BITS
      <3>1. L = 1
        <4>1. CASE L >= 2
          <5>1. L * BP_BITS >= 2 * BP_BITS /\ 2 * BP_BITS > BP_BITS
            BY <1>1, <4>1
          <5>. QED
            BY <1>1, <2>3, <5>1
        <4>. QED
          BY <1>1, <2>2, <4>1
      <3>. QED
        BY <1>4, <2>2, <3>1 DEF Clear, L, w
    <2>4. CASE Digit(a, v.shift) # 0
      <3>1. a \in Nat /\ Digit(a, L * BP_BITS) = Blk(a, L) % BP_WIDTH
        BY <1>1, Blocks
      <3>2. Blk(a, L) # 0
        <4>1. 0 % BP_WIDTH = 0
          BY WidthFacts
        <4>. QED
          BY <1>1, <2>4, <3>1, <4>1
      <3>. QED
        BY <1>4, <2>2, <3>2 DEF Clear, L, w
    <2>. QED
      BY <2>1, <2>3, <2>4
  <1>. QED
    BY <1>2, <1>3, <1>4

\* g took over the elements a..b-1 of h, if the range is not astray
AssignMove(P, m, r, P2, E, g, h, a, b, sure) ==
  /\ m = At(g) /\ sure = ~Astray(m.v, a, b) /\ E = [hold EXCEPT ![h] = "shared"]
  /\ Traded(heap, P, vec, hold, unique_id, m, r, P2, g, h)
  /\ Spliced(m, P, r, P2, vec[h], Len(heap), {vec[g].id}, a .. b - 1, sure)
  /\ Store(g, r, E) /\ unique_id' = unique_id /\ ub' = (ub \/ r.ub)

(* assign is such a move.                                                  *)
LEMMA AssignTurn ==
  ASSUME NEW P, Placed(P), NEW g \in Handle, NEW h \in Handle, NEW b \in 1 .. vec[h].sz,
         NEW a \in 0 .. b - 1, Assign(g, h, a, b)
  PROVE  \E m, r, P2, E, sure : AssignMove(P, m, r, P2, E, g, h, a, b, sure)
  <1>. DEFINE m == At(g)
              w == vec[h]
              r == assign(m, w, a, b)
              keep == {vec[g].id}
              E == [hold EXCEPT ![h] = "shared"]
              sure == ~Astray(m.v, a, b)
              S == a .. b - 1
  <1>1. /\ g # h /\ hold[g] = "sole" /\ vec[g].kind = "tr"
        /\ vec[g].sz = vec[h].sz /\ vec[g].shift = vec[h].shift
        /\ Store(g, r, E) /\ unique_id' = unique_id /\ ub' = (ub \/ r.ub)
    BY DEF Assign
  <1>2. Starts(P, m, g)
    BY StartFacts
  <1>3. /\ Taking(m, heap, vec[g]) /\ m.v = vec[g] /\ vec[g].sz \in Nat
        /\ World(heap, P, vec, hold, unique_id)
    BY <1>2 DEF Starts
  <1>4. Lends(m, P, w, Len(heap), keep)
    BY <1>1, AssignLends
  <1>5. a \in Nat /\ b \in Nat /\ a < b /\ b <= m.v.sz
    BY <1>1, <1>3
  <1>6. PICK P2 : Spliced(m, P, r, P2, w, Len(heap), keep, S, sure)
    <2>. DEFINE n0 == Len(heap)
    <2>1. Lends(m, P, w, n0, keep)
      BY <1>4
    <2>2. sure => b - a < BP_WIDTH \/ Clear(m.v, a, b)
      <3>. DEFINE v == m.v
      <3>1. IsVec(m.h, P, v) /\ v \in Vector
        BY <2>1, LendsFacts
      <3>2. v.shift = Lv(v) * BP_BITS /\ v.sz <= Width(Lv(v) + 1) /\ v.sz \in Nat
        BY <3>1 DEF IsVec, Vector
      <3>3. b \in 1 .. v.sz
        BY <1>5, <3>2
      <3>. HIDE DEF m, v
      <3>4. ~Astray(v, a, b) => b - a < BP_WIDTH \/ Clear(v, a, b)
        BY <3>1, <3>2, <3>3, AstrayNot
      <3>. QED
        BY <3>4 DEF v
    <2>. HIDE DEF m, w, keep, n0, sure
    <2>3. Phase(m, P, assign(m, w, a, b), w, n0, keep, a .. b - 1, sure)
      BY <1>5, <2>1, <2>2, AssignIs
    <2>. QED
      BY <2>3 DEF Phase, n0
  <1>. HIDE DEF m, r, S, sure
  <1>7. Edits(m, P, r, P2, Len(heap), {vec[g].id}, {vec[h]})
    BY <1>6 DEF Spliced
  <1>8. Traded(heap, P, vec, hold, unique_id, m, r, P2, g, h)
    BY <1>1, <1>3, <1>7 DEF Traded
  <1>9. E = [hold EXCEPT ![h] = "shared"] /\ m = At(g) /\ sure = ~Astray(m.v, a, b)
        /\ S = a .. b - 1 /\ w = vec[h]
    BY DEF m, S, sure
  <1>. HIDE DEF E, w, keep
  <1>10. AssignMove(P, m, r, P2, E, g, h, a, b, sure)
    BY <1>1, <1>6, <1>8, <1>9 DEF AssignMove, w, keep
  <1>. QED
    BY <1>10

(* The invariant survives assign.                                          *)
LEMMA AssignStep ==
  ASSUME NEW P, Placed(P), NEW g \in Handle, NEW h \in Handle, NEW b \in 1 .. vec[h].sz,
         NEW a \in 0 .. b - 1, Assign(g, h, a, b)
  PROVE  Valid'
  <1>1. PICK m, r, P2, E, sure : AssignMove(P, m, r, P2, E, g, h, a, b, sure)
    BY AssignTurn
  <1>2. /\ Traded(heap, P, vec, hold, unique_id, m, r, P2, g, h)
        /\ E = [hold EXCEPT ![h] = "shared"] /\ Store(g, r, E) /\ unique_id' = unique_id
    BY <1>1 DEF AssignMove
  <1>. QED
    BY <1>2, StoreTraded

-----------------------------------------------------------------------------
(* The invariant survives every step. *)
LEMMA NextValid ==
  ASSUME EmptyShared = FALSE, Valid, [Next]_vars
  PROVE  Valid'
  <1>1. PICK P : Placed(P)
    BY DEF Valid
  <1>2. ASSUME NEW g \in Handle, NEW kind \in Kind, New(g, kind)
        PROVE  Valid'
    BY <1>1, <1>2, NewStep
  <1>3. ASSUME NEW g \in Handle, NEW h \in Handle, Copy(g, h)
        PROVE  Valid'
    BY <1>1, <1>3, CopyStep
  <1>4. ASSUME NEW g \in Handle, NEW h \in Handle, NewId(g, h)
        PROVE  Valid'
    BY <1>1, <1>4, NewIdStep
  <1>5. ASSUME NEW g \in Handle, NEW h \in Handle, MakePersistent(g, h)
        PROVE  Valid'
    BY <1>1, <1>5, MakePersistentStep
  <1>6. ASSUME NEW g \in Handle, NEW h \in Handle, Freeze(g, h)
        PROVE  Valid'
    BY <1>1, <1>6, FreezeStep
  <1>7. ASSUME NEW g \in Handle, NEW h \in Handle, PushBack(g, h)
        PROVE  Valid'
    BY <1>1, <1>7, PushBackStep
  <1>8. ASSUME NEW g \in Handle, NEW h \in Handle, NEW i \in 0 .. vec[h].sz - 1, Set(g, h, i)
        PROVE  Valid'
    <2>. DEFINE r == Write(At(h), i, X, node_keep(vec[h]))
                E == Together(g, h)
    <2>1. Store(g, r, E) /\ unique_id' = unique_id
          /\ (vec[h].kind = "ps" \/ (g = h /\ hold[h] = "sole"))
      BY <1>8 DEF Set, set, At
    <2>2. hold \in [Handle -> {"sole", "tip", "shared"}]
      BY <1>1, AlikeStarts
    <2>3. Passed(vec, hold, E, g, h)
      BY <2>2, TogetherPassed
    <2>4. r = Write(At(h), i, X, node_keep(vec[h]))
      OBVIOUS
    <2>. HIDE DEF r, E
    <2>. QED
      BY <1>1, <2>1, <2>3, <2>4, SetStep
  <1>9. ASSUME NEW h \in Handle, NEW i \in 0 .. vec[h].sz - 1, MutSet(h, i)
        PROVE  Valid'
    <2>. DEFINE r == Write(At(h), i, X, node_keep(vec[h]))
                E == hold
    <2>1. Store(h, r, E) /\ unique_id' = unique_id /\ hold[h] = "sole"
      BY <1>9 DEF MutSet, mut_set, At
    <2>2. hold \in [Handle -> {"sole", "tip", "shared"}]
      BY <1>1, AlikeStarts
    <2>3. Passed(vec, hold, E, h, h)
      BY <2>2, HoldPassed
    <2>4. r = Write(At(h), i, X, node_keep(vec[h]))
      OBVIOUS
    <2>. HIDE DEF r, E
    <2>. QED
      BY <1>1, <2>1, <2>3, <2>4, SetStep
  <1>10. ASSUME NEW g \in Handle, NEW h \in Handle, NEW b \in 1 .. vec[h].sz,
                NEW a \in 0 .. b - 1, Assign(g, h, a, b)
         PROVE  Valid'
    BY <1>1, <1>10, AssignStep
  <1>11. ASSUME NEW h \in Handle, NEW junk \in {0, -1}, MutPushBack(h, junk)
         PROVE  Valid'
    BY <1>1, <1>11, MutPushBackStep
  <1>12. ASSUME NEW h \in Handle, NEW b \in 0 .. vec[h].sz, NEW a \in 0 .. b, ForEach(h, a, b)
         PROVE  Valid'
    BY <1>1, <1>12, ForEachStep
  <1>13. CASE UNCHANGED vars
    BY <1>13 DEF Valid, Placed, vars
  <1>14. CASE Stop
    BY <1>13, <1>14 DEF Stop
  <1>. QED
    BY <1>2, <1>3, <1>4, <1>5, <1>6, <1>7, <1>8, <1>9, <1>10, <1>11, <1>12, <1>13, <1>14
       DEF Next

(* What the invariant says of the types. *)
LEMMA ValidTypes ==
  ASSUME Valid
  PROVE  TypeOK
  <1>1. PICK P : Placed(P)
    BY DEF Valid
  <1>2. World(heap, P, vec, hold, unique_id)
    BY <1>1 DEF Placed
  <1>3. ASSUME NEW h \in Handle
        PROVE  vec[h] \in Vector /\ vec[h].sz <= capacity(vec[h])
    <2>1. vec[h] \in Vector /\ IsVec(heap, P, vec[h])
      BY <1>2, WorldFacts
    <2>2. capacity(vec[h]) = Width(Lv(vec[h]) + 1)
      BY <2>1, Levels
    <2>. QED
      BY <2>1, <2>2 DEF IsVec
  <1>4. ASSUME NEW h \in Handle, NEW i \in 0 .. vec[h].sz - 1,
               NEW d \in 0 .. calc_depth(vec[h]) - 1,
               NEW n, n = Walk(heap, vec[h], i, d)
        PROVE  /\ n \in DOMAIN heap
               /\ heap[n].type = IF d = calc_depth(vec[h]) - 1 THEN "leaves" ELSE "branches"
    <2>. DEFINE v == vec[h]
                e == Lv(v) - d
    <2>1. v \in Vector /\ IsHeap(heap, P) /\ IsVec(heap, P, v) /\ Full(heap, v) /\ Lv(v) \in Nat
      BY <1>2, WorldFacts
    <2>2. calc_depth(v) = Lv(v) + 1
      BY <2>1, Levels
    <2>. HIDE DEF v
    <2>3. e \in 0 .. Lv(v) /\ d = Lv(v) - e /\ (e = 0 <=> d = calc_depth(v) - 1)
      BY <2>1, <2>2 DEF v
    <2>. HIDE DEF e
    <2>4. n = On(heap, v, i, e)
      BY <1>4, <2>3 DEF On, v
    <2>5. i \in 0 .. v.sz - 1
      BY DEF v
    <2>6. i \in Room(v) /\ On(heap, v, i, e) \in DOMAIN heap /\ On(heap, v, i, e) # Null
      BY <2>1, <2>3, <2>5, FullPath
    <2>7. P[On(heap, v, i, e)][1] = e
      BY <2>1, <2>3, <2>6, OnPlace
    <2>8. heap[n].type = IF P[n][1] = 0 THEN "leaves" ELSE "branches"
      BY <2>1, <2>4, <2>6 DEF IsHeap
    <2>. QED
      BY <2>3, <2>4, <2>6, <2>7, <2>8 DEF v
  <1>5. ASSUME NEW n \in DOMAIN heap
        PROVE  heap[n] \in Node /\ heap[n].id < unique_id
    <2>1. Tries(heap, P, vec) /\ Ids(heap, vec, hold, unique_id)
      BY <1>2 DEF World
    <2>2. heap \in Seq(Node)
      BY <2>1 DEF Tries, IsHeap
    <2>. QED
      BY <2>1, <2>2 DEF Ids
  <1>. QED
    BY <1>3, <1>4, <1>5 DEF TypeOK

\* and of owners
LEMMA ValidSoles ==
  ASSUME Valid
  PROVE  SoleOwner
  <1>1. PICK P : Placed(P)
    BY DEF Valid
  <1>2. World(heap, P, vec, hold, unique_id)
    BY <1>1 DEF Placed
  <1>3. SUFFICES ASSUME NEW h \in Handle, hold[h] = "sole", vec[h].kind = "tr",
                        NEW g \in Handle \ {h}, NEW n \in Reaches(g)
                 PROVE  heap[n].id # vec[h].id
    BY DEF SoleOwner
  <1>. DEFINE v == vec[g]
  <1>4. v \in Vector /\ Lv(v) \in Nat
    BY <1>2, WorldFacts
  <1>5. calc_depth(v) = Lv(v) + 1 /\ capacity(v) = Width(Lv(v) + 1)
    BY <1>4, Levels
  <1>6. PICK i \in 0 .. capacity(v) - 1, d \in 0 .. calc_depth(v) - 1 :
          n = Walk(heap, v, i, d) /\ n # Null
    BY DEF Reaches
  <1>. HIDE DEF v
  <1>7. n \in Nodes(heap, v)
    <2>. DEFINE e == Lv(v) - d
    <2>1. e \in 0 .. Lv(v) /\ d = Lv(v) - e
      BY <1>4, <1>5
    <2>2. i \in Room(v)
      BY <1>5 DEF Room
    <2>. HIDE DEF e
    <2>3. n = On(heap, v, i, e)
      BY <1>6, <2>1 DEF On
    <2>. QED
      BY <1>6, <2>1, <2>2, <2>3 DEF Nodes
  <1>8. Soles(heap, vec, hold)
    BY <1>2 DEF World
  <1>9. ~Owns(heap, vec[h], n)
    BY <1>3, <1>7, <1>8 DEF Soles, v
  <1>. QED
    BY <1>3, <1>9 DEF Owns

(***************************************************************************)
(* For every number of variables, every width of a node and every length   *)
(* of the program: whatever the operations, each vector stays a trie of    *)
(* the depth its shift says, with branches above leaves and a path to      *)
(* every element.  The hypothesis rules out mut_push_back into the root    *)
(* leaf that an empty vector may share.                                    *)
(***************************************************************************)
THEOREM TypeCorrect ==
  ASSUME EmptyShared = FALSE
  PROVE  Spec => []TypeOK
  <1>1. Init => Valid
    BY InitValid
  <1>2. Valid /\ [Next]_vars => Valid'
    BY NextValid
  <1>3. Valid => TypeOK
    BY ValidTypes
  <1>. QED
    BY <1>1, <1>2, <1>3, PTL DEF Spec

(***************************************************************************)
(* Under the same hypothesis no other variable reaches a node that bears   *)
(* the id of a transient nothing was derived from: the writes in place     *)
(* that node_copy_impl and the iterators let it make are its own affair.   *)
(***************************************************************************)
THEOREM SoleOwners ==
  ASSUME EmptyShared = FALSE
  PROVE  Spec => []SoleOwner
  <1>1. Init => Valid
    BY InitValid
  <1>2. Valid /\ [Next]_vars => Valid'
    BY NextValid
  <1>3. Valid => SoleOwner
    BY ValidSoles
  <1>. QED
    BY <1>1, <1>2, <1>3, PTL DEF Spec

-----------------------------------------------------------------------------
(* What reading the vectors gives. *)
\* the elements of v
Word(H, v) == [i \in 1 .. v.sz |-> Cell(H, v, i - 1)]
\* A gives the value of each variable
Tells(H, Vs, A) == A = [h \in Handle |-> Word(H, Vs[h])]

(* Vectors of one size with the same cells read the same.                  *)
LEMMA WordSame ==
  ASSUME NEW H, NEW v, NEW H2, NEW v2, v2.sz = v.sz, v.sz \in Nat,
         \A j \in 0 .. v.sz - 1 : Cell(H2, v2, j) = Cell(H, v, j)
  PROVE  Word(H2, v2) = Word(H, v)
  <1>1. ASSUME NEW i \in 1 .. v.sz
        PROVE  Cell(H2, v2, i - 1) = Cell(H, v, i - 1)
    <2>1. i - 1 \in 0 .. v.sz - 1
      OBVIOUS
    <2>. QED
      BY <2>1
  <1>. QED
    BY <1>1 DEF Word

(* One variable is given a new value.                                      *)
LEMMA TellsNext ==
  ASSUME NEW H, NEW Vs, NEW A, Tells(H, Vs, A), NEW g \in Handle, Vs \in [Handle -> Vector],
         NEW H2, NEW v2, NEW Vs2, Became(Vs, Vs2, g, v2),
         \A k \in Handle : k # g => Word(H2, Vs[k]) = Word(H, Vs[k]),
         NEW A2, NEW x, x = Word(H2, v2), A2 = [A EXCEPT ![g] = x]
  PROVE  Tells(H2, Vs2, A2)
  <1>1. Vs2 = [Vs EXCEPT ![g] = v2] /\ A = [h \in Handle |-> Word(H, Vs[h])]
    BY DEF Became, Tells
  <1>2. Vs2[g] = v2 /\ \A k \in Handle : k # g => Vs2[k] = Vs[k]
    BY <1>1
  <1>3. A2 = [h \in Handle |-> IF h = g THEN x ELSE Word(H, Vs[h])]
    BY <1>1
  <1>4. ASSUME NEW h \in Handle
        PROVE  (IF h = g THEN x ELSE Word(H, Vs[h])) = Word(H2, Vs2[h])
    BY <1>2
  <1>5. A2 = [h \in Handle |-> Word(H2, Vs2[h])]
    BY <1>3, <1>4
  <1>. QED
    BY <1>5 DEF Tells

\* element j of k reads as before, or as it does in the new trie of h, with
\* which k shares a node that was written
ReadsAs(H, Vs, H2, v2, h, k, j, keep) ==
  \/ Cell(H2, Vs[k], j) = Cell(H, Vs[k], j)
  \/ /\ j < Vs[h].sz
     /\ Cell(H2, Vs[k], j) = Cell(H2, v2, j) /\ Cell(H, Vs[k], j) = Cell(H, Vs[h], j)
     /\ \E n \in Nodes(H, Vs[k]) : n \in Nodes(H, Vs[h]) /\ H[n].id \in keep

(* After a turn no element of another variable differs, unless it is       *)
(* shared with h and was written there.                                    *)
LEMMA TurnCells ==
  ASSUME NEW H, NEW P, NEW Vs, NEW D, NEW U, NEW H2, NEW P2, NEW v2, NEW D2, NEW g, NEW h,
         NEW keep, NEW nid, Turn(H, P, Vs, D, U, H2, P2, v2, D2, g, h, keep, nid),
         NEW k \in Handle, k # g, NEW j \in 0 .. Vs[k].sz - 1
  PROVE  ReadsAs(H, Vs, H2, v2, h, k, j, keep)
  <1>. DEFINE u == Vs[k]
  <1>1. World(H, P, Vs, D, U) /\ Follows(H, H2, u, Vs[h], v2, keep)
    BY DEF Turn
  <1>2. /\ IsHeap(H, P) /\ IsVec(H, P, u) /\ Full(H, u) /\ Lv(u) \in Nat
        /\ j \in Room(u)
    BY <1>1, WorldFacts
  <1>3. 0 \in 0 .. Lv(u)
    BY <1>2
  <1>4. On(H, u, j, 0) \in DOMAIN H
    BY <1>2, <1>3, FullPath
  <1>5. CASE Stays(H, H2, u, j)
    <2>1. On(H2, u, j, 0) = On(H, u, j, 0) /\ H2[On(H, u, j, 0)] = H[On(H, u, j, 0)]
      BY <1>3, <1>4, <1>5 DEF Stays
    <2>. QED
      BY <2>1 DEF ReadsAs, Cell
  <1>6. ASSUME NEW f, Joins(H, H2, u, Vs[h], v2, j, f), H[On(H, u, j, f)].id \in keep
        PROVE  ReadsAs(H, Vs, H2, v2, h, k, j, keep)
    <2>1. j < Vs[h].sz
      BY <1>6, JoinShort
    <2>2. f \in 0 .. Lv(u) /\ On(H, u, j, f) \in Nodes(H, Vs[h])
          /\ \A e \in 0 .. f : /\ On(H2, u, j, e) = On(H2, v2, j, e)
                               /\ On(H, u, j, e) = On(H, Vs[h], j, e)
      BY <1>6 DEF Joins
    <2>3. 0 \in 0 .. f
      BY <1>2, <2>2
    <2>4. Cell(H2, u, j) = Cell(H2, v2, j) /\ Cell(H, u, j) = Cell(H, Vs[h], j)
      BY <2>2, <2>3 DEF Cell
    <2>5. On(H, u, j, f) \in Nodes(H, u)
      BY <1>2, <2>2, FullPath
    <2>6. \E n \in Nodes(H, Vs[k]) : n \in Nodes(H, Vs[h]) /\ H[n].id \in keep
      BY <1>6, <2>2, <2>5
    <2>. QED
      BY <2>1, <2>4, <2>6 DEF ReadsAs
  <1>. QED
    BY <1>1, <1>2, <1>5, <1>6 DEF Follows

\* the variables other than g read as before
OtherWords(H, Vs, H2, g) == \A k \in Handle : k # g => Word(H2, Vs[k]) = Word(H, Vs[k])
\* v2 has one element more than v
PushedWord(H, v, H2, v2, x) ==
  Word(H2, v2) = [i \in 1 .. v.sz + 1 |-> IF i <= v.sz THEN Word(H, v)[i] ELSE x]
\* v2 has new elements in S
EditedWord(H, v, H2, v2, S, xs) ==
  Word(H2, v2) = [i \in 1 .. v.sz |-> IF i - 1 \in S THEN xs[i - 1] ELSE Word(H, v)[i]]

(* A push changes no other variable's value. *)
LEMMA PushWords ==
  ASSUME NEW H, NEW P, NEW Vs, NEW D, NEW U, NEW m, NEW r, NEW P2, NEW D2, NEW g, NEW h,
         NEW keep, NEW nid, Turn(H, P, Vs, D, U, r.h, P2, r.v, D2, g, h, keep, nid),
         Taking(m, H, Vs[h]), NEW x, Pushed(m, P, r, P2, x, keep, nid, 1)
  PROVE  OtherWords(H, Vs, r.h, g) /\ PushedWord(H, Vs[h], r.h, r.v, x)
  <1>1. World(H, P, Vs, D, U) /\ h \in Handle
    BY DEF Turn
  <1>2. m.h = H /\ m.v = Vs[h] /\ Vs[h].sz \in Nat
    BY <1>1, WorldFacts DEF Taking
  <1>3. /\ r.v.sz = Vs[h].sz + 1 /\ Cell(r.h, r.v, Vs[h].sz) = x
        /\ \A j \in 0 .. Vs[h].sz - 1 : Cell(r.h, r.v, j) = Cell(H, Vs[h], j)
    BY <1>2 DEF Pushed
  <1>4. ASSUME NEW k \in Handle, k # g
        PROVE  Word(r.h, Vs[k]) = Word(H, Vs[k])
    <2>1. Vs[k].sz \in Nat
      BY <1>1, WorldFacts
    <2>2. ASSUME NEW j \in 0 .. Vs[k].sz - 1
          PROVE  Cell(r.h, Vs[k], j) = Cell(H, Vs[k], j)
      <3>1. ReadsAs(H, Vs, r.h, r.v, h, k, j, keep)
        BY <1>4, TurnCells
      <3>2. j < Vs[h].sz => j \in 0 .. Vs[h].sz - 1
        BY <1>2, <2>1
      <3>. QED
        BY <1>3, <3>1, <3>2 DEF ReadsAs
    <2>. QED
      BY <2>1, <2>2, WordSame
  <1>5. ASSUME NEW i \in 1 .. Vs[h].sz + 1
        PROVE  Cell(r.h, r.v, i - 1) = IF i <= Vs[h].sz THEN Word(H, Vs[h])[i] ELSE x
    <2>1. CASE i <= Vs[h].sz
      <3>1. i - 1 \in 0 .. Vs[h].sz - 1 /\ i \in 1 .. Vs[h].sz
        BY <1>2, <2>1
      <3>. QED
        BY <1>3, <2>1, <3>1 DEF Word
    <2>2. CASE ~(i <= Vs[h].sz)
      <3>1. i - 1 = Vs[h].sz
        BY <1>2, <2>2
      <3>. QED
        BY <1>3, <2>2, <3>1
    <2>. QED
      BY <2>1, <2>2
  <1>6. Word(r.h, r.v) =
          [i \in 1 .. Vs[h].sz + 1 |-> IF i <= Vs[h].sz THEN Word(H, Vs[h])[i] ELSE x]
    BY <1>3, <1>5 DEF Word
  <1>. QED
    BY <1>4, <1>6 DEF OtherWords, PushedWord

(* Nor does an edit by a sole owner, or one that copies every node. *)
LEMMA EditWords ==
  ASSUME NEW H, NEW P, NEW Vs, NEW D, NEW U, NEW m, NEW r, NEW P2, NEW D2, NEW g, NEW h,
         NEW keep, NEW nid, Turn(H, P, Vs, D, U, r.h, P2, r.v, D2, g, h, keep, nid),
         Taking(m, H, Vs[h]), NEW S, NEW xs, NEW n0, Filled(m, P, r, P2, S, xs, n0, keep),
         keep = {} \/ (D[h] = "sole" /\ g = h)
  PROVE  OtherWords(H, Vs, r.h, g) /\ EditedWord(H, Vs[h], r.h, r.v, S, xs)
  <1>1. World(H, P, Vs, D, U) /\ h \in Handle
        /\ \A n \in Nodes(H, Vs[h]) : H[n].id \in keep => Owns(H, Vs[h], n)
    BY DEF Turn
  <1>2. m.h = H /\ m.v = Vs[h] /\ Vs[h].sz \in Nat
    BY <1>1, WorldFacts DEF Taking
  <1>3. \A j \in 0 .. Vs[h].sz - 1 :
          Cell(r.h, r.v, j) = IF j \in S THEN xs[j] ELSE Cell(H, Vs[h], j)
    BY <1>2 DEF Filled
  <1>31. r.v.sz = Vs[h].sz
    <2>1. Fits(m, P)
      BY <1>1, TakingFits
    <2>. QED
      BY <1>2, <2>1, FilledFacts
  <1>4. ASSUME NEW k \in Handle, k # g
        PROVE  Word(r.h, Vs[k]) = Word(H, Vs[k])
    <2>1. Vs[k].sz \in Nat
      BY <1>1, WorldFacts
    <2>2. ASSUME NEW j \in 0 .. Vs[k].sz - 1
          PROVE  Cell(r.h, Vs[k], j) = Cell(H, Vs[k], j)
      <3>1. ReadsAs(H, Vs, r.h, r.v, h, k, j, keep)
        BY <1>4, TurnCells
      <3>2. ~\E n \in Nodes(H, Vs[k]) : n \in Nodes(H, Vs[h]) /\ H[n].id \in keep
        <4>1. CASE keep = {}
          BY <4>1
        <4>2. CASE D[h] = "sole" /\ g = h
          <5>1. Soles(H, Vs, D)
            BY <1>1 DEF World
          <5>2. \A n \in Nodes(H, Vs[k]) : ~Owns(H, Vs[h], n)
            BY <1>1, <1>4, <4>2, <5>1 DEF Soles
          <5>. QED
            BY <1>1, <5>2
        <4>. QED
          BY <4>1, <4>2
      <3>. QED
        BY <3>1, <3>2 DEF ReadsAs
    <2>. QED
      BY <2>1, <2>2, WordSame
  <1>5. ASSUME NEW i \in 1 .. Vs[h].sz
        PROVE  Cell(r.h, r.v, i - 1) = IF i - 1 \in S THEN xs[i - 1] ELSE Word(H, Vs[h])[i]
    <2>1. i - 1 \in 0 .. Vs[h].sz - 1
      BY <1>2
    <2>. QED
      BY <1>3, <2>1 DEF Word
  <1>6. Word(r.h, r.v) =
          [i \in 1 .. Vs[h].sz |-> IF i - 1 \in S THEN xs[i - 1] ELSE Word(H, Vs[h])[i]]
    BY <1>31, <1>5 DEF Word
  <1>. QED
    BY <1>4, <1>6 DEF OtherWords, EditedWord

\* every variable reads as the value its operations gave it
Told == Tells(heap, vec, val)

(* A step that changes one value and leaves what the others read.          *)
LEMMA StoreTold ==
  ASSUME Told, NEW P, Placed(P), NEW g \in Handle, NEW r, NEW E, Store(g, r, E),
         OtherWords(heap, vec, r.h, g),
         NEW x, x = Word(r.h, r.v), V!Become(g, x)
  PROVE  Told'
  <1>. DEFINE Vs2 == vec'
              A2 == val'
  <1>1. heap' = r.h /\ Became(vec, Vs2, g, r.v) /\ A2 = [val EXCEPT ![g] = x]
    BY DEF Store, Became, V!Become
  <1>2. vec \in [Handle -> Vector]
    BY AlikeStarts
  <1>3. Told' <=> Tells(r.h, Vs2, A2)
    BY <1>1 DEF Told
  <1>4. Tells(heap, vec, val)
    BY DEF Told
  <1>. HIDE DEF Vs2, A2
  <1>5. Tells(r.h, Vs2, A2)
    BY <1>1, <1>2, <1>4, TellsNext DEF OtherWords
  <1>. QED
    BY <1>3, <1>5

(* The value of a variable has its size.                                   *)
LEMMA ToldWord ==
  ASSUME Told, NEW P, Placed(P), NEW h \in Handle
  PROVE  /\ val[h] = Word(heap, vec[h]) /\ vec[h].sz \in Nat
         /\ DOMAIN val[h] = 1 .. vec[h].sz
  <1>1. val = [k \in Handle |-> Word(heap, vec[k])]
    BY DEF Told, Tells
  <1>2. val[h] = Word(heap, vec[h])
    BY <1>1
  <1>3. vec[h].sz \in Nat
    BY StartFacts DEF Starts
  <1>4. DOMAIN Word(heap, vec[h]) = 1 .. vec[h].sz
    BY DEF Word
  <1>. QED
    BY <1>2, <1>3, <1>4

\* a value with one element more
LEMMA AppendIs ==
  ASSUME NEW n \in Nat, NEW s, DOMAIN s = 1 .. n, s = [i \in 1 .. n |-> s[i]], NEW x
  PROVE  Append(s, x) = [i \in 1 .. n + 1 |-> IF i <= n THEN s[i] ELSE x]
  <1>. DEFINE A == {s[i] : i \in 1 .. n} \cup {x}
  <1>1. s \in [1 .. n -> A]
    OBVIOUS
  <1>2. x \in A
    OBVIOUS
  <1>. HIDE DEF A
  <1>3. s \in Seq(A) /\ Len(s) = n
    BY <1>1
  <1>4. /\ Append(s, x) \in Seq(A) /\ Len(Append(s, x)) = n + 1
        /\ \A i \in 1 .. n : Append(s, x)[i] = s[i]
        /\ Append(s, x)[n + 1] = x
    BY <1>2, <1>3, AppendProperties
  <1>5. Append(s, x) = [i \in 1 .. n + 1 |-> Append(s, x)[i]]
    <2>. DEFINE a == Append(s, x)
    <2>1. a \in Seq(A) /\ Len(a) = n + 1
      BY <1>4
    <2>. HIDE DEF a
    <2>2. a \in [1 .. n + 1 -> A]
      BY <2>1, LenProperties
    <2>3. a = [i \in 1 .. n + 1 |-> a[i]]
      BY <2>2
    <2>. QED
      BY <2>3 DEF a
  <1>6. \A i \in 1 .. n + 1 : Append(s, x)[i] = IF i <= n THEN s[i] ELSE x
    BY <1>4
  <1>. QED
    BY <1>5, <1>6

(* The values are right after a push.                                      *)
LEMMA PushTold ==
  ASSUME Told, NEW P, Placed(P), NEW g \in Handle, NEW h \in Handle,
         NEW r, NEW P2, NEW E, NEW keep, NEW nid, PushMove(P, r, P2, E, g, h, keep, nid),
         V!Pushed(g, h, X)
  PROVE  Told'
  <1>. DEFINE n == vec[h].sz
              s == Word(heap, vec[h])
              m == At(h)
              x == X
  <1>1. Turn(heap, P, vec, hold, unique_id, r.h, P2, r.v, E, g, h, keep, nid)
    BY DEF PushMove
  <1>2. Pushed(m, P, r, P2, x, keep, nid, 1)
    BY DEF PushMove
  <1>3. Taking(m, heap, vec[h])
    BY StartFacts DEF Starts
  <1>. HIDE DEF m, x
  <1>4. OtherWords(heap, vec, r.h, g) /\ PushedWord(heap, vec[h], r.h, r.v, x)
    BY <1>1, <1>2, <1>3, PushWords
  <1>41. Word(r.h, r.v) = [i \in 1 .. n + 1 |-> IF i <= n THEN s[i] ELSE x]
    BY <1>4 DEF PushedWord
  <1>5. n \in Nat /\ val[h] = s
    BY ToldWord
  <1>6. DOMAIN s = 1 .. n /\ s = [i \in 1 .. n |-> s[i]]
    BY DEF Word
  <1>. DEFINE a == Append(s, x)
  <1>. HIDE DEF n, s
  <1>7. a = [i \in 1 .. n + 1 |-> IF i <= n THEN s[i] ELSE x]
    BY <1>5, <1>6, AppendIs
  <1>8. a = Word(r.h, r.v)
    BY <1>41, <1>7
  <1>9. V!Become(g, a)
    BY <1>5 DEF V!Pushed, x
  <1>10. Store(g, r, E)
    BY DEF PushMove
  <1>. HIDE DEF a
  <1>. QED
    BY <1>4, <1>8, <1>9, <1>10, StoreTold

\* x is the value of h with new elements in S
EditedValue(h, S, xs, x) ==
  x = [i \in 1 .. vec[h].sz |-> IF i - 1 \in S THEN xs[i - 1] ELSE val[h][i]]

\* what an edit changes and leaves
LEMMA EditTold ==
  ASSUME Told, NEW P, Placed(P), NEW g \in Handle, NEW h \in Handle,
         NEW r, NEW P2, NEW E, NEW keep, NEW nid, NEW S, NEW xs,
         EditMove(P, r, P2, E, g, h, keep, nid, S, xs),
         NEW x, EditedValue(h, S, xs, x),
         V!Become(g, x)
  PROVE  Told'
  <1>. DEFINE n == vec[h].sz
              s == Word(heap, vec[h])
              m == At(h)
              n0 == Len(heap)
  <1>1. Turn(heap, P, vec, hold, unique_id, r.h, P2, r.v, E, g, h, keep, nid)
    BY DEF EditMove
  <1>2. Filled(m, P, r, P2, S, xs, n0, keep) /\ (keep = {} \/ (hold[h] = "sole" /\ g = h))
    BY DEF EditMove
  <1>3. Taking(m, heap, vec[h])
    BY StartFacts DEF Starts
  <1>. HIDE DEF m, n0
  <1>4. OtherWords(heap, vec, r.h, g) /\ EditedWord(heap, vec[h], r.h, r.v, S, xs)
    BY <1>1, <1>2, <1>3, EditWords
  <1>41. Word(r.h, r.v) = [i \in 1 .. n |-> IF i - 1 \in S THEN xs[i - 1] ELSE s[i]]
    BY <1>4 DEF EditedWord
  <1>5. n \in Nat /\ val[h] = s
    BY ToldWord
  <1>8. x = Word(r.h, r.v)
    BY <1>41, <1>5 DEF EditedValue
  <1>10. Store(g, r, E)
    BY DEF EditMove
  <1>. QED
    BY <1>4, <1>8, <1>10, StoreTold

\* the value of h after x was written to the element i
LEMMA UpdatedIs ==
  ASSUME Told, NEW P, Placed(P), NEW h \in Handle, NEW i \in 0 .. vec[h].sz - 1, NEW x,
         NEW xs, xs = [j \in Nat |-> x]
  PROVE  [val[h] EXCEPT ![i + 1] = x] =
           [k \in 1 .. vec[h].sz |-> IF k - 1 \in {i} THEN xs[k - 1] ELSE val[h][k]]
  <1>1. /\ vec[h].sz \in Nat /\ DOMAIN val[h] = 1 .. vec[h].sz
        /\ val[h] = Word(heap, vec[h])
    BY ToldWord
  <1>2. val[h] = [k \in 1 .. vec[h].sz |-> val[h][k]]
    BY <1>1 DEF Word
  <1>. DEFINE s == val[h]
              n == vec[h].sz
  <1>3. [s EXCEPT ![i + 1] = x] = [k \in 1 .. n |-> IF k = i + 1 THEN x ELSE s[k]]
    BY <1>1, <1>2
  <1>. HIDE DEF s, n
  <1>4. \A k \in 1 .. n : (IF k = i + 1 THEN x ELSE s[k])
                             = (IF k - 1 \in {i} THEN xs[k - 1] ELSE s[k])
    BY <1>1 DEF n
  <1>5. [s EXCEPT ![i + 1] = x] = [k \in 1 .. n |-> IF k - 1 \in {i} THEN xs[k - 1] ELSE s[k]]
    BY <1>3, <1>4
  <1>. QED
    BY <1>5 DEF s, n

\* and after x was written to those from a to b - 1
LEMMA RangeFilledIs ==
  ASSUME Told, NEW P, Placed(P), NEW h \in Handle, NEW b \in 0 .. vec[h].sz, NEW a \in 0 .. b,
         NEW x, NEW xs, xs = [j \in Nat |-> x], NEW S, S = a .. b - 1,
         NEW y, y = [k \in DOMAIN val[h] |-> IF k \in (a + 1) .. b THEN x ELSE val[h][k]]
  PROVE  EditedValue(h, S, xs, y)
  <1>1. vec[h].sz \in Nat /\ DOMAIN val[h] = 1 .. vec[h].sz
    BY ToldWord
  <1>2. \A k \in 1 .. vec[h].sz : (IF k \in (a + 1) .. b THEN x ELSE val[h][k])
                                      = (IF k - 1 \in S THEN xs[k - 1] ELSE val[h][k])
    BY <1>1
  <1>3. y = [k \in 1 .. vec[h].sz |-> IF k \in (a + 1) .. b THEN x ELSE val[h][k]]
    BY <1>1
  <1>4. y = [k \in 1 .. vec[h].sz |-> IF k - 1 \in S THEN xs[k - 1] ELSE val[h][k]]
    BY <1>2, <1>3
  <1>. QED
    BY <1>4 DEF EditedValue

-----------------------------------------------------------------------------
(* push_back gives the value it promises.                                  *)
LEMMA PushBackTold ==
  ASSUME Told, NEW P, Placed(P), NEW g \in Handle, NEW h \in Handle, PushBack(g, h)
  PROVE  Told'
  <1>1. PICK r, P2, E, keep, nid : PushMove(P, r, P2, E, g, h, keep, nid)
    BY PushBackTurn
  <1>2. V!Pushed(g, h, X)
    BY DEF PushBack
  <1>. QED
    BY <1>1, <1>2, PushTold

(* mut_push_back gives the value it promises.                              *)
LEMMA MutPushBackTold ==
  ASSUME Told, NEW P, Placed(P), NEW h \in Handle, NEW junk \in {0, -1}, MutPushBack(h, junk),
         EmptyShared = FALSE
  PROVE  Told'
  <1>1. PICK r, P2, E, keep, nid : PushMove(P, r, P2, E, h, h, keep, nid)
    BY MutPushBackTurn
  <1>2. V!Pushed(h, h, X)
    BY DEF MutPushBack
  <1>. QED
    BY <1>1, <1>2, PushTold

(* set and mut_set give the value they promise.                            *)
LEMMA SetTold ==
  ASSUME Told, NEW P, Placed(P), NEW g \in Handle, NEW h \in Handle,
         NEW i \in 0 .. vec[h].sz - 1, NEW r, r = Write(At(h), i, X, node_keep(vec[h])),
         vec[h].kind = "ps" \/ (g = h /\ hold[h] = "sole"),
         NEW E, Passed(vec, hold, E, g, h), Store(g, r, E), unique_id' = unique_id,
         V!Updated(g, h, i, X)
  PROVE  Told'
  <1>. DEFINE xs == [j \in Nat |-> X]
              S == {i}
              y == [val[h] EXCEPT ![i + 1] = X]
  <1>0. xs = [j \in Nat |-> X]
    OBVIOUS
  <1>1. V!Become(g, y)
    BY DEF V!Updated
  <1>. HIDE DEF xs
  <1>2. PICK P2, keep, nid : EditMove(P, r, P2, E, g, h, keep, nid, S, xs)
    BY <1>0, SetTurn
  <1>3. y = [k \in 1 .. vec[h].sz |-> IF k - 1 \in S THEN xs[k - 1] ELSE val[h][k]]
    BY <1>0, UpdatedIs
  <1>4. EditedValue(h, S, xs, y)
    BY <1>3 DEF EditedValue
  <1>. HIDE DEF y, S
  <1>. QED
    BY <1>1, <1>2, <1>4, EditTold

(* So does a loop of a mutable iterator.                                   *)
LEMMA ForEachTold ==
  ASSUME Told, NEW P, Placed(P), NEW h \in Handle, NEW b \in 0 .. vec[h].sz, NEW a \in 0 .. b,
         ForEach(h, a, b)
  PROVE  Told'
  <1>. DEFINE xs == [j \in Nat |-> X]
              S == a .. b - 1
              x == X
              y == [k \in DOMAIN val[h] |-> IF k \in (a + 1) .. b THEN x ELSE val[h][k]]
  <1>0. xs = [j \in Nat |-> x] /\ xs = [j \in Nat |-> X]
    OBVIOUS
  <1>1. V!Become(h, y)
    BY DEF V!Filled, ForEach
  <1>. HIDE DEF xs, x
  <1>2. PICK r, P2, keep, nid : EditMove(P, r, P2, hold, h, h, keep, nid, S, xs)
    BY <1>0, ForEachTurn
  <1>. HIDE DEF S
  <1>30. S = a .. b - 1 /\ y = [k \in DOMAIN val[h] |-> IF k \in (a + 1) .. b THEN x ELSE val[h][k]]
    BY DEF S
  <1>. HIDE DEF y
  <1>3. EditedValue(h, S, xs, y)
    BY <1>0, <1>30, RangeFilledIs
  <1>. QED
    BY <1>1, <1>2, <1>3, EditTold

(* A vector with the trie of another reads the same. *)
LEMMA SameWord ==
  ASSUME NEW H, NEW P, NEW v, IsHeap(H, P), IsVec(H, P, v), Full(H, v), v \in Vector, Lv(v) \in Nat,
         NEW v2, v2 \in Vector, v2.sz = v.sz, v2.root = v.root, v2.shift = v.shift
  PROVE  Word(H, v2) = Word(H, v)
  <1>1. v.shift = Lv(v) * BP_BITS /\ H \in Seq(Node) /\ v.sz \in Nat
    BY DEF IsVec, IsHeap, Vector
  <1>2. \A j \in Nat, e \in 0 .. Lv(v) : On(H, v2, j, e) = On(H, v, j, e)
    BY <1>1, SameTrie
  <1>3. 0 \in 0 .. Lv(v)
    OBVIOUS
  <1>4. ASSUME NEW j \in 0 .. v.sz - 1
        PROVE  Cell(H, v2, j) = Cell(H, v, j)
    <2>1. j \in Nat
      BY <1>1
    <2>. QED
      BY <1>2, <1>3, <2>1 DEF Cell
  <1>. QED
    BY <1>1, <1>4, WordSame

\* the variable g has the trie of h, the others their own
Aliases(Vs2, g, h) ==
  /\ Vs2 \in [Handle -> Vector]
  /\ \A k \in Handle : \E o \in {k, h} :
       /\ (k = g => o = h) /\ (k # g => o = k)
       /\ Vs2[k].sz = vec[o].sz /\ Vs2[k].root = vec[o].root /\ Vs2[k].shift = vec[o].shift

(* The values when one variable gets the trie of another.                  *)
LEMMA AliasWords ==
  ASSUME Told, NEW P, Placed(P), NEW g \in Handle, NEW h \in Handle, NEW Vs2, Aliases(Vs2, g, h),
         NEW A2, A2 = [val EXCEPT ![g] = val[h]]
  PROVE  Tells(heap, Vs2, A2)
  <1>1. World(heap, P, vec, hold, unique_id)
    BY DEF Placed
  <1>2. val = [k \in Handle |-> Word(heap, vec[k])]
    BY DEF Told, Tells
  <1>3. ASSUME NEW k \in Handle
        PROVE  A2[k] = Word(heap, Vs2[k])
    <2>1. PICK o \in {k, h} :
            /\ (k = g => o = h) /\ (k # g => o = k)
            /\ Vs2[k].sz = vec[o].sz /\ Vs2[k].root = vec[o].root /\ Vs2[k].shift = vec[o].shift
      BY DEF Aliases
    <2>2. o \in Handle /\ Vs2[k] \in Vector
      BY DEF Aliases
    <2>. DEFINE v == vec[o]
                v2 == Vs2[k]
    <2>3. /\ IsHeap(heap, P) /\ IsVec(heap, P, v) /\ Full(heap, v) /\ v \in Vector /\ Lv(v) \in Nat
      BY <1>1, <2>2, WorldFacts
    <2>4. v2 \in Vector /\ v2.sz = v.sz /\ v2.root = v.root /\ v2.shift = v.shift
      BY <2>1, <2>2
    <2>. HIDE DEF v, v2
    <2>5. Word(heap, v2) = Word(heap, v)
      BY <2>3, <2>4, SameWord
    <2>6. A2[k] = val[o]
      BY <1>2, <2>1
    <2>7. val[o] = Word(heap, vec[o])
      BY <1>2, <2>2
    <2>. QED
      BY <2>5, <2>6, <2>7 DEF v, v2
  <1>4. A2 = [k \in Handle |-> A2[k]]
    BY <1>2
  <1>. QED
    BY <1>3, <1>4 DEF Tells

(* A step of this form gives the value it promises.                        *)
LEMMA AliasTold ==
  ASSUME Told, NEW P, Placed(P), NEW g \in Handle, NEW h \in Handle, NEW Vs2, Aliases(Vs2, g, h),
         heap' = heap, vec' = Vs2, V!Taken(g, h)
  PROVE  Told'
  <1>. DEFINE A2 == val'
  <1>1. A2 = [val EXCEPT ![g] = val[h]]
    BY DEF V!Taken, V!Become
  <1>2. Told' <=> Tells(heap, Vs2, A2)
    BY DEF Told
  <1>. HIDE DEF A2
  <1>. QED
    BY <1>1, <1>2, AliasWords

(* Replacing one vector by one with the trie of another is such a step.    *)
LEMMA LentAliases ==
  ASSUME NEW P, Placed(P), NEW g \in Handle, NEW h \in Handle, NEW w \in Vector,
         w.sz = vec[h].sz, w.root = vec[h].root, w.shift = vec[h].shift,
         NEW Vs2, Vs2 = [vec EXCEPT ![g] = w]
  PROVE  Aliases(Vs2, g, h)
  <1>1. vec \in [Handle -> Vector]
    BY AlikeStarts
  <1>2. Vs2 \in [Handle -> Vector] /\ Vs2[g] = w /\ \A k \in Handle : k # g => Vs2[k] = vec[k]
    BY <1>1
  <1>. QED
    BY <1>2 DEF Aliases

(* Copying gives the value of the original.                                *)
LEMMA CopyTold ==
  ASSUME Told, NEW P, Placed(P), NEW g \in Handle, NEW h \in Handle, Copy(g, h)
  PROVE  Told'
  <1>. DEFINE w == vec[h]
              Vs2 == [vec EXCEPT ![g] = w]
  <1>1. heap' = heap /\ vec' = Vs2 /\ V!Taken(g, h)
    BY DEF Copy, Store, At
  <1>2. w \in Vector /\ w.sz = vec[h].sz /\ w.root = vec[h].root /\ w.shift = vec[h].shift
    BY AlikeStarts
  <1>3. Vs2 = [vec EXCEPT ![g] = w]
    OBVIOUS
  <1>. HIDE DEF w, Vs2
  <1>. QED
    BY <1>1, <1>2, <1>3, LentAliases, AliasTold

(* So do new_id and make_transient.                                        *)
LEMMA NewIdTold ==
  ASSUME Told, NEW P, Placed(P), NEW g \in Handle, NEW h \in Handle, NewId(g, h)
  PROVE  Told'
  <1>. DEFINE w == [vec[h] EXCEPT !.kind = "tr", !.id = unique_id]
              Vs2 == [vec EXCEPT ![g] = w]
  <1>1. heap' = heap /\ vec' = Vs2 /\ V!Taken(g, h)
    BY DEF NewId, Store, At
  <1>2. w \in Vector /\ w.sz = vec[h].sz /\ w.root = vec[h].root /\ w.shift = vec[h].shift
    <2>1. vec[h] \in Vector /\ unique_id \in Nat
      BY AlikeStarts
    <2>. QED
      BY <2>1 DEF Vector, Kind
  <1>3. Vs2 = [vec EXCEPT ![g] = w]
    OBVIOUS
  <1>. HIDE DEF w, Vs2
  <1>. QED
    BY <1>1, <1>2, <1>3, LentAliases, AliasTold

(* So does make_persistent.                                                *)
LEMMA MakePersistentTold ==
  ASSUME Told, NEW P, Placed(P), NEW g \in Handle, NEW h \in Handle, MakePersistent(g, h)
  PROVE  Told'
  <1>. DEFINE w == [vec[h] EXCEPT !.kind = "ps", !.id = 0]
              Vs2 == [vec EXCEPT ![g] = w]
  <1>1. heap' = heap /\ vec' = Vs2 /\ V!Taken(g, h)
    BY DEF MakePersistent, Store, At
  <1>2. w \in Vector /\ w.sz = vec[h].sz /\ w.root = vec[h].root /\ w.shift = vec[h].shift
    <2>1. vec[h] \in Vector
      BY AlikeStarts
    <2>. QED
      BY <2>1 DEF Vector, Kind
  <1>3. Vs2 = [vec EXCEPT ![g] = w]
    OBVIOUS
  <1>. HIDE DEF w, Vs2
  <1>. QED
    BY <1>1, <1>2, <1>3, LentAliases, AliasTold

(* freeze gives g the value of h, which keeps it.                          *)
LEMMA FreezeTold ==
  ASSUME Told, NEW P, Placed(P), NEW g \in Handle, NEW h \in Handle, Freeze(g, h)
  PROVE  Told'
  <1>. DEFINE w == [vec[h] EXCEPT !.id = unique_id]
              V1 == [vec EXCEPT ![g] = vec[h]]
              Vs2 == [V1 EXCEPT ![h] = w]
  <1>1. g # h /\ vec \in [Handle -> Vector] /\ vec[h] \in Vector /\ unique_id \in Nat
    BY AlikeStarts DEF Freeze
  <1>2. V1 \in [Handle -> Vector] /\ V1[h] = vec[h] /\ V1[g] = vec[h]
        /\ \A k \in Handle : k # g => V1[k] = vec[k]
    BY <1>1
  <1>3. w \in Vector /\ w.sz = vec[h].sz /\ w.root = vec[h].root /\ w.shift = vec[h].shift
    BY <1>1 DEF Vector
  <1>4. heap' = heap /\ V!Taken(g, h) /\ vec' = [V1 EXCEPT ![h] = [@ EXCEPT !.id = unique_id]]
    BY DEF Freeze
  <1>5. vec' = Vs2
    <2>. HIDE DEF V1
    <2>. QED
      BY <1>1, <1>2, <1>4
  <1>6. /\ Vs2 \in [Handle -> Vector] /\ Vs2[h] = w /\ Vs2[g] = vec[h]
        /\ \A k \in Handle : k # g /\ k # h => Vs2[k] = vec[k]
    <2>. HIDE DEF V1, w
    <2>. QED
      BY <1>1, <1>2, <1>3
  <1>. HIDE DEF w, V1, Vs2
  <1>7. Aliases(Vs2, g, h)
    BY <1>1, <1>3, <1>6 DEF Aliases
  <1>. QED
    BY <1>4, <1>5, <1>7, AliasTold

-----------------------------------------------------------------------------
(* A vector whose nodes are as they were reads as before.                  *)
LEMMA AliveWord ==
  ASSUME NEW H, NEW P, NEW u, IsHeap(H, P), IsVec(H, P, u), Full(H, u), u \in Vector,
         Lv(u) \in Nat, \A j \in 0 .. u.sz - 1 : j \in Room(u),
         NEW H2, NEW P2, Alive(H, H2, P2, u),
         \A n \in Nodes(H, u) : n \in DOMAIN H => H2[n] = H[n]
  PROVE  Word(H2, u) = Word(H, u)
  <1>1. 0 \in 0 .. Lv(u) /\ u.sz \in Nat
    BY DEF Vector
  <1>2. ASSUME NEW j \in 0 .. u.sz - 1
        PROVE  Cell(H2, u, j) = Cell(H, u, j)
    <2>1. On(H, u, j, 0) \in DOMAIN H /\ On(H, u, j, 0) \in Nodes(H, u)
      BY <1>1, FullPath
    <2>2. On(H2, u, j, 0) = On(H, u, j, 0)
      BY <1>1 DEF Alive
    <2>. QED
      BY <2>1, <2>2 DEF Cell
  <1>. QED
    BY <1>1, <1>2, WordSame

(* A constructed vector is empty.                                          *)
LEMMA NewTold ==
  ASSUME Told, NEW P, Placed(P), NEW g \in Handle, NEW kind \in Kind, New(g, kind)
  PROVE  Told'
  <1>. DEFINE id == IF kind = "tr" THEN unique_id ELSE 0
              r == Empty(heap, kind, id)
              P2 == Grafted(P, Len(heap) + 1, 0, 0)
              E == Alone(g)
              x == << >>
  <1>1. Store(g, r, E) /\ V!Become(g, x)
    BY DEF New, V!Emptied
  <1>2. World(heap, P, vec, hold, unique_id) /\ IsHeap(heap, P) /\ id \in Nat
    BY DEF Placed, World, Tries, Ids
  <1>3. Sown(heap, P, r.h, P2, r.v, kind, id)
    <2>. HIDE DEF id
    <2>. QED
      BY <1>2, EmptyIs
  <1>. HIDE DEF r, P2, E, id
  <1>4. ASSUME NEW k \in Handle
        PROVE  Word(r.h, vec[k]) = Word(heap, vec[k])
    <2>. DEFINE u == vec[k]
    <2>1. /\ IsVec(heap, P, u) /\ Full(heap, u) /\ u \in Vector /\ Lv(u) \in Nat
          /\ \A j \in 0 .. u.sz - 1 : j \in Room(u)
      BY <1>2, WorldFacts
    <2>. HIDE DEF u
    <2>2. Alive(heap, r.h, P2, u)
      BY <1>2, <1>3, <2>1, SownOther
    <2>3. \A n \in Nodes(heap, u) : n \in DOMAIN heap => r.h[n] = heap[n]
      BY <1>3 DEF Sown
    <2>4. Word(r.h, u) = Word(heap, u)
      BY <1>2, <2>1, <2>2, <2>3, AliveWord
    <2>. QED
      BY <2>4 DEF u
  <1>5. OtherWords(heap, vec, r.h, g)
    BY <1>4 DEF OtherWords
  <1>6. x = Word(r.h, r.v)
    <2>1. r.v.sz = 0
      BY <1>3 DEF Sown
    <2>2. 1 .. r.v.sz = {}
      BY <2>1
    <2>3. Word(r.h, r.v) = [i \in {} |-> Cell(r.h, r.v, i - 1)]
      BY <2>2 DEF Word
    <2>. QED
      BY <2>3
  <1>. HIDE DEF x
  <1>. QED
    BY <1>1, <1>5, <1>6, StoreTold

\* the value of g after it took over the elements a..b-1 of h
SplicedValue(g, h, a, b, x) ==
  x = [k \in DOMAIN val[g] |-> IF k \in (a + 1) .. b THEN val[h][k] ELSE val[g][k]]

(* The value of g after assign, read from the cells.                       *)
LEMMA SplicedWord ==
  ASSUME Told, NEW P, Placed(P), NEW g \in Handle, NEW h \in Handle, vec[h].sz = vec[g].sz,
         NEW b \in 1 .. vec[h].sz, NEW a \in 0 .. b - 1, NEW r, r.v.sz = vec[g].sz,
         \A j \in 0 .. vec[g].sz - 1 :
           Cell(r.h, r.v, j) = IF j \in a .. b - 1 THEN Cell(heap, vec[h], j)
                                                   ELSE Cell(heap, vec[g], j),
         NEW x, SplicedValue(g, h, a, b, x)
  PROVE  x = Word(r.h, r.v)
  <1>. DEFINE n == vec[g].sz
  <1>1. /\ n \in Nat /\ DOMAIN val[g] = 1 .. n
        /\ val[g] = Word(heap, vec[g]) /\ val[h] = Word(heap, vec[h])
    BY ToldWord
  <1>2. ASSUME NEW k \in 1 .. n
        PROVE  /\ val[g][k] = Cell(heap, vec[g], k - 1) /\ val[h][k] = Cell(heap, vec[h], k - 1)
               /\ k - 1 \in 0 .. n - 1
               /\ k \in (a + 1) .. b <=> k - 1 \in a .. b - 1
    <2>1. k - 1 \in 0 .. n - 1 /\ (k \in (a + 1) .. b <=> k - 1 \in a .. b - 1)
      BY <1>1
    <2>. QED
      BY <1>1, <2>1 DEF Word
  <1>3. \A k \in 1 .. n : (IF k \in (a + 1) .. b THEN val[h][k] ELSE val[g][k])
                             = Cell(r.h, r.v, k - 1)
    BY <1>2
  <1>4. x = [k \in 1 .. n |-> IF k \in (a + 1) .. b THEN val[h][k] ELSE val[g][k]]
    BY <1>1 DEF SplicedValue
  <1>5. x = [k \in 1 .. n |-> Cell(r.h, r.v, k - 1)]
    BY <1>3, <1>4
  <1>. QED
    BY <1>5 DEF Word

(* assign changes no other variable, whatever its range. *)
LEMMA TradedWords ==
  ASSUME NEW P, NEW m, NEW r, NEW P2, NEW g, NEW h,
         Traded(heap, P, vec, hold, unique_id, m, r, P2, g, h)
  PROVE  OtherWords(heap, vec, r.h, g)
  <1>1. World(heap, P, vec, hold, unique_id)
    BY TradedFacts
  <1>2. ASSUME NEW k \in Handle, k # g
        PROVE  Word(r.h, vec[k]) = Word(heap, vec[k])
    <2>. DEFINE u == vec[k]
    <2>1. /\ IsVec(heap, P, u) /\ Full(heap, u) /\ u \in Vector /\ Lv(u) \in Nat
          /\ \A j \in 0 .. u.sz - 1 : j \in Room(u)
          /\ IsHeap(heap, P)
      BY <1>1, WorldFacts
    <2>2. /\ Alive(heap, r.h, P2, u)
          /\ \A n \in Nodes(heap, u) : n \in DOMAIN heap => r.h[n] = heap[n]
      BY <1>2, TradedOther
    <2>. HIDE DEF u
    <2>3. Word(r.h, u) = Word(heap, u)
      BY <2>1, <2>2, AliveWord
    <2>. QED
      BY <2>3 DEF u
  <1>. QED
    BY <1>2 DEF OtherWords

(* assign gives the value it promises, if the range is not astray. *)
LEMMA SpliceTold ==
  ASSUME Told, NEW P, Placed(P), NEW g \in Handle, NEW h \in Handle,
         NEW b \in 1 .. vec[h].sz, NEW a \in 0 .. b - 1,
         NEW m, NEW r, NEW P2, NEW E, NEW sure, AssignMove(P, m, r, P2, E, g, h, a, b, sure),
         sure, V!Spliced(g, h, a, b)
  PROVE  Told' /\ Defined(r)
  <1>1. /\ m = At(g) /\ Traded(heap, P, vec, hold, unique_id, m, r, P2, g, h)
        /\ Spliced(m, P, r, P2, vec[h], Len(heap), {vec[g].id}, a .. b - 1, sure)
        /\ Store(g, r, E)
    BY DEF AssignMove
  <1>2. Defined(m) /\ m.h = heap /\ m.v = vec[g]
    BY <1>1 DEF At, Defined
  <1>3. /\ Defined(r)
        /\ \A j \in 0 .. vec[g].sz - 1 :
             Cell(r.h, r.v, j) = IF j \in a .. b - 1 THEN Cell(heap, vec[h], j)
                                                     ELSE Cell(heap, vec[g], j)
    BY <1>1, <1>2 DEF Spliced
  <1>4. vec[h].sz = vec[g].sz /\ r.v.sz = vec[g].sz
    BY <1>1, TradedFacts
  <1>5. OtherWords(heap, vec, r.h, g)
    BY <1>1, TradedWords
  <1>. DEFINE x == [k \in DOMAIN val[g] |-> IF k \in (a + 1) .. b THEN val[h][k] ELSE val[g][k]]
  <1>6. V!Become(g, x) /\ SplicedValue(g, h, a, b, x)
    BY DEF V!Spliced, SplicedValue
  <1>. HIDE DEF x
  <1>7. x = Word(r.h, r.v)
    BY <1>3, <1>4, <1>6, SplicedWord
  <1>8. Told'
    BY <1>1, <1>5, <1>6, <1>7, StoreTold
  <1>. QED
    BY <1>3, <1>8

(* What operator[] gives of a vector.                                      *)
LEMMA ContentsIs ==
  ASSUME NEW m, m.v \in Vector
  PROVE  Contents(m) = Word(m.h, m.v)
  <1>. DEFINE v == m.v
              H == m.h
  <1>1. v \in Vector /\ v.sz \in Nat
    BY DEF Vector
  <1>2. ASSUME NEW i \in 1 .. v.sz
        PROVE  Read(m, i - 1) = Cell(H, v, i - 1)
    <2>. DEFINE j == i - 1
    <2>1. j \in Nat
      BY <1>1
    <2>. HIDE DEF j
    <2>2. Read(m, j) = Cell(H, v, j)
      BY <2>1, ReadIs
    <2>. QED
      BY <2>2 DEF j
  <1>. QED
    BY <1>2 DEF Contents, Word

\* the code has stayed in the defined behaviour, unless a range was astray
Proper == ub => Straying

(* The values survive assign: of a range astray, g has what assign left.   *)
LEMMA AssignTold ==
  ASSUME Told, Proper, NEW P, Placed(P), NEW g \in Handle, NEW h \in Handle,
         NEW b \in 1 .. vec[h].sz, NEW a \in 0 .. b - 1, Assign(g, h, a, b)
  PROVE  Told' /\ Proper'
  <1>1. PICK m, r, P2, E, sure : AssignMove(P, m, r, P2, E, g, h, a, b, sure)
    BY AssignTurn
  <1>2. /\ sure = ~Astray(vec[g], a, b) /\ ub' = (ub \/ r.ub) /\ Store(g, r, E)
        /\ Traded(heap, P, vec, hold, unique_id, m, r, P2, g, h)
    BY <1>1 DEF AssignMove, At
  <1>3. CASE ~Astray(vec[g], a, b)
    <2>1. sure /\ V!Spliced(g, h, a, b)
      BY <1>2, <1>3 DEF Assign
    <2>2. Told' /\ Defined(r)
      BY <1>1, <2>1, SpliceTold
    <2>3. Proper'
      BY <1>2, <2>2, Zenon DEF Defined, Proper
    <2>. QED
      BY <2>2, <2>3
  <1>4. CASE Astray(vec[g], a, b)
    <2>. DEFINE q == assign(At(g), vec[h], a, b)
    <2>1. Straying /\ V!Become(g, Contents(q)) /\ heap' = q.h /\ vec' = [vec EXCEPT ![g] = q.v]
      BY <1>4 DEF Assign, Store
    <2>. HIDE DEF q
    <2>2. heap' = r.h /\ vec' = [vec EXCEPT ![g] = r.v] /\ r.v \in Vector
      BY <1>2, TradedFacts DEF Store
    <2>3. q.h = r.h /\ q.v = r.v
      <3>1. vec \in [Handle -> Vector]
        BY AlikeStarts
      <3>2. vec'[g] = q.v
        BY <2>1, <3>1
      <3>3. vec'[g] = r.v
        BY <2>2, <3>1
      <3>. QED
        BY <2>1, <2>2, <3>2, <3>3
    <2>4. Contents(q) = Word(r.h, r.v)
      BY <2>2, <2>3, ContentsIs
    <2>5. OtherWords(heap, vec, r.h, g)
      BY <1>2, TradedWords
    <2>6. Told'
      BY <1>2, <2>1, <2>4, <2>5, StoreTold
    <2>7. Proper'
      BY <2>1 DEF Proper
    <2>. QED
      BY <2>6, <2>7
  <1>. QED
    BY <1>3, <1>4

\* the first values: f counts up to n, the others are empty
FirstTold(A, f, n) == A = [h \in Handle |-> IF h = f THEN [k \in 1 .. n |-> k] ELSE << >>]

(* What the first vectors read as.                                         *)
LEMMA FirstWords ==
  ASSUME NEW b, NEW P, NEW kind \in Kind, NEW id, NEW n \in Nat,
         Grew(b, P, kind, id, n), NEW H2, NEW P2, NEW e, Sown(b.h, P, H2, P2, e, "ps", 0),
         NEW f \in Handle, NEW Vs, NEW D, FirstHeld(Vs, D, f, b.v, e),
         NEW A, FirstTold(A, f, n)
  PROVE  Tells(H2, Vs, A)
  <1>. DEFINE H == b.h
              v == b.v
  <1>1. /\ Fits(b, P) /\ Full(H, v) /\ v.sz = n
        /\ \A j \in 0 .. n - 1 : Cell(H, v, j) = j + 1
    BY DEF Grew
  <1>2. IsHeap(H, P) /\ IsVec(H, P, v) /\ v \in Vector
    BY <1>1, FitsFacts
  <1>3. Lv(v) \in Nat /\ \A j \in 0 .. v.sz - 1 : j \in Room(v)
    <2>1. Lv(v) \in Nat /\ Lv(v) + 1 \in Nat
      BY <1>1, FitsFacts
    <2>2. Width(Lv(v) + 1) \in Nat /\ v.sz \in Nat /\ v.sz <= Width(Lv(v) + 1)
      BY <1>2, <2>1, WidthFacts DEF IsVec, Vector
    <2>. HIDE DEF v
    <2>. QED
      BY <2>1, <2>2 DEF Room
  <1>. HIDE DEF H, v
  <1>4. Sown(H, P, H2, P2, e, "ps", 0)
    BY DEF H
  <1>5. Alive(H, H2, P2, v)
    BY <1>2, <1>4, SownOther
  <1>6. \A j \in Nodes(H, v) : j \in DOMAIN H => H2[j] = H[j]
    BY <1>4 DEF Sown
  <1>7. Word(H2, v) = Word(H, v)
    BY <1>1, <1>2, <1>3, <1>5, <1>6, AliveWord
  <1>8. Word(H, v) = [k \in 1 .. n |-> k]
    <2>1. ASSUME NEW k \in 1 .. n
          PROVE  Cell(H, v, k - 1) = k
      <3>1. k - 1 \in 0 .. n - 1 /\ (k - 1) + 1 = k
        OBVIOUS
      <3>. QED
        BY <1>1, <3>1
    <2>. QED
      BY <1>1, <2>1 DEF Word
  <1>9. Word(H2, e) = << >>
    <2>1. e.sz = 0
      BY <1>4 DEF Sown
    <2>2. 1 .. e.sz = {}
      BY <2>1
    <2>3. Word(H2, e) = [i \in {} |-> Cell(H2, e, i - 1)]
      BY <2>2 DEF Word
    <2>. QED
      BY <2>3
  <1>. DEFINE x == [k \in 1 .. n |-> k]
              y == << >>
  <1>10. A = [h \in Handle |-> IF h = f THEN x ELSE y]
    BY DEF FirstTold
  <1>11. Word(H2, v) = x /\ Word(H2, e) = y
    BY <1>7, <1>8, <1>9
  <1>. HIDE DEF x, y
  <1>12. ASSUME NEW h \in Handle
         PROVE  (IF h = f THEN x ELSE y) = Word(H2, Vs[h])
    <2>1. Vs[h] = IF h = f THEN v ELSE e
      BY DEF FirstHeld, v
    <2>. QED
      BY <1>11, <2>1
  <1>13. A = [h \in Handle |-> Word(H2, Vs[h])]
    BY <1>10, <1>12
  <1>. QED
    BY <1>13 DEF Tells

(* The program starts with the values promised.                            *)
LEMMA InitTold ==
  ASSUME Init
  PROVE  Told /\ Proper
  <1>1. PICK kind \in Kind, n \in InitSizes, f \in Handle :
          LET b == Built(kind, n)
              e == Empty(b.h, "ps", 0)
          IN  /\ heap = e.h
              /\ vec = [h \in Handle |-> IF h = f THEN b.v ELSE e.v]
              /\ unique_id = 2
              /\ hold = [h \in Handle |-> IF h = f THEN "sole" ELSE "shared"]
              /\ base = [h \in Handle |-> h]
              /\ ub = FALSE
              /\ ops = 0
              /\ val = [h \in Handle |-> IF h = f THEN [k \in 1 .. n |-> k] ELSE << >>]
    BY Zenon DEF Init
  <1>. DEFINE id == IF kind = "tr" THEN 1 ELSE 0
              b == Built(kind, n)
  <1>2. n \in Nat
    BY BpVectorAssumption
  <1>3. PICK P : Grew(b, P, kind, id, n)
    <2>1. id = (IF kind = "tr" THEN 1 ELSE 0)
      OBVIOUS
    <2>. HIDE DEF id
    <2>. QED
      BY <1>2, <2>1, BuiltIs
  <1>. DEFINE H2 == Empty(b.h, "ps", 0).h
              P2 == Grafted(P, Len(b.h) + 1, 0, 0)
              e == Empty(b.h, "ps", 0).v
  <1>4. Sown(b.h, P, H2, P2, e, "ps", 0)
    <2>1. IsHeap(b.h, P)
      BY <1>3 DEF Grew, Fits
    <2>2. "ps" \in Kind /\ 0 \in Nat
      BY DEF Kind
    <2>. HIDE DEF b
    <2>. QED
      BY <2>1, <2>2, EmptyIs
  <1>5. /\ heap = H2 /\ vec = [h \in Handle |-> IF h = f THEN b.v ELSE e]
        /\ hold = [h \in Handle |-> IF h = f THEN "sole" ELSE "shared"]
    BY <1>1
  <1>6. FirstTold(val, f, n)
    BY <1>1 DEF FirstTold
  <1>. HIDE DEF H2, P2, e, b, id
  <1>7. FirstHeld(vec, hold, f, b.v, e)
    BY <1>5 DEF FirstHeld
  <1>8. Tells(H2, vec, val)
    BY <1>2, <1>3, <1>4, <1>6, <1>7, FirstWords
  <1>9. Told
    BY <1>5, <1>8 DEF Told
  <1>10. Proper
    BY DEF Init, Proper
  <1>. QED
    BY <1>9, <1>10

-----------------------------------------------------------------------------
(* The values survive every step. *)
LEMMA NextTold ==
  ASSUME EmptyShared = FALSE, Valid, Told, Proper, [Next]_vars
  PROVE  Told' /\ Proper'
  <1>1. PICK P : Placed(P)
    BY DEF Valid
  <1>2. ASSUME NEW g \in Handle, NEW kind \in Kind, New(g, kind)
        PROVE  Told' /\ Proper'
    <2>1. Told'
      BY <1>1, <1>2, NewTold
    <2>2. Proper'
      BY <1>2 DEF New, Proper
    <2>. QED
      BY <2>1, <2>2
  <1>3. ASSUME NEW g \in Handle, NEW h \in Handle, Copy(g, h)
        PROVE  Told' /\ Proper'
    <2>1. Told'
      BY <1>1, <1>3, CopyTold
    <2>2. Proper'
      BY <1>3 DEF Copy, Proper
    <2>. QED
      BY <2>1, <2>2
  <1>4. ASSUME NEW g \in Handle, NEW h \in Handle, NewId(g, h)
        PROVE  Told' /\ Proper'
    <2>1. Told'
      BY <1>1, <1>4, NewIdTold
    <2>2. Proper'
      BY <1>4 DEF NewId, Proper
    <2>. QED
      BY <2>1, <2>2
  <1>5. ASSUME NEW g \in Handle, NEW h \in Handle, MakePersistent(g, h)
        PROVE  Told' /\ Proper'
    <2>1. Told'
      BY <1>1, <1>5, MakePersistentTold
    <2>2. Proper'
      BY <1>5 DEF MakePersistent, Proper
    <2>. QED
      BY <2>1, <2>2
  <1>6. ASSUME NEW g \in Handle, NEW h \in Handle, Freeze(g, h)
        PROVE  Told' /\ Proper'
    <2>1. Told'
      BY <1>1, <1>6, FreezeTold
    <2>2. Proper'
      BY <1>6 DEF Freeze, Proper
    <2>. QED
      BY <2>1, <2>2
  <1>7. ASSUME NEW g \in Handle, NEW h \in Handle, PushBack(g, h)
        PROVE  Told' /\ Proper'
    <2>1. Told'
      BY <1>1, <1>7, PushBackTold
    <2>2. Proper'
      BY <1>7 DEF PushBack, Proper
    <2>. QED
      BY <2>1, <2>2
  <1>8. ASSUME NEW g \in Handle, NEW h \in Handle, NEW i \in 0 .. vec[h].sz - 1, Set(g, h, i)
        PROVE  Told' /\ Proper'
    <2>. DEFINE r == Write(At(h), i, X, node_keep(vec[h]))
                E == Together(g, h)
    <2>1. Store(g, r, E) /\ unique_id' = unique_id /\ V!Updated(g, h, i, X)
          /\ (vec[h].kind = "ps" \/ (g = h /\ hold[h] = "sole"))
      BY <1>8 DEF Set, set, At
    <2>2. hold \in [Handle -> {"sole", "tip", "shared"}]
      BY <1>1, AlikeStarts
    <2>3. Passed(vec, hold, E, g, h)
      BY <2>2, TogetherPassed
    <2>4. r = Write(At(h), i, X, node_keep(vec[h]))
      OBVIOUS
    <2>. HIDE DEF r, E
    <2>5. Told'
      BY <1>1, <2>1, <2>3, <2>4, SetTold
    <2>6. Proper'
      BY <1>8 DEF Set, Proper
    <2>. QED
      BY <2>5, <2>6
  <1>9. ASSUME NEW h \in Handle, NEW i \in 0 .. vec[h].sz - 1, MutSet(h, i)
        PROVE  Told' /\ Proper'
    <2>. DEFINE r == Write(At(h), i, X, node_keep(vec[h]))
                E == hold
    <2>1. Store(h, r, E) /\ unique_id' = unique_id /\ hold[h] = "sole" /\ V!Updated(h, h, i, X)
      BY <1>9 DEF MutSet, mut_set, At
    <2>2. hold \in [Handle -> {"sole", "tip", "shared"}]
      BY <1>1, AlikeStarts
    <2>3. Passed(vec, hold, E, h, h)
      BY <2>2, HoldPassed
    <2>4. r = Write(At(h), i, X, node_keep(vec[h]))
      OBVIOUS
    <2>. HIDE DEF r, E
    <2>5. Told'
      BY <1>1, <2>1, <2>3, <2>4, SetTold
    <2>6. Proper'
      BY <1>9 DEF MutSet, Proper
    <2>. QED
      BY <2>5, <2>6
  <1>10. ASSUME NEW g \in Handle, NEW h \in Handle, NEW b \in 1 .. vec[h].sz,
                NEW a \in 0 .. b - 1, Assign(g, h, a, b)
         PROVE  Told' /\ Proper'
    BY <1>1, <1>10, AssignTold
  <1>11. ASSUME NEW h \in Handle, NEW junk \in {0, -1}, MutPushBack(h, junk)
         PROVE  Told' /\ Proper'
    <2>1. Told'
      BY <1>1, <1>11, MutPushBackTold
    <2>2. Proper'
      BY <1>11 DEF MutPushBack, Proper
    <2>. QED
      BY <2>1, <2>2
  <1>12. ASSUME NEW h \in Handle, NEW b \in 0 .. vec[h].sz, NEW a \in 0 .. b, ForEach(h, a, b)
         PROVE  Told' /\ Proper'
    <2>1. Told'
      BY <1>1, <1>12, ForEachTold
    <2>2. Proper'
      BY <1>12 DEF ForEach, Proper
    <2>. QED
      BY <2>1, <2>2
  <1>13. CASE UNCHANGED vars
    BY <1>13 DEF Told, Proper, vars
  <1>14. CASE Stop
    BY <1>13, <1>14 DEF Stop
  <1>. QED
    BY <1>2, <1>3, <1>4, <1>5, <1>6, <1>7, <1>8, <1>9, <1>10, <1>11, <1>12, <1>13, <1>14
       DEF Next

(* What operator[] gives is the value. *)
LEMMA ToldReads ==
  ASSUME Valid, Told, Proper
  PROVE  ReadsBack
  <1>1. PICK P : Placed(P)
    BY DEF Valid
  <1>2. ASSUME NEW h \in Handle
        PROVE  Contents(At(h)) = val[h]
    <2>1. vec[h] \in Vector
      BY <1>1, AlikeStarts
    <2>2. At(h).h = heap /\ At(h).v = vec[h]
      BY DEF At
    <2>3. Contents(At(h)) = Word(heap, vec[h])
      BY <2>1, <2>2, ContentsIs
    <2>4. val[h] = Word(heap, vec[h])
      BY <1>1, ToldWord
    <2>. QED
      BY <2>3, <2>4
  <1>3. ub => Straying
    BY DEF Proper
  <1>. QED
    BY <1>2, <1>3 DEF ReadsBack

(***************************************************************************)
(* Every vector reads as the value its own operations gave it, however     *)
(* many variables share its nodes: assign gives exactly the elements of    *)
(* its range and stays in defined behaviour, whatever the range unless it  *)
(* is astray (it ends at the capacity of a trie of three levels or more    *)
(* and begins in its first subtree, or is the whole of a single leaf). Of  *)
(* a range astray nothing is promised but that no other variable changes,  *)
(* as long as the behaviour is defined. The programs push nothing to an    *)
(* empty transient whose root is not its own (EmptyShared).                *)
(***************************************************************************)
THEOREM ReadsCorrect ==
  ASSUME EmptyShared = FALSE
  PROVE  Spec => []ReadsBack
  <1>. DEFINE Inv == Valid /\ Told /\ Proper
  <1>1. Init => Inv
    BY InitValid, InitTold
  <1>2. Inv /\ [Next]_vars => Inv'
    BY NextValid, NextTold
  <1>3. Inv => ReadsBack
    BY ToldReads
  <1>. QED
    BY <1>1, <1>2, <1>3, PTL DEF Spec

=============================================================================
