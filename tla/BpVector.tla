------------------------------- MODULE BpVector -------------------------------
(***************************************************************************)
(* A program that uses ps_vector, tr_vector and bp_vector variables in any *)
(* order. The vectors are tries (Trie) that share nodes; a transient       *)
(* writes a node in place when the node bears its id and copies it         *)
(* otherwise. `val' runs the abstract vectors (Vectors) in lockstep.       *)
(*                                                                         *)
(* A transient that was copied, made persistent or given away no longer    *)
(* owns its nodes alone, and the classes leave it to their users how to    *)
(* write it until it has a new id. `hold' records that discipline: h is    *)
(* "sole" while nothing was derived from it since it got its id; "tip"     *)
(* when it may still grow, as nothing else grew from the same nodes;       *)
(* "shared" when it may only be read.                                      *)
(***************************************************************************)
EXTENDS Trie

CONSTANTS Handle,       \* the vector variables of the program
          MaxOps,       \* bound on the operations after the initial ones
          InitSizes,    \* sizes of the first vector
          EmptyShared,  \* TRUE: transients taken from an empty vector are pushed to
          Straying      \* TRUE: ranges assigned may be Astray

ASSUME BpVectorAssumption ==
    /\ Handle # {}
    /\ MaxOps \in Nat /\ InitSizes \subseteq Nat
    /\ EmptyShared \in BOOLEAN /\ Straying \in BOOLEAN

VARIABLES
    heap,   \* the nodes
    vec,    \* the vector of each variable
    unique_id,
    hold,   \* who may be written in place
    base,   \* base[g] = h # g: g is the _orig of h (cont_vector::freeze)
    ub,     \* the code has left the defined behaviour
    ops,    \* operations so far
    val     \* the promised values

vars == <<heap, vec, unique_id, hold, base, ub, ops, val>>

Value == Nat
V == INSTANCE Vectors

\* what the operations of Trie take for the variable h
At(h) == [h |-> heap, v |-> vec[h], ub |-> FALSE]

\* the element the next operation writes
X == 100 + ops

-----------------------------------------------------------------------------
\* a first vector built by n pushes
Built(kind, n) ==
    LET b[k \in 0..n] ==
            IF k = 0 THEN Empty(<<>>, kind, IF kind = "tr" THEN 1 ELSE 0)
            ELSE IF kind = "ps" THEN push_back(b[k-1], k)
            ELSE mut_push_back(b[k-1], k, IF kind = "tr" THEN 1 ELSE 0)
    IN  b[n]

\* one variable holds it, the others copies of an empty persistent vector
Init ==
    \E kind \in Kind, n \in InitSizes, first \in Handle :
        LET b == Built(kind, n)
            e == Empty(b.h, "ps", 0)
        IN  /\ heap = e.h
            /\ vec = [h \in Handle |-> IF h = first THEN b.v ELSE e.v]
            /\ unique_id = 2
            /\ hold = [h \in Handle |-> IF h = first THEN "sole" ELSE "shared"]
            /\ base = [h \in Handle |-> h]
            /\ ub = FALSE
            /\ ops = 0
            /\ val = [h \in Handle |-> IF h = first THEN [k \in 1..n |-> k] ELSE <<>>]

\* g is no longer anybody's _orig, nor is one kept for it
Forget(b, g) == [k \in Handle |-> IF k = g \/ b[k] = g THEN k ELSE b[k]]

\* the variable g becomes r.v; E says who may be written from now on
Store(g, r, E) ==
    /\ ops < MaxOps
    /\ ops' = ops + 1
    /\ heap' = r.h
    /\ vec' = [vec EXCEPT ![g] = r.v]
    /\ hold' = E

\* nothing else shares under g's id now
Alone(g) == [hold EXCEPT ![g] = "sole"]
\* g and h share under the same id, unless they are one variable
Together(g, h) ==
    IF g = h THEN hold ELSE [hold EXCEPT ![g] = "shared", ![h] = "shared"]
\* h grew into g
Grown(g, h) == [Together(g, h) EXCEPT ![g] = IF g = h THEN @ ELSE "tip"]
\* g, which gets the hold x, shares the first elements of h
Apart(g, h, x) ==
    [hold EXCEPT ![h] = IF @ = "shared" THEN @ ELSE "tip", ![g] = x]

\* default construction
New(g, kind) ==
    LET id == IF kind = "tr" THEN unique_id ELSE 0
    IN  /\ Store(g, Empty(heap, kind, id), Alone(g))
        /\ unique_id' = IF kind = "tr" THEN unique_id + 1 ELSE unique_id
        /\ base' = Forget(base, g)
        /\ V!Emptied(g)
        /\ UNCHANGED ub

\* copy construction and assignment: the id is copied too
Copy(g, h) ==
    /\ g # h
    /\ Store(g, At(h), Together(g, h))
    /\ base' = Forget(base, g)
    /\ V!Taken(g, h)
    /\ UNCHANGED <<unique_id, ub>>

\* mutant: the result keeps the id it was copied with
NewIdSame(g, h) ==
    /\ vec[h].kind \in {"tr", "ps"}
    /\ Store(g, [At(h) EXCEPT !.v.kind = "tr"], Apart(g, h, "sole"))
    /\ base' = Forget(base, g)
    /\ V!Taken(g, h)
    /\ UNCHANGED <<unique_id, ub>>

\* tr_vector::new_id, and make_transient of a ps_vector
NewId(g, h) ==
    /\ vec[h].kind \in {"tr", "ps"}
    /\ Store(g, [At(h) EXCEPT !.v.kind = "tr", !.v.id = unique_id], Apart(g, h, "sole"))
    /\ unique_id' = unique_id + 1
    /\ base' = Forget(base, g)
    /\ V!Taken(g, h)
    /\ UNCHANGED ub

\* tr_vector::make_persistent: the transient keeps its id
MakePersistent(g, h) ==
    /\ vec[h].kind = "tr"
    /\ Store(g, [At(h) EXCEPT !.v.kind = "ps", !.v.id = 0], Apart(g, h, "shared"))
    /\ base' = Forget(base, g)
    /\ V!Taken(g, h)
    /\ UNCHANGED <<unique_id, ub>>

\* cont_vector::freeze and detach: g = h; h = h.new_id(), under h's lock
Freeze(g, h) ==
    /\ g # h /\ vec[h].kind = "tr"
    /\ ops < MaxOps /\ ops' = ops + 1
    /\ vec' = [vec EXCEPT ![g] = vec[h], ![h].id = unique_id]
    /\ hold' = [hold EXCEPT ![g] = "shared", ![h] = "sole"]
    /\ unique_id' = unique_id + 1
    /\ base' = [Forget(base, g) EXCEPT ![g] = h]
    /\ V!Taken(g, h)
    /\ UNCHANGED <<heap, ub>>

-----------------------------------------------------------------------------
\* g = h.set(i, x). A persistent vector may be set at any time and leaves h as
\* it was; the other two write h's own nodes, so the result replaces h.
Set(g, h, i) ==
    /\ vec[h].kind = "ps" \/ (g = h /\ hold[h] = "sole")
    /\ Store(g, set(At(h), i, X), Together(g, h))
    /\ base' = IF vec[h].kind = "tr" THEN base ELSE Forget(base, g)
    /\ V!Updated(g, h, i, X)
    /\ UNCHANGED <<unique_id, ub>>

\* g = h.push_back(x). The element goes past h's end, so that h keeps its
\* value even if it shares the leaf.
PushBack(g, h) ==
    /\ vec[h].kind = "ps" \/ hold[h] # "shared"
    /\ Store(g, push_back(At(h), X),
             IF vec[h].kind = "ps" THEN Together(g, h) ELSE Grown(g, h))
    /\ base' = Forget(base, g)
    /\ V!Pushed(g, h, X)
    /\ UNCHANGED <<unique_id, ub>>

MutSet(h, i) ==
    /\ vec[h].kind # "ps" /\ hold[h] = "sole"
    /\ Store(h, mut_set(At(h), i, X), hold)
    /\ V!Updated(h, h, i, X)
    /\ UNCHANGED <<unique_id, base, ub>>

\* A bp_vector constructs its nodes without an id: whatever the memory held,
\* which equals the 0 it is compared with or does not.
MutPushBack(h, junk) ==
    /\ vec[h].kind # "ps" /\ hold[h] # "shared"
    /\ EmptyShared \/ heap[vec[h].root].id = vec[h].id \/ vec[h].sz > 0
    /\ Store(h, mut_push_back(At(h), X,
                              IF vec[h].kind = "bp" THEN junk ELSE vec[h].id), hold)
    /\ base' = Forget(base, h)
    /\ V!Pushed(h, h, X)
    /\ UNCHANGED <<unique_id, ub>>

\* a kernel's loop over [a, b) with a mutable iterator
ForEach(h, a, b) ==
    /\ hold[h] = "sole"
    /\ Store(h, Each(At(h), a, b, [i \in Nat |-> X]), hold)
    /\ V!Filled(h, a, b, X)
    /\ UNCHANGED <<unique_id, base, ub>>

\* A range that assign need not copy right. The path to its end, when that is
\* the capacity, is followed as the path to 0: it should part from the path to
\* a at the root, and does not if a lies in the first of the root's subtrees of
\* subtrees, or if the root is a leaf.
Astray(v, a, b) ==
    /\ b = capacity(v) /\ b - a >= BP_WIDTH
    /\ v.shift = 0 \/ (v.shift > BP_BITS /\ Digit(a, v.shift) = 0)

\* g.assign(h, a, b) between transients of one size and shape; afterwards g
\* shares h's nodes. Of a range astray g may get any elements.
Assign(g, h, a, b) ==
    LET r == assign(At(g), vec[h], a, b)
    IN  /\ g # h /\ hold[g] = "sole"
        /\ vec[g].kind = "tr" /\ vec[h].kind = "tr"
        /\ vec[g].sz = vec[h].sz /\ vec[g].shift = vec[h].shift
        /\ \/ ~Astray(vec[g], a, b) /\ V!Spliced(g, h, a, b)
           \/ Straying /\ Astray(vec[g], a, b) /\ V!Become(g, Contents(r))
        /\ Store(g, r, [hold EXCEPT ![h] = "shared"])
        /\ ub' = (ub \/ r.ub)
        /\ UNCHANGED <<unique_id, base>>

\* no operation is left: the program stops
Stop == ops = MaxOps /\ UNCHANGED vars

Next ==
    \/ \E g \in Handle, kind \in Kind : New(g, kind)
    \/ \E g, h \in Handle :
        \/ Copy(g, h)
        \/ NewId(g, h)
        \/ MakePersistent(g, h)
        \/ Freeze(g, h)
        \/ PushBack(g, h)
        \/ \E i \in 0..(vec[h].sz - 1) : Set(g, h, i)
        \/ \E b \in 1..vec[h].sz : \E a \in 0..(b-1) : Assign(g, h, a, b)
    \/ \E h \in Handle :
        \/ \E junk \in {0, -1} : MutPushBack(h, junk)
        \/ \E i \in 0..(vec[h].sz - 1) : MutSet(h, i)
        \/ \E b \in 0..vec[h].sz : \E a \in 0..b : ForEach(h, a, b)
    \/ Stop

Spec == Init /\ [][Next]_vars

-----------------------------------------------------------------------------
(* Properties *)

\* the nodes a vector reaches
Reaches(h) ==
    {Walk(heap, vec[h], i, d) : i \in 0..(capacity(vec[h]) - 1),
                                d \in 0..(calc_depth(vec[h]) - 1)} \ {Null}

\* Every vector is a trie of the depth its shift says, with branches above and
\* leaves below, and a path to every element.
TypeOK ==
    /\ \A h \in Handle :
        /\ vec[h] \in Vector
        /\ vec[h].sz <= capacity(vec[h])
        /\ \A i \in 0..(vec[h].sz - 1), d \in 0..(calc_depth(vec[h]) - 1) :
            LET n == Walk(heap, vec[h], i, d)
            IN  /\ n \in DOMAIN heap
                /\ heap[n].type = IF d = calc_depth(vec[h]) - 1
                                  THEN "leaves" ELSE "branches"
    /\ \A n \in DOMAIN heap : heap[n] \in Node /\ heap[n].id < unique_id

\* Reading any vector gives the value its own operations gave it: no write
\* through one variable shows in another, and assign copies exactly the range,
\* in defined behaviour. Of a range astray only this is promised, that assign
\* changes no other variable if the behaviour is defined.
ReadsBack ==
    /\ ub => Straying
    /\ ~ub => \A h \in Handle : Contents(At(h)) = val[h]

\* A transient that may be written is the only one to reach the nodes that
\* bear its id: its in-place writes are invisible elsewhere.
SoleOwner ==
    \A h \in Handle : hold[h] = "sole" /\ vec[h].kind = "tr" =>
        \A g \in Handle \ {h} : \A n \in Reaches(g) : heap[n].id # vec[h].id

\* every node of h was written by a transient: those of persistent vectors all
\* bear the id 0, whichever version they are of
Identified(h) == \A n \in Reaches(h) : heap[n].id # 0

\* Stepping with next_diff_ids from 0, as resolve does, visits every element
\* in which a vector differs from the _orig taken of it. The ids tell versions
\* apart as far as transients wrote them, as they do all of a cont_vector's.
DiffComplete ==
    \A g \in Handle : base[g] # g /\ Identified(g) /\ Identified(base[g]) =>
        {i \in 0..(vec[g].sz - 1) :
            Read(At(g), i) # Read(At(base[g]), i)}
        \subseteq DiffVisited(heap, vec[g], vec[base[g]])
=============================================================================
