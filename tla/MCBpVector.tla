----------------------------- MODULE MCBpVector -----------------------------
(***************************************************************************)
(* Instances of BpVector for TLC: any program over a few interchangeable   *)
(* variables, and the program cont_vector runs on larger vectors.          *)
(***************************************************************************)
EXTENDS BpVector, TLC

HandleSymmetry == Permutations(Handle)

CONSTANTS src, orig, splt, dep

(* What cont_vector makes of the tries when a vector that a reduction has
   already frozen is still being filled: dep starts as a copy of src, its
   _orig is taken, and splinters of src, each written by a kernel on its own
   range, are assigned into it. *)
ReattachNext ==
    \/ ops = 0 /\ NewId(dep, src)
    \/ ops = 1 /\ Freeze(orig, dep)
    \/ ops \in {2, 5} /\ NewId(splt, src)
    \/ \E b \in 1..vec[src].sz :
       \E a \in {k \in 0..(b-1) : Straying \/ ~Astray(vec[src], k, b)} :
        \/ ops \in {3, 6} /\ ForEach(splt, a, b)
        \/ /\ ops \in {4, 7}
           /\ \A k \in 1..vec[splt].sz : (val[splt][k] = 99 + ops) <=> k \in (a+1)..b
           /\ Assign(dep, splt, a, b)
    \/ Stop

ReattachInit == Init /\ hold[src] = "sole" /\ vec[src].kind = "tr"

ReattachSpec == ReattachInit /\ [][ReattachNext]_vars
=============================================================================
