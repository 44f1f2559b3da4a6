---------------------------- MODULE MCContTrie ----------------------------
(* Instances of ContTrie for TLC: client programs and an input vector. *)
EXTENDS ContTrie

Stencil(v)        == [kind |-> "stencil", src |-> v, s |-> 1]
Foreach(v, x)     == [kind |-> "foreach", src |-> v, val |-> x]
ForeachCvec(v, w) == [kind |-> "foreach_cvec", src |-> v, other |-> w]
Reduce(v)         == [kind |-> "reduce", src |-> v]

MCPrograms == {
  <<Foreach(0, 2), Foreach(1, 3), Foreach(2, 5)>>,
  <<Foreach(0, 2), ForeachCvec(1, 0), Reduce(2)>>,
  <<Foreach(0, 2), Stencil(1), Reduce(2)>> }

\* values of an input vector of six elements: the partitions share a leaf
MCInit6 == [i \in 0 .. 5 |-> <<1, 5, 2, 11, 7, 3>>[i + 1]]

=============================================================================
