--------------------------- MODULE MCContVector ---------------------------
(* Instances of ContVector for TLC: client programs and input vectors. *)
EXTENDS ContVector

Stencil(v)        == [kind |-> "stencil", src |-> v, s |-> 1]
Foreach(v, x)     == [kind |-> "foreach", src |-> v, val |-> x]
ForeachCvec(v, w) == [kind |-> "foreach_cvec", src |-> v, other |-> w]
Reduce(v)         == [kind |-> "reduce", src |-> v]

MCPrograms == {
  <<Stencil(0), Stencil(1), Stencil(2)>>,
  <<Stencil(0), Stencil(1), Reduce(2)>>,
  <<Stencil(0), Stencil(1), Foreach(2, 3)>>,
  <<Stencil(0), Stencil(1), Stencil(1)>>,
  <<Foreach(0, 2), Stencil(1), Stencil(2)>>,
  <<Foreach(0, 2), ForeachCvec(1, 0), Reduce(2)>>,
  <<Reduce(0), Stencil(0), Reduce(2)>> }

\* values of an input vector of six elements
MCInit6 == [i \in 0 .. 5 |-> <<1, 5, 2, 11, 7, 3>>[i + 1]]

\* two stencils: enough for one resolution to have something to repair
MCTwo == {<<Stencil(0), Stencil(1)>>}

=============================================================================
