------------------------------- MODULE Vectors -------------------------------
(***************************************************************************)
(* What the vector classes promise: a variable holds a value, a sequence,  *)
(* and an operation gives one variable a new value computed from the old   *)
(* ones. No operation changes any other variable, whatever they share.     *)
(***************************************************************************)
EXTENDS Integers, Sequences

CONSTANTS Handle,   \* the program's vector variables
          Value     \* the elements written

VARIABLE val        \* the value of each variable

Become(g, s) == val' = [val EXCEPT ![g] = s]

\* g = vector(): default construction
Emptied(g) == Become(g, <<>>)

\* g = h, h.new_id(), h.make_transient() or h.make_persistent()
Taken(g, h) == Become(g, val[h])

\* g = h.push_back(x), or h.mut_push_back(x) with g = h
Pushed(g, h, x) == Become(g, Append(val[h], x))

\* g = h.set(i, x), or h.mut_set(i, x) with g = h
Updated(g, h, i, x) == Become(g, [val[h] EXCEPT ![i + 1] = x])

\* a kernel writes x to the elements a..b-1 of g through an iterator
Filled(g, a, b, x) ==
    Become(g, [k \in DOMAIN val[g] |-> IF k \in (a + 1)..b THEN x ELSE val[g][k]])

\* g.assign(h, a, b)
Spliced(g, h, a, b) ==
    Become(g, [k \in DOMAIN val[g] |-> IF k \in (a + 1)..b THEN val[h][k] ELSE val[g][k]])
=============================================================================
