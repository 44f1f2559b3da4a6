------------------------------ MODULE Lifetimes ------------------------------
(***************************************************************************)
(* cont_vector objects in memory.  A source refers to its dependents by    *)
(* address: tracker maps the address of a dependent to the index maps and  *)
(* operations that lead to it, and an entry is never erased.  Tasks and    *)
(* resolutions refer to source and dependent by reference; the destructor  *)
(* waits for the latch of the vector and frees it.                         *)
(*                                                                         *)
(* Vector 0 is the client's input, vector k the dependent of operation k.  *)
(* What the operations compute is ContVector's business.                   *)
(***************************************************************************)
EXTENDS Executor, Mapping, Sequences

CONSTANT Addr          \* where the allocator may place a vector

ASSUME AddrAssumption == Addr # {}

Kind == {"reduce", "foreach", "foreach_cvec", "stencil"}

VARIABLES
  live,      \* vectors constructed and not destroyed
  at,        \* at[v]: the address of vector v
  made,      \* made[k]: kind, source and other argument of operation k
  tracker    \* tracker[v][a]: what vector v keeps for a dependent at a

lifeVars == <<live, at, made, tracker>>

Vector == 0 .. MaxOps

\* an entry: its imaps with their operations, and the frozen vectors
Entry(imaps, frozen) == [imaps |-> imaps, frozen |-> frozen]
Fresh(imap, op) == Entry(<<[imap |-> imap, op |-> op]>>, <<>>)

Untracked == [a \in {} |-> Fresh(identity, "plus")]

Init ==
  /\ \E a \in Addr : at = [v \in {0} |-> a]
  /\ live = {0}
  /\ made = <<>>
  /\ tracker = [v \in {0} |-> Untracked]
  /\ ExecutorInit

-----------------------------------------------------------------------------
\* mutant: an entry that is there gets one more map, as in the second freeze
EmplacedAppend(t, a, imap, op) ==
  [x \in DOMAIN t \cup {a} |->
     IF x # a THEN t[x]
     ELSE IF a \notin DOMAIN t THEN Fresh(imap, op)
     ELSE Entry(Append(t[a].imaps, [imap |-> imap, op |-> op]), t[a].frozen)]

\* tracker.emplace(a, imap, op): an entry that is there already stays
Emplaced(t, a, imap, op) ==
  IF a \in DOMAIN t THEN t
  ELSE [x \in DOMAIN t \cup {a} |-> IF x = a THEN Fresh(imap, op) ELSE t[x]]

\* the second freeze, of `this' towards the dependent at a of `cont'
FrozenTwice(t, this, cont, a, imap, op) ==
  LET e == t[this][a]
      u == [t EXCEPT ![this] = Emplaced(@, a, imap, op)]
      f == u[cont][a]
  IN  IF a \in DOMAIN t[this]
      THEN [t EXCEPT ![this][a] = Entry(Append(e.imaps, [imap |-> imap, op |-> op]), e.frozen)]
      ELSE [u EXCEPT ![cont][a] = Entry(f.imaps, Append(f.frozen, this))]

\* the trackers after the calls of freeze that an operation makes
Frozen(t, m, a) ==
  LET once(imap, op) == [t EXCEPT ![m.src] = Emplaced(@, a, imap, op)]
      offs(u, o) == FrozenTwice(u, m.src, m.src, a, offset(o), <<"multplus", o>>)
  IN  CASE m.kind = "reduce" -> once(alltoone(0), "plus")
        [] m.kind = "foreach" -> once(identity, "mult")
        [] m.kind = "foreach_cvec" ->
             FrozenTwice(once(identity, "mult"), m.other, m.src, a, identity, "mult")
        [] m.kind = "stencil" ->
             offs(offs(offs(once(identity, "plus"), -1), 0), 1)

\* reduce, foreach and stencil: construct the dependent at a, freeze, submit
Operate(m, a) ==
  LET k == issued + 1
  IN  /\ {m.src, m.other} \subseteq live
      /\ a \notin {at[v] : v \in live}
      /\ Issue
      /\ live' = live \cup {k}
      /\ at' = [v \in 0 .. k |-> IF v = k THEN a ELSE at[v]]
      /\ made' = Append(made, m)
      /\ tracker' = Frozen([v \in 0 .. k |-> IF v = k THEN Untracked ELSE tracker[v]],
                           m, a)

\* ~cont_vector: waits for the latch of v, then v is gone
Destroy(v) ==
  /\ v \in live
  /\ v > 0 => \A p \in Worker : tdone[p] >= v
  /\ live' = live \ {v}
  /\ UNCHANGED <<at, made, tracker, executorVars>>

\* whose resolve runs when that of v towards a does: it calls that of each
\* vector frozen in its entry
FrozenIn(t, v, a) ==
  IF a \in DOMAIN t[v]
  THEN {t[v][a].frozen[i] : i \in DOMAIN t[v][a].frozen} ELSE {}
Closed(t, a, S)   == \A v \in S : FrozenIn(t, v, a) \subseteq S
Resolvers(t, v, a) ==
  {w \in DOMAIN t :
     \A S \in SUBSET DOMAIN t : v \in S /\ Closed(t, a, S) => w \in S}

\* the trackers t after resolve of v towards a: it erases what is frozen
Thawed(t, v, a) ==
  IF FrozenIn(t, v, a) = {} THEN t
  ELSE [w \in DOMAIN t |->
          IF w \in Resolvers(t, v, a) /\ a \in DOMAIN t[w]
          THEN [t[w] EXCEPT ![a] = Entry(@.imaps, <<>>)] ELSE t[w]]

\* the workers, and the client's finish(): Executor
Resolve(k) ==
  /\ ResolveStart(k)
  /\ tracker' = Thawed(tracker, made[k].src, at[k])
  /\ UNCHANGED <<live, at, made>>

Work ==
  \/ ((\E p \in Worker : RunTask(p)) \/ ResolveEnd) /\ UNCHANGED lifeVars
  \/ \E k \in Op : Resolve(k)

Finish == FinishReturn /\ UNCHANGED lifeVars

-----------------------------------------------------------------------------
\* operations of which a task or the resolution is still to come or running
Pending ==
  {k \in 1 .. issued : \/ \E p \in Worker : tdone[p] < k
                       \/ rruns[k] = 0
                       \/ resolving = k}

Arguments(k) == {made[k].src, made[k].other}

(***************************************************************************)
(* Whatever a task or a resolution still refers to has not been destroyed. *)
(***************************************************************************)
NoneDangling == \A k \in Pending : {k} \cup Arguments(k) \subseteq live

\* the entry an operation needs
Wanted(m) ==
  LET is(imap, op) == [imap |-> imap, op |-> op]
  IN  CASE m.kind = "reduce"       -> Entry(<<is(alltoone(0), "plus")>>, <<>>)
        [] m.kind = "foreach"      -> Entry(<<is(identity, "mult")>>, <<>>)
        [] m.kind = "foreach_cvec" -> Entry(<<is(identity, "mult")>>, <<m.other>>)
        [] m.kind = "stencil"      ->
             Entry(<<is(identity, "plus")>> \o
                   [i \in 1 .. 3 |-> is(offset(i - 2), <<"multplus", i - 2>>)], <<>>)

\* earlier operations on vectors of k whose dependents were where k's is now
Before(k) ==
  {j \in 1 .. k - 1 : at[j] = at[k] /\ Arguments(j) \cap Arguments(k) # {}}

(***************************************************************************)
(* Until its resolution an operation finds in the tracker exactly the maps *)
(* and operations it was made with, if those who left an entry for its     *)
(* address were reduces, or foreachs, like itself.  A stencil finds them   *)
(* only if there were none: otherwise it has added its maps to the maps of *)
(* a dependent that is gone, and its differences are counted twice.        *)
(***************************************************************************)
TrackerFits ==
  \A k \in live \ {0} : rruns[k] = 0 =>
    LET kinds == {made[j].kind : j \in Before(k)}
        fits  == tracker[made[k].src][at[k]] = Wanted(made[k])
    IN  /\ kinds \subseteq {made[k].kind} \cap {"reduce", "foreach"} => fits
        /\ made[k].kind = "stencil" /\ fits => kinds = {}
=============================================================================
