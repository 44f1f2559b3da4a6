------------------------------- MODULE Clients -------------------------------
(***************************************************************************)
(* Programs that create and drop vectors.  One is cont_heat, which the     *)
(* tests and measurements run: a chain of stencils whose last t_store      *)
(* vectors are kept in a ring.  Storing one drops the vector that was      *)
(* there t_store steps before, and finish() is called only once in         *)
(* t_store - 1 steps.                                                      *)
(*                                                                         *)
(* The other makes and drops vectors in any order, and operates again on   *)
(* those whose dependents it has dropped.  Like the remaining clients in   *)
(* the tests it is careful: it calls finish() before it drops a vector.    *)
(***************************************************************************)
EXTENDS Lifetimes

CONSTANTS t_store,    \* size of the ring, 513 in the code
          FreeOps,    \* bound: operations of the program without a ring
          Careful     \* FALSE: drops vectors when it likes

ASSUME TStoreAssumption == t_store \in Nat \ {0, 1, 2}
ASSUME FreeAssumption == FreeOps \in 0 .. MaxOps /\ Careful \in BOOLEAN

VARIABLES
  pc,       \* where cont_heat is: "stencil", "store", "finish" or "return";
            \* "free" in the other program
  grid      \* grid[i]: the vector in slot i, -1 if none

vars == <<lifeVars, executorVars, pc, grid>>

ClientInit ==
  /\ Init
  /\ pc \in {"stencil", "free"}
  /\ grid = [i \in 0 .. t_store - 1 |-> IF i = 0 THEN 0 ELSE -1]

\* grid[iprev]->stencil(...)
Stencil ==
  LET s == grid[issued % t_store]
  IN  /\ pc = "stencil"
      /\ issued < MaxOps
      /\ \E a \in Addr : Operate([kind |-> "stencil", src |-> s, other |-> s], a)
      /\ pc' = "store"
      /\ UNCHANGED grid

\* mutant: finish() is called once in t_store steps
FinishDueLate(t) == t % t_store = t_store - 1

FinishDue(t) == t % (t_store - 1) = t_store - 2

\* grid[icurr] = ...: the pointer that was there is released
Store ==
  LET i == issued % t_store
  IN  /\ pc = "store"
      /\ IF grid[i] = -1 THEN UNCHANGED <<lifeVars, executorVars>> ELSE Destroy(grid[i])
      /\ grid' = [grid EXCEPT ![i] = issued]
      /\ pc' = IF FinishDue(issued) THEN "finish" ELSE "stencil"

Wait ==
  /\ \/ pc = "finish" /\ pc' = "stencil"
     \/ pc = "stencil" /\ issued = MaxOps /\ pc' = "return"
  /\ Finish
  /\ UNCHANGED grid

\* the ring goes out of scope, but for the result
Return ==
  /\ pc = "return"
  /\ \E v \in live \ {issued} : Destroy(v)
  /\ UNCHANGED <<pc, grid>>

-----------------------------------------------------------------------------
\* any operation on vectors other than the results of a reduce
FreeOperate ==
  LET usable == {v \in live : v > 0 => made[v].kind # "reduce"}
  IN  /\ pc = "free"
      /\ issued < FreeOps
      /\ \E kind \in Kind, s, o \in usable, a \in Addr :
           /\ kind = "foreach_cvec" <=> s # o
           /\ Operate([kind |-> kind, src |-> s, other |-> o], a)
      /\ UNCHANGED <<pc, grid>>

FreeDestroy ==
  /\ pc = "free"
  /\ Careful => finished = issued
  /\ \E v \in live : Destroy(v)
  /\ UNCHANGED <<pc, grid>>

FreeFinish == pc = "free" /\ Finish /\ UNCHANGED <<pc, grid>>

-----------------------------------------------------------------------------
Done ==
  /\ \/ pc = "return" /\ live = {issued}
     \/ pc = "free" /\ live = {}
  /\ UNCHANGED vars

ClientNext ==
  \/ Stencil \/ Store \/ Wait \/ Return
  \/ FreeOperate \/ FreeDestroy \/ FreeFinish
  \/ Work /\ UNCHANGED <<pc, grid>>
  \/ Done

ClientSpec == ClientInit /\ [][ClientNext]_vars
=============================================================================
