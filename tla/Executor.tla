------------------------------ MODULE Executor ------------------------------
(***************************************************************************)
(* What the thread pool and the reattach latch promise to the vectors.     *)
(*                                                                         *)
(* The client issues operations 1, 2, ... (a reduce, a foreach, a stencil).*)
(* Every operation has one task per worker and one resolution.  A worker   *)
(* runs its tasks in issue order.  The resolution of an operation starts   *)
(* only after all its tasks have counted its latch down; resolutions run   *)
(* one at a time and in issue order.  The latch is read after it has been  *)
(* decremented, in a second step, so several workers can find it at zero:  *)
(* the promise is "at least once and at most HWCONC times", not "once".    *)
(* finish() returns only when every issued operation is over.              *)
(***************************************************************************)
EXTENDS ContentiousConstants

CONSTANT MaxOps     \* bound: operations the client issues

ASSUME MaxOpsAssumption == MaxOps \in Nat \ {0}

Op == 1 .. MaxOps

VARIABLES
  issued,      \* operations issued so far
  tdone,       \* tdone[p]: tasks of worker p that counted their latch down
  rruns,       \* rruns[k]: times the resolution of operation k was started
  resolving,   \* operation being resolved, 0 if none
  finished     \* operations that were issued when finish() last returned

executorVars == <<issued, tdone, rruns, resolving, finished>>

ExecutorTypeOK ==
  /\ issued \in 0 .. MaxOps
  /\ tdone \in [Worker -> 0 .. MaxOps]
  /\ rruns \in [Op -> 0 .. HWCONC]
  /\ resolving \in 0 .. MaxOps
  /\ finished \in 0 .. MaxOps

ExecutorInit ==
  /\ issued = 0
  /\ tdone = [p \in Worker |-> 0]
  /\ rruns = [k \in Op |-> 0]
  /\ resolving = 0
  /\ finished = 0

Issue ==
  /\ issued < MaxOps
  /\ issued' = issued + 1
  /\ UNCHANGED <<tdone, rruns, resolving, finished>>

RunTask(p) ==
  /\ tdone[p] < issued
  /\ tdone' = [tdone EXCEPT ![p] = @ + 1]
  /\ UNCHANGED <<issued, rruns, resolving, finished>>

ResolveStart(k) ==
  /\ resolving = 0
  /\ k \in finished + 1 .. issued
  /\ \A p \in Worker : tdone[p] >= k
  /\ \A j \in Op : /\ j < k => rruns[j] >= 1
                   /\ j > k => rruns[j] = 0
  /\ rruns[k] < HWCONC
  /\ rruns' = [rruns EXCEPT ![k] = @ + 1]
  /\ resolving' = k
  /\ UNCHANGED <<issued, tdone, finished>>

ResolveEnd ==
  /\ resolving # 0
  /\ resolving' = 0
  /\ UNCHANGED <<issued, tdone, rruns, finished>>

FinishReturn ==
  /\ resolving = 0
  /\ \A p \in Worker : tdone[p] = issued
  /\ \A k \in 1 .. issued : rruns[k] >= 1
  /\ finished' = issued
  /\ UNCHANGED <<issued, tdone, rruns, resolving>>

ExecutorNext ==
  \/ Issue
  \/ \E p \in Worker : RunTask(p)
  \/ \E k \in Op : ResolveStart(k)
  \/ ResolveEnd
  \/ FinishReturn

ExecutorSpec == ExecutorInit /\ [][ExecutorNext]_executorVars

=============================================================================
