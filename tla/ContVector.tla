----------------------------- MODULE ContVector -----------------------------
(***************************************************************************)
(* cont_vector: a client issues reduce, foreach and stencil operations     *)
(* without waiting for one another; workers detach a snapshot of the       *)
(* source, compute their partition of the dependent and reattach it, so    *)
(* they may compute with stale values; the resolution of the operation     *)
(* then repairs the dependent with the differences between the source as   *)
(* it has become and the snapshots.                                        *)
(*                                                                         *)
(* Vector 0 is the client's input, vector k the dependent of operation k.  *)
(* When tasks and resolutions run is the business of Executor, which       *)
(* Threadpool implements.  A vector is a function from indices to values:  *)
(* copying one and giving it a new id is the identity on its contents.     *)
(***************************************************************************)
EXTENDS Executor, Mapping, Functions, Sequences

CONSTANTS
  Programs,   \* sequences of MaxOps operations that clients may issue
  Size,       \* size of the input vector
  InitData,   \* its contents
  Kernel,     \* the constant 0.4 of stencil_splt, scaled to an integer
  MaxRuns     \* bound: how often the resolution of one operation runs

Index == 0 .. Size - 1

OpRec ==
  [kind : {"reduce"}, src : Nat] \cup
  [kind : {"foreach"}, src : Nat, val : Int] \cup
  [kind : {"foreach_cvec"}, src : Nat, other : Nat] \cup
  [kind : {"stencil"}, src : Nat, s : Int]

ASSUME ContSizeAssumption ==
  Size \in Nat /\ \A p \in Worker : partition(p, Size).a < partition(p, Size).b
ASSUME InitDataAssumption == InitData \in [Index -> Int]
ASSUME KernelAssumption   == Kernel \in Int
ASSUME MaxRunsAssumption  == MaxRuns \in 1 .. HWCONC
ASSUME ProgramsAssumption ==
  \A pr \in Programs : \A k \in Op :
    /\ pr[k] \in OpRec
    /\ pr[k].src < k
    /\ pr[k].src # 0 => pr[pr[k].src].kind # "reduce"
    /\ pr[k].kind = "foreach_cvec" =>
         /\ pr[k].other \in 0 .. k - 1 \ {pr[k].src}
         /\ pr[k].other # 0 => pr[pr[k].other].kind # "reduce"

VARIABLES
  prog,        \* the client's program
  data,        \* data[v]: _data of vector v
  orig,        \* orig[v]: its _orig
  contended,   \* contended[v]: its contended
  used,        \* used[k][p]: _used[p] in the tracker of operation k
  detached,    \* detached[p]: is worker p between detach and reattach?
  rstep,       \* imap that the running resolution is at; 0: the frozen vectors
  undef        \* has anything undefined been computed or written?

dataVars == <<data, orig, contended, used, detached, rstep, undef>>
vars == <<prog, data, orig, contended, used, detached, rstep, undef,
          issued, tdone, rruns, resolving, finished>>

Vector == 0 .. MaxOps
None   == <<>>        \* a vector that does not exist yet

kind(k) == prog[k].kind
src(k)  == prog[k].src

TypeOK ==
  /\ prog \in Programs
  /\ \A v \in Vector :
       data[v] \in (IF v > issued THEN {None}
                    ELSE IF v > 0 /\ kind(v) = "reduce" THEN [{0} -> Int]
                    ELSE [Index -> Int])
  /\ \A v \in Vector : orig[v] \in [Index -> Int] \cup {None}
  /\ \A v \in Vector : contended[v] \subseteq Index
  /\ \A k \in Op, p \in Worker : used[k][p] \in [Index -> Int] \cup {None}
  /\ detached \in [Worker -> BOOLEAN]
  /\ rstep \in 0 .. 5
  /\ undef \in BOOLEAN
  /\ ExecutorTypeOK

Init ==
  /\ prog \in Programs
  /\ data = [v \in Vector |-> IF v = 0 THEN InitData ELSE None]
  /\ orig = [v \in Vector |-> None]
  /\ contended = [v \in Vector |-> {}]
  /\ used = [k \in Op |-> [p \in Worker |-> None]]
  /\ detached = [p \in Worker |-> FALSE]
  /\ rstep = 0
  /\ undef = FALSE
  /\ ExecutorInit

-----------------------------------------------------------------------------
(* The operations: reduce, foreach, foreach with a vector, stencil<-1,0,1> *)

imaps(k) ==
  CASE kind(k) = "reduce"  -> <<alltoone(0)>>
    [] kind(k) = "stencil" -> <<identity, offset(-1), offset(0), offset(1)>>
    [] OTHER               -> <<identity>>

(* x / y; \div asks for a positive divisor *)
Ratio(x, y) == IF y < 0 THEN (-x) \div (-y) ELSE x \div y

(* ops[i].f(it, ops[i].inv(curr, trck)) of the tracker *)
Repair(k, i, it, curr, trck) ==
  IF kind(k) = "stencil"
  THEN it + <<1, prog[k].s, -2 * prog[k].s, prog[k].s>>[i] * (curr - trck)
  ELSE Ratio(it * curr, trck)

(* mutant: the dependent of a reduce is a copy of its source *)
FreshCopy(k) == data[src(k)]

(* the dependent when it is constructed *)
Fresh(k) == IF kind(k) = "reduce" THEN [i \in {0} |-> 0] ELSE data[src(k)]

(* the client calls reduce, foreach or stencil: dependent, freeze, submit *)
IssueOp ==
  /\ Issue
  /\ LET k == issued + 1
     IN  /\ data' = [data EXCEPT ![k] = Fresh(k)]
         /\ orig' = IF is_monotonic(imaps(k)[1])
                    THEN orig ELSE [orig EXCEPT ![src(k)] = data[src(k)]]
  /\ UNCHANGED <<prog, contended, used, detached, rstep, undef>>

-----------------------------------------------------------------------------
(* A task of worker p *)

Detach(p) ==
  LET k == tdone[p] + 1
  IN  /\ ~detached[p]
      /\ k <= issued
      /\ used' = [used EXCEPT ![k][p] =
                    IF is_monotonic(imaps(k)[1]) THEN data[src(k)] ELSE orig[src(k)]]
      /\ detached' = [detached EXCEPT ![p] = TRUE]
      /\ UNCHANGED <<prog, data, orig, contended, rstep, undef, executorVars>>

Chunks == [p \in Worker |-> partition(p, Size).a .. partition(p, Size).b - 1]
Chunk(p) == Chunks[p]

(* the indices over which stencil_splt runs *)
Ranges == [p \in Worker |-> KernelLo(p, Size) .. KernelHi(p, Size) - 1]

(* what worker p computes at index i of its partition from snapshot u *)
KernelAt(k, p, u, i) ==
  CASE kind(k) = "foreach"      -> u[i] * prog[k].val
    [] kind(k) = "foreach_cvec" -> u[i] * data[prog[k].other][i]
    [] kind(k) = "stencil" ->
         IF i \in Ranges[p]
         THEN u[i] + Kernel * (u[i - 1] - 2 * u[i] + u[i + 1])
         ELSE u[i]

(* the loop of reduce_splt, and of resolve *)
Total(f, S) == FoldFunctionOnSet(+, 0, f, S)

(* the dependent after reattach has copied, or for a reduce added, the result *)
Reattached(k, p) ==
  LET u == used[k][p]
  IN  IF kind(k) = "reduce"
      THEN [data[k] EXCEPT ![0] = @ + Total(u, Chunk(p))]
      ELSE [i \in Index |-> IF i \in Chunk(p) THEN KernelAt(k, p, u, i) ELSE data[k][i]]

Reattach(p) ==
  LET k == tdone[p] + 1
  IN  /\ detached[p]
      /\ RunTask(p)
      /\ data' = [data EXCEPT ![k] = Reattached(k, p)]
      /\ detached' = [detached EXCEPT ![p] = FALSE]
      /\ UNCHANGED <<prog, orig, contended, used, rstep, undef>>

-----------------------------------------------------------------------------
(* The resolution of operation k *)

(* mutant: corrections of an earlier resolution are not followed up *)
CandidatesOwn(k, i) == Icontended(imaps(k)[i], Size)

(* source indices that are looked at for the i-th imap: icontended, contended *)
Candidates(k, i) == Icontended(imaps(k)[i], Size) \cup contended[src(k)]

(* those that pass the test  cmap < 0 || cmap > size *)
InRange(k, i) == {c \in Candidates(k, i) : Apply(imaps(k)[i], c) \in 0 .. Size}

Owner(i) == CHOOSE p \in Worker : Owns(p, i, Size)

trck(k, i, c) == used[k][Owner(Apply(imaps(k)[i], c))][c]

(* dep_op.inv(curr, trck) != identity; x / 0.0 never equals 1 *)
Differs(k, i, c) ==
  \/ trck(k, i, c) # data[src(k)][c]
  \/ kind(k) # "stencil" /\ trck(k, i, c) = 0

Changed(k, i) ==
  {c \in InRange(k, i) : Apply(imaps(k)[i], c) < Size /\ Differs(k, i, c)}

(* the indices of the dependent that are written *)
Targets(k, i) == {Apply(imaps(k)[i], c) : c \in Changed(k, i)}

(* mutant: dep.contended.insert(cmap) is forgotten *)
RecordedNone(k, i) == {}

(* what is inserted into dep.contended *)
Recorded(k, i) == Targets(k, i)

(* a write at end(), or a division by zero *)
Undefined(k, i) ==
  \/ \E c \in InRange(k, i) : Apply(imaps(k)[i], c) = Size
  \/ \E c \in Changed(k, i) : kind(k) # "stencil" /\ trck(k, i, c) = 0

StartResolution(k) ==
  /\ rruns[k] < MaxRuns
  /\ ResolveStart(k)
  /\ rstep' = IF kind(k) = "foreach_cvec" /\ rruns[k] = 0 THEN 0 ELSE 1
  /\ UNCHANGED <<prog, data, orig, contended, used, detached, undef>>

(* other.resolve_monotonic(dep): its _used was never filled by a detach *)
ResolveFrozen ==
  /\ resolving # 0
  /\ rstep = 0
  /\ undef' = (undef \/ contended[prog[resolving].other] # {})
  /\ rstep' = 1
  /\ UNCHANGED <<prog, data, orig, contended, used, detached, executorVars>>

(* what the dependent holds at target j after the i-th imap *)
Repaired(k, i, j) ==
  LET c == CHOOSE x \in Changed(k, i) : Apply(imaps(k)[i], x) = j
  IN  IF trck(k, i, c) = 0 /\ kind(k) # "stencil" THEN data[k][j]
      ELSE Repair(k, i, data[k][j], data[src(k)][c], trck(k, i, c))

(* one round of the loop over the imaps, done with dep.dlck held *)
ResolveImap ==
  LET k == resolving
  IN  /\ k # 0
      /\ kind(k) # "reduce"
      /\ rstep \in DOMAIN imaps(k)
      /\ data' = [data EXCEPT ![k] = [j \in Index |->
                    IF j \in Targets(k, rstep) THEN Repaired(k, rstep, j) ELSE data[k][j]]]
      /\ contended' = [contended EXCEPT ![k] = @ \cup Recorded(k, rstep)]
      /\ undef' = (undef \/ Undefined(k, rstep))
      /\ rstep' = rstep + 1
      /\ UNCHANGED <<prog, orig, used, detached, executorVars>>

(* resolve(), for a map that is not monotonic *)
ResolveReduce ==
  LET k == resolving
      diff == [c \in Index |-> data[src(k)][c] - orig[src(k)][c]]
  IN  /\ k # 0
      /\ kind(k) = "reduce"
      /\ rstep = 1
      /\ data' = [data EXCEPT ![k][0] = @ + Total(diff, Index)]
      /\ rstep' = 2
      /\ UNCHANGED <<prog, orig, contended, used, detached, undef, executorVars>>

EndResolution ==
  /\ resolving # 0
  /\ rstep = Len(imaps(resolving)) + 1
  /\ ResolveEnd
  /\ rstep' = 0
  /\ UNCHANGED <<prog, data, orig, contended, used, detached, undef>>

-----------------------------------------------------------------------------
(* mutant: finish() waits for the tasks and not for the resolutions *)
FinishTasksOnly ==
  /\ \A p \in Worker : tdone[p] = issued
  /\ finished' = issued
  /\ UNCHANGED <<prog, dataVars, issued, tdone, rruns, resolving>>

(* tp.finish() returns to the client *)
Finish ==
  /\ FinishReturn
  /\ UNCHANGED <<prog, dataVars>>

Next ==
  \/ IssueOp
  \/ \E p \in Worker : Detach(p) \/ Reattach(p)
  \/ \E k \in Op : StartResolution(k)
  \/ ResolveFrozen \/ ResolveImap \/ ResolveReduce \/ EndResolution
  \/ Finish

Spec == Init /\ [][Next]_vars

-----------------------------------------------------------------------------
(* What a sequential program computes: stdv_heat, stdv_foreach of the tests *)
Sequential(past, v) ==
  LET x == past[src(v)]
  IN  CASE kind(v) = "reduce" -> [i \in {0} |-> Total(x, Index)]
        [] kind(v) = "foreach" -> [i \in Index |-> x[i] * prog[v].val]
        [] kind(v) = "foreach_cvec" -> [i \in Index |-> x[i] * past[prog[v].other][i]]
        [] kind(v) = "stencil" ->
             [i \in Index |->
                IF i \in 1 .. Size - 2
                THEN x[i] + prog[v].s * (x[i - 1] - 2 * x[i] + x[i + 1])
                ELSE x[i]]

Expected[v \in Vector] == IF v = 0 THEN InitData ELSE Sequential(Expected, v)

(***************************************************************************)
(* However stale the snapshots were, once the resolution of an operation   *)
(* is over its dependent holds what the sequential program computes, and   *)
(* nothing undefined happened on the way.                                  *)
(***************************************************************************)
ResolvedIsSequential ==
  /\ ~undef
  /\ \A k \in Op : (rruns[k] >= 1 /\ resolving # k) => data[k] = Expected[k]

(***************************************************************************)
(* No stale value escapes the resolution: when the tasks of k and all      *)
(* earlier resolutions are over, an index of the source whose value is not *)
(* the one in the snapshot of a worker that computed from it is either at  *)
(* the bounds of the partitions or recorded in the contended of the source.*)
(***************************************************************************)
TrackedStale ==
  \A k \in 1 .. issued :
    (/\ kind(k) # "reduce"
     /\ resolving = 0 /\ rruns[k] = 0
     /\ \A p \in Worker : tdone[p] >= k
     /\ \A j \in 1 .. k - 1 : rruns[j] >= 1) =>
      \A i \in DOMAIN imaps(k), c \in Index, p \in Worker :
        (/\ Owns(p, Apply(imaps(k)[i], c), Size)
         /\ used[k][p][c] # data[src(k)][c]) =>
           c \in Icontended(imaps(k)[i], Size) \cup contended[src(k)]

(* What the client may read once finish() has returned never changes again. *)
Settled == [][\A k \in 1 .. finished : data'[k] = data[k]]_vars

=============================================================================
