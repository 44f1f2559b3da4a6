------------------------------ MODULE ContTrie ------------------------------
(***************************************************************************)
(* cont_vector over the tries that really hold its elements.  ContVector   *)
(* treats vectors as values; here _data, _orig, _used and the splinters    *)
(* are transients that share nodes, and an in-place write shows in every   *)
(* vector that reaches the node.  In particular the copy constructor       *)
(* leaves the source its id: what is reattached to the source later shows  *)
(* in the dependent wherever no task has written it yet.                   *)
(*                                                                         *)
(* The protocol and the values computed are ContVector's (CV), read        *)
(* through the contents of the tries.                                      *)
(***************************************************************************)
EXTENDS Executor, Mapping, Trie, Functions

CONSTANTS Programs, Size, InitData, Kernel, MaxRuns     \* as in ContVector

VARIABLES
  heap,
  tdata,       \* tdata[v]: the transient _data of vector v
  torig,       \* torig[v]: its _orig
  tused,       \* tused[k][p]: _used[p] in the tracker of operation k
  splt,        \* splt[p]: _data of worker p's splinter
  seen,        \* seen[k][p]: what tused[k][p] held when it was taken
  prog, contended, detached, rstep, undef       \* as in ContVector

trieVars == <<heap, tdata, torig, tused, splt, seen>>
vars == <<trieVars, prog, contended, detached, rstep, undef, executorVars>>

None == [kind |-> "none"]

\* what the operations of Trie take for the transient v
At(v) == [h |-> heap, v |-> v, ub |-> FALSE]

Elements(v) == IF v = None THEN <<>> ELSE [i \in 0 .. v.sz - 1 |-> Read(At(v), i)]

CV == INSTANCE ContVector WITH
        data <- [v \in 0 .. MaxOps |-> Elements(tdata[v])],
        orig <- [v \in 0 .. MaxOps |-> Elements(torig[v])],
        used <- [k \in Op |-> [p \in Worker |-> Elements(tused[k][p])]]

Monotonic(k) == is_monotonic(CV!imaps(k)[1])

\* the client fills its vector with unprotected_push_back
Filled ==
  LET b[n \in 0 .. Size] ==
        IF n = 0 THEN Empty(<<>>, "tr", 1)
        ELSE mut_push_back(b[n - 1], InitData[n - 1], 1)
  IN  b[Size]

Init ==
  /\ heap = Filled.h
  /\ tdata = [v \in 0 .. MaxOps |-> IF v = 0 THEN Filled.v ELSE None]
  /\ torig = [v \in 0 .. MaxOps |-> None]
  /\ tused = [k \in Op |-> [p \in Worker |-> None]]
  /\ splt = [p \in Worker |-> None]
  /\ seen = [k \in Op |-> [p \in Worker |-> <<>>]]
  /\ prog \in Programs
  /\ contended = [v \in 0 .. MaxOps |-> {}]
  /\ detached = [p \in Worker |-> FALSE]
  /\ rstep = 0
  /\ undef = FALSE
  /\ ExecutorInit

-----------------------------------------------------------------------------
\* what unique_id++ hands out is not in use elsewhere, and is only compared:
\* an id is named after the operation and the worker (HWCONC: the client) that
\* take it, and whether it is the first or the second one they take
UniqueId(k, p, n) == 2 + 2 * (k * (HWCONC + 1) + p) + n

\* foreach, stencil: the dependent is a copy of the source under a new id
IssueCopy ==
  LET k == issued + 1
  IN  /\ Issue
      /\ Monotonic(k)
      /\ tdata' = [tdata EXCEPT ![k] = [tdata[prog[k].src] EXCEPT !.id = UniqueId(k, HWCONC, 0)]]
      /\ UNCHANGED <<heap, torig, tused, splt, seen, prog, contended, detached, rstep, undef>>

\* mutant: freeze does not renew the id of the source
IssueReduceSameId ==
  LET k == issued + 1
      s == prog[k].src
      e == Empty(heap, "tr", UniqueId(k, HWCONC, 0))
      dep == mut_push_back(e, 0, e.v.id)
  IN  /\ Issue
      /\ ~Monotonic(k)
      /\ heap' = dep.h
      /\ torig' = [torig EXCEPT ![s] = tdata[s]]
      /\ tdata' = [tdata EXCEPT ![k] = dep.v]
      /\ UNCHANGED <<tused, splt, seen, prog, contended, detached, rstep, undef>>

\* reduce: the dependent is a new vector with the identity of the operation;
\* freeze keeps the source as its _orig and renews its id
IssueReduce ==
  LET k == issued + 1
      s == prog[k].src
      e == Empty(heap, "tr", UniqueId(k, HWCONC, 0))
      dep == mut_push_back(e, 0, e.v.id)
  IN  /\ Issue
      /\ ~Monotonic(k)
      /\ heap' = dep.h
      /\ torig' = [torig EXCEPT ![s] = tdata[s]]
      /\ tdata' = [tdata EXCEPT ![k] = dep.v, ![s].id = UniqueId(k, HWCONC, 1)]
      /\ UNCHANGED <<tused, splt, seen, prog, contended, detached, rstep, undef>>

-----------------------------------------------------------------------------
\* mutant: detach leaves the source its id
RenewNot(k, p, v) == v

\* detach renews the id of a source it snapshots; _orig was taken by freeze
Renewed(k, p, v) == IF Monotonic(k) THEN [v EXCEPT !.id = UniqueId(k, p, 0)] ELSE v

Detach(p) ==
  LET k == tdone[p] + 1
      s == prog[k].src
      taken == IF Monotonic(k) THEN tdata[s] ELSE torig[s]
  IN  /\ ~detached[p]
      /\ k <= issued
      /\ tused' = [tused EXCEPT ![k][p] = taken]
      /\ tdata' = [tdata EXCEPT ![s] = Renewed(k, p, @)]
      /\ splt' = [splt EXCEPT ![p] = [taken EXCEPT !.id = UniqueId(k, p, 1)]]
      /\ seen' = [seen EXCEPT ![k][p] = Elements(taken)]
      /\ detached' = [detached EXCEPT ![p] = TRUE]
      /\ UNCHANGED <<heap, torig, prog, contended, rstep, undef, executorVars>>

\* the elements worker p's kernel writes in its splinter
KernelLow(k, p)  == IF CV!kind(k) = "stencil" THEN KernelLo(p, Size) ELSE partition(p, Size).a
KernelHigh(k, p) == IF CV!kind(k) = "stencil" THEN KernelHi(p, Size) ELSE partition(p, Size).b

\* foreach_splt, foreach_splt_cvec and stencil_splt up to the latch: the kernel
\* writes the splinter, reattach assigns it into the dependent
ReattachRange(p) ==
  LET k == tdone[p] + 1
      u == Elements(tused[k][p])
      written == Each(At(splt[p]), KernelLow(k, p), KernelHigh(k, p),
                      [i \in Nat |-> CV!KernelAt(k, p, u, i)])
      r == assign([written EXCEPT !.v = tdata[k]], written.v,
                  partition(p, Size).a, partition(p, Size).b)
  IN  /\ detached[p]
      /\ Monotonic(k)
      /\ RunTask(p)
      /\ heap' = r.h
      /\ tdata' = [tdata EXCEPT ![k] = r.v]
      /\ splt' = [splt EXCEPT ![p] = None]
      /\ undef' = (undef \/ r.ub)
      /\ detached' = [detached EXCEPT ![p] = FALSE]
      /\ UNCHANGED <<torig, tused, seen, prog, contended, rstep>>

\* reduce_splt: the sum goes into the first element of the splinter, and the
\* difference that makes into the dependent
ReattachSum(p) ==
  LET k == tdone[p] + 1
      u == Elements(tused[k][p])
      sum == FoldFunctionOnSet(+, 0, u, CV!Chunk(p))
      s == Write(At(splt[p]), 0, Read(At(splt[p]), 0) + sum, iter_keep(splt[p]))
      dep == [s EXCEPT !.v = tdata[k]]
      diff == Read(s, 0) - u[0]
      r == IF diff = 0 THEN dep ELSE mut_set(dep, 0, Read(dep, 0) + diff)
  IN  /\ detached[p]
      /\ ~Monotonic(k)
      /\ RunTask(p)
      /\ heap' = r.h
      /\ tdata' = [tdata EXCEPT ![k] = r.v]
      /\ splt' = [splt EXCEPT ![p] = None]
      /\ detached' = [detached EXCEPT ![p] = FALSE]
      /\ UNCHANGED <<torig, tused, seen, prog, contended, rstep, undef>>

-----------------------------------------------------------------------------
StartResolution(k) ==
  /\ rruns[k] < MaxRuns
  /\ ResolveStart(k)
  /\ rstep' = IF CV!kind(k) = "foreach_cvec" /\ rruns[k] = 0 THEN 0 ELSE 1
  /\ UNCHANGED <<trieVars, prog, contended, detached, undef>>

\* other.resolve_monotonic(dep): its _used was never filled by a detach
ResolveFrozen ==
  /\ resolving # 0
  /\ rstep = 0
  /\ undef' = (undef \/ contended[prog[resolving].other] # {})
  /\ rstep' = 1
  /\ UNCHANGED <<trieVars, prog, contended, detached, executorVars>>

\* one imap: every index in range is looked up with a mutable iterator, and
\* written through it if the source has changed
ResolveImap ==
  LET k == resolving
      touched == {Apply(CV!imaps(k)[rstep], c) : c \in CV!InRange(k, rstep)} \ {Size}
      pass[n \in 0 .. Size] ==
        IF n = 0 THEN At(tdata[k])
        ELSE IF n - 1 \notin touched THEN pass[n - 1]
        ELSE IF n - 1 \notin CV!Targets(k, rstep) THEN Touch(pass[n - 1], n - 1)
        ELSE Write(Touch(pass[n - 1], n - 1), n - 1, CV!Repaired(k, rstep, n - 1),
                   iter_keep(tdata[k]))
  IN  /\ k # 0
      /\ CV!kind(k) # "reduce"
      /\ rstep \in DOMAIN CV!imaps(k)
      /\ heap' = pass[Size].h
      /\ tdata' = [tdata EXCEPT ![k] = pass[Size].v]
      /\ contended' = [contended EXCEPT ![k] = @ \cup CV!Recorded(k, rstep)]
      /\ undef' = (undef \/ CV!Undefined(k, rstep))
      /\ rstep' = rstep + 1
      /\ UNCHANGED <<torig, tused, splt, seen, prog, detached, executorVars>>

\* resolve(): only the elements next_diff_ids finds are compared
ResolveReduce ==
  LET k == resolving
      s == prog[k].src
      diff == [c \in 0 .. Size - 1 |-> Read(At(tdata[s]), c) - Read(At(torig[s]), c)]
      sum == FoldFunctionOnSet(+, 0, diff, DiffVisited(heap, torig[s], tdata[s]))
      r == Write(At(tdata[k]), 0, Read(At(tdata[k]), 0) + sum, iter_keep(tdata[k]))
  IN  /\ k # 0
      /\ CV!kind(k) = "reduce"
      /\ rstep = 1
      /\ heap' = r.h
      /\ tdata' = [tdata EXCEPT ![k] = r.v]
      /\ rstep' = 2
      /\ UNCHANGED <<torig, tused, splt, seen, prog, contended, detached, undef,
                     executorVars>>

EndResolution ==
  /\ resolving # 0
  /\ rstep = Len(CV!imaps(resolving)) + 1
  /\ ResolveEnd
  /\ rstep' = 0
  /\ UNCHANGED <<trieVars, prog, contended, detached, undef>>

Finish ==
  /\ FinishReturn
  /\ UNCHANGED <<trieVars, prog, contended, detached, rstep, undef>>

Next ==
  \/ IssueCopy \/ IssueReduce
  \/ \E p \in Worker : Detach(p) \/ ReattachRange(p) \/ ReattachSum(p)
  \/ \E k \in Op : StartResolution(k)
  \/ ResolveFrozen \/ ResolveImap \/ ResolveReduce \/ EndResolution
  \/ Finish

Spec == Init /\ [][Next]_vars

-----------------------------------------------------------------------------
(***************************************************************************)
(* A snapshot that a kernel computes from never changes, although it       *)
(* shares nodes with vectors that are still being written, some of them    *)
(* without an id of their own: the worker that takes it has earlier        *)
(* renewed the id of every vector whose nodes it shares.                   *)
(***************************************************************************)
SnapshotsStable ==
  \A k \in Op, p \in Worker :
    tused[k][p] # None => Elements(tused[k][p]) = seen[k][p]

(***************************************************************************)
(* With shared nodes too, a resolved dependent holds what the sequential   *)
(* program computes.                                                       *)
(***************************************************************************)
TrieResolved == CV!ResolvedIsSequential
=============================================================================
