-------------------------- MODULE ThreadpoolProofs --------------------------
(***************************************************************************)
(* Theorems about the thread pool, for every number of workers, operations *)
(* and queue slots.  IInv of Threadpool is inductive; the safety           *)
(* properties follow from it.                                              *)
(*                                                                         *)
(*   QueueInv, MainInv   what each task queue holds, where main is         *)
(*   LatchInv            a latch counts the workers that are missing       *)
(*   ClosureInv          only closures of finished latches get into resns  *)
(*   LockInv, HolderInv  who holds rlck and what it may have missed        *)
(*   TokenInv, ResnWake  tokens of the semaphores cover all queued work    *)
(*   FinishInv           what the predicate of finish() has seen           *)
(*                                                                         *)
(* The second half is about at most two workers, for every number of       *)
(* operations and slots: ResnsInv says what resns holds, and with it the   *)
(* pool implements Executor.  With three workers that is false.            *)
(***************************************************************************)
EXTENDS Threadpool, FiniteSetTheorems, TLAPS

USE HWCONCAssumption, MaxOpsAssumption, QueueSzAssumption
USE DEF queueVars, poolVars, workerVars, mainVars, histVars, Goto,
        Writing, Counted

-----------------------------------------------------------------------------
(* Facts about the data the pool is made of *)

(* The workers are a finite set of HWCONC elements. *)
LEMMA WorkerSet ==
  /\ IsFiniteSet(Worker)
  /\ Cardinality(Worker) = HWCONC
  /\ \A S \in SUBSET Worker : IsFiniteSet(S) /\ Cardinality(S) \in 0 .. HWCONC
  <1>1. 0 \in Int /\ HWCONC - 1 \in Int
    OBVIOUS
  <1>2. IsFiniteSet(Worker) /\ Cardinality(Worker) = HWCONC
    BY <1>1, FS_Interval DEF Worker
  <1>3. ASSUME NEW S \in SUBSET Worker
        PROVE  IsFiniteSet(S) /\ Cardinality(S) \in 0 .. HWCONC
    <2>1. IsFiniteSet(S) /\ Cardinality(S) <= HWCONC
      BY <1>2, FS_Subset
    <2>2. Cardinality(S) \in Nat
      BY <2>1, FS_CardinalityType
    <2>. QED
      BY <2>1, <2>2
  <1>. QED
    BY <1>2, <1>3

(* Removing a member of a finite set takes one from its cardinality. *)
LEMMA OneLess ==
  ASSUME NEW F, IsFiniteSet(F), NEW p \in F, NEW G, G = F \ {p}
  PROVE  Cardinality(G) = Cardinality(F) - 1
  BY FS_RemoveElement

(* When worker p advances to k, exactly the workers below k lose a member. *)
LEMMA CountDown ==
  ASSUME NEW f \in [Worker -> Nat], NEW g \in [Worker -> Nat],
         NEW p \in Worker, g = [f EXCEPT ![p] = @ + 1], NEW k \in Nat
  PROVE  Cardinality({q \in Worker : g[q] < k}) =
           IF k = f[p] + 1 THEN Cardinality({q \in Worker : f[q] < k}) - 1
                           ELSE Cardinality({q \in Worker : f[q] < k})
  <1>. DEFINE F == {q \in Worker : f[q] < k}
              G == {q \in Worker : g[q] < k}
  <1>1. CASE k = f[p] + 1
    <2>1. p \in F /\ G = F \ {p}
      BY <1>1
    <2>2. IsFiniteSet(F)
      BY WorkerSet
    <2>3. Cardinality(G) = Cardinality(F) - 1
      <3>. HIDE DEF F, G
      <3>. QED
        BY <2>1, <2>2, OneLess
    <2>. QED
      BY <2>3, <1>1
  <1>2. CASE k # f[p] + 1
    <2>1. G = F
      BY <1>2
    <2>. QED
      BY <2>1, <1>2
  <1>. QED
    BY <1>1, <1>2

(* Appending the next number to a run of consecutive numbers. *)
LEMMA RunAppend ==
  ASSUME NEW s \in Seq(Op), NEW n \in Op, NEW c \in Nat,
         c + Len(s) = n - 1,
         \A i \in 1 .. Len(s) : s[i] = c + i
  PROVE  /\ c + Len(Append(s, n)) = n
         /\ Append(s, n) # <<>>
         /\ \A i \in 1 .. Len(Append(s, n)) : Append(s, n)[i] = c + i
  <1>. DEFINE t == Append(s, n)
  <1>1. Len(t) = Len(s) + 1 /\ Len(s) \in Nat /\ n \in Nat
    BY DEF Op
  <1>2. ASSUME NEW i \in 1 .. Len(t)
        PROVE  t[i] = c + i
    <2>1. CASE i \in 1 .. Len(s)
      BY <2>1, <1>1
    <2>2. CASE i = Len(s) + 1
      BY <2>2, <1>1
    <2>. QED
      BY <2>1, <2>2, <1>1
  <1>. QED
    BY <1>1, <1>2

(* Dropping the first of a run of consecutive numbers. *)
LEMMA RunTail ==
  ASSUME NEW s \in Seq(Op), s # <<>>, NEW c \in Nat,
         \A i \in 1 .. Len(s) : s[i] = c + i
  PROVE  /\ (c + 1) + Len(Tail(s)) = c + Len(s)
         /\ \A i \in 1 .. Len(Tail(s)) : Tail(s)[i] = (c + 1) + i
  <1>1. Len(s) \in Nat \ {0} /\ Len(Tail(s)) = Len(s) - 1
    OBVIOUS
  <1>2. ASSUME NEW i \in 1 .. Len(Tail(s))
        PROVE  Tail(s)[i] = (c + 1) + i
    <2>1. Tail(s)[i] = s[i + 1] /\ i + 1 \in 1 .. Len(s)
      BY <1>1
    <2>. QED
      BY <2>1
  <1>. QED
    BY <1>1, <1>2

(* The front task of a worker is the operation after the completed ones. *)
LEMMA FrontTask ==
  ASSUME IInv, NEW p \in Worker, tasks[p] # <<>>
  PROVE  /\ Head(tasks[p]) = comp_tasks[p] + 1
         /\ Head(tasks[p]) \in Op
         /\ Head(tasks[p]) <= issued
  <1>1. tasks[p] \in Seq(Op) /\ comp_tasks[p] \in Nat /\ issued \in Nat
    BY DEF IInv, TypeOK
  <1>2. /\ Len(tasks[p]) \in Nat \ {0}
        /\ Head(tasks[p]) = tasks[p][1]
        /\ Head(tasks[p]) \in Op
    BY <1>1
  <1>3. comp_tasks[p] + Len(tasks[p]) <= issued
    BY <1>1, <1>2 DEF IInv, QueueInv, Submitted
  <1>4. tasks[p][1] = comp_tasks[p] + 1
    BY <1>2 DEF IInv, QueueInv
  <1>. QED
    BY <1>1, <1>2, <1>3, <1>4

(* No worker has counted down more latches than were made. *)
LEMMA DoneIssued ==
  ASSUME IInv, NEW p \in Worker
  PROVE  tdone[p] \in Nat /\ tdone[p] <= issued
  <1>1. tasks[p] \in Seq(Op) /\ comp_tasks[p] \in Nat /\ issued \in Nat
    BY DEF IInv, TypeOK
  <1>2. comp_tasks[p] + Len(tasks[p]) <= issued
    BY <1>1 DEF IInv, QueueInv, Submitted
  <1>3. CASE wpc[p] \in Counted
    <2>1. tasks[p] # <<>>
      BY <1>3 DEF IInv, QueueInv
    <2>2. comp_tasks[p] + 1 <= issued
      BY <2>1, <1>1, <1>2
    <2>. QED
      BY <2>2, <1>1, <1>3 DEF tdone
  <1>4. CASE wpc[p] \notin Counted
    BY <1>1, <1>2, <1>4 DEF tdone
  <1>. QED
    BY <1>3, <1>4

(* A loop that posts every semaphore covers all work again. *)
LEMMA PostLoopSafe ==
  ASSUME NEW p \in Worker, IInv, NEW pc \in WorkerPC, PostLoop(p, pc)
  PROVE  TypeOK' /\ TokenInv' /\ ResnWake' /\ HolderInv'
  <1>1. TypeOK'
    <2>1. sems' \in [Worker -> Nat]
      BY DEF PostLoop, IInv, TypeOK
    <2>2. wpc' \in [Worker -> WorkerPC]
      BY DEF PostLoop, IInv, TypeOK
    <2>. QED
      BY <2>1, <2>2 DEF PostLoop, IInv, TypeOK
  <1>2. \A q \in Worker : sems'[q] = sems[q] + 1 /\ sems[q] \in Nat
    BY DEF PostLoop, IInv, TypeOK
  <1>3. TokenInv'
    <2>. SUFFICES ASSUME spin, NEW q \in Worker
                  PROVE  sems'[q] + Hand(q)' + Unposted(q)' >= Len(tasks'[q])
      BY DEF PostLoop, TokenInv
    <2>1. Hand(q) \in {0, 1} /\ Hand(q)' \in {0, 1}
      BY DEF Hand
    <2>2. /\ Unposted(q)' = Unposted(q) /\ Unposted(q) \in {0, 1}
          /\ tasks' = tasks /\ Len(tasks[q]) \in Nat
      BY DEF PostLoop, Unposted, IInv, TypeOK
    <2>3. sems[q] + Hand(q) + Unposted(q) >= Len(tasks[q])
      BY DEF IInv, TokenInv
    <2>. QED
      BY <1>2, <2>1, <2>2, <2>3
  <1>4. \A q \in Worker : sems'[q] > 0
    BY <1>2
  <1>. QED
    BY <1>1, <1>3, <1>4 DEF ResnWake, HolderInv

(* Running a task counts exactly one latch down, and never one at zero. *)
LEMMA CheckTaskLatch ==
  ASSUME NEW p \in Worker, IInv, CheckTask(p)
  PROVE  LatchInv' /\ ClosureInv'
  <1>1. \A q \in Worker : wpc'[q] \in Writing => wpc'[q] = wpc[q]
    BY DEF CheckTask, IInv, TypeOK
  <1>2. CASE tasks[p] = <<>>
    <2>1. tdone' = tdone
      BY <1>2 DEF CheckTask, IInv, TypeOK, tdone, Counted
    <2>2. LatchInv'
      BY <1>2, <2>1 DEF CheckTask, IInv, LatchInv
    <2>3. ClosureInv'
      BY <1>1, <1>2 DEF CheckTask, IInv, ClosureInv
    <2>. QED
      BY <2>2, <2>3
  <1>3. CASE tasks[p] # <<>>
    <2>. DEFINE k == Head(tasks[p])
    <2>1. k = comp_tasks[p] + 1 /\ k \in Op /\ k <= issued
      BY <1>3, FrontTask
    <2>2. /\ latch \in [Op -> Int] /\ comp_tasks \in [Worker -> Nat]
          /\ latch' = [latch EXCEPT ![k] = @ - 1]
          /\ UNCHANGED <<issued, records, rruns, tasks, comp_tasks>>
      BY <1>3 DEF CheckTask, IInv, TypeOK
    <2>3. /\ wpc \in [Worker -> WorkerPC] /\ wpc[p] = "task"
          /\ wpc' = [wpc EXCEPT ![p] = "try_wait"]
      BY <1>3 DEF CheckTask, IInv, TypeOK
    <2>4. tdone \in [Worker -> Nat] /\ tdone' \in [Worker -> Nat]
      BY <2>2 DEF tdone
    <2>5. tdone[p] + 1 = k
      BY <2>1, <2>2, <2>3 DEF tdone, Counted
    <2>6. tdone' = [tdone EXCEPT ![p] = @ + 1]
      <3>1. \A q \in Worker : tdone'[q] = IF q = p THEN tdone[q] + 1 ELSE tdone[q]
        BY <2>2, <2>3 DEF tdone, Counted
      <3>. QED
        BY <2>4, <3>1
    <2>7. LatchInv'
      <3>. SUFFICES ASSUME NEW j \in Op
                    PROVE  latch'[j] = IF j <= issued'
                                       THEN Cardinality({q \in Worker : tdone'[q] < j})
                                       ELSE 0
        BY DEF LatchInv
      <3>1. latch[j] = IF j <= issued
                       THEN Cardinality({q \in Worker : tdone[q] < j}) ELSE 0
        BY DEF IInv, LatchInv
      <3>2. Cardinality({q \in Worker : tdone'[q] < j}) =
              IF j = tdone[p] + 1 THEN Cardinality({q \in Worker : tdone[q] < j}) - 1
                                  ELSE Cardinality({q \in Worker : tdone[q] < j})
        BY <2>4, <2>6, CountDown DEF Op
      <3>. QED
        BY <3>1, <3>2, <2>1, <2>2, <2>5
    <2>8. latch[k] # 0
      <3>1. {q \in Worker : tdone[q] < k} # {}
        BY <2>4, <2>5
      <3>2. IsFiniteSet({q \in Worker : tdone[q] < k})
        BY WorkerSet
      <3>3. Cardinality({q \in Worker : tdone[q] < k}) # 0
        BY <3>1, <3>2, FS_EmptySet
      <3>. QED
        BY <3>3, <2>1 DEF IInv, LatchInv
    <2>9. \A j \in Op : latch[j] = 0 => latch'[j] = 0
      BY <2>2, <2>8
    <2>10. \A q \in Worker : wpc[q] \in Writing => Head(tasks[q]) \in Op
      BY FrontTask DEF IInv, QueueInv, Counted
    <2>11. \A s \in Slot : records[s] # Dead => records[s] \in Op
      BY DEF IInv, TypeOK
    <2>12. ClosureInv'
      BY <1>1, <2>2, <2>9, <2>10, <2>11 DEF IInv, ClosureInv
    <2>. QED
      BY <2>7, <2>12
  <1>. QED
    BY <1>2, <1>3

-----------------------------------------------------------------------------
(* Every action preserves the invariant *)

(* Issuing an operation makes its latch with the count of all workers. *)
LEMMA IssueOpSafe ==
  ASSUME IInv, IssueOp
  PROVE  IInv'
  <1>a. /\ issued \in Nat /\ issued' = issued + 1 /\ issued + 1 \in Op
        /\ latch \in [Op -> Int]
        /\ latch' = [latch EXCEPT ![issued + 1] = HWCONC]
    BY DEF IssueOp, IInv, TypeOK, Op
  <1>1. TypeOK'
    <2>1. issued' \in 0 .. MaxOps
      BY DEF IssueOp, IInv, TypeOK
    <2>2. latch' \in [Op -> Int]
      BY <1>a
    <2>. QED
      BY <2>1, <2>2 DEF IssueOp, IInv, TypeOK, MainPC
  <1>2. QueueInv'
    <2>1. mpc = "issue" /\ mpc' = "write" /\ mi' = 0
      BY DEF IssueOp
    <2>2. \A p \in Worker : Submitted(p)' = Submitted(p)
      BY <1>a, <2>1 DEF Submitted, Worker
    <2>. QED
      BY <2>2 DEF IssueOp, IInv, QueueInv
  <1>3. MainInv'  BY DEF IssueOp, IInv, MainInv, TypeOK
  <1>4. LatchInv'
    <2>1. tdone' = tdone
      BY DEF IssueOp, tdone
    <2>. SUFFICES ASSUME NEW k \in Op
                  PROVE  latch'[k] = IF k <= issued'
                                     THEN Cardinality({p \in Worker : tdone[p] < k})
                                     ELSE 0
      BY <2>1 DEF LatchInv
    <2>2. CASE k = issued + 1
      <3>1. {p \in Worker : tdone[p] < k} = Worker
        BY <1>a, <2>2, DoneIssued
      <3>. QED
        BY <3>1, <1>a, <2>2, WorkerSet
    <2>3. CASE k # issued + 1
      <3>1. k <= issued' <=> k <= issued
        BY <1>a, <2>3 DEF Op
      <3>. QED
        BY <3>1, <1>a, <2>3 DEF IInv, LatchInv
    <2>. QED
      BY <2>2, <2>3
  <1>5. ClosureInv'
    <2>1. \A k \in Op : k <= issued => k <= issued' /\ latch'[k] = latch[k]
      BY <1>a DEF Op
    <2>2. \A p \in Worker : wpc[p] \in Writing =>
                              Head(tasks[p]) \in Op /\ Head(tasks[p]) <= issued
      BY FrontTask DEF IInv, QueueInv, Counted
    <2>3. \A s \in Slot : records[s] # Dead => records[s] \in Op
      BY DEF IInv, TypeOK
    <2>. QED
      BY <2>1, <2>2, <2>3 DEF IssueOp, IInv, ClosureInv
  <1>6. LockInv'  BY DEF IssueOp, IInv, LockInv, Nobody
  <1>7. TokenInv'  BY DEF IssueOp, IInv, TokenInv, Hand, Busy, Unposted
  <1>8. ResnWake'  BY DEF IssueOp, IInv, ResnWake, ResnsEmpty, Attending
  <1>9. HolderInv'  BY DEF IssueOp, IInv, HolderInv, ResnsEmpty
  <1>10. FinishInv'  BY DEF IssueOp, IInv, FinishInv
  <1>. QED
    BY <1>1, <1>2, <1>3, <1>4, <1>5, <1>6, <1>7, <1>8, <1>9, <1>10 DEF IInv

(* submit() puts the operation behind the others of one worker. *)
LEMMA SubmitWriteSafe ==
  ASSUME IInv, SubmitWrite
  PROVE  IInv'
  <1>a. mi \in Worker
    BY DEF SubmitWrite, IInv, TypeOK, MainInv, Worker
  <1>b. issued \in Op
    <2>1. issued \in 0 .. MaxOps /\ issued > 0
      BY DEF SubmitWrite, IInv, TypeOK, MainInv
    <2>. QED
      BY <2>1 DEF Op
  <1>1. TypeOK'
    <2>1. tasks' \in [Worker -> Seq(Op)]
      BY <1>a, <1>b DEF SubmitWrite, IInv, TypeOK
    <2>2. \A p \in Worker : Len(tasks'[p]) < QUEUE_SZ
      BY <1>a, <1>b DEF SubmitWrite, IInv, TypeOK
    <2>. QED
      BY <2>1, <2>2 DEF SubmitWrite, IInv, TypeOK, MainPC
  <1>2. QueueInv'
    <2>. SUFFICES ASSUME NEW p \in Worker
                  PROVE  /\ comp_tasks'[p] + Len(tasks'[p]) = Submitted(p)'
                         /\ \A i \in 1 .. Len(tasks'[p]) :
                              tasks'[p][i] = comp_tasks'[p] + i
                         /\ wpc'[p] \in Counted => tasks'[p] # <<>>
      BY DEF QueueInv
    <2>1. CASE p # mi
      <3>1. tasks'[p] = tasks[p]
        BY <2>1, <1>a DEF SubmitWrite, IInv, TypeOK
      <3>2. Submitted(p)' = Submitted(p)
        BY <2>1, <1>a DEF SubmitWrite, Submitted, Worker
      <3>. QED
        BY <3>1, <3>2 DEF SubmitWrite, IInv, QueueInv
    <2>2. CASE p = mi
      <3>1. tasks'[p] = Append(tasks[p], issued) /\ tasks[p] \in Seq(Op)
        BY <2>2, <1>a DEF SubmitWrite, IInv, TypeOK
      <3>2. Submitted(p) = issued - 1 /\ Submitted(p)' = issued
        BY <2>2, <1>a DEF SubmitWrite, Submitted, Worker
      <3>3. /\ comp_tasks[p] \in Nat /\ comp_tasks'[p] = comp_tasks[p]
            /\ comp_tasks[p] + Len(tasks[p]) = issued - 1
        BY <3>2 DEF SubmitWrite, IInv, TypeOK, QueueInv
      <3>4. \A i \in 1 .. Len(tasks[p]) : tasks[p][i] = comp_tasks[p] + i
        BY DEF IInv, QueueInv
      <3>. DEFINE t == Append(tasks[p], issued)
      <3>5. /\ comp_tasks[p] + Len(t) = issued
            /\ t # <<>>
            /\ \A i \in 1 .. Len(t) : t[i] = comp_tasks[p] + i
        BY <1>b, <3>1, <3>3, <3>4, RunAppend
      <3>. QED
        BY <3>1, <3>2, <3>3, <3>5
    <2>. QED
      BY <2>1, <2>2
  <1>3. MainInv'  BY DEF SubmitWrite, IInv, MainInv
  <1>4. LatchInv'  BY DEF SubmitWrite, IInv, LatchInv, tdone, Counted
  <1>5. ClosureInv'
    <2>1. ASSUME NEW p \in Worker, wpc[p] \in Writing
          PROVE  Head(tasks'[p]) = Head(tasks[p])
      <3>1. tasks[p] # <<>>
        BY <2>1 DEF IInv, QueueInv, Counted
      <3>2. tasks[p] \in Seq(Op) /\ tasks'[p] \in {tasks[p], Append(tasks[p], issued)}
        BY <1>a DEF SubmitWrite, IInv, TypeOK
      <3>. QED
        BY <1>b, <3>1, <3>2
    <2>. QED
      BY <2>1 DEF SubmitWrite, IInv, ClosureInv
  <1>6. LockInv'  BY DEF SubmitWrite, IInv, LockInv, Nobody
  <1>7. TokenInv'
    <2>1. \A p \in Worker : Len(tasks'[p]) - Unposted(p)' = Len(tasks[p]) - Unposted(p)
      BY <1>a, <1>b DEF SubmitWrite, IInv, TypeOK, Unposted
    <2>2. \A p \in Worker : /\ Hand(p)' = Hand(p) /\ Hand(p) \in Nat
                             /\ Unposted(p) \in Nat /\ Unposted(p)' \in Nat
      BY <1>a DEF SubmitWrite, Unposted, Hand
    <2>3. \A p \in Worker : Len(tasks[p]) \in Nat /\ Len(tasks'[p]) \in Nat
      BY <1>a, <1>b DEF SubmitWrite, IInv, TypeOK
    <2>4. sems' = sems /\ sems \in [Worker -> Nat]
      BY DEF SubmitWrite, IInv, TypeOK
    <2>. QED
      BY <2>1, <2>2, <2>3, <2>4 DEF SubmitWrite, IInv, TokenInv
  <1>8. ResnWake'  BY DEF SubmitWrite, IInv, ResnWake, ResnsEmpty, Attending
  <1>9. HolderInv'  BY DEF SubmitWrite, IInv, HolderInv, ResnsEmpty
  <1>10. FinishInv'  BY DEF SubmitWrite, IInv, FinishInv
  <1>. QED
    BY <1>1, <1>2, <1>3, <1>4, <1>5, <1>6, <1>7, <1>8, <1>9, <1>10 DEF IInv

(* submit() posts the worker it wrote to. *)
LEMMA SubmitPostSafe ==
  ASSUME IInv, SubmitPost
  PROVE  IInv'
  <1>a. mi \in Worker
    BY DEF SubmitPost, IInv, TypeOK, MainInv, Worker
  <1>1. TypeOK'
    <2>1. sems' \in [Worker -> Nat]
      BY <1>a DEF SubmitPost, IInv, TypeOK
    <2>2. mi' \in 0 .. HWCONC /\ mpc' \in MainPC
      BY <1>a DEF SubmitPost, MainPC, Worker
    <2>3. ret' \in BOOLEAN
      BY DEF SubmitPost
    <2>. QED
      BY <2>1, <2>2, <2>3 DEF SubmitPost, IInv, TypeOK
  <1>2. QueueInv'
    <2>1. \A p \in Worker : Submitted(p)' = Submitted(p)
      BY <1>a DEF SubmitPost, Submitted, Worker
    <2>. QED
      BY <2>1 DEF SubmitPost, IInv, QueueInv
  <1>3. MainInv'
    <2>1. /\ mpc = "posts" /\ mpc' \in {"write", "issue", "fin_tasks"}
          /\ mi' \in 0 .. HWCONC - 1 /\ spin' = spin /\ issued' = issued
      BY <1>a DEF SubmitPost, Worker
    <2>. QED
      BY <2>1 DEF IInv, MainInv
  <1>4. LatchInv'  BY DEF SubmitPost, IInv, LatchInv, tdone, Counted
  <1>5. ClosureInv'  BY DEF SubmitPost, IInv, ClosureInv
  <1>6. LockInv'  BY DEF SubmitPost, IInv, LockInv, Nobody
  <1>7. TokenInv'
    <2>1. sems \in [Worker -> Nat] /\ sems' = [sems EXCEPT ![mi] = @ + 1]
      BY DEF SubmitPost, IInv, TypeOK
    <2>2. \A p \in Worker : /\ Unposted(p) = (IF p = mi THEN 1 ELSE 0)
                             /\ Unposted(p)' = 0
      BY <1>a DEF SubmitPost, Unposted, Worker
    <2>3. \A p \in Worker : Hand(p)' = Hand(p) /\ Hand(p) \in Nat
      BY DEF SubmitPost, Hand
    <2>4. \A p \in Worker : sems'[p] + Hand(p)' + Unposted(p)' =
                             sems[p] + Hand(p) + Unposted(p)
      BY <1>a, <2>1, <2>2, <2>3
    <2>. QED
      BY <2>4 DEF SubmitPost, IInv, TokenInv
  <1>8. ResnWake'
    <2>1. \A p \in Worker : sems[p] > 0 => sems'[p] > 0
      BY <1>a DEF SubmitPost, IInv, TypeOK
    <2>. QED
      BY <2>1 DEF SubmitPost, IInv, ResnWake, ResnsEmpty, Attending
  <1>9. HolderInv'
    <2>1. \A p \in Worker : sems[p] > 0 => sems'[p] > 0
      BY <1>a DEF SubmitPost, IInv, TypeOK
    <2>. QED
      BY <2>1 DEF SubmitPost, IInv, HolderInv, ResnsEmpty
  <1>10. FinishInv'
    <2>1. mpc' \in {"write", "issue"} \/ (mpc' = "fin_tasks" /\ mi' = 0)
      BY <1>a DEF SubmitPost, Worker
    <2>. QED
      BY <2>1 DEF FinishInv, Worker
  <1>. QED
    BY <1>1, <1>2, <1>3, <1>4, <1>5, <1>6, <1>7, <1>8, <1>9, <1>10 DEF IInv

(* The predicate of finish() looks at the tasks of one worker. *)
LEMMA FinTasksSafe ==
  ASSUME IInv, FinTasks
  PROVE  IInv'
  <1>1. TypeOK'
    <2>1. mi' \in 0 .. HWCONC /\ mpc' \in MainPC
      BY DEF FinTasks, FinLoop, IInv, TypeOK, MainPC
    <2>2. ret' \in BOOLEAN
      BY DEF FinTasks, IInv, TypeOK
    <2>. QED
      BY <2>1, <2>2 DEF FinTasks, IInv, TypeOK
  <1>2. QueueInv'  BY DEF FinTasks, FinLoop, IInv, QueueInv, Submitted, Counted
  <1>3. MainInv'  BY DEF FinTasks, FinLoop, IInv, MainInv
  <1>4. LatchInv'  BY DEF FinTasks, FinLoop, IInv, LatchInv, tdone, Counted
  <1>5. ClosureInv'  BY DEF FinTasks, FinLoop, IInv, ClosureInv
  <1>6. LockInv'  BY DEF FinTasks, FinLoop, IInv, LockInv, Nobody
  <1>7. TokenInv'
    BY DEF FinTasks, FinLoop, IInv, TokenInv, Hand, Busy, Unposted
  <1>8. ResnWake'
    BY DEF FinTasks, FinLoop, IInv, ResnWake, ResnsEmpty, Attending
  <1>9. HolderInv'  BY DEF FinTasks, FinLoop, IInv, HolderInv, ResnsEmpty
  <1>10. FinishInv'  BY DEF FinTasks, FinLoop, IInv, FinishInv
  <1>. QED
    BY <1>1, <1>2, <1>3, <1>4, <1>5, <1>6, <1>7, <1>8, <1>9, <1>10 DEF IInv

(* The predicate of finish() looks at the resolutions. *)
LEMMA FinResnsSafe ==
  ASSUME IInv, FinResns
  PROVE  IInv'
  <1>1. TypeOK'
    <2>1. mi' \in 0 .. HWCONC /\ mpc' \in MainPC
      BY DEF FinResns, FinLoop, IInv, TypeOK, MainPC
    <2>2. ret' \in BOOLEAN
      BY DEF FinResns, IInv, TypeOK
    <2>. QED
      BY <2>1, <2>2 DEF FinResns, IInv, TypeOK
  <1>2. QueueInv'
    BY DEF FinResns, FinLoop, ResnsEmpty, IInv, QueueInv, Submitted, Counted
  <1>3. MainInv'  BY DEF FinResns, FinLoop, ResnsEmpty, IInv, MainInv
  <1>4. LatchInv'
    BY DEF FinResns, FinLoop, ResnsEmpty, IInv, LatchInv, tdone, Counted
  <1>5. ClosureInv'  BY DEF FinResns, FinLoop, ResnsEmpty, IInv, ClosureInv
  <1>6. LockInv'  BY DEF FinResns, FinLoop, ResnsEmpty, IInv, LockInv, Nobody
  <1>7. TokenInv'
    BY DEF FinResns, FinLoop, ResnsEmpty, IInv, TokenInv, Hand, Busy, Unposted
  <1>8. ResnWake'
    BY DEF FinResns, FinLoop, ResnsEmpty, IInv, ResnWake, Attending
  <1>9. HolderInv'  BY DEF FinResns, FinLoop, ResnsEmpty, IInv, HolderInv
  <1>10. FinishInv'
    <2>1. mi \in Worker
      BY DEF FinResns, IInv, TypeOK, MainInv, Worker
    <2>2. ret' => ret
      BY DEF FinResns
    <2>3. CASE mi + 1 < HWCONC
      BY <2>1, <2>2, <2>3 DEF FinResns, FinLoop, IInv, FinishInv, Worker
    <2>4. CASE ~(mi + 1 < HWCONC)
      BY <2>1, <2>2, <2>4 DEF FinResns, FinLoop, IInv, FinishInv, Worker
    <2>. QED
      BY <2>3, <2>4
  <1>. QED
    BY <1>1, <1>2, <1>3, <1>4, <1>5, <1>6, <1>7, <1>8, <1>9, <1>10 DEF IInv

(* finish() returns. *)
LEMMA FinReturnSafe ==
  ASSUME IInv, FinReturn
  PROVE  IInv'
  <1>1. TypeOK'  BY DEF FinReturn, IInv, TypeOK, MainPC
  <1>2. QueueInv'  BY DEF FinReturn, IInv, QueueInv, Submitted, Counted
  <1>3. MainInv'  BY DEF FinReturn, IInv, MainInv
  <1>4. LatchInv'  BY DEF FinReturn, IInv, LatchInv, tdone, Counted
  <1>5. ClosureInv'  BY DEF FinReturn, IInv, ClosureInv
  <1>6. LockInv'  BY DEF FinReturn, IInv, LockInv, Nobody
  <1>7. TokenInv'  BY DEF FinReturn, IInv, TokenInv, Hand, Busy, Unposted
  <1>8. ResnWake'  BY DEF FinReturn, IInv, ResnWake, ResnsEmpty, Attending
  <1>9. HolderInv'  BY DEF FinReturn, IInv, HolderInv, ResnsEmpty
  <1>10. FinishInv'  BY DEF FinReturn, IInv, FinishInv
  <1>. QED
    BY <1>1, <1>2, <1>3, <1>4, <1>5, <1>6, <1>7, <1>8, <1>9, <1>10 DEF IInv

(* finish() blocks. *)
LEMMA FinBlockSafe ==
  ASSUME IInv, FinBlock
  PROVE  IInv'
  <1>1. TypeOK'  BY DEF FinBlock, IInv, TypeOK, MainPC
  <1>2. QueueInv'  BY DEF FinBlock, IInv, QueueInv, Submitted, Counted
  <1>3. MainInv'  BY DEF FinBlock, IInv, MainInv
  <1>4. LatchInv'  BY DEF FinBlock, IInv, LatchInv, tdone, Counted
  <1>5. ClosureInv'  BY DEF FinBlock, IInv, ClosureInv
  <1>6. LockInv'  BY DEF FinBlock, IInv, LockInv, Nobody
  <1>7. TokenInv'  BY DEF FinBlock, IInv, TokenInv, Hand, Busy, Unposted
  <1>8. ResnWake'  BY DEF FinBlock, IInv, ResnWake, ResnsEmpty, Attending
  <1>9. HolderInv'  BY DEF FinBlock, IInv, HolderInv, ResnsEmpty
  <1>10. FinishInv'  BY DEF FinBlock, IInv, FinishInv
  <1>. QED
    BY <1>1, <1>2, <1>3, <1>4, <1>5, <1>6, <1>7, <1>8, <1>9, <1>10 DEF IInv

(* The condition variable wakes for no reason. *)
LEMMA SpuriousWakeSafe ==
  ASSUME IInv, SpuriousWake
  PROVE  IInv'
  <1>1. TypeOK'
    <2>1. mi' \in 0 .. HWCONC /\ mpc' \in MainPC
      BY DEF SpuriousWake, FinWake, MainPC
    <2>2. ret' \in BOOLEAN
      BY DEF SpuriousWake, FinWake
    <2>. QED
      BY <2>1, <2>2 DEF SpuriousWake, IInv, TypeOK
  <1>2. QueueInv'
    BY DEF SpuriousWake, FinWake, IInv, QueueInv, Submitted, Counted
  <1>3. MainInv'  BY DEF SpuriousWake, FinWake, IInv, MainInv
  <1>4. LatchInv'  BY DEF SpuriousWake, FinWake, IInv, LatchInv, tdone, Counted
  <1>5. ClosureInv'  BY DEF SpuriousWake, FinWake, IInv, ClosureInv
  <1>6. LockInv'  BY DEF SpuriousWake, FinWake, IInv, LockInv, Nobody
  <1>7. TokenInv'
    BY DEF SpuriousWake, FinWake, IInv, TokenInv, Hand, Busy, Unposted
  <1>8. ResnWake'
    BY DEF SpuriousWake, FinWake, IInv, ResnWake, ResnsEmpty, Attending
  <1>9. HolderInv'  BY DEF SpuriousWake, FinWake, IInv, HolderInv, ResnsEmpty
  <1>10. FinishInv'
    BY DEF SpuriousWake, FinWake, IInv, FinishInv, TypeOK, MainInv, Worker, Op,
           Slot, Nobody, Dead
  <1>. QED
    BY <1>1, <1>2, <1>3, <1>4, <1>5, <1>6, <1>7, <1>8, <1>9, <1>10 DEF IInv

(* stop() clears spin. *)
LEMMA StopSafe ==
  ASSUME IInv, Stop
  PROVE  IInv'
  <1>1. TypeOK'  BY DEF Stop, IInv, TypeOK, MainPC
  <1>2. QueueInv'  BY DEF Stop, IInv, QueueInv, Submitted, Counted
  <1>3. MainInv'  BY DEF Stop, IInv, MainInv
  <1>4. LatchInv'  BY DEF Stop, IInv, LatchInv, tdone, Counted
  <1>5. ClosureInv'  BY DEF Stop, IInv, ClosureInv
  <1>6. LockInv'  BY DEF Stop, IInv, LockInv, Nobody
  <1>7. TokenInv'  BY DEF Stop, IInv, TokenInv, Hand, Busy, Unposted
  <1>8. ResnWake'  BY DEF Stop, IInv, ResnWake, ResnsEmpty, Attending
  <1>9. HolderInv'  BY DEF Stop, IInv, HolderInv, ResnsEmpty
  <1>10. FinishInv'  BY DEF Stop, IInv, FinishInv
  <1>. QED
    BY <1>1, <1>2, <1>3, <1>4, <1>5, <1>6, <1>7, <1>8, <1>9, <1>10 DEF IInv

(* stop() posts every worker. *)
LEMMA StopPostSafe ==
  ASSUME IInv, StopPost
  PROVE  IInv'
  <1>1. TypeOK'
    <2>1. sems' \in [Worker -> Nat]
      BY DEF StopPost, IInv, TypeOK
    <2>. QED
      BY <2>1 DEF StopPost, IInv, TypeOK, MainPC
  <1>2. QueueInv'  BY DEF StopPost, IInv, QueueInv, Submitted, Counted
  <1>3. MainInv'  BY DEF StopPost, IInv, MainInv
  <1>4. LatchInv'  BY DEF StopPost, IInv, LatchInv, tdone, Counted
  <1>5. ClosureInv'  BY DEF StopPost, IInv, ClosureInv
  <1>6. LockInv'  BY DEF StopPost, IInv, LockInv, Nobody
  <1>7. TokenInv'
    BY DEF StopPost, IInv, TokenInv, Hand, Busy, Unposted, TypeOK
  <1>8. ResnWake'
    BY DEF StopPost, IInv, ResnWake, ResnsEmpty, Attending, TypeOK
  <1>9. HolderInv'
    BY DEF StopPost, IInv, HolderInv, MainInv
  <1>10. FinishInv'  BY DEF StopPost, IInv, FinishInv
  <1>. QED
    BY <1>1, <1>2, <1>3, <1>4, <1>5, <1>6, <1>7, <1>8, <1>9, <1>10 DEF IInv

(* The destructor joins the workers. *)
LEMMA JoinSafe ==
  ASSUME IInv, Join
  PROVE  IInv'
  <1>1. TypeOK'  BY DEF Join, IInv, TypeOK, MainPC
  <1>2. QueueInv'  BY DEF Join, IInv, QueueInv, Submitted, Counted
  <1>3. MainInv'  BY DEF Join, IInv, MainInv
  <1>4. LatchInv'  BY DEF Join, IInv, LatchInv, tdone, Counted
  <1>5. ClosureInv'  BY DEF Join, IInv, ClosureInv
  <1>6. LockInv'  BY DEF Join, IInv, LockInv, Nobody
  <1>7. TokenInv'  BY DEF Join, IInv, TokenInv, Hand, Busy, Unposted
  <1>8. ResnWake'  BY DEF Join, IInv, ResnWake, ResnsEmpty, Attending
  <1>9. HolderInv'  BY DEF Join, IInv, HolderInv, ResnsEmpty
  <1>10. FinishInv'  BY DEF Join, IInv, FinishInv
  <1>. QED
    BY <1>1, <1>2, <1>3, <1>4, <1>5, <1>6, <1>7, <1>8, <1>9, <1>10 DEF IInv

(* A worker takes a token. *)
LEMMA SemWaitSafe ==
  ASSUME NEW p \in Worker, IInv, SemWait(p)
  PROVE  IInv'
  <1>1. TypeOK'
    <2>1. sems' \in [Worker -> Nat]
      BY DEF SemWait, IInv, TypeOK
    <2>2. wpc' \in [Worker -> WorkerPC]
      BY DEF SemWait, IInv, TypeOK, WorkerPC
    <2>. QED
      BY <2>1, <2>2 DEF SemWait, IInv, TypeOK
  <1>2. QueueInv'  BY DEF SemWait, IInv, QueueInv, Submitted, Counted
  <1>3. MainInv'  BY DEF SemWait, IInv, MainInv
  <1>4. LatchInv'  BY DEF SemWait, IInv, LatchInv, tdone, Counted
  <1>5. ClosureInv'  BY DEF SemWait, IInv, ClosureInv
  <1>6. LockInv'  BY DEF SemWait, IInv, LockInv, Nobody
  <1>7. TokenInv'
    <2>. SUFFICES ASSUME spin, NEW q \in Worker
                  PROVE  sems'[q] + Hand(q)' + Unposted(q)' >= Len(tasks'[q])
      BY DEF SemWait, TokenInv
    <2>1. sems'[q] + Hand(q)' = sems[q] + Hand(q)
      BY DEF SemWait, IInv, TypeOK, Hand, Busy
    <2>2. Unposted(q)' = Unposted(q)
      BY DEF SemWait, Unposted
    <2>. QED
      BY <2>1, <2>2 DEF SemWait, IInv, TokenInv
  <1>8. ResnWake'
    BY DEF SemWait, IInv, ResnWake, ResnsEmpty, Attending, TypeOK
  <1>9. HolderInv'  BY DEF SemWait, IInv, HolderInv, ResnsEmpty
  <1>10. FinishInv'  BY DEF SemWait, IInv, FinishInv
  <1>. QED
    BY <1>1, <1>2, <1>3, <1>4, <1>5, <1>6, <1>7, <1>8, <1>9, <1>10 DEF IInv

(* A worker tries to become the resolver. *)
LEMMA TryLockSafe ==
  ASSUME NEW p \in Worker, IInv, TryLock(p)
  PROVE  IInv'
  <1>1. TypeOK'  BY DEF TryLock, IInv, TypeOK, WorkerPC
  <1>2. QueueInv'  BY DEF TryLock, IInv, QueueInv, Submitted, Counted, TypeOK
  <1>3. MainInv'  BY DEF TryLock, IInv, MainInv
  <1>4. LatchInv'  BY DEF TryLock, IInv, LatchInv, tdone, Counted, TypeOK
  <1>5. ClosureInv'
    BY DEF TryLock, IInv, ClosureInv, TypeOK
  <1>6. LockInv'
    <2>1. Nobody \notin Worker
      BY DEF Worker, Nobody
    <2>2. wpc \in [Worker -> WorkerPC]
      BY DEF IInv, TypeOK
    <2>3. CASE rlck = Nobody
      BY <2>1, <2>2, <2>3 DEF TryLock, IInv, LockInv
    <2>4. CASE rlck # Nobody
      BY <2>1, <2>2, <2>4 DEF TryLock, IInv, LockInv
    <2>. QED
      BY <2>3, <2>4
  <1>7. TokenInv'  BY DEF TryLock, IInv, TokenInv, Hand, Busy, Unposted, TypeOK
  <1>8. ResnWake'
    BY DEF TryLock, IInv, ResnWake, ResnsEmpty, Attending, TypeOK, LockInv,
           HolderInv, MainInv, Nobody
  <1>9. HolderInv'  BY DEF TryLock, IInv, HolderInv, ResnsEmpty, TypeOK
  <1>10. FinishInv'  BY DEF TryLock, IInv, FinishInv
  <1>. QED
    BY <1>1, <1>2, <1>3, <1>4, <1>5, <1>6, <1>7, <1>8, <1>9, <1>10 DEF IInv

(* The resolver looks at resns and calls the front closure. *)
LEMMA CheckResnsSafe ==
  ASSUME NEW p \in Worker, IInv, CheckResns(p)
  PROVE  IInv'
  <1>1. TypeOK'
    <2>1. wpc' \in [Worker -> WorkerPC]
      BY DEF CheckResns, IInv, TypeOK, WorkerPC
    <2>2. rruns' \in [Op -> Nat] /\ crashed' \in BOOLEAN
      <3>1. /\ rruns \in [Op -> Nat] /\ crashed \in BOOLEAN
            /\ records[readIndex] \in Op \cup {Dead}
        BY DEF IInv, TypeOK
      <3>2. CASE ResnsEmpty
        BY <3>1, <3>2 DEF CheckResns
      <3>3. CASE ~ResnsEmpty /\ ~FrontWhole
        BY <3>1, <3>3 DEF CheckResns
      <3>4. CASE ~ResnsEmpty /\ FrontWhole
        <4>1. /\ rruns' = [rruns EXCEPT ![records[readIndex]] = @ + 1]
              /\ crashed' = crashed /\ records[readIndex] \in Op
          BY <3>1, <3>4 DEF CheckResns, FrontWhole
        <4>. QED
          BY <3>1, <4>1
      <3>. QED
        BY <3>2, <3>3, <3>4
    <2>. QED
      BY <2>1, <2>2 DEF CheckResns, IInv, TypeOK
  <1>2. QueueInv'
    BY DEF CheckResns, ResnsEmpty, IInv, QueueInv, Submitted, Counted, TypeOK
  <1>3. MainInv'  BY DEF CheckResns, ResnsEmpty, IInv, MainInv
  <1>4. LatchInv'
    BY DEF CheckResns, ResnsEmpty, IInv, LatchInv, tdone, Counted, TypeOK
  <1>5. ClosureInv'
    <2>1. \A k \in Op : rruns'[k] > 0 =>
                           rruns[k] > 0 \/ (k = records[readIndex] /\ k # Dead)
      BY DEF CheckResns, FrontWhole, IInv, TypeOK
    <2>2. readIndex \in Slot /\ UNCHANGED <<issued, latch, records, tasks>>
      BY DEF CheckResns, IInv, TypeOK
    <2>3. \A k \in Op : rruns'[k] > 0 => k <= issued /\ latch[k] = 0
      BY <2>1, <2>2 DEF IInv, ClosureInv
    <2>4. \A q \in Worker : wpc'[q] \in Writing => wpc'[q] = wpc[q]
      BY DEF CheckResns, IInv, TypeOK
    <2>. QED
      BY <2>2, <2>3, <2>4 DEF IInv, ClosureInv
  <1>6. LockInv'  BY DEF CheckResns, ResnsEmpty, IInv, LockInv, Nobody, TypeOK
  <1>7. TokenInv'
    BY DEF CheckResns, ResnsEmpty, IInv, TokenInv, Hand, Busy, Unposted, TypeOK
  <1>8. ResnWake'
    BY DEF CheckResns, ResnsEmpty, IInv, ResnWake, Attending, TypeOK
  <1>9. HolderInv'  BY DEF CheckResns, ResnsEmpty, IInv, HolderInv, TypeOK
  <1>10. FinishInv'  BY DEF CheckResns, ResnsEmpty, IInv, FinishInv
  <1>. QED
    BY <1>1, <1>2, <1>3, <1>4, <1>5, <1>6, <1>7, <1>8, <1>9, <1>10 DEF IInv

(* A resolver that found nothing unlocks. *)
LEMMA UnlockEmptySafe ==
  ASSUME NEW p \in Worker, IInv, UnlockEmpty(p)
  PROVE  IInv'
  <1>1. TypeOK'  BY DEF UnlockEmpty, IInv, TypeOK, WorkerPC
  <1>2. QueueInv'  BY DEF UnlockEmpty, IInv, QueueInv, Submitted, Counted
  <1>3. MainInv'  BY DEF UnlockEmpty, IInv, MainInv
  <1>4. LatchInv'  BY DEF UnlockEmpty, IInv, LatchInv, tdone, Counted
  <1>5. ClosureInv'  BY DEF UnlockEmpty, IInv, ClosureInv
  <1>6. LockInv'
    <2>1. rlck = p /\ rlck' = Nobody /\ Nobody \notin Worker
      BY DEF UnlockEmpty, IInv, LockInv, Worker, Nobody
    <2>2. wpc'[p] = "task" /\ \A q \in Worker \ {p} : wpc'[q] = wpc[q]
      BY DEF UnlockEmpty, IInv, TypeOK
    <2>. QED
      BY <2>1, <2>2 DEF IInv, LockInv
  <1>7. TokenInv'  BY DEF UnlockEmpty, IInv, TokenInv, Hand, Busy, Unposted
  <1>8. ResnWake'  BY DEF UnlockEmpty, IInv, ResnWake, ResnsEmpty, Attending
  <1>9. HolderInv'  BY DEF UnlockEmpty, IInv, HolderInv, ResnsEmpty
  <1>10. FinishInv'  BY DEF UnlockEmpty, IInv, FinishInv
  <1>. QED
    BY <1>1, <1>2, <1>3, <1>4, <1>5, <1>6, <1>7, <1>8, <1>9, <1>10 DEF IInv

(* The resolver pops the closure it called. *)
LEMMA PopResnSafe ==
  ASSUME NEW p \in Worker, IInv, PopResn(p)
  PROVE  IInv'
  <1>1. TypeOK'
    <2>1. records' \in [Slot -> Op \cup {Dead}]
      BY DEF PopResn, IInv, TypeOK
    <2>2. readIndex' \in Slot
      BY DEF PopResn, NextRecord, IInv, TypeOK, Slot
    <2>3. wpc' \in [Worker -> WorkerPC]
      BY DEF PopResn, IInv, TypeOK, WorkerPC
    <2>. QED
      BY <2>1, <2>2, <2>3 DEF PopResn, IInv, TypeOK
  <1>2. QueueInv'
    BY DEF PopResn, NextRecord, IInv, QueueInv, Submitted, Counted
  <1>3. MainInv'  BY DEF PopResn, NextRecord, IInv, MainInv
  <1>4. LatchInv'
    BY DEF PopResn, NextRecord, IInv, LatchInv, tdone, Counted, TypeOK
  <1>5. ClosureInv'  BY DEF PopResn, NextRecord, IInv, ClosureInv
  <1>6. LockInv'  BY DEF PopResn, NextRecord, IInv, LockInv, Nobody
  <1>7. TokenInv'
    BY DEF PopResn, NextRecord, IInv, TokenInv, Hand, Busy, Unposted
  <1>8. ResnWake'
    BY DEF PopResn, NextRecord, IInv, ResnWake, ResnsEmpty, Attending
  <1>9. HolderInv'
    BY DEF PopResn, NextRecord, IInv, HolderInv, ResnsEmpty, TypeOK, LockInv,
           Nobody
  <1>10. FinishInv'  BY DEF PopResn, NextRecord, IInv, FinishInv
  <1>. QED
    BY <1>1, <1>2, <1>3, <1>4, <1>5, <1>6, <1>7, <1>8, <1>9, <1>10 DEF IInv

(* The resolver unlocks after a resolution. *)
LEMMA UnlockSafe ==
  ASSUME NEW p \in Worker, IInv, Unlock(p)
  PROVE  IInv'
  <1>1. TypeOK'  BY DEF Unlock, IInv, TypeOK, WorkerPC
  <1>2. QueueInv'  BY DEF Unlock, IInv, QueueInv, Submitted, Counted
  <1>3. MainInv'  BY DEF Unlock, IInv, MainInv
  <1>4. LatchInv'  BY DEF Unlock, IInv, LatchInv, tdone, Counted
  <1>5. ClosureInv'  BY DEF Unlock, IInv, ClosureInv
  <1>6. LockInv'
    <2>1. rlck = p /\ rlck' = Nobody /\ Nobody \notin Worker
      BY DEF Unlock, IInv, LockInv, Worker, Nobody
    <2>2. wpc'[p] = "post" /\ \A q \in Worker \ {p} : wpc'[q] = wpc[q]
      BY DEF Unlock, IInv, TypeOK
    <2>. QED
      BY <2>1, <2>2 DEF IInv, LockInv
  <1>7. TokenInv'  BY DEF Unlock, IInv, TokenInv, Hand, Busy, Unposted
  <1>8. ResnWake'  BY DEF Unlock, IInv, ResnWake, ResnsEmpty, Attending
  <1>9. HolderInv'  BY DEF Unlock, IInv, HolderInv, ResnsEmpty
  <1>10. FinishInv'  BY DEF Unlock, IInv, FinishInv
  <1>. QED
    BY <1>1, <1>2, <1>3, <1>4, <1>5, <1>6, <1>7, <1>8, <1>9, <1>10 DEF IInv

(* The resolver posts every worker. *)
LEMMA PostAllSafe ==
  ASSUME NEW p \in Worker, IInv, PostAll(p)
  PROVE  IInv'
  <1>1. TypeOK'
    BY PostLoopSafe DEF PostAll, WorkerPC, Busy
  <1>2. QueueInv'  BY DEF PostAll, PostLoop, IInv, QueueInv, Submitted, Counted
  <1>3. MainInv'  BY DEF PostAll, PostLoop, IInv, MainInv
  <1>4. LatchInv'  BY DEF PostAll, PostLoop, IInv, LatchInv, tdone, Counted
  <1>5. ClosureInv'  BY DEF PostAll, PostLoop, IInv, ClosureInv
  <1>6. LockInv'  BY DEF PostAll, PostLoop, IInv, LockInv, Nobody
  <1>7. TokenInv'
    BY PostLoopSafe DEF PostAll, WorkerPC, Busy
  <1>8. ResnWake'
    BY PostLoopSafe DEF PostAll, WorkerPC, Busy
  <1>9. HolderInv'
    BY PostLoopSafe DEF PostAll, WorkerPC, Busy
  <1>10. FinishInv'  BY DEF PostAll, PostLoop, IInv, FinishInv
  <1>. QED
    BY <1>1, <1>2, <1>3, <1>4, <1>5, <1>6, <1>7, <1>8, <1>9, <1>10 DEF IInv

(* A worker runs its front task up to count_down(). *)
LEMMA CheckTaskSafe ==
  ASSUME NEW p \in Worker, IInv, CheckTask(p)
  PROVE  IInv'
  <1>1. TypeOK'
    <2>1. latch' \in [Op -> Int]
      BY DEF CheckTask, IInv, TypeOK
    <2>2. wpc' \in [Worker -> WorkerPC]
      BY DEF CheckTask, IInv, TypeOK, WorkerPC
    <2>. QED
      BY <2>1, <2>2 DEF CheckTask, IInv, TypeOK
  <1>2. QueueInv'  BY DEF CheckTask, IInv, QueueInv, Submitted, Counted, TypeOK
  <1>3. MainInv'  BY DEF CheckTask, IInv, MainInv
  <1>4. LatchInv'
    BY CheckTaskLatch
  <1>5. ClosureInv'
    BY CheckTaskLatch
  <1>6. LockInv'  BY DEF CheckTask, IInv, LockInv, Nobody, TypeOK
  <1>7. TokenInv'
    <2>. SUFFICES ASSUME spin, NEW q \in Worker
                  PROVE  sems'[q] + Hand(q)' + Unposted(q)' >= Len(tasks'[q])
      BY DEF CheckTask, TokenInv
    <2>1. /\ sems'[q] = sems[q] /\ tasks' = tasks /\ Unposted(q)' = Unposted(q)
          /\ sems[q] \in Nat /\ Unposted(q) \in Nat
      BY DEF CheckTask, Unposted, IInv, TypeOK
    <2>2. Hand(q)' = Hand(q) \/ (tasks[q] = <<>> /\ Hand(q)' = 0)
      BY DEF CheckTask, IInv, TypeOK, Hand, Busy
    <2>. QED
      BY <2>1, <2>2 DEF IInv, TokenInv
  <1>8. ResnWake'
    BY DEF CheckTask, IInv, ResnWake, ResnsEmpty, Attending, TypeOK
  <1>9. HolderInv'  BY DEF CheckTask, IInv, HolderInv, ResnsEmpty, TypeOK
  <1>10. FinishInv'  BY DEF CheckTask, IInv, FinishInv
  <1>. QED
    BY <1>1, <1>2, <1>3, <1>4, <1>5, <1>6, <1>7, <1>8, <1>9, <1>10 DEF IInv

(* A worker looks whether the latch is zero. *)
LEMMA TryWaitSafe ==
  ASSUME NEW p \in Worker, IInv, TryWait(p)
  PROVE  IInv'
  <1>1. TypeOK'  BY DEF TryWait, IInv, TypeOK, WorkerPC
  <1>2. QueueInv'  BY DEF TryWait, IInv, QueueInv, Submitted, Counted
  <1>3. MainInv'  BY DEF TryWait, IInv, MainInv
  <1>4. LatchInv'  BY DEF TryWait, IInv, LatchInv, tdone, Counted
  <1>5. ClosureInv'  BY DEF TryWait, IInv, ClosureInv
  <1>6. LockInv'  BY DEF TryWait, IInv, LockInv, Nobody
  <1>7. TokenInv'  BY DEF TryWait, IInv, TokenInv, Hand, Busy, Unposted
  <1>8. ResnWake'  BY DEF TryWait, IInv, ResnWake, ResnsEmpty, Attending
  <1>9. HolderInv'  BY DEF TryWait, IInv, HolderInv, ResnsEmpty
  <1>10. FinishInv'  BY DEF TryWait, IInv, FinishInv
  <1>. QED
    BY <1>1, <1>2, <1>3, <1>4, <1>5, <1>6, <1>7, <1>8, <1>9, <1>10 DEF IInv

(* submitr() loads the write index. *)
LEMMA LoadWriteSafe ==
  ASSUME NEW p \in Worker, IInv, LoadWrite(p)
  PROVE  IInv'
  <1>1. TypeOK'  BY DEF LoadWrite, IInv, TypeOK, WorkerPC
  <1>2. QueueInv'  BY DEF LoadWrite, IInv, QueueInv, Submitted, Counted
  <1>3. MainInv'  BY DEF LoadWrite, IInv, MainInv
  <1>4. LatchInv'  BY DEF LoadWrite, IInv, LatchInv, tdone, Counted
  <1>5. ClosureInv'  BY DEF LoadWrite, IInv, ClosureInv
  <1>6. LockInv'  BY DEF LoadWrite, IInv, LockInv, Nobody
  <1>7. TokenInv'  BY DEF LoadWrite, IInv, TokenInv, Hand, Busy, Unposted
  <1>8. ResnWake'  BY DEF LoadWrite, IInv, ResnWake, ResnsEmpty, Attending
  <1>9. HolderInv'  BY DEF LoadWrite, IInv, HolderInv, ResnsEmpty
  <1>10. FinishInv'  BY DEF LoadWrite, IInv, FinishInv
  <1>. QED
    BY <1>1, <1>2, <1>3, <1>4, <1>5, <1>6, <1>7, <1>8, <1>9, <1>10 DEF IInv

(* submitr() looks whether resns is full. *)
LEMMA CheckFullSafe ==
  ASSUME NEW p \in Worker, IInv, CheckFull(p)
  PROVE  IInv'
  <1>1. TypeOK'  BY DEF CheckFull, NextRecord, IInv, TypeOK, WorkerPC
  <1>2. QueueInv'
    BY DEF CheckFull, NextRecord, IInv, QueueInv, Submitted, Counted
  <1>3. MainInv'  BY DEF CheckFull, NextRecord, IInv, MainInv
  <1>4. LatchInv'  BY DEF CheckFull, NextRecord, IInv, LatchInv, tdone, Counted
  <1>5. ClosureInv'  BY DEF CheckFull, NextRecord, IInv, ClosureInv
  <1>6. LockInv'  BY DEF CheckFull, NextRecord, IInv, LockInv, Nobody
  <1>7. TokenInv'
    BY DEF CheckFull, NextRecord, IInv, TokenInv, Hand, Busy, Unposted
  <1>8. ResnWake'
    BY DEF CheckFull, NextRecord, IInv, ResnWake, ResnsEmpty, Attending
  <1>9. HolderInv'  BY DEF CheckFull, NextRecord, IInv, HolderInv, ResnsEmpty
  <1>10. FinishInv'  BY DEF CheckFull, NextRecord, IInv, FinishInv
  <1>. QED
    BY <1>1, <1>2, <1>3, <1>4, <1>5, <1>6, <1>7, <1>8, <1>9, <1>10 DEF IInv

(* The constructor of the closure begins in the slot. *)
LEMMA BeginRecordSafe ==
  ASSUME NEW p \in Worker, IInv, BeginRecord(p)
  PROVE  IInv'
  <1>a. Head(tasks[p]) \in Op /\ Head(tasks[p]) <= issued
    BY FrontTask DEF BeginRecord, IInv, QueueInv
  <1>1. TypeOK'
    <2>1. records' \in [Slot -> Op \cup {Dead}] /\ building' \in SUBSET Slot
      BY <1>a DEF BeginRecord, IInv, TypeOK
    <2>2. wpc' \in [Worker -> WorkerPC]
      BY DEF BeginRecord, IInv, TypeOK, WorkerPC
    <2>. QED
      BY <2>1, <2>2 DEF BeginRecord, IInv, TypeOK
  <1>2. QueueInv'  BY DEF BeginRecord, IInv, QueueInv, Submitted
  <1>3. MainInv'  BY DEF BeginRecord, IInv, MainInv
  <1>4. LatchInv'  BY DEF BeginRecord, IInv, LatchInv, tdone, TypeOK
  <1>5. ClosureInv'
    <2>1. latch[Head(tasks[p])] = 0
      BY DEF BeginRecord, IInv, ClosureInv
    <2>2. \A s \in Slot : records'[s] \in {records[s], Head(tasks[p])}
      BY DEF BeginRecord, IInv, TypeOK
    <2>3. \A q \in Worker : wpc'[q] \in Writing => wpc[q] \in Writing
      BY DEF BeginRecord, IInv, TypeOK
    <2>. QED
      BY <1>a, <2>1, <2>2, <2>3 DEF BeginRecord, IInv, ClosureInv
  <1>6. LockInv'  BY DEF BeginRecord, IInv, LockInv, Nobody
  <1>7. TokenInv'  BY DEF BeginRecord, IInv, TokenInv, Hand, Busy, Unposted
  <1>8. ResnWake'
    BY DEF BeginRecord, IInv, ResnWake, ResnsEmpty, Attending, TypeOK
  <1>9. HolderInv'  BY DEF BeginRecord, IInv, HolderInv, ResnsEmpty, TypeOK
  <1>10. FinishInv'  BY DEF BeginRecord, IInv, FinishInv
  <1>. QED
    BY <1>1, <1>2, <1>3, <1>4, <1>5, <1>6, <1>7, <1>8, <1>9, <1>10 DEF IInv

(* The constructor ends. *)
LEMMA EndRecordSafe ==
  ASSUME NEW p \in Worker, IInv, EndRecord(p)
  PROVE  IInv'
  <1>a. Head(tasks[p]) \in Op /\ Head(tasks[p]) <= issued
    BY FrontTask DEF EndRecord, IInv, QueueInv
  <1>1. TypeOK'
    <2>1. records' \in [Slot -> Op \cup {Dead}]
      BY <1>a DEF EndRecord, IInv, TypeOK
    <2>2. wpc' \in [Worker -> WorkerPC]
      BY DEF EndRecord, IInv, TypeOK, WorkerPC
    <2>3. building' \in SUBSET Slot
      BY DEF EndRecord, IInv, TypeOK
    <2>. QED
      BY <2>1, <2>2, <2>3 DEF EndRecord, IInv, TypeOK
  <1>2. QueueInv'  BY DEF EndRecord, IInv, QueueInv, Submitted
  <1>3. MainInv'  BY DEF EndRecord, IInv, MainInv
  <1>4. LatchInv'  BY DEF EndRecord, IInv, LatchInv, tdone
  <1>5. ClosureInv'
    <2>1. latch[Head(tasks[p])] = 0
      BY DEF EndRecord, IInv, ClosureInv
    <2>2. \A s \in Slot : records'[s] \in {records[s], Head(tasks[p])}
      BY DEF EndRecord, IInv, TypeOK
    <2>3. \A q \in Worker : wpc'[q] \in Writing => wpc[q] \in Writing
      BY DEF EndRecord, IInv, TypeOK
    <2>. QED
      BY <1>a, <2>1, <2>2, <2>3 DEF EndRecord, IInv, ClosureInv
  <1>6. LockInv'  BY DEF EndRecord, IInv, LockInv, Nobody
  <1>7. TokenInv'  BY DEF EndRecord, IInv, TokenInv, Hand, Busy, Unposted
  <1>8. ResnWake'
    BY DEF EndRecord, IInv, ResnWake, ResnsEmpty, Attending, TypeOK
  <1>9. HolderInv'  BY DEF EndRecord, IInv, HolderInv, ResnsEmpty, TypeOK
  <1>10. FinishInv'  BY DEF EndRecord, IInv, FinishInv
  <1>. QED
    BY <1>1, <1>2, <1>3, <1>4, <1>5, <1>6, <1>7, <1>8, <1>9, <1>10 DEF IInv

(* submitr() stores the index. *)
LEMMA StoreWriteSafe ==
  ASSUME NEW p \in Worker, IInv, StoreWrite(p)
  PROVE  IInv'
  <1>1. TypeOK'
    <2>1. writeIndex' \in Slot
      BY DEF StoreWrite, NextRecord, IInv, TypeOK, Slot
    <2>2. wpc' \in [Worker -> WorkerPC]
      BY DEF StoreWrite, IInv, TypeOK, WorkerPC
    <2>. QED
      BY <2>1, <2>2 DEF StoreWrite, IInv, TypeOK
  <1>2. QueueInv'  BY DEF StoreWrite, IInv, QueueInv, Submitted
  <1>3. MainInv'  BY DEF StoreWrite, IInv, MainInv
  <1>4. LatchInv'  BY DEF StoreWrite, IInv, LatchInv, tdone, TypeOK
  <1>5. ClosureInv'
    <2>1. \A q \in Worker : wpc'[q] \in Writing => wpc'[q] = wpc[q]
      BY DEF StoreWrite, IInv, TypeOK
    <2>. QED
      BY <2>1 DEF StoreWrite, IInv, ClosureInv
  <1>6. LockInv'  BY DEF StoreWrite, IInv, LockInv, Nobody
  <1>7. TokenInv'  BY DEF StoreWrite, IInv, TokenInv, Hand, Busy, Unposted
  <1>8. ResnWake'
    BY DEF StoreWrite, IInv, ResnWake, ResnsEmpty, Attending, TypeOK
  <1>9. HolderInv'  BY DEF StoreWrite, IInv, HolderInv, ResnsEmpty, TypeOK
  <1>10. FinishInv'  BY DEF StoreWrite, IInv, FinishInv
  <1>. QED
    BY <1>1, <1>2, <1>3, <1>4, <1>5, <1>6, <1>7, <1>8, <1>9, <1>10 DEF IInv

(* submitr() posts every worker. *)
LEMMA PostResnSafe ==
  ASSUME NEW p \in Worker, IInv, PostResn(p)
  PROVE  IInv'
  <1>1. TypeOK'
    BY PostLoopSafe DEF PostResn, WorkerPC, Busy
  <1>2. QueueInv'
    BY DEF PostResn, PostLoop, IInv, QueueInv, Submitted, Counted
  <1>3. MainInv'  BY DEF PostResn, PostLoop, IInv, MainInv
  <1>4. LatchInv'  BY DEF PostResn, PostLoop, IInv, LatchInv, tdone, Counted
  <1>5. ClosureInv'  BY DEF PostResn, PostLoop, IInv, ClosureInv
  <1>6. LockInv'  BY DEF PostResn, PostLoop, IInv, LockInv, Nobody
  <1>7. TokenInv'
    BY PostLoopSafe DEF PostResn, WorkerPC, Busy
  <1>8. ResnWake'
    BY PostLoopSafe DEF PostResn, WorkerPC, Busy
  <1>9. HolderInv'
    BY PostLoopSafe DEF PostResn, WorkerPC, Busy
  <1>10. FinishInv'  BY DEF PostResn, PostLoop, IInv, FinishInv
  <1>. QED
    BY <1>1, <1>2, <1>3, <1>4, <1>5, <1>6, <1>7, <1>8, <1>9, <1>10 DEF IInv

(* A worker pops the task it ran. *)
LEMMA PopTaskSafe ==
  ASSUME NEW p \in Worker, IInv, PopTask(p)
  PROVE  IInv'
  <1>a. tasks[p] # <<>>
    BY DEF PopTask, IInv, QueueInv, Counted
  <1>b. \A q \in Worker \ {p} :
           tasks'[q] = tasks[q] /\ comp_tasks'[q] = comp_tasks[q] /\ wpc'[q] = wpc[q]
    BY DEF PopTask, IInv, TypeOK
  <1>1. TypeOK'
    <2>1. tasks' \in [Worker -> Seq(Op)]
      BY <1>a DEF PopTask, IInv, TypeOK
    <2>2. \A q \in Worker : Len(tasks'[q]) < QUEUE_SZ
      BY <1>a DEF PopTask, IInv, TypeOK
    <2>3. comp_tasks' \in [Worker -> Nat]
      BY DEF PopTask, IInv, TypeOK
    <2>4. wpc' \in [Worker -> WorkerPC]
      BY DEF PopTask, IInv, TypeOK, WorkerPC
    <2>. QED
      BY <2>1, <2>2, <2>3, <2>4 DEF PopTask, IInv, TypeOK
  <1>2. QueueInv'
    <2>1. UNCHANGED <<mpc, mi, issued>>
      BY DEF PopTask
    <2>. SUFFICES ASSUME NEW q \in Worker
                  PROVE  /\ comp_tasks'[q] + Len(tasks'[q]) = Submitted(q)
                         /\ \A i \in 1 .. Len(tasks'[q]) :
                              tasks'[q][i] = comp_tasks'[q] + i
                         /\ wpc'[q] \in Counted => tasks'[q] # <<>>
      BY <2>1 DEF QueueInv, Submitted
    <2>2. CASE q # p
      BY <2>2, <1>b DEF IInv, QueueInv
    <2>3. CASE q = p
      <3>1. /\ tasks'[p] = Tail(tasks[p]) /\ comp_tasks'[p] = comp_tasks[p] + 1
            /\ wpc'[p] = "notify" /\ tasks[p] \in Seq(Op) /\ comp_tasks[p] \in Nat
        BY DEF PopTask, IInv, TypeOK
      <3>2. /\ comp_tasks[p] + Len(tasks[p]) = Submitted(p)
            /\ \A i \in 1 .. Len(tasks[p]) : tasks[p][i] = comp_tasks[p] + i
        BY DEF IInv, QueueInv
      <3>3. /\ (comp_tasks[p] + 1) + Len(Tail(tasks[p])) = Submitted(p)
            /\ \A i \in 1 .. Len(Tail(tasks[p])) :
                 Tail(tasks[p])[i] = (comp_tasks[p] + 1) + i
        BY <1>a, <3>1, <3>2, RunTail
      <3>. QED
        BY <2>3, <3>1, <3>3 DEF Counted
    <2>. QED
      BY <2>2, <2>3
  <1>3. MainInv'  BY DEF PopTask, IInv, MainInv
  <1>4. LatchInv'
    <2>1. ASSUME NEW q \in Worker
          PROVE  comp_tasks'[q] + (IF wpc'[q] \in Counted THEN 1 ELSE 0) =
                 comp_tasks[q] + (IF wpc[q] \in Counted THEN 1 ELSE 0)
      <3>1. CASE q = p
        BY <3>1 DEF PopTask, IInv, TypeOK, Counted
      <3>2. CASE q # p
        BY <3>2, <1>b
      <3>. QED
        BY <3>1, <3>2
    <2>2. tdone' = tdone
      BY <2>1 DEF tdone
    <2>. QED
      BY <2>2 DEF PopTask, IInv, LatchInv
  <1>5. ClosureInv'  BY DEF PopTask, IInv, ClosureInv
  <1>6. LockInv'  BY DEF PopTask, IInv, LockInv, Nobody
  <1>7. TokenInv'
    <2>. SUFFICES ASSUME spin, NEW q \in Worker
                  PROVE  sems'[q] + Hand(q)' + Unposted(q)' >= Len(tasks'[q])
      BY DEF PopTask, TokenInv
    <2>1. /\ sems'[q] = sems[q] /\ Unposted(q)' = Unposted(q)
          /\ sems[q] \in Nat /\ Unposted(q) \in Nat
      BY DEF PopTask, Unposted, IInv, TypeOK
    <2>2. sems[q] + Hand(q) + Unposted(q) >= Len(tasks[q])
      BY DEF IInv, TokenInv
    <2>3. CASE q = p
      <3>1. /\ Len(tasks'[p]) = Len(tasks[p]) - 1 /\ Len(tasks[p]) \in Nat
            /\ Hand(p) = 1 /\ Hand(p)' = 0
        BY <1>a DEF PopTask, IInv, TypeOK, Hand, Busy
      <3>. QED
        BY <2>1, <2>2, <2>3, <3>1
    <2>4. CASE q # p
      BY <2>1, <2>2, <2>4, <1>b DEF Hand
    <2>. QED
      BY <2>3, <2>4
  <1>8. ResnWake'  BY DEF PopTask, IInv, ResnWake, ResnsEmpty, Attending
  <1>9. HolderInv'  BY DEF PopTask, IInv, HolderInv, ResnsEmpty
  <1>10. FinishInv'
    <2>1. \A q \in Worker : tasks[q] = <<>> => tasks'[q] = <<>>
      BY <1>a, <1>b
    <2>2. UNCHANGED <<ret, mpc, mi>>
      BY DEF PopTask
    <2>3. mpc = "fin_resns" => mi \in Worker
      BY DEF IInv, TypeOK, MainInv, Worker
    <2>. QED
      BY <2>1, <2>2, <2>3 DEF IInv, FinishInv
  <1>. QED
    BY <1>1, <1>2, <1>3, <1>4, <1>5, <1>6, <1>7, <1>8, <1>9, <1>10 DEF IInv

(* A worker notifies finish(). *)
LEMMA NotifyOneSafe ==
  ASSUME NEW p \in Worker, IInv, NotifyOne(p)
  PROVE  IInv'
  <1>1. TypeOK'
    <2>1. mi' \in 0 .. HWCONC /\ mpc' \in MainPC
      BY DEF NotifyOne, FinWake, IInv, TypeOK, MainPC
    <2>2. ret' \in BOOLEAN
      BY DEF NotifyOne, FinWake, IInv, TypeOK
    <2>3. wpc' \in [Worker -> WorkerPC]
      BY DEF NotifyOne, IInv, TypeOK, WorkerPC
    <2>. QED
      BY <2>1, <2>2, <2>3 DEF NotifyOne, IInv, TypeOK
  <1>2. QueueInv'
    BY DEF NotifyOne, FinWake, IInv, QueueInv, Submitted, Counted
  <1>3. MainInv'
    <2>1. CASE mpc = "fin_wait"
      BY <2>1 DEF NotifyOne, FinWake, IInv, MainInv
    <2>2. CASE mpc # "fin_wait"
      BY <2>2 DEF NotifyOne, IInv, MainInv
    <2>. QED
      BY <2>1, <2>2
  <1>4. LatchInv'  BY DEF NotifyOne, FinWake, IInv, LatchInv, tdone, Counted
  <1>5. ClosureInv'  BY DEF NotifyOne, FinWake, IInv, ClosureInv
  <1>6. LockInv'  BY DEF NotifyOne, FinWake, IInv, LockInv, Nobody
  <1>7. TokenInv'
    BY DEF NotifyOne, FinWake, IInv, TokenInv, Hand, Busy, Unposted
  <1>8. ResnWake'
    BY DEF NotifyOne, FinWake, IInv, ResnWake, ResnsEmpty, Attending
  <1>9. HolderInv'  BY DEF NotifyOne, FinWake, IInv, HolderInv, ResnsEmpty
  <1>10. FinishInv'
    <2>1. CASE mpc = "fin_wait"
      <3>1. mpc' = "fin_tasks" /\ mi' = 0
        BY <2>1 DEF NotifyOne, FinWake
      <3>. QED
        BY <3>1 DEF FinishInv, Worker
    <2>2. CASE mpc # "fin_wait"
      BY <2>2 DEF NotifyOne, IInv, FinishInv
    <2>. QED
      BY <2>1, <2>2
  <1>. QED
    BY <1>1, <1>2, <1>3, <1>4, <1>5, <1>6, <1>7, <1>8, <1>9, <1>10 DEF IInv

-----------------------------------------------------------------------------
(* The theorems *)

(* The initial state of the pool satisfies the invariant. *)
LEMMA InitSafe == Init => IInv
  <1>. SUFFICES ASSUME Init
                PROVE  IInv
    OBVIOUS
  <1>1. TypeOK
    <2>1. records \in [Slot -> Op \cup {Dead}] /\ building \in SUBSET Slot
      BY DEF Init
    <2>2. readIndex \in Slot /\ writeIndex \in Slot /\ currentWrite \in [Worker -> Slot]
      BY DEF Init, Slot
    <2>3. wpc \in [Worker -> WorkerPC] /\ mpc \in MainPC
      BY DEF Init, WorkerPC, MainPC
    <2>4. tasks \in [Worker -> Seq(Op)] /\ \A p \in Worker : Len(tasks[p]) < QUEUE_SZ
      BY DEF Init
    <2>5. /\ comp_tasks \in [Worker -> Nat] /\ sems \in [Worker -> Nat]
          /\ latch \in [Op -> Int] /\ rruns \in [Op -> Nat]
      BY DEF Init
    <2>6. /\ spin \in BOOLEAN /\ ret \in BOOLEAN /\ crashed \in BOOLEAN
          /\ rlck \in Worker \cup {Nobody}
      BY DEF Init
    <2>7. mi \in 0 .. HWCONC /\ issued \in 0 .. MaxOps /\ finished \in 0 .. MaxOps
      BY DEF Init
    <2>. QED
      BY <2>1, <2>2, <2>3, <2>4, <2>5, <2>6, <2>7 DEF TypeOK
  <1>2. QueueInv
    BY DEF Init, QueueInv, Submitted, Counted
  <1>3. LatchInv
    BY DEF Init, LatchInv, Op
  <1>4. ClosureInv
    BY DEF Init, ClosureInv
  <1>5. LockInv
    BY DEF Init, LockInv, Worker, Nobody
  <1>6. MainInv /\ TokenInv /\ ResnWake /\ HolderInv /\ FinishInv
    BY DEF Init, MainInv, TokenInv, Hand, Unposted, ResnWake, HolderInv,
           ResnsEmpty, FinishInv, Busy
  <1>. QED
    BY <1>1, <1>2, <1>3, <1>4, <1>5, <1>6 DEF IInv

(* A step that changes nothing preserves the invariant. *)
LEMMA StutterSafe == IInv /\ UNCHANGED vars => IInv'
  <1>. SUFFICES ASSUME IInv, UNCHANGED vars
                PROVE  IInv'
    OBVIOUS
  <1>1. (TypeOK /\ QueueInv /\ MainInv)'
    BY DEF vars, IInv, TypeOK, QueueInv, Submitted, MainInv
  <1>2. (LatchInv /\ ClosureInv /\ LockInv)'
    BY DEF vars, IInv, LatchInv, tdone, ClosureInv, LockInv
  <1>3. (TokenInv /\ ResnWake /\ HolderInv /\ FinishInv)'
    BY DEF vars, IInv, TokenInv, Hand, Unposted, ResnWake, HolderInv,
           ResnsEmpty, FinishInv
  <1>. QED
    BY <1>1, <1>2, <1>3 DEF IInv

(* Every step of the pool preserves the invariant. *)
LEMMA NextSafe == IInv /\ [Next]_vars => IInv'
  <1>. SUFFICES ASSUME IInv, [Next]_vars
                PROVE  IInv'
    OBVIOUS
  <1>1. CASE Main
    BY <1>1, IssueOpSafe, SubmitWriteSafe, SubmitPostSafe, FinTasksSafe,
       FinResnsSafe, FinReturnSafe, FinBlockSafe, StopSafe, StopPostSafe,
       JoinSafe DEF Main
  <1>2. CASE SpuriousWake
    BY <1>2, SpuriousWakeSafe
  <1>3. ASSUME NEW p \in Worker, WorkerStep(p)
        PROVE  IInv'
    BY <1>3, SemWaitSafe, TryLockSafe, CheckResnsSafe, UnlockEmptySafe,
       PopResnSafe, UnlockSafe, PostAllSafe, CheckTaskSafe, TryWaitSafe,
       LoadWriteSafe, CheckFullSafe, BeginRecordSafe, EndRecordSafe,
       StoreWriteSafe, PostResnSafe,
       PopTaskSafe, NotifyOneSafe DEF WorkerStep
  <1>4. CASE Terminated
    BY <1>4, StutterSafe DEF Terminated
  <1>5. CASE UNCHANGED vars
    BY <1>5, StutterSafe
  <1>. QED
    BY <1>1, <1>2, <1>3, <1>4, <1>5 DEF Next

(***************************************************************************)
(* The invariant holds throughout every behaviour of the pool, whatever    *)
(* the number of workers, operations and queue slots.                      *)
(***************************************************************************)
THEOREM Invariance == Spec => []IInv
  BY InitSafe, NextSafe, PTL DEF Spec

(* Every variable of the pool keeps its type. *)
THEOREM TypeCorrect == Spec => []TypeOK
  <1>1. IInv => TypeOK
    BY DEF IInv
  <1>. QED
    BY <1>1, Invariance, PTL

(***************************************************************************)
(* A resolution runs only after every worker has reattached its splinter   *)
(* of that operation.  latch[k] counts the workers that are missing, a     *)
(* closure is queued only with latch[k] = 0, and a latch at zero stays so. *)
(***************************************************************************)
THEOREM ResolveAfter == Spec => []ResolveAfterTasks
  <1>1. ASSUME IInv, NEW k \in Op, rruns[k] > 0, NEW p \in Worker
        PROVE  tdone[p] >= k
    <2>. DEFINE S == {q \in Worker : tdone[q] < k}
    <2>1. k <= issued /\ latch[k] = 0
      BY <1>1 DEF IInv, ClosureInv
    <2>2. Cardinality(S) = 0
      BY <2>1, <1>1 DEF IInv, LatchInv
    <2>3. IsFiniteSet(S)
      BY WorkerSet
    <2>4. S = {}
      BY <2>2, <2>3, FS_EmptySet
    <2>5. tdone[p] \in Nat
      BY <1>1, DoneIssued
    <2>. QED
      BY <2>4, <2>5 DEF Op
  <1>2. IInv => ResolveAfterTasks
    BY <1>1 DEF ResolveAfterTasks
  <1>. QED
    BY <1>2, Invariance, PTL

(* No queued task is ever left without a token that will make it run. *)
THEOREM NoTaskStranded == Spec => []TokenInv
  <1>1. IInv => TokenInv
    BY DEF IInv
  <1>. QED
    BY <1>1, Invariance, PTL

(* No queued resolution is ever left with all workers asleep. *)
THEOREM NoResolutionStranded == Spec => []ResnWake
  <1>1. IInv => ResnWake
    BY DEF IInv
  <1>. QED
    BY <1>1, Invariance, PTL

(* When finish() returns, every worker has completed all issued tasks. *)
THEOREM FinishDrains == Spec => []AllTasksDone
  <1>1. ASSUME IInv, mpc = "fin_test", ret, NEW p \in Worker
        PROVE  comp_tasks[p] = issued
    <2>1. tasks[p] = <<>>
      BY <1>1 DEF IInv, FinishInv
    <2>2. Submitted(p) = issued
      BY <1>1 DEF Submitted
    <2>3. comp_tasks[p] \in Nat /\ comp_tasks[p] + Len(tasks[p]) = Submitted(p)
      BY <1>1 DEF IInv, TypeOK, QueueInv
    <2>. QED
      BY <2>1, <2>2, <2>3
  <1>2. IInv => AllTasksDone
    BY <1>1 DEF AllTasksDone
  <1>. QED
    BY <1>2, Invariance, PTL

-----------------------------------------------------------------------------
(***************************************************************************)
(* Two workers: what resns holds                                           *)
(*                                                                         *)
(* resns has several producers, its class allows one.  With at most two    *)
(* workers its indices stay right: a producer that was overtaken writes    *)
(* the slot the other one wrote, with a closure of the same operation,     *)
(* because the next operation's latch cannot reach zero before it is       *)
(* through.  While it does, that closure is not whole: this is the one way *)
(* to call a closure that is not.  The invariant adds to IInv:             *)
(*                                                                         *)
(*   WindowInv  the slots between the indices hold live closures in issue  *)
(*              order, of operations finish() has not seen over            *)
(*   CallInv    the closure that is being called is the front one          *)
(*   WriterInv  a producer is about to write behind the last slot, which   *)
(*              is free, or once more what the other one has written       *)
(*   BuildInv   a closure that is not whole is under construction          *)
(*   CoverInv   an operation whose latch is at zero was resolved, is queued*)
(*              or some worker is about to queue it                        *)
(*   CountInv   a worker queues an operation once                          *)
(*   QuietInv   resns is and stays empty once finish() is about to return  *)
(***************************************************************************)

(* how far slot s is behind the front of resns; the slots in use *)
Place(s)  == IF s >= readIndex THEN s - readIndex ELSE s - readIndex + QUEUE_SZ
Used      == Place(writeIndex)
Queued(s) == Place(s) < Used

Pending == {"try_wait"} \cup Writing
Loaded  == Writing \ {"load"}
Calling == \E p \in Worker : wpc[p] = "popResn"

(* worker p will not queue operation k any more *)
Through(p, k) ==
  \/ comp_tasks[p] >= k
  \/ comp_tasks[p] + 1 = k /\ wpc[p] \in {"postr", "popTask"}

SlotsOf(k) == {s \in Slot : Queued(s) /\ records[s] = k}
Behind(k)  == {p \in Worker : Through(p, k)}
Called(k)  == IF Calling /\ records[readIndex] = k THEN 1 ELSE 0

WindowInv ==
  \A s \in Slot : Queued(s) =>
     /\ records[s] # Dead
     /\ records[s] > finished
     /\ \A j \in Op : j > records[s] => rruns[j] = 0
     /\ \A t \in Slot : Place(t) <= Place(s) => records[t] <= records[s]

CallInv == Calling => ~ResnsEmpty /\ rruns[records[readIndex]] >= 1

(* behind the last slot, or where the other worker has written *)
WritesBehind(p) ==
  /\ currentWrite[p] = writeIndex
  /\ wpc[p] \in {"new", "construct", "store"} => Used < QUEUE_SZ - 1
  /\ wpc[p] \in {"construct", "store"} =>
       records[currentWrite[p]] = comp_tasks[p] + 1

WritesAgain(p) ==
  /\ NextRecord(currentWrite[p]) = writeIndex
  /\ \E q \in Worker : Through(q, comp_tasks[p] + 1)
  /\ IF Queued(currentWrite[p])
     THEN records[currentWrite[p]] = comp_tasks[p] + 1
     ELSE rruns[comp_tasks[p] + 1] >= 1

WriterInv ==
  \A p \in Worker :
    wpc[p] \in Loaded => WritesBehind(p) \/ WritesAgain(p)

BuildInv ==
  \A s \in building :
    \E p \in Worker : wpc[p] = "construct" /\ currentWrite[p] = s

Covered(k) ==
  \/ rruns[k] >= 1
  \/ \E s \in Slot : Queued(s) /\ records[s] = k
  \/ \E p \in Worker : wpc[p] \in Pending /\ comp_tasks[p] + 1 = k

CoverInv == \A k \in Op : k <= issued /\ latch[k] = 0 => Covered(k)

CountInv ==
  \A k \in Op :
    rruns[k] + Cardinality(SlotsOf(k)) <= Cardinality(Behind(k)) + Called(k)

QuietInv ==
  /\ \A p \in Worker : finished <= comp_tasks[p]
  /\ mpc = "fin_test" /\ ret => ResnsEmpty
  /\ mpc \in {"stop", "post_stop", "join", "done"} =>
       ResnsEmpty /\ \A p \in Worker : tasks[p] = <<>>
  /\ spin => \A p \in Worker : wpc[p] # "exit"

ResnsInv ==
  /\ WindowInv
  /\ CallInv
  /\ WriterInv
  /\ BuildInv
  /\ CoverInv
  /\ CountInv
  /\ QuietInv

USE DEF Loaded

-----------------------------------------------------------------------------
(* Facts about the slots and the operations in them *)

(* Places are numbers below QUEUE_SZ, one for every slot, from the front on. *)
LEMMA Places ==
  ASSUME TypeOK
  PROVE  /\ \A s \in Slot : Place(s) \in 0 .. QUEUE_SZ - 1
         /\ \A s \in Slot, t \in Slot : Place(s) = Place(t) => s = t
         /\ Place(readIndex) = 0
         /\ Used \in 0 .. QUEUE_SZ - 1
         /\ ResnsEmpty <=> Used = 0
         /\ ~Queued(writeIndex)
         /\ ~ResnsEmpty => Queued(readIndex)
         /\ \A s \in Slot : NextRecord(s) \in Slot
         /\ NextRecord(writeIndex) # readIndex <=> Used < QUEUE_SZ - 1
  BY DEF TypeOK, Place, Used, Queued, ResnsEmpty, Slot, NextRecord

(* The slot behind the last one comes into use, nothing else moves. *)
LEMMA OneMore ==
  ASSUME TypeOK, Used < QUEUE_SZ - 1,
         readIndex' = readIndex, writeIndex' = NextRecord(writeIndex)
  PROVE  /\ \A s \in Slot : Place(s)' = Place(s)
         /\ Used' = Used + 1
         /\ \A s \in Slot : Queued(s)' <=> Queued(s) \/ s = writeIndex
  BY DEF TypeOK, Place, Used, Queued, Slot, NextRecord

(* The front slot goes out of use, the others move up. *)
LEMMA OneFewer ==
  ASSUME TypeOK, ~ResnsEmpty,
         readIndex' = NextRecord(readIndex), writeIndex' = writeIndex
  PROVE  /\ \A s \in Slot : Place(s)' = IF s = readIndex THEN QUEUE_SZ - 1
                                                         ELSE Place(s) - 1
         /\ Used' = Used - 1
         /\ \A s \in Slot : Queued(s)' <=> Queued(s) /\ s # readIndex
  BY DEF TypeOK, Place, Used, Queued, Slot, NextRecord, ResnsEmpty

(* The slots are a finite set. *)
LEMMA SlotSet == \A S \in SUBSET Slot : IsFiniteSet(S) /\ Cardinality(S) \in Nat
  <1>1. IsFiniteSet(Slot)
    BY FS_Interval DEF Slot
  <1>. QED
    BY <1>1, FS_Subset, FS_CardinalityType

(* A smaller set has no more elements. *)
LEMMA NoMore ==
  ASSUME NEW F, NEW G, IsFiniteSet(G), F \subseteq G
  PROVE  Cardinality(F) <= Cardinality(G)
  BY FS_Subset

(* All workers have counted down a latch that is at zero. *)
LEMMA LatchZero ==
  ASSUME IInv, NEW k \in Op, k <= issued
  PROVE  latch[k] = 0 <=> \A p \in Worker : tdone[p] >= k
  <1>. DEFINE S == {q \in Worker : tdone[q] < k}
  <1>1. latch[k] = Cardinality(S)
    BY DEF IInv, LatchInv
  <1>2. IsFiniteSet(S)
    BY WorkerSet
  <1>3. Cardinality(S) = 0 <=> S = {}
    BY <1>2, FS_EmptySet
  <1>4. \A p \in Worker : tdone[p] \in Nat
    BY DoneIssued
  <1>. QED
    BY <1>1, <1>3, <1>4 DEF Op

(* An operation that is in a slot or was resolved has been run by everybody. *)
LEMMA ResolvedDone ==
  ASSUME IInv, NEW k \in Op,
         rruns[k] > 0 \/ \E s \in Slot : records[s] = k
  PROVE  k <= issued /\ \A p \in Worker : tdone[p] >= k
  <1>1. k # Dead
    BY DEF Op, Dead
  <1>2. k <= issued /\ latch[k] = 0
    BY <1>1 DEF IInv, ClosureInv
  <1>. QED
    BY <1>2, LatchZero

(* What a worker that queues a resolution knows of its operation. *)
LEMMA AtStore ==
  ASSUME IInv, NEW p \in Worker, wpc[p] \in Writing
  PROVE  /\ comp_tasks[p] \in Nat
         /\ Head(tasks[p]) = comp_tasks[p] + 1
         /\ comp_tasks[p] + 1 \in Op
         /\ comp_tasks[p] + 1 <= issued
         /\ latch[comp_tasks[p] + 1] = 0
         /\ tdone[p] = comp_tasks[p] + 1
         /\ \A q \in Worker : tdone[q] >= comp_tasks[p] + 1
  <1>1. tasks[p] # <<>>
    BY DEF IInv, QueueInv, Counted
  <1>2. /\ Head(tasks[p]) = comp_tasks[p] + 1
        /\ Head(tasks[p]) \in Op /\ Head(tasks[p]) <= issued
    BY <1>1, FrontTask
  <1>3. latch[comp_tasks[p] + 1] = 0
    BY <1>2 DEF IInv, ClosureInv
  <1>4. tdone[p] = comp_tasks[p] + 1
    BY DEF tdone, Counted
  <1>. QED
    BY <1>2, <1>3, <1>4, LatchZero DEF IInv, TypeOK

(* Two workers that queue a resolution queue the same one. *)
LEMMA SameOperation ==
  ASSUME IInv, NEW p \in Worker, wpc[p] \in Writing,
         NEW q \in Worker, wpc[q] \in Writing
  PROVE  comp_tasks[p] = comp_tasks[q]
  BY AtStore

(* With two workers, one that writes what the other has written is alone. *)
LEMMA Alone ==
  ASSUME IInv, HWCONC <= 2,
         NEW p \in Worker, wpc[p] \in Loaded, WritesAgain(p),
         NEW q \in Worker, wpc[q] \in Writing
  PROVE  q = p
  <1>1. comp_tasks[p] = comp_tasks[q] /\ comp_tasks[p] \in Nat
    BY SameOperation, AtStore
  <1>2. ~Through(p, comp_tasks[p] + 1) /\ ~Through(q, comp_tasks[p] + 1)
    BY <1>1 DEF Through
  <1>3. PICK r \in Worker : Through(r, comp_tasks[p] + 1)
    BY DEF WritesAgain
  <1>. QED
    BY <1>2, <1>3 DEF Worker

-----------------------------------------------------------------------------
(* Steps that leave one part of the invariant alone *)

LEMMA WindowFrame ==
  ASSUME WindowInv,
         UNCHANGED <<records, readIndex, writeIndex, rruns, finished>>
  PROVE  WindowInv'
  BY DEF WindowInv, Queued, Place, Used

LEMMA CallFrame ==
  ASSUME CallInv, UNCHANGED <<records, readIndex, writeIndex, rruns>>,
         Calling' => Calling
  PROVE  CallInv'
  BY DEF CallInv, ResnsEmpty

LEMMA WriterFrame ==
  ASSUME WriterInv,
         UNCHANGED <<records, readIndex, writeIndex, rruns, currentWrite, comp_tasks>>,
         \A q \in Worker : wpc'[q] \in Loaded => wpc'[q] = wpc[q],
         \A q \in Worker : wpc[q] \in {"postr", "popTask"} =>
                             wpc'[q] \in {"postr", "popTask"}
  PROVE  WriterInv'
  <1>. SUFFICES ASSUME NEW p \in Worker, wpc'[p] \in Loaded
                PROVE  WritesBehind(p)' \/ WritesAgain(p)'
    BY DEF WriterInv
  <1>1. WritesBehind(p) \/ WritesAgain(p)
    BY DEF WriterInv
  <1>2. WritesBehind(p) => WritesBehind(p)'
    BY DEF WritesBehind, Used, Place
  <1>3. \A q \in Worker : Through(q, comp_tasks[p] + 1) => Through(q, comp_tasks[p] + 1)'
    BY DEF Through
  <1>4. WritesAgain(p) => WritesAgain(p)'
    BY <1>3 DEF WritesAgain, Queued, Used, Place, NextRecord
  <1>. QED
    BY <1>1, <1>2, <1>4

LEMMA BuildFrame ==
  ASSUME BuildInv, building' \subseteq building,
         \A q \in Worker : wpc[q] = "construct" =>
           wpc'[q] = "construct" /\ currentWrite'[q] = currentWrite[q]
  PROVE  BuildInv'
  BY DEF BuildInv

LEMMA CoverFrame ==
  ASSUME CoverInv,
         UNCHANGED <<records, readIndex, writeIndex, rruns, comp_tasks, latch, issued>>,
         \A q \in Worker : wpc[q] \in Pending => wpc'[q] \in Pending
  PROVE  CoverInv'
  BY DEF CoverInv, Covered, Queued, Used, Place

LEMMA CountFrame ==
  ASSUME IInv, CountInv,
         UNCHANGED <<records, readIndex, writeIndex, rruns>>,
         Calling => Calling',
         \A q \in Worker, k \in Op : Through(q, k) => Through(q, k)'
  PROVE  CountInv'
  <1>. SUFFICES ASSUME NEW k \in Op
                PROVE  rruns[k] + Cardinality(SlotsOf(k)') <=
                         Cardinality(Behind(k)') + Called(k)'
    BY DEF CountInv
  <1>1. rruns[k] + Cardinality(SlotsOf(k)) <= Cardinality(Behind(k)) + Called(k)
    BY DEF CountInv
  <1>2. SlotsOf(k)' = SlotsOf(k)
    BY DEF SlotsOf, Queued, Used, Place
  <1>3. Behind(k) \subseteq Behind(k)'
    BY DEF Behind
  <1>4. IsFiniteSet(Behind(k)') /\ Cardinality(Behind(k)') \in Nat
        /\ Cardinality(Behind(k)) \in Nat
    BY WorkerSet DEF Behind
  <1>5. Cardinality(Behind(k)) <= Cardinality(Behind(k)')
    BY <1>3, <1>4, NoMore
  <1>6. Called(k) <= Called(k)' /\ Called(k) \in Nat /\ Called(k)' \in Nat
    BY DEF Called
  <1>7. rruns[k] \in Nat /\ Cardinality(SlotsOf(k)) \in Nat
    BY SlotSet DEF IInv, TypeOK, SlotsOf
  <1>. QED
    BY <1>1, <1>2, <1>4, <1>5, <1>6, <1>7

(* Steps of main and of workers that are not at their front task. *)
LEMMA ResnsFrame ==
  ASSUME IInv, ResnsInv,
         UNCHANGED <<records, building, readIndex, writeIndex, rruns, currentWrite,
                     comp_tasks, latch, issued, finished>>,
         \A q \in Worker : wpc'[q] \in Loaded => wpc'[q] = wpc[q],
         \A q \in Worker : wpc[q] \in {"postr", "popTask"} =>
                             wpc'[q] \in {"postr", "popTask"},
         \A q \in Worker : wpc[q] \in Pending => wpc'[q] \in Pending,
         \A q \in Worker : wpc'[q] = "popResn" <=> wpc[q] = "popResn",
         \A q \in Worker : wpc[q] = "construct" => wpc'[q] = "construct",
         QuietInv'
  PROVE  ResnsInv'
  <1>1. Calling' <=> Calling
    BY DEF Calling
  <1>2. \A q \in Worker, k \in Op : Through(q, k) => Through(q, k)'
    BY DEF Through
  <1>3. BuildInv'
    BY BuildFrame DEF ResnsInv
  <1>. QED
    BY <1>1, <1>2, <1>3, WindowFrame, CallFrame, WriterFrame, CoverFrame, CountFrame
    DEF ResnsInv

-----------------------------------------------------------------------------
(* Every action preserves the invariant of resns *)

(* Main, but for IssueOp and FinReturn, touches nothing of resns. *)
LEMMA MainResns ==
  ASSUME IInv, IInv', ResnsInv,
         \/ SubmitWrite \/ SubmitPost \/ FinTasks \/ FinResns \/ FinBlock
         \/ Stop \/ StopPost \/ Join \/ SpuriousWake
  PROVE  ResnsInv'
  <1>1. /\ UNCHANGED <<records, building, readIndex, writeIndex, rruns, currentWrite,
                       comp_tasks, latch, issued, finished>>
        /\ wpc' = wpc
    BY DEF SubmitWrite, SubmitPost, FinTasks, FinResns, FinBlock, Stop,
           StopPost, Join, SpuriousWake, FinLoop
  <1>2. QuietInv'
    <2>1. \A p \in Worker : finished' <= comp_tasks'[p]
      BY <1>1 DEF ResnsInv, QuietInv
    <2>2. ASSUME mpc' = "fin_test", ret'
          PROVE  ResnsEmpty'
      <3>1. FinResns
        BY <2>2 DEF SubmitWrite, SubmitPost, FinTasks, FinLoop, FinBlock, Stop,
                    StopPost, Join, SpuriousWake, FinWake
      <3>. QED
        BY <2>2, <3>1, <1>1 DEF FinResns, ResnsEmpty
    <2>3. ASSUME mpc' \in {"stop", "post_stop", "join", "done"}
          PROVE  ResnsEmpty' /\ \A p \in Worker : tasks'[p] = <<>>
      <3>1. mpc \in {"stop", "post_stop", "join", "done"} /\ tasks' = tasks
        BY <2>3 DEF SubmitWrite, SubmitPost, FinTasks, FinResns, FinLoop,
                    FinBlock, Stop, StopPost, Join, SpuriousWake, FinWake
      <3>. QED
        BY <1>1, <3>1 DEF ResnsInv, QuietInv, ResnsEmpty
    <2>4. spin' => spin
      BY DEF SubmitWrite, SubmitPost, FinTasks, FinResns, FinBlock, Stop,
             StopPost, Join, SpuriousWake
    <2>. QED
      BY <1>1, <2>1, <2>2, <2>3, <2>4 DEF ResnsInv, QuietInv
  <1>. QED
    BY <1>1, <1>2, ResnsFrame

(* The latch of a new operation is not at zero. *)
LEMMA IssueOpResns ==
  ASSUME IInv, IInv', ResnsInv, IssueOp
  PROVE  ResnsInv'
  <1>1. /\ UNCHANGED <<records, building, readIndex, writeIndex, rruns,
                       currentWrite, tasks, comp_tasks, finished, wpc, spin>>
        /\ issued' = issued + 1 /\ issued \in Nat
        /\ latch' = [latch EXCEPT ![issued + 1] = HWCONC] /\ latch \in [Op -> Int]
        /\ mpc' = "write"
    BY DEF IssueOp, IInv, TypeOK
  <1>2. CoverInv'
    <2>. SUFFICES ASSUME NEW k \in Op, k <= issued', latch'[k] = 0
                  PROVE  Covered(k)'
      BY DEF CoverInv
    <2>1. k <= issued /\ latch[k] = 0
      BY <1>1 DEF Op
    <2>2. Covered(k)
      BY <2>1 DEF ResnsInv, CoverInv
    <2>. QED
      BY <1>1, <2>2 DEF Covered, Queued, Used, Place
  <1>3. QuietInv'
    BY <1>1 DEF ResnsInv, QuietInv
  <1>4. Calling' <=> Calling
    BY <1>1 DEF Calling
  <1>5. \A q \in Worker, k \in Op : Through(q, k) => Through(q, k)'
    BY <1>1 DEF Through
  <1>6. BuildInv'
    BY <1>1, BuildFrame DEF ResnsInv
  <1>. QED
    BY <1>1, <1>2, <1>3, <1>4, <1>5, <1>6, WindowFrame, CallFrame, WriterFrame, CountFrame
    DEF ResnsInv

(* finish() returns with resns empty. *)
LEMMA FinReturnResns ==
  ASSUME IInv, IInv', ResnsInv, FinReturn
  PROVE  ResnsInv'
  <1>1. /\ UNCHANGED <<records, building, readIndex, writeIndex, rruns,
                       currentWrite, tasks, comp_tasks, latch, issued, wpc, spin>>
        /\ finished' = issued
        /\ mpc = "fin_test" /\ ret /\ mpc' \in {"issue", "stop"}
    BY DEF FinReturn
  <1>2. ResnsEmpty /\ ResnsEmpty'
    BY <1>1 DEF ResnsInv, QuietInv, ResnsEmpty
  <1>3. WindowInv'
    <2>1. \A s \in Slot : ~Queued(s)
      <3>1. TypeOK
        BY DEF IInv
      <3>. QED
        BY <3>1, <1>2, Places DEF Queued
    <2>2. \A s \in Slot : ~Queued(s)'
      BY <1>1, <2>1 DEF Queued, Used, Place
    <2>. QED
      BY <2>2 DEF WindowInv
  <1>4. QuietInv'
    <2>1. \A p \in Worker : tasks[p] = <<>>
      BY <1>1 DEF IInv, FinishInv
    <2>2. \A p \in Worker : comp_tasks[p] = issued
      <3>. SUFFICES ASSUME NEW p \in Worker
                    PROVE  comp_tasks[p] = issued
        OBVIOUS
      <3>1. comp_tasks[p] + Len(tasks[p]) = issued /\ comp_tasks[p] \in Nat
        BY <1>1 DEF IInv, TypeOK, QueueInv, Submitted
      <3>. QED
        BY <2>1, <3>1
    <2>3. issued \in Nat
      BY DEF IInv, TypeOK
    <2>. QED
      BY <1>1, <1>2, <2>1, <2>2, <2>3 DEF ResnsInv, QuietInv
  <1>5. Calling' <=> Calling
    BY <1>1 DEF Calling
  <1>6. \A q \in Worker, k \in Op : Through(q, k) => Through(q, k)'
    BY <1>1 DEF Through
  <1>7. BuildInv'
    BY <1>1, BuildFrame DEF ResnsInv
  <1>. QED
    BY <1>1, <1>3, <1>4, <1>5, <1>6, <1>7, CallFrame, WriterFrame, CoverFrame, CountFrame
    DEF ResnsInv

(* A worker at a task of its queue finds finish() still waiting. *)
LEMMA NotQuiet ==
  ASSUME IInv, ResnsInv, NEW p \in Worker, tasks[p] # <<>>
  PROVE  ~(mpc = "fin_test" /\ ret) /\ mpc \notin {"stop", "post_stop", "join", "done"}
  BY DEF IInv, FinishInv, ResnsInv, QuietInv

(* Steps of a worker between its waits that only look or post. *)
LEMMA WorkerResns ==
  ASSUME NEW p \in Worker, IInv, IInv', ResnsInv,
         \/ SemWait(p) \/ TryLock(p) \/ UnlockEmpty(p) \/ Unlock(p)
         \/ PostAll(p) \/ PostResn(p) \/ NotifyOne(p)
  PROVE  ResnsInv'
  <1>1. /\ UNCHANGED <<records, building, readIndex, writeIndex, rruns,
                       currentWrite, tasks, comp_tasks, latch, issued, finished, spin>>
        /\ \E pc \in WorkerPC : /\ wpc' = [wpc EXCEPT ![p] = pc]
                                /\ pc \notin Loaded \cup {"popResn"}
                                /\ pc = "exit" => ~spin
                                /\ wpc[p] = "postr" => pc = "popTask"
        /\ wpc[p] \notin Pending \cup {"popTask", "popResn"}
    BY DEF SemWait, TryLock, UnlockEmpty, Unlock, PostAll, PostResn, PostLoop,
           NotifyOne, Pending, WorkerPC
  <1>2. wpc \in [Worker -> WorkerPC]
    BY DEF IInv, TypeOK
  <1>3. /\ \A q \in Worker : wpc'[q] \in Loaded => wpc'[q] = wpc[q]
        /\ \A q \in Worker : wpc[q] \in {"postr", "popTask"} =>
                               wpc'[q] \in {"postr", "popTask"}
        /\ \A q \in Worker : wpc[q] \in Pending => wpc'[q] \in Pending
        /\ \A q \in Worker : wpc'[q] = "popResn" <=> wpc[q] = "popResn"
        /\ \A q \in Worker : wpc[q] = "construct" => wpc'[q] = "construct"
        /\ \A q \in Worker : wpc'[q] = "exit" => wpc[q] = "exit" \/ ~spin
    BY <1>1, <1>2 DEF Pending
  <1>4. QuietInv'
    <2>1. /\ mpc' = "fin_test" => mpc = "fin_test" /\ ret' = ret
          /\ mpc' \in {"stop", "post_stop", "join", "done"} => mpc' = mpc
      BY DEF SemWait, TryLock, UnlockEmpty, Unlock, PostAll, PostResn, PostLoop,
             NotifyOne, FinWake
    <2>2. ResnsEmpty' <=> ResnsEmpty
      BY <1>1 DEF ResnsEmpty
    <2>. QED
      BY <1>1, <1>3, <2>1, <2>2 DEF ResnsInv, QuietInv
  <1>. QED
    BY <1>1, <1>3, <1>4, ResnsFrame

(* The front closure is called: the first of its operation or one more. *)
LEMMA CheckResnsResns ==
  ASSUME NEW p \in Worker, IInv, IInv', ResnsInv, CheckResns(p)
  PROVE  ResnsInv'
  <1>1. /\ UNCHANGED <<records, building, readIndex, writeIndex, currentWrite, tasks,
                       comp_tasks, latch, issued, finished, spin, mpc, ret>>
        /\ wpc \in [Worker -> WorkerPC] /\ wpc[p] = "isEmpty"
        /\ TypeOK
    BY DEF CheckResns, IInv, TypeOK
  <1>2. CASE ResnsEmpty
    <2>1. wpc' = [wpc EXCEPT ![p] = "unlock_empty"] /\ rruns' = rruns
      BY <1>2 DEF CheckResns
    <2>2. QuietInv'
      BY <1>1, <2>1 DEF ResnsInv, QuietInv, ResnsEmpty
    <2>. QED
      BY <1>1, <2>1, <2>2, ResnsFrame DEF Pending
  <1>a. CASE ~ResnsEmpty /\ ~FrontWhole
    <2>1. wpc' = wpc /\ rruns' = rruns
      BY <1>a DEF CheckResns
    <2>2. QuietInv'
      BY <1>1, <2>1 DEF ResnsInv, QuietInv, ResnsEmpty
    <2>. QED
      BY <1>1, <2>1, <2>2, ResnsFrame
  <1>3. CASE ~ResnsEmpty /\ FrontWhole
    <2>. DEFINE k == records[readIndex]
    <2>1. readIndex \in Slot /\ Queued(readIndex) /\ Place(readIndex) = 0
      BY <1>1, <1>3, Places DEF TypeOK
    <2>2. k \in Op /\ k # Dead
      BY <1>1, <2>1 DEF ResnsInv, WindowInv, TypeOK
    <2>3. /\ wpc' = [wpc EXCEPT ![p] = "popResn"]
          /\ rruns' = [rruns EXCEPT ![k] = @ + 1] /\ rruns \in [Op -> Nat]
      BY <1>1, <1>3, <2>2 DEF CheckResns, TypeOK
    <2>4. \A j \in Op : rruns'[j] = IF j = k THEN rruns[j] + 1 ELSE rruns[j]
      BY <2>2, <2>3
    <2>5. \A s \in Slot : Queued(s)' = Queued(s) /\ Place(s)' = Place(s)
      BY <1>1 DEF Queued, Used, Place
    <2>6. WindowInv'
      <3>. SUFFICES ASSUME NEW s \in Slot, Queued(s)
                    PROVE  /\ records[s] # Dead
                           /\ records[s] > finished
                           /\ \A j \in Op : j > records[s] => rruns'[j] = 0
                           /\ \A t \in Slot : Place(t) <= Place(s) => records[t] <= records[s]
        BY <1>1, <2>5 DEF WindowInv
      <3>1. /\ records[s] # Dead
            /\ records[s] > finished
            /\ \A j \in Op : j > records[s] => rruns[j] = 0
            /\ \A t \in Slot : Place(t) <= Place(s) => records[t] <= records[s]
        BY DEF ResnsInv, WindowInv
      <3>2. k <= records[s]
        BY <1>1, <2>1, <3>1, Places
      <3>3. records[s] \in Op
        BY <1>1, <3>1 DEF TypeOK
      <3>. QED
        BY <2>2, <2>4, <3>1, <3>2, <3>3 DEF Op
    <2>7. CallInv'
      <3>1. k' = k /\ rruns'[k] >= 1
        BY <1>1, <2>2, <2>3, <2>4
      <3>. QED
        BY <1>1, <1>3, <3>1 DEF CallInv, ResnsEmpty
    <2>8. WriterInv'
      <3>. SUFFICES ASSUME NEW q \in Worker, wpc'[q] \in Loaded
                    PROVE  WritesBehind(q)' \/ WritesAgain(q)'
        BY DEF WriterInv
      <3>1. wpc[q] = wpc'[q] /\ (WritesBehind(q) \/ WritesAgain(q))
        BY <1>1, <2>3 DEF ResnsInv, WriterInv
      <3>2. WritesBehind(q) => WritesBehind(q)'
        BY <1>1, <3>1 DEF WritesBehind, Used, Place
      <3>3. \A r \in Worker : Through(r, comp_tasks[q] + 1) => Through(r, comp_tasks[q] + 1)'
        BY <1>1, <2>3 DEF Through
      <3>4. comp_tasks[q] + 1 \in Op
        BY <3>1, AtStore
      <3>5. rruns[comp_tasks[q] + 1] >= 1 => rruns'[comp_tasks[q] + 1] >= 1
        BY <2>3, <2>4, <3>4
      <3>6. Queued(currentWrite[q])' <=> Queued(currentWrite[q])
        BY <1>1 DEF Queued, Used, Place
      <3>7. WritesAgain(q) => WritesAgain(q)'
        BY <1>1, <3>3, <3>5, <3>6 DEF WritesAgain, NextRecord
      <3>. QED
        BY <3>1, <3>2, <3>7
    <2>9. CoverInv'
      <3>1. \A j \in Op : rruns[j] >= 1 => rruns'[j] >= 1
        BY <2>3, <2>4
      <3>2. \A q \in Worker : wpc[q] \in Pending => wpc'[q] \in Pending
        BY <1>1, <2>3 DEF Pending
      <3>. QED
        BY <1>1, <2>5, <3>1, <3>2 DEF ResnsInv, CoverInv, Covered
    <2>10. CountInv'
      <3>. SUFFICES ASSUME NEW j \in Op
                    PROVE  rruns'[j] + Cardinality(SlotsOf(j)') <=
                             Cardinality(Behind(j)') + Called(j)'
        BY DEF CountInv
      <3>1. rruns[j] + Cardinality(SlotsOf(j)) <= Cardinality(Behind(j)) + Called(j)
        BY DEF ResnsInv, CountInv
      <3>2. ~Calling /\ Calling'
        BY <1>1, <2>3 DEF Calling, IInv, LockInv
      <3>3. Called(j) = 0 /\ Called(j)' = IF j = k THEN 1 ELSE 0
        BY <1>1, <3>2 DEF Called
      <3>4. SlotsOf(j)' = SlotsOf(j)
        BY <1>1, <2>5 DEF SlotsOf
      <3>5. Behind(j)' = Behind(j)
        <4>1. \A q \in Worker : Through(q, j)' <=> Through(q, j)
          BY <1>1, <2>3 DEF Through
        <4>. QED
          BY <4>1 DEF Behind
      <3>6. /\ Cardinality(SlotsOf(j)) \in Nat /\ Cardinality(Behind(j)) \in Nat
            /\ rruns[j] \in Nat
        BY <2>3, SlotSet, WorkerSet DEF SlotsOf, Behind
      <3>. QED
        BY <2>4, <3>1, <3>3, <3>4, <3>5, <3>6
    <2>11. QuietInv'
      BY <1>1, <2>3 DEF ResnsInv, QuietInv, ResnsEmpty
    <2>12. BuildInv'
      BY <1>1, <2>3, BuildFrame DEF ResnsInv
    <2>. QED
      BY <2>6, <2>7, <2>8, <2>9, <2>10, <2>11, <2>12 DEF ResnsInv
  <1>. QED
    BY <1>2, <1>a, <1>3

(* The front closure is destroyed and its slot set free. *)
LEMMA PopResnResns ==
  ASSUME NEW p \in Worker, IInv, IInv', ResnsInv, PopResn(p)
  PROVE  ResnsInv'
  <1>. DEFINE k == records[readIndex]
  <1>1. /\ UNCHANGED <<building, writeIndex, rruns, currentWrite, tasks, comp_tasks, latch,
                       issued, finished, spin, mpc, ret>>
        /\ readIndex' = NextRecord(readIndex)
        /\ wpc \in [Worker -> WorkerPC] /\ wpc[p] = "popResn"
        /\ wpc' = [wpc EXCEPT ![p] = "unlock"]
        /\ rruns \in [Op -> Nat]
        /\ TypeOK
    BY DEF PopResn, IInv, TypeOK
  <1>2. Calling /\ ~Calling'
    BY <1>1 DEF Calling, IInv, LockInv
  <1>3. ~ResnsEmpty /\ rruns[k] >= 1
    BY <1>2 DEF ResnsInv, CallInv
  <1>4. readIndex \in Slot /\ Queued(readIndex)
    BY <1>1, <1>3, Places DEF TypeOK
  <1>5. k \in Op
    BY <1>1, <1>4 DEF ResnsInv, WindowInv, TypeOK
  <1>6. \A s \in Slot : s # readIndex => records'[s] = records[s]
    BY <1>1, <1>4 DEF PopResn, TypeOK
  <1>7. /\ \A s \in Slot : Place(s)' = IF s = readIndex THEN QUEUE_SZ - 1
                                                        ELSE Place(s) - 1
        /\ Used' = Used - 1
        /\ \A s \in Slot : Queued(s)' <=> Queued(s) /\ s # readIndex
    BY <1>1, <1>3, OneFewer
  <1>8. /\ \A s \in Slot : Place(s) \in 0 .. QUEUE_SZ - 1
        /\ Used \in 0 .. QUEUE_SZ - 1
    BY <1>1, Places
  <1>9. WindowInv'
    <2>. SUFFICES ASSUME NEW s \in Slot, Queued(s), s # readIndex
                  PROVE  /\ records[s] # Dead
                         /\ records[s] > finished
                         /\ \A j \in Op : j > records[s] => rruns[j] = 0
                         /\ \A t \in Slot :
                              Place(t)' <= Place(s)' => records'[t] <= records[s]
      BY <1>1, <1>6, <1>7 DEF WindowInv
    <2>1. /\ records[s] # Dead
          /\ records[s] > finished
          /\ \A j \in Op : j > records[s] => rruns[j] = 0
          /\ \A t \in Slot : Place(t) <= Place(s) => records[t] <= records[s]
      BY DEF ResnsInv, WindowInv
    <2>2. ASSUME NEW t \in Slot, Place(t)' <= Place(s)'
          PROVE  records'[t] <= records[s]
      <3>1. Place(s)' = Place(s) - 1 /\ Place(s) < Used
        BY <1>7 DEF Queued
      <3>2. t # readIndex
        BY <2>2, <3>1, <1>7, <1>8
      <3>3. Place(t) <= Place(s)
        BY <2>2, <3>1, <3>2, <1>7, <1>8
      <3>. QED
        BY <2>1, <3>2, <3>3, <1>6
    <2>. QED
      BY <2>1, <2>2
  <1>10. CallInv'
    BY <1>2 DEF CallInv
  <1>11. WriterInv'
    <2>. SUFFICES ASSUME NEW q \in Worker, wpc'[q] \in Loaded
                  PROVE  WritesBehind(q)' \/ WritesAgain(q)'
      BY DEF WriterInv
    <2>1. wpc[q] = wpc'[q] /\ (WritesBehind(q) \/ WritesAgain(q))
      BY <1>1 DEF ResnsInv, WriterInv
    <2>2. WritesBehind(q) => WritesBehind(q)'
      <3>1. writeIndex \in Slot /\ writeIndex # readIndex
        BY <1>1, <1>3 DEF ResnsEmpty, TypeOK
      <3>2. records'[writeIndex] = records[writeIndex]
        BY <1>6, <3>1
      <3>. QED
        BY <1>1, <1>7, <1>8, <2>1, <3>2 DEF WritesBehind
    <2>3. ASSUME WritesAgain(q)
          PROVE  WritesAgain(q)'
      <3>. DEFINE c == currentWrite[q]
                  n == comp_tasks[q] + 1
      <3>1. c \in Slot /\ c' = c /\ n' = n
        BY <1>1 DEF TypeOK
      <3>2. NextRecord(c) = writeIndex'
        BY <1>1, <2>3 DEF WritesAgain
      <3>3. PICK r \in Worker : Through(r, n)
        BY <2>3 DEF WritesAgain
      <3>4. Through(r, n)'
        BY <1>1, <3>3 DEF Through
      <3>5. IF Queued(c)' THEN records'[c] = n ELSE rruns[n] >= 1
        <4>1. CASE Queued(c) /\ c # readIndex
          BY <4>1, <3>1, <1>6, <1>7, <2>3 DEF WritesAgain
        <4>2. CASE Queued(c) /\ c = readIndex
          BY <4>2, <3>1, <1>3, <1>7, <2>3 DEF WritesAgain
        <4>3. CASE ~Queued(c)
          BY <4>3, <3>1, <1>7, <2>3 DEF WritesAgain
        <4>. QED
          BY <4>1, <4>2, <4>3
      <3>6. NextRecord(c)' = NextRecord(c)
        BY <3>1 DEF NextRecord
      <3>7. Queued(currentWrite[q])' <=> Queued(c)'
        BY <3>1
      <3>. QED
        BY <1>1, <3>1, <3>2, <3>4, <3>5, <3>6, <3>7 DEF WritesAgain
    <2>. QED
      BY <2>1, <2>2, <2>3
  <1>12. CoverInv'
    <2>. SUFFICES ASSUME NEW j \in Op, j <= issued, latch[j] = 0
                  PROVE  Covered(j)'
      BY <1>1 DEF CoverInv
    <2>1. Covered(j)
      BY DEF ResnsInv, CoverInv
    <2>2. CASE rruns[j] >= 1
      BY <1>1, <2>2 DEF Covered
    <2>3. ASSUME NEW s \in Slot, Queued(s), records[s] = j
          PROVE  Covered(j)'
      BY <1>1, <1>3, <1>6, <1>7, <2>3 DEF Covered
    <2>4. ASSUME NEW q \in Worker, wpc[q] \in Pending, comp_tasks[q] + 1 = j
          PROVE  Covered(j)'
      BY <1>1, <2>4 DEF Covered, Pending
    <2>. QED
      BY <2>1, <2>2, <2>3, <2>4 DEF Covered
  <1>13. CountInv'
    <2>. SUFFICES ASSUME NEW j \in Op
                  PROVE  rruns[j] + Cardinality(SlotsOf(j)') <=
                           Cardinality(Behind(j)') + Called(j)'
      BY <1>1 DEF CountInv
    <2>1. rruns[j] + Cardinality(SlotsOf(j)) <= Cardinality(Behind(j)) + Called(j)
      BY DEF ResnsInv, CountInv
    <2>2. Called(j) = (IF j = k THEN 1 ELSE 0) /\ Called(j)' = 0
      BY <1>2 DEF Called
    <2>3. SlotsOf(j)' = SlotsOf(j) \ {readIndex}
      BY <1>6, <1>7 DEF SlotsOf
    <2>4. readIndex \in SlotsOf(j) <=> j = k
      BY <1>4 DEF SlotsOf
    <2>5. IsFiniteSet(SlotsOf(j)) /\ Cardinality(SlotsOf(j)) \in Nat
      BY SlotSet DEF SlotsOf
    <2>6. Cardinality(SlotsOf(j)') = Cardinality(SlotsOf(j)) - (IF j = k THEN 1 ELSE 0)
      <3>1. CASE j = k
        BY <3>1, <2>3, <2>4, <2>5, OneLess
      <3>2. CASE j # k
        <4>1. SlotsOf(j)' = SlotsOf(j)
          BY <3>2, <2>3, <2>4
        <4>. QED
          BY <3>2, <4>1, <2>5
      <3>. QED
        BY <3>1, <3>2
    <2>7. Behind(j)' = Behind(j)
      <3>1. \A q \in Worker : Through(q, j)' <=> Through(q, j)
        BY <1>1 DEF Through
      <3>. QED
        BY <3>1 DEF Behind
    <2>8. Cardinality(Behind(j)) \in Nat /\ rruns[j] \in Nat
      BY <1>1, WorkerSet DEF Behind
    <2>. QED
      BY <2>1, <2>2, <2>5, <2>6, <2>7, <2>8
  <1>14. QuietInv'
    BY <1>1, <1>3 DEF ResnsInv, QuietInv
  <1>15. BuildInv'
    BY <1>1, BuildFrame DEF ResnsInv
  <1>. QED
    BY <1>9, <1>10, <1>11, <1>12, <1>13, <1>14, <1>15 DEF ResnsInv

(* The front task runs: its worker is about to look at the latch. *)
LEMMA CheckTaskResns ==
  ASSUME NEW p \in Worker, IInv, IInv', ResnsInv, CheckTask(p)
  PROVE  ResnsInv'
  <1>1. /\ UNCHANGED <<records, building, readIndex, writeIndex, rruns,
                       currentWrite, tasks, comp_tasks, issued, finished, spin, mpc, ret>>
        /\ wpc \in [Worker -> WorkerPC] /\ wpc[p] = "task"
        /\ latch \in [Op -> Int]
        /\ \E pc \in {"notify", "try_wait"} : wpc' = [wpc EXCEPT ![p] = pc]
    BY DEF CheckTask, IInv, TypeOK
  <1>2. CoverInv'
    <2>. SUFFICES ASSUME NEW j \in Op, j <= issued, latch'[j] = 0
                  PROVE  Covered(j)'
      BY <1>1 DEF CoverInv
    <2>1. CASE latch[j] = 0
      <3>1. Covered(j)
        BY <2>1 DEF ResnsInv, CoverInv
      <3>2. \A q \in Worker : wpc[q] \in Pending => wpc'[q] \in Pending
        BY <1>1 DEF Pending
      <3>. QED
        BY <1>1, <3>1, <3>2 DEF Covered, Queued, Used, Place
    <2>2. CASE latch[j] # 0
      <3>1. tasks[p] # <<>> /\ j = Head(tasks[p])
        BY <1>1, <2>2 DEF CheckTask
      <3>2. j = comp_tasks[p] + 1
        BY <3>1, FrontTask
      <3>3. wpc'[p] \in Pending
        BY <1>1, <3>1 DEF CheckTask, Pending
      <3>. QED
        BY <1>1, <3>2, <3>3 DEF Covered
    <2>. QED
      BY <2>1, <2>2
  <1>3. Calling' <=> Calling
    BY <1>1 DEF Calling
  <1>4. \A q \in Worker, k \in Op : Through(q, k) => Through(q, k)'
    BY <1>1 DEF Through
  <1>5. /\ \A q \in Worker : wpc'[q] \in Loaded => wpc'[q] = wpc[q]
        /\ \A q \in Worker : wpc[q] \in {"postr", "popTask"} =>
                               wpc'[q] \in {"postr", "popTask"}
    BY <1>1
  <1>6. QuietInv'
    BY <1>1 DEF ResnsInv, QuietInv, ResnsEmpty
  <1>7. BuildInv'
    BY <1>1, BuildFrame DEF ResnsInv
  <1>. QED
    BY <1>1, <1>2, <1>3, <1>4, <1>5, <1>6, <1>7, WindowFrame, CallFrame, WriterFrame, CountFrame
    DEF ResnsInv

(* Who finds the latch at zero goes on to queue the resolution. *)
LEMMA TryWaitResns ==
  ASSUME NEW p \in Worker, IInv, IInv', ResnsInv, TryWait(p)
  PROVE  ResnsInv'
  <1>1. /\ UNCHANGED <<records, building, readIndex, writeIndex, rruns,
                       currentWrite, tasks, comp_tasks, latch, issued, finished, spin, mpc, ret>>
        /\ wpc \in [Worker -> WorkerPC] /\ wpc[p] = "try_wait"
        /\ \E pc \in {"load", "popTask"} : wpc' = [wpc EXCEPT ![p] = pc]
    BY DEF TryWait, IInv, TypeOK
  <1>2. Head(tasks[p]) = comp_tasks[p] + 1
    BY <1>1, FrontTask DEF IInv, QueueInv, Counted
  <1>3. CoverInv'
    <2>. SUFFICES ASSUME NEW j \in Op, j <= issued, latch[j] = 0
                  PROVE  Covered(j)'
      BY <1>1 DEF CoverInv
    <2>1. Covered(j)
      BY DEF ResnsInv, CoverInv
    <2>2. ASSUME NEW q \in Worker, wpc[q] \in Pending, comp_tasks[q] + 1 = j
          PROVE  wpc'[q] \in Pending
      BY <1>1, <1>2, <2>2 DEF TryWait, Pending
    <2>. QED
      BY <1>1, <2>1, <2>2 DEF Covered, Queued, Used, Place
  <1>4. Calling' <=> Calling
    BY <1>1 DEF Calling
  <1>5. \A q \in Worker, k \in Op : Through(q, k) => Through(q, k)'
    BY <1>1 DEF Through
  <1>6. /\ \A q \in Worker : wpc'[q] \in Loaded => wpc'[q] = wpc[q]
        /\ \A q \in Worker : wpc[q] \in {"postr", "popTask"} =>
                               wpc'[q] \in {"postr", "popTask"}
    BY <1>1
  <1>7. QuietInv'
    BY <1>1 DEF ResnsInv, QuietInv, ResnsEmpty
  <1>8. BuildInv'
    BY <1>1, BuildFrame DEF ResnsInv
  <1>. QED
    BY <1>1, <1>3, <1>4, <1>5, <1>6, <1>7, <1>8, WindowFrame, CallFrame, WriterFrame, CountFrame
    DEF ResnsInv

(* A producer reads where the next slot is. *)
LEMMA LoadWriteResns ==
  ASSUME NEW p \in Worker, IInv, IInv', ResnsInv, LoadWrite(p)
  PROVE  ResnsInv'
  <1>1. /\ UNCHANGED <<records, building, readIndex, writeIndex, rruns, tasks,
                       comp_tasks, latch, issued, finished, spin, mpc, ret>>
        /\ wpc \in [Worker -> WorkerPC] /\ wpc[p] = "load"
        /\ wpc' = [wpc EXCEPT ![p] = "full"]
        /\ currentWrite \in [Worker -> Slot]
        /\ currentWrite' = [currentWrite EXCEPT ![p] = writeIndex]
    BY DEF LoadWrite, IInv, TypeOK
  <1>2. \A q \in Worker, k \in Op : Through(q, k) => Through(q, k)'
    BY <1>1 DEF Through
  <1>3. WriterInv'
    <2>. SUFFICES ASSUME NEW q \in Worker, wpc'[q] \in Loaded
                  PROVE  WritesBehind(q)' \/ WritesAgain(q)'
      BY DEF WriterInv
    <2>1. CASE q = p
      BY <1>1, <2>1 DEF WritesBehind
    <2>2. CASE q # p
      <3>1. wpc[q] = wpc'[q] /\ currentWrite'[q] = currentWrite[q]
        BY <1>1, <2>2
      <3>2. WritesBehind(q) \/ WritesAgain(q)
        BY <3>1 DEF ResnsInv, WriterInv
      <3>3. WritesBehind(q) => WritesBehind(q)'
        BY <1>1, <3>1 DEF WritesBehind, Used, Place
      <3>4. comp_tasks[q] + 1 \in Op
        BY <3>1, AtStore
      <3>5. WritesAgain(q) => WritesAgain(q)'
        BY <1>1, <1>2, <3>1, <3>4 DEF WritesAgain, Queued, Used, Place, NextRecord
      <3>. QED
        BY <3>2, <3>3, <3>5
    <2>. QED
      BY <2>1, <2>2
  <1>4. Calling' <=> Calling
    BY <1>1 DEF Calling
  <1>5. \A q \in Worker : wpc[q] \in Pending => wpc'[q] \in Pending
    BY <1>1 DEF Pending
  <1>6. QuietInv'
    BY <1>1 DEF ResnsInv, QuietInv, ResnsEmpty
  <1>7. BuildInv'
    BY <1>1, BuildFrame DEF ResnsInv
  <1>. QED
    BY <1>1, <1>2, <1>3, <1>4, <1>5, <1>6, <1>7, WindowFrame, CallFrame, CoverFrame, CountFrame
    DEF ResnsInv

(* A producer goes on only if there is a free slot, which stays free. *)
LEMMA CheckFullResns ==
  ASSUME NEW p \in Worker, IInv, IInv', ResnsInv, CheckFull(p)
  PROVE  ResnsInv'
  <1>1. /\ UNCHANGED <<records, building, readIndex, writeIndex, rruns,
                       currentWrite, tasks, comp_tasks, latch, issued, finished, spin, mpc, ret>>
        /\ wpc \in [Worker -> WorkerPC] /\ wpc[p] = "full"
        /\ wpc' = [wpc EXCEPT ![p] = IF NextRecord(currentWrite[p]) # readIndex
                                     THEN "new" ELSE "load"]
        /\ TypeOK
    BY DEF CheckFull, IInv, TypeOK
  <1>2. \A q \in Worker, k \in Op : Through(q, k) => Through(q, k)'
    BY <1>1 DEF Through
  <1>3. WriterInv'
    <2>. SUFFICES ASSUME NEW q \in Worker, wpc'[q] \in Loaded
                  PROVE  WritesBehind(q)' \/ WritesAgain(q)'
      BY DEF WriterInv
    <2>1. wpc[q] \in Loaded /\ (q # p => wpc'[q] = wpc[q])
      BY <1>1
    <2>2. WritesBehind(q) \/ WritesAgain(q)
      BY <2>1 DEF ResnsInv, WriterInv
    <2>3. WritesBehind(q) => WritesBehind(q)'
      <3>1. UNCHANGED Used
        BY <1>1 DEF Used, Place
      <3>2. CASE q = p
        <4>1. wpc'[p] = "new" /\ NextRecord(currentWrite[p]) # readIndex
          BY <1>1, <3>2
        <4>2. currentWrite[p] = writeIndex => Used < QUEUE_SZ - 1
          BY <1>1, <4>1, Places
        <4>. QED
          BY <1>1, <3>1, <3>2, <4>2 DEF WritesBehind
      <3>3. CASE q # p
        BY <1>1, <2>1, <3>1, <3>3 DEF WritesBehind
      <3>. QED
        BY <3>2, <3>3
    <2>4. comp_tasks[q] + 1 \in Op
      BY <2>1, AtStore
    <2>5. WritesAgain(q) => WritesAgain(q)'
      BY <1>1, <1>2, <2>4 DEF WritesAgain, Queued, Used, Place, NextRecord
    <2>. QED
      BY <2>2, <2>3, <2>5
  <1>4. Calling' <=> Calling
    BY <1>1 DEF Calling
  <1>5. \A q \in Worker : wpc[q] \in Pending => wpc'[q] \in Pending
    BY <1>1 DEF Pending
  <1>6. QuietInv'
    BY <1>1 DEF ResnsInv, QuietInv, ResnsEmpty
  <1>7. BuildInv'
    BY <1>1, BuildFrame DEF ResnsInv
  <1>. QED
    BY <1>1, <1>2, <1>3, <1>4, <1>5, <1>6, <1>7, WindowFrame, CallFrame, CoverFrame, CountFrame
    DEF ResnsInv

(* A worker pops the task whose resolution it has queued, or need not queue. *)
LEMMA PopTaskResns ==
  ASSUME NEW p \in Worker, IInv, IInv', ResnsInv, PopTask(p)
  PROVE  ResnsInv'
  <1>1. /\ UNCHANGED <<records, building, readIndex, writeIndex, rruns, currentWrite,
                       latch, issued, finished, spin, mpc, ret>>
        /\ wpc \in [Worker -> WorkerPC] /\ wpc[p] = "popTask"
        /\ wpc' = [wpc EXCEPT ![p] = "notify"]
        /\ comp_tasks \in [Worker -> Nat]
        /\ comp_tasks' = [comp_tasks EXCEPT ![p] = @ + 1]
        /\ finished \in Nat
    BY DEF PopTask, IInv, TypeOK
  <1>2. \A q \in Worker, k \in Op : Through(q, k) => Through(q, k)'
    BY <1>1 DEF Through, Op
  <1>3. WriterInv'
    <2>. SUFFICES ASSUME NEW q \in Worker, wpc'[q] \in Loaded
                  PROVE  WritesBehind(q)' \/ WritesAgain(q)'
      BY DEF WriterInv
    <2>1. wpc[q] = wpc'[q] /\ comp_tasks'[q] = comp_tasks[q]
      BY <1>1
    <2>2. WritesBehind(q) \/ WritesAgain(q)
      BY <2>1 DEF ResnsInv, WriterInv
    <2>3. WritesBehind(q) => WritesBehind(q)'
      BY <1>1, <2>1 DEF WritesBehind, Used, Place
    <2>4. comp_tasks[q] + 1 \in Op
      BY <2>1, AtStore
    <2>5. WritesAgain(q) => WritesAgain(q)'
      BY <1>1, <1>2, <2>1, <2>4 DEF WritesAgain, Queued, Used, Place, NextRecord
    <2>. QED
      BY <2>2, <2>3, <2>5
  <1>4. CoverInv'
    <2>1. ASSUME NEW q \in Worker, wpc[q] \in Pending
          PROVE  wpc'[q] \in Pending /\ comp_tasks'[q] = comp_tasks[q]
      BY <1>1, <2>1 DEF Pending
    <2>. QED
      BY <1>1, <2>1 DEF ResnsInv, CoverInv, Covered, Queued, Used, Place
  <1>5. Calling' <=> Calling
    BY <1>1 DEF Calling
  <1>6. QuietInv'
    <2>1. tasks[p] # <<>>
      BY <1>1 DEF IInv, QueueInv, Counted
    <2>2. /\ ~(mpc = "fin_test" /\ ret)
          /\ mpc \notin {"stop", "post_stop", "join", "done"}
      BY <2>1, NotQuiet
    <2>3. \A q \in Worker : finished <= comp_tasks'[q]
      BY <1>1 DEF ResnsInv, QuietInv
    <2>. QED
      BY <1>1, <2>2, <2>3 DEF ResnsInv, QuietInv
  <1>7. BuildInv'
    BY <1>1, BuildFrame DEF ResnsInv
  <1>. QED
    BY <1>1, <1>2, <1>3, <1>4, <1>5, <1>6, <1>7, WindowFrame, CallFrame, CountFrame
    DEF ResnsInv

(* A closure is constructed where no closure is queued, or over its like. *)
LEMMA RecordResns ==
  ASSUME NEW p \in Worker, IInv, IInv', ResnsInv, BeginRecord(p) \/ EndRecord(p)
  PROVE  /\ ResnsInv'
         /\ Calling => records'[readIndex] = records[readIndex]
  <1>1. /\ UNCHANGED <<readIndex, writeIndex, rruns, currentWrite, tasks, comp_tasks,
                       latch, issued, finished, spin, mpc, ret>>
        /\ wpc \in [Worker -> WorkerPC] /\ wpc[p] \in {"new", "construct"}
        /\ \E pc \in {"construct", "store"} : wpc' = [wpc EXCEPT ![p] = pc]
        /\ comp_tasks \in [Worker -> Nat]
        /\ TypeOK /\ records \in [Slot -> Op \cup {Dead}]
        /\ currentWrite \in [Worker -> Slot]
    BY DEF BeginRecord, EndRecord, IInv, TypeOK
  <1>a. PICK k \in Nat : k = comp_tasks[p] + 1
    <2>1. wpc[p] \in Writing
      BY <1>1
    <2>2. comp_tasks[p] + 1 \in Op
      BY <2>1, AtStore
    <2>. QED
      BY <2>2 DEF Op
  <1>b. PICK c \in Slot : c = currentWrite[p]
    BY <1>1
  <1>2. k \in Op /\ k # Dead /\ Head(tasks[p]) = k
    BY <1>1, <1>a, AtStore DEF Op, Dead
  <1>3. /\ \A s \in Slot : s # c => records'[s] = records[s]
        /\ records'[c] \in {records[c], k}
        /\ wpc[p] = "new" => records'[c] = k
    BY <1>1, <1>2, <1>b DEF BeginRecord, EndRecord
  <1>4. \A s \in Slot : Place(s)' = Place(s) /\ (Queued(s)' <=> Queued(s))
    BY <1>1 DEF Place, Queued, Used
  <1>c. WritesBehind(p) \/ WritesAgain(p)
    BY <1>1 DEF ResnsInv, WriterInv
  <1>5. Queued(c) => records[c] = k
    <2>1. CASE WritesBehind(p)
      BY <1>1, <1>b, <2>1, Places DEF WritesBehind
    <2>2. CASE WritesAgain(p)
      BY <1>a, <1>b, <2>2 DEF WritesAgain
    <2>. QED
      BY <1>c, <2>1, <2>2
  <1>6. \A s \in Slot : Queued(s) => records'[s] = records[s]
    BY <1>3, <1>5
  <1>7. Calling' <=> Calling
    BY <1>1 DEF Calling
  <1>8. Calling => ~ResnsEmpty /\ records'[readIndex] = records[readIndex]
    <2>1. Calling => ~ResnsEmpty
      BY DEF ResnsInv, CallInv
    <2>2. ~ResnsEmpty => Queued(readIndex) /\ readIndex \in Slot
      BY <1>1, Places DEF TypeOK
    <2>. QED
      BY <2>1, <2>2, <1>6
  <1>9. WindowInv'
    <2>. SUFFICES ASSUME NEW s \in Slot, Queued(s)
                  PROVE  /\ records'[s] # Dead
                         /\ records'[s] > finished
                         /\ \A j \in Op : j > records'[s] => rruns[j] = 0
                         /\ \A t \in Slot :
                              Place(t) <= Place(s) => records'[t] <= records'[s]
      BY <1>1, <1>4 DEF WindowInv
    <2>1. /\ records[s] # Dead
          /\ records[s] > finished
          /\ \A j \in Op : j > records[s] => rruns[j] = 0
          /\ \A t \in Slot : Place(t) <= Place(s) => records[t] <= records[s]
      BY DEF ResnsInv, WindowInv
    <2>2. \A t \in Slot : Place(t) <= Place(s) => Queued(t)
      BY <1>1, Places DEF Queued
    <2>. QED
      BY <1>6, <2>1, <2>2
  <1>10. CallInv'
    BY <1>1, <1>7, <1>8 DEF ResnsInv, CallInv, ResnsEmpty
  <1>11. WriterInv'
    <2>. SUFFICES ASSUME NEW q \in Worker, wpc'[q] \in Loaded
                  PROVE  WritesBehind(q)' \/ WritesAgain(q)'
      BY DEF WriterInv
    <2>1. wpc[q] \in Loaded /\ (q # p => wpc'[q] = wpc[q])
      BY <1>1
    <2>2. WritesBehind(q) \/ WritesAgain(q)
      BY <2>1 DEF ResnsInv, WriterInv
    <2>3. comp_tasks[q] = comp_tasks[p] /\ currentWrite[q] \in Slot
      BY <1>1, <2>1, SameOperation
    <2>4. ASSUME WritesBehind(q)
          PROVE  WritesBehind(q)'
      <3>1. Used' = Used
        BY <1>1 DEF Used, Place
      <3>2. CASE q = p
        <4>1. records'[c] = k
          BY <1>1, <1>3, <1>a, <1>b, <2>4, <3>2 DEF WritesBehind
        <4>. QED
          BY <1>1, <1>a, <1>b, <2>4, <3>1, <3>2, <4>1 DEF WritesBehind
      <3>3. CASE q # p
        <4>1. records[currentWrite[q]] = k => records'[currentWrite[q]] = k
          BY <1>3, <2>3
        <4>. QED
          BY <1>1, <1>a, <2>1, <2>3, <2>4, <3>1, <3>3, <4>1 DEF WritesBehind
      <3>. QED
        BY <3>2, <3>3
    <2>5. ASSUME WritesAgain(q)
          PROVE  WritesAgain(q)'
      <3>1. \A r \in Worker :
              Through(r, comp_tasks[q] + 1) => Through(r, comp_tasks[q] + 1)'
        BY <1>1 DEF Through
      <3>2. Queued(currentWrite[q])' <=> Queued(currentWrite[q])
        BY <1>1 DEF Queued, Place, Used
      <3>3. Queued(currentWrite[q]) =>
              records'[currentWrite[q]] = records[currentWrite[q]]
        BY <1>6, <2>3
      <3>. QED
        BY <1>1, <2>5, <3>1, <3>2, <3>3 DEF WritesAgain, NextRecord
    <2>. QED
      BY <2>2, <2>4, <2>5
  <1>12. BuildInv'
    <2>. SUFFICES ASSUME NEW s \in building'
                  PROVE  \E q \in Worker : wpc'[q] = "construct" /\ currentWrite'[q] = s
      BY DEF BuildInv
    <2>1. CASE BeginRecord(p) /\ s = currentWrite[p]
      <3>1. wpc'[p] = "construct" /\ currentWrite'[p] = s
        BY <1>1, <2>1 DEF BeginRecord
      <3>. QED
        BY <3>1
    <2>2. CASE s \in building /\ (EndRecord(p) => s # currentWrite[p])
      <3>1. PICK q \in Worker : wpc[q] = "construct" /\ currentWrite[q] = s
        BY <2>2 DEF ResnsInv, BuildInv
      <3>2. q # p
        BY <2>2, <3>1 DEF BeginRecord
      <3>3. wpc'[q] = "construct" /\ currentWrite'[q] = s
        BY <1>1, <3>1, <3>2
      <3>. QED
        BY <3>3
    <2>. QED
      BY <2>1, <2>2 DEF BeginRecord, EndRecord
  <1>13. CoverInv'
    <2>. SUFFICES ASSUME NEW j \in Op, j <= issued, latch[j] = 0
                  PROVE  Covered(j)'
      BY <1>1 DEF CoverInv
    <2>1. Covered(j)
      BY DEF ResnsInv, CoverInv
    <2>2. CASE rruns[j] >= 1
      BY <1>1, <2>2 DEF Covered
    <2>3. ASSUME NEW s \in Slot, Queued(s), records[s] = j
          PROVE  Covered(j)'
      BY <1>4, <1>6, <2>3 DEF Covered
    <2>4. ASSUME NEW q \in Worker, wpc[q] \in Pending, comp_tasks[q] + 1 = j
          PROVE  Covered(j)'
      <3>1. wpc'[q] \in Pending
        BY <1>1, <2>4 DEF Pending
      <3>. QED
        BY <1>1, <2>4, <3>1 DEF Covered
    <2>. QED
      BY <2>1, <2>2, <2>3, <2>4 DEF Covered
  <1>14. CountInv'
    <2>. SUFFICES ASSUME NEW j \in Op
                  PROVE  rruns[j] + Cardinality(SlotsOf(j)') <=
                           Cardinality(Behind(j)') + Called(j)'
      BY <1>1 DEF CountInv
    <2>1. rruns[j] + Cardinality(SlotsOf(j)) <= Cardinality(Behind(j)) + Called(j)
      BY DEF ResnsInv, CountInv
    <2>2. SlotsOf(j)' = SlotsOf(j)
      BY <1>4, <1>6 DEF SlotsOf
    <2>3. Called(j)' = Called(j)
      BY <1>1, <1>7, <1>8 DEF Called
    <2>4. Behind(j)' = Behind(j)
      <3>1. \A q \in Worker : Through(q, j)' <=> Through(q, j)
        BY <1>1 DEF Through
      <3>. QED
        BY <3>1 DEF Behind
    <2>. QED
      BY <2>1, <2>2, <2>3, <2>4
  <1>15. QuietInv'
    BY <1>1 DEF ResnsInv, QuietInv, ResnsEmpty
  <1>. QED
    BY <1>8, <1>9, <1>10, <1>11, <1>12, <1>13, <1>14, <1>15 DEF ResnsInv

(* A producer publishes the slot behind the last one. *)
LEMMA StoreBehind ==
  ASSUME NEW p \in Worker, IInv, IInv', ResnsInv, HWCONC <= 2,
         StoreWrite(p), WritesBehind(p)
  PROVE  ResnsInv'
  <1>1. /\ UNCHANGED <<records, building, readIndex, rruns, currentWrite, tasks,
                       comp_tasks, latch, issued, finished, spin, mpc, ret>>
        /\ wpc \in [Worker -> WorkerPC] /\ wpc[p] = "store"
        /\ wpc' = [wpc EXCEPT ![p] = "postr"]
        /\ comp_tasks \in [Worker -> Nat] /\ rruns \in [Op -> Nat] /\ finished \in Nat
        /\ TypeOK /\ records \in [Slot -> Op \cup {Dead}]
    BY DEF StoreWrite, IInv, TypeOK
  <1>a. PICK k \in Nat : k = comp_tasks[p] + 1
    BY <1>1
  <1>b. PICK w \in Slot : w = writeIndex
    BY <1>1 DEF TypeOK
  <1>2. k \in Op /\ k <= issued /\ latch[k] = 0 /\ tdone[p] = k
        /\ Head(tasks[p]) = k
    BY <1>1, <1>a, AtStore
  <1>3. /\ currentWrite[p] = writeIndex /\ Used < QUEUE_SZ - 1
        /\ writeIndex' = NextRecord(writeIndex) /\ writeIndex \in Slot
        /\ readIndex \in Slot
        /\ records' = records /\ records[writeIndex] = k
    BY <1>1, <1>a DEF StoreWrite, WritesBehind, TypeOK
  <1>4. /\ \A s \in Slot : Place(s)' = Place(s)
        /\ Used' = Used + 1
        /\ \A s \in Slot : Queued(s)' <=> Queued(s) \/ s = writeIndex
    BY <1>1, <1>3, OneMore
  <1>5. /\ \A s \in Slot : Place(s) \in 0 .. QUEUE_SZ - 1
        /\ Used \in 0 .. QUEUE_SZ - 1
        /\ ~Queued(writeIndex)
        /\ ~ResnsEmpty => Queued(readIndex)
    BY <1>1, Places
  <1>6. \A s \in Slot : records'[s] = IF s = writeIndex THEN k ELSE records[s]
    BY <1>1, <1>3
  <1>7. \A s \in Slot : Queued(s) => records[s] \in Op /\ records[s] <= k
    <2>. SUFFICES ASSUME NEW s \in Slot, Queued(s)
                  PROVE  records[s] \in Op /\ records[s] <= k
      OBVIOUS
    <2>1. records[s] \in Op
      BY <1>1 DEF ResnsInv, WindowInv
    <2>. QED
      BY <1>2, <2>1, ResolvedDone
  <1>8. WindowInv'
    <2>. SUFFICES ASSUME NEW s \in Slot, Queued(s) \/ s = writeIndex
                  PROVE  /\ records'[s] # Dead
                         /\ records'[s] > finished
                         /\ \A j \in Op : j > records'[s] => rruns[j] = 0
                         /\ \A t \in Slot : Place(t) <= Place(s) => records'[t] <= records'[s]
      BY <1>1, <1>4 DEF WindowInv
    <2>1. CASE Queued(s)
      <3>1. /\ records[s] # Dead
            /\ records[s] > finished
            /\ \A j \in Op : j > records[s] => rruns[j] = 0
            /\ \A t \in Slot : Place(t) <= Place(s) => records[t] <= records[s]
        BY <2>1 DEF ResnsInv, WindowInv
      <3>2. s # writeIndex
        BY <1>5, <2>1
      <3>3. \A t \in Slot : Place(t) <= Place(s) => t # writeIndex
        BY <1>5, <2>1 DEF Queued
      <3>. QED
        BY <1>6, <3>1, <3>2, <3>3
    <2>2. CASE s = writeIndex
      <3>1. records'[s] = k
        BY <1>6, <2>2
      <3>2. k # Dead /\ k > finished
        <4>1. finished <= comp_tasks[p]
          BY DEF ResnsInv, QuietInv
        <4>. QED
          BY <1>1, <1>a, <4>1 DEF Dead
      <3>3. \A j \in Op : j > k => rruns[j] = 0
        <4>. SUFFICES ASSUME NEW j \in Op, j > k, rruns[j] # 0
                      PROVE  FALSE
          OBVIOUS
        <4>1. rruns[j] > 0
          BY <1>1
        <4>2. tdone[p] >= j
          BY <4>1, ResolvedDone
        <4>. QED
          BY <1>2, <4>2 DEF Op
      <3>4. ASSUME NEW t \in Slot, Place(t) <= Place(s)
            PROVE  records'[t] <= k
        <4>1. CASE t = writeIndex
          BY <1>2, <1>6, <4>1
        <4>2. CASE t # writeIndex
          <5>1. Place(t) # Place(s)
            BY <1>1, <2>2, <4>2, Places
          <5>2. Queued(t)
            BY <1>5, <2>2, <3>4, <5>1 DEF Queued, Used
          <5>. QED
            BY <1>6, <1>7, <4>2, <5>2
        <4>. QED
          BY <4>1, <4>2
      <3>. QED
        BY <3>1, <3>2, <3>3, <3>4
    <2>. QED
      BY <2>1, <2>2
  <1>9. ~ResnsEmpty => readIndex # writeIndex /\ records'[readIndex] = records[readIndex]
    BY <1>3, <1>6 DEF ResnsEmpty
  <1>10. Calling' <=> Calling
    BY <1>1 DEF Calling
  <1>11. CallInv'
    <2>. SUFFICES ASSUME Calling
                  PROVE  ~ResnsEmpty' /\ rruns[records'[readIndex]] >= 1
      BY <1>1, <1>10 DEF CallInv
    <2>1. ~ResnsEmpty /\ rruns[records[readIndex]] >= 1
      BY DEF ResnsInv, CallInv
    <2>2. writeIndex' # readIndex
      BY <1>1, <1>3, Places
    <2>. QED
      BY <1>1, <1>9, <2>1, <2>2 DEF ResnsEmpty
  <1>12. WriterInv'
    <2>. SUFFICES ASSUME NEW q \in Worker, wpc'[q] \in Loaded
                  PROVE  WritesAgain(q)'
      BY DEF WriterInv
    <2>1. wpc[q] = wpc'[q] /\ q # p
      BY <1>1
    <2>2. ~WritesAgain(q)
      BY <1>1, <2>1, Alone
    <2>3. currentWrite[q] = writeIndex
      BY <2>1, <2>2 DEF ResnsInv, WriterInv, WritesBehind
    <2>4. comp_tasks[q] + 1 = k
      BY <1>1, <1>a, <2>1, SameOperation
    <2>5. Through(p, k)'
      BY <1>1, <1>a DEF Through
    <2>6. Queued(w)' /\ records'[w] = k
      BY <1>b, <1>4, <1>6
    <2>7. /\ currentWrite'[q] = w /\ comp_tasks'[q] + 1 = k
          /\ NextRecord(w) = writeIndex'
      BY <1>1, <1>3, <1>b, <2>3, <2>4
    <2>8. NextRecord(currentWrite'[q]) = writeIndex'
      BY <2>7
    <2>. QED
      BY <2>5, <2>6, <2>7, <2>8 DEF WritesAgain, NextRecord, Queued, Place, Used, Through
  <1>13. CoverInv'
    <2>. SUFFICES ASSUME NEW j \in Op, j <= issued, latch[j] = 0
                  PROVE  Covered(j)'
      BY <1>1 DEF CoverInv
    <2>1. Covered(j)
      BY DEF ResnsInv, CoverInv
    <2>2. CASE j = k
      <3>1. Queued(w)' /\ records'[w] = j
        BY <1>b, <1>4, <1>6, <2>2
      <3>. QED
        BY <3>1 DEF Covered
    <2>3. ASSUME NEW s \in Slot, Queued(s), records[s] = j
          PROVE  Covered(j)'
      BY <1>4, <1>5, <1>6, <2>3 DEF Covered
    <2>4. ASSUME NEW q \in Worker, wpc[q] \in Pending, comp_tasks[q] + 1 = j, j # k
          PROVE  Covered(j)'
      BY <1>1, <1>a, <2>4 DEF Covered, Pending
    <2>5. CASE rruns[j] >= 1
      BY <1>1, <2>5 DEF Covered
    <2>. QED
      BY <2>1, <2>2, <2>3, <2>4, <2>5 DEF Covered
  <1>14. CountInv'
    <2>. SUFFICES ASSUME NEW j \in Op
                  PROVE  rruns[j] + Cardinality(SlotsOf(j)') <=
                           Cardinality(Behind(j)') + Called(j)'
      BY <1>1 DEF CountInv
    <2>1. rruns[j] + Cardinality(SlotsOf(j)) <= Cardinality(Behind(j)) + Called(j)
      BY DEF ResnsInv, CountInv
    <2>2. Called(j)' = Called(j) /\ Called(j) \in Nat
      <3>1. Calling => ~ResnsEmpty
        BY DEF ResnsInv, CallInv
      <3>. QED
        BY <1>1, <1>9, <1>10, <3>1 DEF Called
    <2>3. /\ IsFiniteSet(SlotsOf(j)) /\ Cardinality(SlotsOf(j)) \in Nat
          /\ IsFiniteSet(Behind(j)) /\ Cardinality(Behind(j)) \in Nat /\ rruns[j] \in Nat
      BY <1>1, SlotSet, WorkerSet DEF SlotsOf, Behind
    <2>4. CASE j = k
      <3>1. SlotsOf(j)' = SlotsOf(j) \cup {writeIndex} /\ writeIndex \notin SlotsOf(j)
        BY <1>3, <1>4, <1>5, <1>6, <2>4 DEF SlotsOf
      <3>2. Behind(j)' = Behind(j) \cup {p} /\ p \notin Behind(j)
        <4>1. \A q \in Worker : Through(q, k)' <=> Through(q, k) \/ q = p
          BY <1>1, <1>a DEF Through
        <4>2. ~Through(p, k)
          BY <1>1, <1>a DEF Through
        <4>. QED
          BY <2>4, <4>1, <4>2 DEF Behind
      <3>3. Cardinality(SlotsOf(j)') = Cardinality(SlotsOf(j)) + 1
        BY <2>3, <3>1, FS_AddElement
      <3>4. Cardinality(Behind(j)') = Cardinality(Behind(j)) + 1
        BY <2>3, <3>2, FS_AddElement
      <3>. QED
        BY <2>1, <2>2, <2>3, <3>3, <3>4
    <2>5. CASE j # k
      <3>1. SlotsOf(j)' = SlotsOf(j)
        BY <1>4, <1>5, <1>6, <2>5 DEF SlotsOf
      <3>2. Behind(j)' = Behind(j)
        <4>1. \A q \in Worker : Through(q, j)' <=> Through(q, j)
          BY <1>1, <1>a, <2>5 DEF Through
        <4>. QED
          BY <4>1 DEF Behind
      <3>. QED
        BY <2>1, <2>2, <3>1, <3>2
    <2>. QED
      BY <2>4, <2>5
  <1>15. QuietInv'
    <2>1. tasks[p] # <<>>
      BY <1>1 DEF IInv, QueueInv, Counted
    <2>2. /\ ~(mpc = "fin_test" /\ ret)
          /\ mpc \notin {"stop", "post_stop", "join", "done"}
      BY <2>1, NotQuiet
    <2>. QED
      BY <1>1, <2>2 DEF ResnsInv, QuietInv
  <1>16. BuildInv'
    BY <1>1, BuildFrame DEF ResnsInv
  <1>. QED
    BY <1>8, <1>11, <1>12, <1>13, <1>14, <1>15, <1>16 DEF ResnsInv

(* A producer that was overtaken stores the index that is there already. *)
LEMMA StoreAgain ==
  ASSUME NEW p \in Worker, IInv, IInv', ResnsInv, HWCONC <= 2,
         StoreWrite(p), WritesAgain(p)
  PROVE  ResnsInv'
  <1>1. /\ UNCHANGED <<records, building, readIndex, rruns, currentWrite, tasks,
                       comp_tasks, latch, issued, finished, spin, mpc, ret>>
        /\ wpc \in [Worker -> WorkerPC] /\ wpc[p] = "store"
        /\ wpc' = [wpc EXCEPT ![p] = "postr"]
        /\ comp_tasks \in [Worker -> Nat] /\ rruns \in [Op -> Nat]
        /\ TypeOK /\ records \in [Slot -> Op \cup {Dead}]
        /\ currentWrite \in [Worker -> Slot]
    BY DEF StoreWrite, IInv, TypeOK
  <1>a. PICK k \in Nat : k = comp_tasks[p] + 1
    BY <1>1
  <1>b. PICK c \in Slot : c = currentWrite[p]
    BY <1>1
  <1>2. k \in Op /\ Head(tasks[p]) = k
    BY <1>1, <1>a, AtStore
  <1>3. writeIndex' = writeIndex
    BY DEF StoreWrite, WritesAgain
  <1>4. IF Queued(c) THEN records[c] = k ELSE rruns[k] >= 1
    BY <1>a, <1>b DEF WritesAgain
  <1>5. /\ \A s \in Slot : Place(s)' = Place(s) /\ (Queued(s)' <=> Queued(s))
        /\ Used' = Used
    BY <1>1, <1>3 DEF Place, Queued, Used
  <1>6. \A s \in Slot : records'[s] = records[s]
    BY <1>1
  <1>7. Calling' <=> Calling
    BY <1>1 DEF Calling
  <1>8. Calling => ~ResnsEmpty /\ records'[readIndex] = records[readIndex]
    <2>1. Calling => ~ResnsEmpty
      BY DEF ResnsInv, CallInv
    <2>2. ~ResnsEmpty => Queued(readIndex) /\ readIndex \in Slot
      BY <1>1, Places DEF TypeOK
    <2>. QED
      BY <2>1, <2>2, <1>6
  <1>9. WindowInv'
    <2>. SUFFICES ASSUME NEW s \in Slot, Queued(s)
                  PROVE  /\ records'[s] # Dead
                         /\ records'[s] > finished
                         /\ \A j \in Op : j > records'[s] => rruns[j] = 0
                         /\ \A t \in Slot : Place(t) <= Place(s) => records'[t] <= records'[s]
      BY <1>1, <1>5 DEF WindowInv
    <2>1. /\ records[s] # Dead
          /\ records[s] > finished
          /\ \A j \in Op : j > records[s] => rruns[j] = 0
          /\ \A t \in Slot : Place(t) <= Place(s) => records[t] <= records[s]
      BY DEF ResnsInv, WindowInv
    <2>2. \A t \in Slot : Place(t) <= Place(s) => Queued(t)
      BY <1>1, Places DEF Queued
    <2>. QED
      BY <1>6, <2>1, <2>2
  <1>10. CallInv'
    BY <1>1, <1>3, <1>7, <1>8 DEF ResnsInv, CallInv, ResnsEmpty
  <1>11. WriterInv'
    <2>. SUFFICES ASSUME NEW q \in Worker, wpc'[q] \in Loaded
                  PROVE  FALSE
      BY DEF WriterInv
    <2>1. wpc[q] \in Loaded /\ q # p
      BY <1>1
    <2>. QED
      BY <1>1, <2>1, Alone
  <1>12. CoverInv'
    <2>. SUFFICES ASSUME NEW j \in Op, j <= issued, latch[j] = 0
                  PROVE  Covered(j)'
      BY <1>1 DEF CoverInv
    <2>1. Covered(j)
      BY DEF ResnsInv, CoverInv
    <2>2. CASE rruns[j] >= 1
      BY <1>1, <2>2 DEF Covered
    <2>3. ASSUME NEW s \in Slot, Queued(s), records[s] = j
          PROVE  Covered(j)'
      BY <1>5, <1>6, <2>3 DEF Covered
    <2>4. ASSUME NEW q \in Worker, wpc[q] \in Pending, comp_tasks[q] + 1 = j, j # k
          PROVE  Covered(j)'
      BY <1>1, <1>a, <2>4 DEF Covered, Pending
    <2>5. CASE j = k
      BY <1>4, <2>2, <2>3, <2>5
    <2>. QED
      BY <2>1, <2>2, <2>3, <2>4, <2>5 DEF Covered
  <1>13. CountInv'
    <2>. SUFFICES ASSUME NEW j \in Op
                  PROVE  rruns[j] + Cardinality(SlotsOf(j)') <=
                           Cardinality(Behind(j)') + Called(j)'
      BY <1>1 DEF CountInv
    <2>1. rruns[j] + Cardinality(SlotsOf(j)) <= Cardinality(Behind(j)) + Called(j)
      BY DEF ResnsInv, CountInv
    <2>2. SlotsOf(j)' = SlotsOf(j)
      BY <1>5, <1>6 DEF SlotsOf
    <2>3. Called(j)' = Called(j) /\ Called(j) \in Nat
      BY <1>1, <1>7, <1>8 DEF Called
    <2>4. Behind(j) \subseteq Behind(j)'
      <3>1. \A q \in Worker : Through(q, j) => Through(q, j)'
        BY <1>1 DEF Through
      <3>. QED
        BY <3>1 DEF Behind
    <2>5. /\ Cardinality(SlotsOf(j)) \in Nat /\ rruns[j] \in Nat
          /\ IsFiniteSet(Behind(j)') /\ Cardinality(Behind(j)') \in Nat
          /\ Cardinality(Behind(j)) \in Nat
      BY <1>1, SlotSet, WorkerSet DEF SlotsOf, Behind
    <2>6. Cardinality(Behind(j)) <= Cardinality(Behind(j)')
      BY <2>4, <2>5, NoMore
    <2>. QED
      BY <2>1, <2>2, <2>3, <2>5, <2>6
  <1>14. QuietInv'
    <2>1. tasks[p] # <<>>
      BY <1>1 DEF IInv, QueueInv, Counted
    <2>2. /\ ~(mpc = "fin_test" /\ ret)
          /\ mpc \notin {"stop", "post_stop", "join", "done"}
      BY <2>1, NotQuiet
    <2>. QED
      BY <1>1, <2>2 DEF ResnsInv, QuietInv
  <1>15. BuildInv'
    BY <1>1, BuildFrame DEF ResnsInv
  <1>. QED
    BY <1>8, <1>9, <1>10, <1>11, <1>12, <1>13, <1>14, <1>15 DEF ResnsInv

(* With two workers submitr() keeps resns in order. *)
LEMMA StoreWriteResns ==
  ASSUME NEW p \in Worker, IInv, IInv', ResnsInv, HWCONC <= 2, StoreWrite(p)
  PROVE  ResnsInv'
  <1>1. WritesBehind(p) \/ WritesAgain(p)
    BY DEF StoreWrite, ResnsInv, WriterInv
  <1>. QED
    BY <1>1, StoreBehind, StoreAgain

(* resns is empty at the start. *)
LEMMA ResnsInit == Init => ResnsInv
  <1>. SUFFICES ASSUME Init
                PROVE  ResnsInv
    OBVIOUS
  <1>1. TypeOK /\ ResnsEmpty
    BY InitSafe DEF Init, IInv, ResnsEmpty
  <1>2. \A s \in Slot : ~Queued(s)
    BY <1>1, Places DEF Queued
  <1>3. WindowInv
    BY <1>2 DEF WindowInv
  <1>4. CallInv /\ WriterInv /\ BuildInv /\ ~Calling
    BY DEF Init, CallInv, Calling, WriterInv, BuildInv
  <1>5. CoverInv
    BY DEF Init, CoverInv, Op
  <1>6. CountInv
    <2>. SUFFICES ASSUME NEW k \in Op
                  PROVE  rruns[k] + Cardinality(SlotsOf(k)) <=
                           Cardinality(Behind(k)) + Called(k)
      BY DEF CountInv
    <2>1. SlotsOf(k) = {}
      BY <1>2 DEF SlotsOf
    <2>2. Cardinality(SlotsOf(k)) = 0
      BY <2>1, FS_EmptySet
    <2>3. Cardinality(Behind(k)) \in Nat
      BY WorkerSet DEF Behind
    <2>4. rruns[k] = 0 /\ Called(k) = 0
      BY <1>4 DEF Init, Called
    <2>. QED
      BY <2>2, <2>3, <2>4
  <1>7. QuietInv
    BY DEF Init, QuietInv
  <1>. QED
    BY <1>3, <1>4, <1>5, <1>6, <1>7 DEF ResnsInv

(* A step that changes nothing preserves the invariant of resns. *)
LEMMA StutterResns ==
  ASSUME IInv, ResnsInv, UNCHANGED vars
  PROVE  ResnsInv'
  <1>1. QuietInv'
    BY DEF vars, ResnsInv, QuietInv, ResnsEmpty
  <1>. QED
    BY <1>1, ResnsFrame DEF vars

(* With two workers every step of the pool preserves the invariant of resns. *)
LEMMA NextResns ==
  ASSUME HWCONC <= 2, IInv, ResnsInv, [Next]_vars
  PROVE  ResnsInv'
  <1>1. IInv'
    BY NextSafe
  <1>2. CASE Main
    BY <1>1, <1>2, MainResns, IssueOpResns, FinReturnResns DEF Main
  <1>3. CASE SpuriousWake
    BY <1>1, <1>3, MainResns
  <1>4. ASSUME NEW p \in Worker, WorkerStep(p)
        PROVE  ResnsInv'
    BY <1>1, <1>4, WorkerResns, CheckResnsResns, PopResnResns, CheckTaskResns,
       TryWaitResns, LoadWriteResns, CheckFullResns, RecordResns, StoreWriteResns,
       PopTaskResns
    DEF WorkerStep
  <1>5. CASE UNCHANGED vars
    BY <1>5, StutterResns
  <1>. QED
    BY <1>2, <1>3, <1>4, <1>5 DEF Next, Terminated

(***************************************************************************)
(* With at most two workers resns keeps its closures in order, for any     *)
(* number of operations and slots, although it has two producers.  A       *)
(* closure in it may be under construction by a worker that was overtaken. *)
(***************************************************************************)
THEOREM ResnsInvariance ==
  ASSUME HWCONC <= 2
  PROVE  Spec => [](IInv /\ ResnsInv)
  <1>1. Init => IInv /\ ResnsInv
    BY InitSafe, ResnsInit
  <1>2. (IInv /\ ResnsInv) /\ [Next]_vars => (IInv /\ ResnsInv)'
    BY NextSafe, NextResns
  <1>. QED
    BY <1>1, <1>2, PTL DEF Spec

(* While resns is in order only a twin can make a closure fail. *)
LEMMA TornStep ==
  ASSUME IInv, ResnsInv, TornByTwin, [Next]_vars
  PROVE  TornByTwin'
  <1>1. CASE crashed
    <2>1. UNCHANGED vars
      BY <1>1 DEF Next, Main, SpuriousWake, WorkerStep, Terminated
    <2>. QED
      BY <2>1 DEF TornByTwin, NextRecord, vars
  <1>2. ASSUME ~crashed, NEW p \in Worker, CheckResns(p)
        PROVE  TornByTwin'
    <2>. SUFFICES ASSUME ~ResnsEmpty, ~FrontWhole
                  PROVE  TornByTwin'
      BY <1>2 DEF CheckResns, TornByTwin
    <2>1. Queued(readIndex) /\ readIndex \in Slot
      BY Places DEF IInv, TypeOK
    <2>2. records[readIndex] # Dead
      BY <2>1 DEF ResnsInv, WindowInv
    <2>3. PICK q \in Worker : wpc[q] = "construct" /\ currentWrite[q] = readIndex
      BY <2>2 DEF FrontWhole, ResnsInv, BuildInv
    <2>4. ~WritesBehind(q)
      BY <2>3 DEF WritesBehind, ResnsEmpty
    <2>5. WritesAgain(q)
      BY <2>3, <2>4 DEF ResnsInv, WriterInv
    <2>6. /\ records[readIndex] = Head(tasks[q])
          /\ writeIndex = NextRecord(currentWrite[q])
      BY <2>1, <2>3, <2>5, AtStore DEF WritesAgain
    <2>7. UNCHANGED <<wpc, currentWrite, readIndex, records, tasks, writeIndex>>
      BY <1>2 DEF CheckResns
    <2>. QED
      BY <2>3, <2>6, <2>7 DEF TornByTwin, NextRecord
  <1>3. ASSUME ~crashed, NEW p \in Worker, WorkerStep(p), ~CheckResns(p)
        PROVE  crashed' = crashed
    BY <1>3 DEF WorkerStep, SemWait, TryLock, UnlockEmpty, PopResn, Unlock, PostAll,
       PostLoop, CheckTask, TryWait, LoadWrite, CheckFull, BeginRecord, EndRecord,
       StoreWrite, PostResn, PopTask, NotifyOne
  <1>4. ASSUME Main
        PROVE  crashed' = crashed
    BY <1>4 DEF Main, IssueOp, SubmitWrite, SubmitPost, FinTasks, FinResns,
       FinReturn, FinBlock, Stop, StopPost, Join
  <1>5. ASSUME SpuriousWake
        PROVE  crashed' = crashed
    BY <1>5 DEF SpuriousWake
  <1>6. ASSUME UNCHANGED vars
        PROVE  crashed' = crashed
    BY <1>6 DEF vars
  <1>7. CASE ~crashed
    BY <1>2, <1>3, <1>4, <1>5, <1>6, <1>7 DEF Next, Terminated, TornByTwin
  <1>. QED
    BY <1>1, <1>7

(***************************************************************************)
(* With at most two workers the closure a worker calls is never one that   *)
(* popFront() has destroyed, and when it is not whole then because a       *)
(* worker that was overtaken in write() constructs it a second time.  The  *)
(* run pool_torn shows that this happens.                                  *)
(***************************************************************************)
THEOREM TornOnlyByTwin ==
  ASSUME HWCONC <= 2
  PROVE  Spec => []TornByTwin
  <1>1. Init => TornByTwin
    BY DEF Init, TornByTwin
  <1>2. IInv /\ ResnsInv /\ TornByTwin /\ [Next]_vars => TornByTwin'
    BY TornStep
  <1>. QED
    BY <1>1, <1>2, ResnsInvariance, PTL DEF Spec

(* What finish() has found over is over. *)
LEMMA Finished ==
  ASSUME IInv, ResnsInv, mpc = "fin_test", ret
  PROVE  /\ \A p \in Worker : tasks[p] = <<>> /\ tdone[p] = issued
         /\ ~Calling
         /\ \A k \in 1 .. issued : rruns[k] >= 1
  <1>1. ASSUME NEW p \in Worker
        PROVE  tasks[p] = <<>> /\ tdone[p] = issued
    <2>1. tasks[p] = <<>>
      BY DEF IInv, FinishInv
    <2>2. wpc[p] \notin Counted
      BY <2>1 DEF IInv, QueueInv
    <2>3. comp_tasks[p] \in Nat /\ comp_tasks[p] + Len(tasks[p]) = issued
      BY DEF IInv, TypeOK, QueueInv, Submitted
    <2>. QED
      BY <2>1, <2>2, <2>3 DEF tdone
  <1>2. ResnsEmpty
    BY DEF ResnsInv, QuietInv
  <1>3. ASSUME NEW k \in 1 .. issued
        PROVE  rruns[k] >= 1
    <2>1. issued \in 0 .. MaxOps
      BY DEF IInv, TypeOK
    <2>2. k \in Op /\ k <= issued
      BY <2>1 DEF Op
    <2>3. latch[k] = 0
      BY <1>1, <2>1, <2>2, LatchZero
    <2>4. Covered(k)
      BY <2>2, <2>3 DEF ResnsInv, CoverInv
    <2>5. \A s \in Slot : ~Queued(s)
      BY <1>2, Places DEF IInv, Queued
    <2>6. \A p \in Worker : wpc[p] \notin Pending
      BY <1>1 DEF IInv, QueueInv, Pending, Counted
    <2>. QED
      BY <2>4, <2>5, <2>6 DEF Covered
  <1>. QED
    BY <1>1, <1>2, <1>3 DEF ResnsInv, CallInv

(***************************************************************************)
(* With at most two workers finish() returns only when every operation has *)
(* been resolved and no resolution is running.                             *)
(***************************************************************************)
THEOREM FinishResolves ==
  ASSUME HWCONC <= 2
  PROVE  Spec => []FinishSafe
  <1>1. IInv /\ ResnsInv => FinishSafe
    BY Finished DEF FinishSafe, Calling
  <1>. QED
    BY <1>1, ResnsInvariance, PTL

(***************************************************************************)
(* With at most two workers the asserts at the end of worker() hold.       *)
(***************************************************************************)
THEOREM ExitClean ==
  ASSUME HWCONC <= 2
  PROVE  Spec => []ExitAssert
  <1>1. IInv /\ ResnsInv => ExitAssert
    BY DEF IInv, MainInv, ResnsInv, QuietInv, ExitAssert
  <1>. QED
    BY <1>1, ResnsInvariance, PTL

-----------------------------------------------------------------------------
(* With two workers the pool implements the abstract executor *)

(* What the abstract executor sees of a step that is none of its own. *)
LEMMA ExecStutter ==
  ASSUME UNCHANGED <<issued, rruns, finished>>, tdone' = tdone,
         Calling' <=> Calling, Calling => records'[readIndex'] = records[readIndex]
  PROVE  UNCHANGED Exec!executorVars
  BY DEF Exec!executorVars, resolving, Calling

(* The abstract tdone changes only when a task counts its latch down. *)
LEMMA DoneSame ==
  ASSUME UNCHANGED comp_tasks,
         \A q \in Worker : wpc'[q] \in Counted <=> wpc[q] \in Counted
  PROVE  tdone' = tdone
  BY DEF tdone

(* Main issues, finishes, or does nothing the executor sees. *)
LEMMA MainImplements ==
  ASSUME IInv, ResnsInv, Main \/ SpuriousWake
  PROVE  [Exec!ExecutorNext]_(Exec!executorVars)
  <1>1. /\ UNCHANGED <<records, building, readIndex, rruns, comp_tasks, wpc>>
        /\ tdone' = tdone /\ (Calling' <=> Calling) /\ resolving' = resolving
    <2>1. UNCHANGED <<records, building, readIndex, rruns, comp_tasks, wpc>>
      BY DEF Main, SpuriousWake, IssueOp, SubmitWrite, SubmitPost, FinTasks,
         FinResns, FinReturn, FinBlock, Stop, StopPost, Join
    <2>. QED
      BY <2>1 DEF tdone, Calling, resolving
  <1>2. CASE IssueOp
    <2>1. Exec!Issue
      BY <1>1, <1>2 DEF IssueOp, Exec!Issue
    <2>. QED
      BY <2>1 DEF Exec!ExecutorNext
  <1>3. CASE FinReturn
    <2>1. /\ \A p \in Worker : tdone[p] = issued
          /\ ~Calling
          /\ \A k \in 1 .. issued : rruns[k] >= 1
      BY <1>3, Finished DEF FinReturn
    <2>2. resolving = 0
      BY <2>1 DEF resolving, Calling
    <2>3. finished' = issued /\ UNCHANGED <<issued, rruns>>
      BY <1>3 DEF FinReturn
    <2>4. Exec!FinishReturn
      BY <1>1, <2>1, <2>2, <2>3 DEF Exec!FinishReturn, Exec!Worker, Worker
    <2>. QED
      BY <2>4 DEF Exec!ExecutorNext
  <1>4. CASE SubmitWrite \/ SubmitPost \/ FinTasks \/ FinResns \/ FinBlock
             \/ Stop \/ StopPost \/ Join \/ SpuriousWake
    <2>1. UNCHANGED <<issued, finished>>
      BY <1>4 DEF SpuriousWake, SubmitWrite, SubmitPost, FinTasks,
         FinResns, FinBlock, Stop, StopPost, Join
    <2>. QED
      BY <1>1, <2>1, ExecStutter
  <1>. QED
    BY <1>2, <1>3, <1>4 DEF Main

(* Running the front task counts a latch down: a task of the executor. *)
LEMMA TaskImplements ==
  ASSUME NEW p \in Worker, IInv, ResnsInv, CheckTask(p)
  PROVE  [Exec!ExecutorNext]_(Exec!executorVars)
  <1>1. /\ UNCHANGED <<records, building, readIndex, rruns, comp_tasks, issued, finished>>
        /\ wpc \in [Worker -> WorkerPC] /\ wpc[p] = "task"
        /\ comp_tasks \in [Worker -> Nat]
        /\ \E pc \in {"notify", "try_wait"} : wpc' = [wpc EXCEPT ![p] = pc]
    BY DEF CheckTask, IInv, TypeOK
  <1>2. Calling' <=> Calling
    BY <1>1 DEF Calling
  <1>3. CASE tasks[p] = <<>>
    <2>1. wpc' = [wpc EXCEPT ![p] = "notify"]
      BY <1>3 DEF CheckTask
    <2>2. \A q \in Worker : wpc'[q] \in Counted <=> wpc[q] \in Counted
      BY <1>1, <2>1 DEF Counted
    <2>. QED
      BY <1>1, <1>2, <2>2, DoneSame, ExecStutter
  <1>4. CASE tasks[p] # <<>>
    <2>1. wpc' = [wpc EXCEPT ![p] = "try_wait"]
      BY <1>4 DEF CheckTask
    <2>2. Head(tasks[p]) = comp_tasks[p] + 1 /\ Head(tasks[p]) <= issued
      BY <1>4, FrontTask
    <2>3. tdone[p] < issued
      <3>1. tdone[p] = comp_tasks[p]
        BY <1>1 DEF tdone, Counted
      <3>2. issued \in Nat /\ comp_tasks[p] \in Nat
        BY DEF IInv, TypeOK
      <3>. QED
        BY <2>2, <3>1, <3>2
    <2>4. tdone' = [tdone EXCEPT ![p] = @ + 1]
      <3>1. \A q \in Worker : tdone'[q] = IF q = p THEN tdone[q] + 1 ELSE tdone[q]
        BY <1>1, <2>1 DEF tdone, Counted
      <3>2. tdone \in [Worker -> Nat] /\ tdone' \in [Worker -> Nat]
        BY <1>1 DEF tdone
      <3>. QED
        BY <3>1, <3>2
    <2>5. resolving' = resolving
      BY <1>1, <1>2 DEF resolving, Calling
    <2>6. Exec!RunTask(p)
      BY <1>1, <2>3, <2>4, <2>5 DEF Exec!RunTask
    <2>. QED
      BY <2>6 DEF Exec!ExecutorNext, Exec!Worker, Worker
  <1>. QED
    BY <1>3, <1>4

(* Calling the front closure starts a resolution of the executor. *)
LEMMA CallImplements ==
  ASSUME NEW p \in Worker, HWCONC <= 2, IInv, ResnsInv, CheckResns(p)
  PROVE  [Exec!ExecutorNext]_(Exec!executorVars)
  <1>1. /\ UNCHANGED <<records, building, readIndex, comp_tasks, issued, finished>>
        /\ wpc \in [Worker -> WorkerPC] /\ wpc[p] = "isEmpty"
        /\ issued \in 0 .. MaxOps /\ rruns \in [Op -> Nat] /\ finished \in Nat
        /\ \E pc \in {"isEmpty", "unlock_empty", "popResn"} :
             wpc' = [wpc EXCEPT ![p] = pc]
        /\ TypeOK
    BY DEF CheckResns, IInv, TypeOK
  <1>2. tdone' = tdone
    <2>1. \A q \in Worker : wpc'[q] \in Counted <=> wpc[q] \in Counted
      BY <1>1 DEF Counted
    <2>. QED
      BY <1>1, <2>1, DoneSame
  <1>3. ~Calling
    BY <1>1 DEF Calling, IInv, LockInv
  <1>4. CASE ResnsEmpty
    <2>1. wpc' = [wpc EXCEPT ![p] = "unlock_empty"] /\ rruns' = rruns
      BY <1>4 DEF CheckResns
    <2>2. ~Calling'
      BY <1>1, <1>3, <2>1 DEF Calling
    <2>. QED
      BY <1>1, <1>2, <1>3, <2>1, <2>2, ExecStutter
  <1>a. CASE ~ResnsEmpty /\ ~FrontWhole
    <2>1. wpc' = wpc /\ rruns' = rruns
      BY <1>a DEF CheckResns
    <2>2. ~Calling'
      BY <1>3, <2>1 DEF Calling
    <2>. QED
      BY <1>1, <1>2, <1>3, <2>1, <2>2, ExecStutter
  <1>5. CASE ~ResnsEmpty /\ FrontWhole
    <2>1. PICK k \in Op : k = records[readIndex] /\ k # Dead
      <3>1. Queued(readIndex) /\ readIndex \in Slot
        BY <1>1, <1>5, Places DEF TypeOK
      <3>. QED
        BY <1>1, <3>1 DEF ResnsInv, WindowInv, TypeOK
    <2>2. readIndex \in Slot /\ Queued(readIndex) /\ Place(readIndex) = 0
      BY <1>1, <1>5, Places DEF TypeOK
    <2>3. /\ k > finished
          /\ \A j \in Op : j > k => rruns[j] = 0
      BY <2>1, <2>2 DEF ResnsInv, WindowInv
    <2>4. k <= issued /\ \A q \in Worker : tdone[q] >= k
      BY <2>1, <2>2, ResolvedDone
    <2>5. ASSUME NEW j \in Op, j < k
          PROVE  rruns[j] >= 1
      <3>1. j <= issued /\ \A q \in Worker : tdone[q] \in Nat /\ tdone[q] >= j
        BY <1>1, <2>4, <2>5, DoneIssued DEF Op
      <3>2. latch[j] = 0
        BY <3>1, LatchZero
      <3>3. Covered(j)
        BY <3>1, <3>2 DEF ResnsInv, CoverInv
      <3>4. ASSUME NEW s \in Slot, Queued(s)
            PROVE  records[s] # j
        <4>1. \A t \in Slot : Place(t) <= Place(s) => records[t] <= records[s]
          BY <3>4 DEF ResnsInv, WindowInv
        <4>2. k <= records[s]
          BY <1>1, <2>1, <2>2, <4>1, Places
        <4>. QED
          BY <2>5, <4>2 DEF Op
      <3>5. ASSUME NEW q \in Worker, wpc[q] \in Pending
            PROVE  comp_tasks[q] + 1 # j
        <4>1. tdone[q] = comp_tasks[q] + 1
          BY <3>5 DEF tdone, Pending, Counted
        <4>. QED
          BY <4>1, <2>4, <2>5 DEF Op
      <3>. QED
        BY <3>3, <3>4, <3>5 DEF Covered
    <2>6. rruns[k] < HWCONC
      <3>1. rruns[k] + Cardinality(SlotsOf(k)) <= Cardinality(Behind(k)) + Called(k)
        BY DEF ResnsInv, CountInv
      <3>2. Called(k) = 0
        BY <1>3 DEF Called
      <3>3. IsFiniteSet(SlotsOf(k)) /\ Cardinality(SlotsOf(k)) \in Nat
        BY SlotSet DEF SlotsOf
      <3>4. SlotsOf(k) # {}
        BY <2>1, <2>2 DEF SlotsOf
      <3>5. Cardinality(SlotsOf(k)) # 0
        BY <3>3, <3>4, FS_EmptySet
      <3>6. Cardinality(Behind(k)) \in 0 .. HWCONC
        BY WorkerSet DEF Behind
      <3>. QED
        BY <1>1, <3>1, <3>2, <3>3, <3>5, <3>6
    <2>7. wpc' = [wpc EXCEPT ![p] = "popResn"] /\ rruns' = [rruns EXCEPT ![k] = @ + 1]
      BY <1>5, <2>1 DEF CheckResns
    <2>8. resolving = 0
      BY <1>3 DEF resolving, Calling
    <2>9. resolving' = k
      <3>1. Calling'
        BY <1>1, <2>7 DEF Calling
      <3>. QED
        BY <1>1, <2>1, <3>1 DEF resolving, Calling
    <2>10. k \in finished + 1 .. issued
      BY <1>1, <2>3, <2>4 DEF Op
    <2>11. Exec!ResolveStart(k)
      BY <1>1, <1>2, <2>3, <2>4, <2>5, <2>6, <2>7, <2>8, <2>9, <2>10
      DEF Exec!ResolveStart, Exec!Op, Exec!Worker, Op, Worker
    <2>. QED
      BY <2>11 DEF Exec!ExecutorNext, Exec!Op, Op
  <1>. QED
    BY <1>4, <1>a, <1>5

(* Popping the front closure ends the resolution. *)
LEMMA PopImplements ==
  ASSUME NEW p \in Worker, IInv, ResnsInv, PopResn(p)
  PROVE  [Exec!ExecutorNext]_(Exec!executorVars)
  <1>1. /\ UNCHANGED <<rruns, comp_tasks, issued, finished>>
        /\ wpc \in [Worker -> WorkerPC] /\ wpc[p] = "popResn"
        /\ wpc' = [wpc EXCEPT ![p] = "unlock"]
        /\ TypeOK
    BY DEF PopResn, IInv, TypeOK
  <1>2. tdone' = tdone
    <2>1. \A q \in Worker : wpc'[q] \in Counted <=> wpc[q] \in Counted
      BY <1>1 DEF Counted
    <2>. QED
      BY <1>1, <2>1, DoneSame
  <1>3. Calling /\ ~Calling'
    BY <1>1 DEF Calling, IInv, LockInv
  <1>4. Queued(readIndex) /\ readIndex \in Slot
    BY <1>1, <1>3, Places DEF ResnsInv, CallInv, TypeOK
  <1>5. resolving # 0 /\ resolving' = 0
    BY <1>3, <1>4 DEF resolving, Calling, ResnsInv, WindowInv, Dead
  <1>6. Exec!ResolveEnd
    BY <1>1, <1>2, <1>5 DEF Exec!ResolveEnd
  <1>. QED
    BY <1>6 DEF Exec!ExecutorNext

(* The other steps of a worker do not show in the executor. *)
LEMMA OtherImplements ==
  ASSUME NEW p \in Worker, IInv, IInv', ResnsInv,
         \/ SemWait(p) \/ TryLock(p) \/ UnlockEmpty(p) \/ Unlock(p) \/ PostAll(p)
         \/ TryWait(p) \/ LoadWrite(p) \/ CheckFull(p) \/ BeginRecord(p)
         \/ EndRecord(p) \/ StoreWrite(p) \/ PostResn(p) \/ PopTask(p) \/ NotifyOne(p)
  PROVE  [Exec!ExecutorNext]_(Exec!executorVars)
  <1>1. UNCHANGED <<readIndex, rruns, issued, finished>>
    BY DEF SemWait, TryLock, UnlockEmpty, Unlock, PostAll, PostLoop, TryWait,
       LoadWrite, CheckFull, BeginRecord, EndRecord, StoreWrite, PostResn, PopTask, NotifyOne
  <1>2. wpc \in [Worker -> WorkerPC] /\ comp_tasks \in [Worker -> Nat]
    BY DEF IInv, TypeOK
  <1>3. Calling => records'[readIndex] = records[readIndex]
    <2>1. CASE BeginRecord(p) \/ EndRecord(p)
      BY <2>1, RecordResns
    <2>2. CASE ~BeginRecord(p) /\ ~EndRecord(p)
      <3>1. records' = records
        BY <2>2 DEF SemWait, TryLock, UnlockEmpty, Unlock, PostAll, PostLoop, TryWait,
           LoadWrite, CheckFull, StoreWrite, PostResn, PopTask, NotifyOne
      <3>. QED
        BY <3>1
    <2>. QED
      BY <2>1, <2>2
  <1>4. \E pc \in WorkerPC \ {"popResn"} : wpc' = [wpc EXCEPT ![p] = pc]
    BY DEF SemWait, TryLock, UnlockEmpty, Unlock, PostAll, PostLoop, TryWait,
       LoadWrite, CheckFull, BeginRecord, EndRecord, StoreWrite, PostResn, PopTask, NotifyOne, WorkerPC
  <1>5. wpc[p] # "popResn"
    BY DEF SemWait, TryLock, UnlockEmpty, Unlock, PostAll, PostLoop, TryWait,
       LoadWrite, CheckFull, BeginRecord, EndRecord, StoreWrite, PostResn, PopTask, NotifyOne
  <1>6. Calling' <=> Calling
    BY <1>2, <1>4, <1>5 DEF Calling
  <1>7. tdone' = tdone
    <2>1. CASE PopTask(p)
      <3>1. /\ wpc[p] = "popTask" /\ wpc' = [wpc EXCEPT ![p] = "notify"]
            /\ comp_tasks' = [comp_tasks EXCEPT ![p] = @ + 1]
        BY <2>1 DEF PopTask
      <3>2. ASSUME NEW q \in Worker
            PROVE  comp_tasks'[q] + (IF wpc'[q] \in Counted THEN 1 ELSE 0) =
                   comp_tasks[q] + (IF wpc[q] \in Counted THEN 1 ELSE 0)
        <4>1. CASE q = p
          BY <1>2, <3>1, <4>1 DEF Counted
        <4>2. CASE q # p
          BY <1>2, <3>1, <4>2
        <4>. QED
          BY <4>1, <4>2
      <3>. QED
        BY <3>2 DEF tdone
    <2>2. CASE ~PopTask(p)
      <3>1. comp_tasks' = comp_tasks
        BY <2>2 DEF SemWait, TryLock, UnlockEmpty, Unlock, PostAll, PostLoop, TryWait,
           LoadWrite, CheckFull, BeginRecord, EndRecord, StoreWrite, PostResn, NotifyOne
      <3>2. \E pc \in WorkerPC : /\ wpc' = [wpc EXCEPT ![p] = pc]
                                 /\ pc \in Counted <=> wpc[p] \in Counted
        BY <2>2 DEF SemWait, TryLock, UnlockEmpty, Unlock, PostAll, PostLoop, TryWait,
           LoadWrite, CheckFull, BeginRecord, EndRecord, StoreWrite, PostResn, NotifyOne, Counted, WorkerPC
      <3>3. \A q \in Worker : wpc'[q] \in Counted <=> wpc[q] \in Counted
        BY <1>2, <3>2
      <3>. QED
        BY <3>1, <3>3, DoneSame
    <2>. QED
      BY <2>1, <2>2
  <1>. QED
    BY <1>1, <1>3, <1>6, <1>7, ExecStutter

(* Every step of the pool is one of the executor, or none. *)
LEMMA StepImplements ==
  ASSUME HWCONC <= 2, IInv, ResnsInv, [Next]_vars
  PROVE  [Exec!ExecutorNext]_(Exec!executorVars)
  <1>1. IInv'
    BY NextSafe
  <1>2. CASE Main \/ SpuriousWake
    BY <1>2, MainImplements
  <1>3. ASSUME NEW p \in Worker, WorkerStep(p)
        PROVE  [Exec!ExecutorNext]_(Exec!executorVars)
    BY <1>1, <1>3, TaskImplements, CallImplements, PopImplements, OtherImplements
    DEF WorkerStep
  <1>4. CASE UNCHANGED vars
    <2>1. tdone' = tdone /\ (Calling' <=> Calling)
      BY <1>4 DEF vars, tdone, Calling
    <2>. QED
      BY <1>4, <2>1, ExecStutter DEF vars
  <1>. QED
    BY <1>2, <1>3, <1>4 DEF Next, Terminated

(***************************************************************************)
(* With at most two workers the pool implements Executor: tasks in issue   *)
(* order, resolutions one at a time, in issue order, after their tasks and *)
(* at most once per worker, and finish() after all of it.  For any number  *)
(* of operations and slots.                                                *)
(***************************************************************************)
THEOREM PoolImplements ==
  ASSUME HWCONC <= 2
  PROVE  Spec => ImplementsExecutor
  <1>1. Init => Exec!ExecutorInit
    <2>. SUFFICES ASSUME Init
                  PROVE  Exec!ExecutorInit
      OBVIOUS
    <2>1. ~Calling
      BY DEF Init, Calling
    <2>2. tdone = [p \in Worker |-> 0]
      BY DEF Init, tdone, Counted
    <2>. QED
      BY <2>1, <2>2 DEF Init, Exec!ExecutorInit, resolving, Calling, Exec!Worker,
         Worker, Exec!Op, Op
  <1>2. IInv /\ ResnsInv /\ [Next]_vars => [Exec!ExecutorNext]_(Exec!executorVars)
    BY StepImplements
  <1>. QED
    BY <1>1, <1>2, ResnsInvariance, PTL DEF Spec, ImplementsExecutor, Exec!ExecutorSpec

=============================================================================
