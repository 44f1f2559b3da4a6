----------------------------- MODULE Threadpool -----------------------------
(***************************************************************************)
(* contentious::threadpool (threadpool.h, threadpool.cc) together with the *)
(* tail of cont_vector::reattach, which is what every task of the program  *)
(* ends with: count the latch of the operation down, look whether it is    *)
(* zero, and if so submit the resolution.                                  *)
(*                                                                         *)
(* The main thread issues operations (freeze makes the latch, exec_par     *)
(* submits one task per worker), calls finish() whenever it likes, and at  *)
(* the end finish() and stop().  The worker threads run worker(p).  Each   *)
(* atomic access to shared state is a step of its own: semaphores, the     *)
(* resolution lock, the latch, the indices of the resolution queue.        *)
(*                                                                         *)
(* tasks[p] has one producer (the main thread) and one consumer (worker    *)
(* p), so ProducerConsumerQueue is a bounded FIFO there.  resns has one    *)
(* consumer at a time (rlck) but any worker may be its producer, so it is  *)
(* modelled by its indices and slots, and the construction of a closure in *)
(* a slot has a begin and an end.                                          *)
(***************************************************************************)
EXTENDS ContentiousConstants, Sequences, FiniteSets

CONSTANTS
  MaxOps,     \* bound: operations the main thread issues
  QUEUE_SZ,   \* slots of every queue; QUEUE_SZ - 1 are usable
  EarlyFinish \* may the client call finish() between two operations?

ASSUME MaxOpsAssumption   == MaxOps \in Nat \ {0}
ASSUME QueueSzAssumption  == QUEUE_SZ \in Nat /\ QUEUE_SZ >= 2
ASSUME EarlyFinishAssumption == EarlyFinish \in BOOLEAN

Op     == 1 .. MaxOps
Slot   == 0 .. QUEUE_SZ - 1
Nobody == HWCONC     \* value of rlck when it is free
Dead   == 0          \* a slot of resns whose closure is destroyed

WorkerPC == {"wait", "try_lock", "isEmpty", "unlock_empty", "popResn",
             "unlock", "post", "task", "try_wait", "load", "full", "new",
             "construct", "store", "postr", "popTask", "notify", "exit"}
MainPC   == {"issue", "write", "posts", "fin_tasks", "fin_resns", "fin_test",
             "fin_wait", "stop", "post_stop", "join", "done"}

VARIABLES
  \* members of threadpool
  tasks,        \* tasks[p]: operations whose task is queued for worker p
  records,      \* resns.records_: the closures, as operation numbers
  building,     \* slots of resns whose closure a constructor has emptied
  readIndex,    \* resns.readIndex_
  writeIndex,   \* resns.writeIndex_
  spin,
  comp_tasks,   \* comp_tasks[p]: tasks completed by worker p
  sems,
  rlck,         \* the worker that holds rlck, or Nobody
  \* dep.latches of the vector that operation k writes
  latch,
  \* threads
  wpc,          \* where worker p is in worker(p)
  currentWrite, \* currentWrite[p]: local of ProducerConsumerQueue::write
  mpc,          \* where the main thread is
  mi,           \* its loop index
  ret,          \* ret of the predicate of finish()
  issued,       \* operations issued
  \* history
  rruns,        \* rruns[k]: times the resolution of operation k was started
  crashed,      \* a closure that is not whole was called: the program is over
  finished      \* operations issued when finish() last returned

queueVars  == <<records, building, readIndex, writeIndex>>
poolVars   == <<tasks, spin, comp_tasks, sems, rlck, latch>>
workerVars == <<wpc, currentWrite>>
mainVars   == <<mpc, mi, ret, issued>>
histVars   == <<rruns, crashed, finished>>
vars == <<tasks, records, building, readIndex, writeIndex, spin, comp_tasks,
          sems, rlck, latch, wpc, currentWrite, mpc, mi, ret, issued,
          rruns, crashed, finished>>

TypeOK ==
  /\ tasks \in [Worker -> Seq(Op)]
  /\ \A p \in Worker : Len(tasks[p]) < QUEUE_SZ
  /\ records \in [Slot -> Op \cup {Dead}]
  /\ building \in SUBSET Slot
  /\ readIndex \in Slot
  /\ writeIndex \in Slot
  /\ spin \in BOOLEAN
  /\ comp_tasks \in [Worker -> Nat]
  /\ sems \in [Worker -> Nat]
  /\ rlck \in Worker \cup {Nobody}
  /\ latch \in [Op -> Int]
  /\ wpc \in [Worker -> WorkerPC]
  /\ currentWrite \in [Worker -> Slot]
  /\ mpc \in MainPC
  /\ mi \in 0 .. HWCONC
  /\ ret \in BOOLEAN
  /\ issued \in 0 .. MaxOps
  /\ rruns \in [Op -> Nat]
  /\ crashed \in BOOLEAN
  /\ finished \in 0 .. MaxOps

(***************************************************************************)
(* All queues are empty, no worker has been posted.  Latches get their     *)
(* count when the operation is issued.                                     *)
(***************************************************************************)
Init ==
  /\ tasks = [p \in Worker |-> <<>>]
  /\ records = [s \in Slot |-> Dead]
  /\ building = {}
  /\ readIndex = 0
  /\ writeIndex = 0
  /\ spin = TRUE
  /\ comp_tasks = [p \in Worker |-> 0]
  /\ sems = [p \in Worker |-> 0]
  /\ rlck = Nobody
  /\ latch = [k \in Op |-> 0]
  /\ wpc = [p \in Worker |-> "wait"]
  /\ currentWrite = [p \in Worker |-> 0]
  /\ mpc = "issue"
  /\ mi = 0
  /\ ret = TRUE
  /\ issued = 0
  /\ rruns = [k \in Op |-> 0]
  /\ crashed = FALSE
  /\ finished = 0

-----------------------------------------------------------------------------
(* ProducerConsumerQueue, as resns uses it *)

(* mutant: the index does not wrap around *)
NextRecordNoWrap(i) == i + 1

NextRecord(i) == IF i + 1 = QUEUE_SZ THEN 0 ELSE i + 1

ResnsEmpty == readIndex = writeIndex

Goto(p, pc) == wpc' = [wpc EXCEPT ![p] = pc]

-----------------------------------------------------------------------------
(* The main thread *)

(***************************************************************************)
(* A member function of cont_vector starts operation issued + 1: freeze    *)
(* makes the latch of the new vector, exec_par begins to submit.           *)
(***************************************************************************)
IssueOp ==
  /\ mpc = "issue"
  /\ issued < MaxOps
  /\ issued' = issued + 1
  /\ latch' = [latch EXCEPT ![issued + 1] = HWCONC]
  /\ mi' = 0
  /\ mpc' = "write"
  /\ UNCHANGED <<tasks, spin, comp_tasks, sems, rlck, ret>>
  /\ UNCHANGED <<queueVars, workerVars, histVars>>

(* submit: spins while the queue of the worker is full *)
SubmitWrite ==
  /\ mpc = "write"
  /\ Len(tasks[mi]) < QUEUE_SZ - 1
  /\ tasks' = [tasks EXCEPT ![mi] = Append(@, issued)]
  /\ mpc' = "posts"
  /\ UNCHANGED <<spin, comp_tasks, sems, rlck, latch, mi, ret, issued>>
  /\ UNCHANGED <<queueVars, workerVars, histVars>>

(* After the last worker the client issues another operation or finishes.  *)
SubmitPost ==
  /\ mpc = "posts"
  /\ sems' = [sems EXCEPT ![mi] = @ + 1]
  /\ \/ /\ mi + 1 < HWCONC
        /\ mi' = mi + 1
        /\ mpc' = "write"
     \/ /\ mi + 1 = HWCONC
        /\ mi' = 0
        /\ mpc' \in {"issue", "fin_tasks"}
        /\ mpc' = "issue" => issued < MaxOps
        /\ mpc' = "fin_tasks" => EarlyFinish \/ issued = MaxOps
  /\ ret' = TRUE
  /\ UNCHANGED <<tasks, spin, comp_tasks, rlck, latch, issued>>
  /\ UNCHANGED <<queueVars, workerVars, histVars>>

(***************************************************************************)
(* finish(): the predicate reads tasks[mi] and, only if that is empty,     *)
(* resns, for every worker; the loop does not stop at the first FALSE.     *)
(***************************************************************************)
FinLoop ==
  IF mi + 1 < HWCONC
  THEN mi' = mi + 1 /\ mpc' = "fin_tasks"
  ELSE mi' = 0 /\ mpc' = "fin_test"

FinTasks ==
  /\ mpc = "fin_tasks"
  /\ \/ /\ tasks[mi] = <<>>
        /\ mpc' = "fin_resns"
        /\ UNCHANGED <<mi, ret>>
     \/ /\ tasks[mi] # <<>>
        /\ ret' = FALSE
        /\ FinLoop
  /\ UNCHANGED <<poolVars, queueVars, workerVars, issued, histVars>>

(* mutant: ret = ... instead of ret &= ... *)
FinResnsAssign ==
  /\ mpc = "fin_resns"
  /\ ret' = ResnsEmpty
  /\ FinLoop
  /\ UNCHANGED <<poolVars, queueVars, workerVars, issued, histVars>>

(* mutant: the predicate looks at the tasks only *)
FinResnsSkip ==
  /\ mpc = "fin_resns"
  /\ FinLoop
  /\ UNCHANGED <<poolVars, queueVars, workerVars, ret, issued, histVars>>

FinResns ==
  /\ mpc = "fin_resns"
  /\ ret' = (ret /\ ResnsEmpty)
  /\ FinLoop
  /\ UNCHANGED <<poolVars, queueVars, workerVars, issued, histVars>>

(* fin_cv.wait: return, or release fin_m and block in one step *)
FinReturn ==
  /\ mpc = "fin_test"
  /\ ret
  /\ mpc' \in {"issue", "stop"}
  /\ mpc' = "issue" => issued < MaxOps
  /\ finished' = issued
  /\ UNCHANGED <<mi, ret, issued, rruns, crashed>>
  /\ UNCHANGED <<poolVars, queueVars, workerVars>>

(* mutant: stop() does not wait for a finish() that found work *)
FinBlockStops ==
  /\ mpc = "fin_test"
  /\ ~ret
  /\ mpc' = "stop"
  /\ UNCHANGED <<poolVars, queueVars, workerVars, mi, ret, issued, histVars>>

FinBlock ==
  /\ mpc = "fin_test"
  /\ ~ret
  /\ mpc' = "fin_wait"
  /\ UNCHANGED <<poolVars, queueVars, workerVars, mi, ret, issued, histVars>>

(* a blocked finish() evaluates its predicate again *)
FinWake ==
  /\ mpc' = "fin_tasks"
  /\ mi' = 0
  /\ ret' = TRUE

(* a condition variable may wake for no reason *)
SpuriousWake ==
  /\ ~crashed
  /\ mpc = "fin_wait"
  /\ FinWake
  /\ UNCHANGED <<poolVars, queueVars, workerVars, issued, histVars>>

(* stop() clears spin, posts every worker; ~threadpool joins them *)
Stop ==
  /\ mpc = "stop"
  /\ spin' = FALSE
  /\ mpc' = "post_stop"
  /\ UNCHANGED <<tasks, comp_tasks, sems, rlck, latch, mi, ret, issued>>
  /\ UNCHANGED <<queueVars, workerVars, histVars>>

StopPost ==
  /\ mpc = "post_stop"
  /\ sems' = [q \in Worker |-> sems[q] + 1]
  /\ mpc' = "join"
  /\ UNCHANGED <<tasks, spin, comp_tasks, rlck, latch, mi, ret, issued>>
  /\ UNCHANGED <<queueVars, workerVars, histVars>>

Join ==
  /\ mpc = "join"
  /\ \A p \in Worker : wpc[p] = "exit"
  /\ mpc' = "done"
  /\ UNCHANGED <<poolVars, queueVars, workerVars, mi, ret, issued, histVars>>

Main ==
  /\ ~crashed
  /\ \/ IssueOp \/ SubmitWrite \/ SubmitPost
     \/ FinTasks \/ FinResns \/ FinReturn \/ FinBlock
     \/ Stop \/ StopPost \/ Join

-----------------------------------------------------------------------------
(* worker(p): wake up, exit if stopped, look for a resolution *)

SemWait(p) ==
  /\ wpc[p] = "wait"
  /\ sems[p] > 0
  /\ sems' = [sems EXCEPT ![p] = @ - 1]
  /\ Goto(p, IF spin THEN "try_lock" ELSE "exit")
  /\ UNCHANGED <<tasks, spin, comp_tasks, rlck, latch, currentWrite>>
  /\ UNCHANGED <<queueVars, mainVars, histVars>>

(* mutant: lock() instead of try_lock(), and nobody holds it *)
TryLockAlways(p) ==
  /\ wpc[p] = "try_lock"
  /\ rlck' = p
  /\ Goto(p, "isEmpty")
  /\ UNCHANGED <<tasks, spin, comp_tasks, sems, latch, currentWrite>>
  /\ UNCHANGED <<queueVars, mainVars, histVars>>

(* mutant: a worker that cannot get the lock goes back to sleep *)
TryLockSleep(p) ==
  /\ wpc[p] = "try_lock"
  /\ \/ /\ rlck = Nobody
        /\ rlck' = p
        /\ Goto(p, "isEmpty")
     \/ /\ rlck # Nobody
        /\ Goto(p, "wait")
        /\ UNCHANGED rlck
  /\ UNCHANGED <<tasks, spin, comp_tasks, sems, latch, currentWrite>>
  /\ UNCHANGED <<queueVars, mainVars, histVars>>

TryLock(p) ==
  /\ wpc[p] = "try_lock"
  /\ \/ /\ rlck = Nobody
        /\ rlck' = p
        /\ Goto(p, "isEmpty")
     \/ /\ rlck # Nobody
        /\ Goto(p, "task")
        /\ UNCHANGED rlck
  /\ UNCHANGED <<tasks, spin, comp_tasks, sems, latch, currentWrite>>
  /\ UNCHANGED <<queueVars, mainVars, histVars>>

(* the closure at the front is complete and has not been destroyed *)
FrontWhole == records[readIndex] # Dead /\ readIndex \notin building

(* mutant: rlck is released before the closure is called and popped *)
CheckResnsUnlocked(p) ==
  /\ wpc[p] = "isEmpty"
  /\ \/ /\ ResnsEmpty
        /\ Goto(p, "unlock_empty")
        /\ UNCHANGED <<rruns, crashed, rlck>>
     \/ /\ ~ResnsEmpty /\ FrontWhole
        /\ rlck' = Nobody
        /\ rruns' = [rruns EXCEPT ![records[readIndex]] = @ + 1]
        /\ Goto(p, "popResn")
        /\ UNCHANGED crashed
     \/ /\ ~ResnsEmpty /\ ~FrontWhole
        /\ crashed' = TRUE
        /\ UNCHANGED <<wpc, rruns, rlck>>
  /\ UNCHANGED <<tasks, spin, comp_tasks, sems, latch>>
  /\ UNCHANGED <<queueVars, currentWrite, mainVars, finished>>

(***************************************************************************)
(* The closure at the front is called; the call ends at PopResn.  An empty *)
(* std::function throws bad_function_call, which nobody catches; of one    *)
(* that was destroyed anything may come.  Either way the program is over.  *)
(***************************************************************************)
CheckResns(p) ==
  /\ wpc[p] = "isEmpty"
  /\ \/ /\ ResnsEmpty
        /\ Goto(p, "unlock_empty")
        /\ UNCHANGED <<rruns, crashed>>
     \/ /\ ~ResnsEmpty /\ FrontWhole
        /\ rruns' = [rruns EXCEPT ![records[readIndex]] = @ + 1]
        /\ Goto(p, "popResn")
        /\ UNCHANGED crashed
     \/ /\ ~ResnsEmpty /\ ~FrontWhole
        /\ crashed' = TRUE
        /\ UNCHANGED <<wpc, rruns>>
  /\ UNCHANGED <<poolVars, queueVars, currentWrite, mainVars, finished>>

UnlockEmpty(p) ==
  /\ wpc[p] = "unlock_empty"
  /\ rlck' = Nobody
  /\ Goto(p, "task")
  /\ UNCHANGED <<tasks, spin, comp_tasks, sems, latch, currentWrite>>
  /\ UNCHANGED <<queueVars, mainVars, histVars>>

PopResn(p) ==
  /\ wpc[p] = "popResn"
  /\ records' = [records EXCEPT ![readIndex] = Dead]
  /\ readIndex' = NextRecord(readIndex)
  /\ Goto(p, "unlock")
  /\ UNCHANGED <<poolVars, building, writeIndex>>
  /\ UNCHANGED <<currentWrite, mainVars, histVars>>

Unlock(p) ==
  /\ wpc[p] = "unlock"
  /\ rlck' = Nobody
  /\ Goto(p, "post")
  /\ UNCHANGED <<tasks, spin, comp_tasks, sems, latch, currentWrite>>
  /\ UNCHANGED <<queueVars, mainVars, histVars>>

(* a loop that posts the semaphore of every worker; then on to pc *)
PostLoop(p, pc) ==
  /\ sems' = [q \in Worker |-> sems[q] + 1]
  /\ Goto(p, pc)
  /\ UNCHANGED <<tasks, spin, comp_tasks, rlck, latch, currentWrite>>
  /\ UNCHANGED <<queueVars, mainVars, histVars>>

(* mutant: the token spent on a resolution is not given back *)
PostNone(p) ==
  /\ wpc[p] = "post"
  /\ Goto(p, "wait")
  /\ UNCHANGED <<poolVars, queueVars, currentWrite, mainVars, histVars>>

PostAll(p) == wpc[p] = "post" /\ PostLoop(p, "wait")

-----------------------------------------------------------------------------
(* worker(p): otherwise run a task *)

(***************************************************************************)
(* The front task runs, up to and including latch->second->count_down()    *)
(* in reattach.                                                            *)
(***************************************************************************)
CheckTask(p) ==
  /\ wpc[p] = "task"
  /\ \/ /\ tasks[p] = <<>>
        /\ Goto(p, "notify")
        /\ UNCHANGED latch
     \/ /\ tasks[p] # <<>>
        /\ latch' = [latch EXCEPT ![Head(tasks[p])] = @ - 1]
        /\ Goto(p, "try_wait")
  /\ UNCHANGED <<tasks, spin, comp_tasks, sems, rlck, currentWrite>>
  /\ UNCHANGED <<queueVars, mainVars, histVars>>

(* mutant: the resolution is submitted when one worker is still missing *)
TryWaitEarly(p) ==
  /\ wpc[p] = "try_wait"
  /\ Goto(p, IF latch[Head(tasks[p])] <= 1 THEN "load" ELSE "popTask")
  /\ UNCHANGED <<poolVars, queueVars, currentWrite, mainVars, histVars>>

TryWait(p) ==
  /\ wpc[p] = "try_wait"
  /\ Goto(p, IF latch[Head(tasks[p])] = 0 THEN "load" ELSE "popTask")
  /\ UNCHANGED <<poolVars, queueVars, currentWrite, mainVars, histVars>>

(* submitr: resns.write(resn), repeated while it is full *)
LoadWrite(p) ==
  /\ wpc[p] = "load"
  /\ currentWrite' = [currentWrite EXCEPT ![p] = writeIndex]
  /\ Goto(p, "full")
  /\ UNCHANGED <<poolVars, queueVars, mainVars, histVars>>

CheckFull(p) ==
  /\ wpc[p] = "full"
  /\ Goto(p, IF NextRecord(currentWrite[p]) # readIndex THEN "new" ELSE "load")
  /\ UNCHANGED <<poolVars, queueVars, currentWrite, mainVars, histVars>>

(***************************************************************************)
(* The constructor of std::function clears _M_manager, copies the callable *)
(* and sets _M_manager last.  If another worker popped the slot meanwhile, *)
(* the copy may be the one its destructor destroyed.                       *)
(***************************************************************************)
BeginRecord(p) ==
  /\ wpc[p] = "new"
  /\ records' = [records EXCEPT ![currentWrite[p]] = Head(tasks[p])]
  /\ building' = building \cup {currentWrite[p]}
  /\ Goto(p, "construct")
  /\ UNCHANGED <<poolVars, readIndex, writeIndex>>
  /\ UNCHANGED <<currentWrite, mainVars, histVars>>

EndRecord(p) ==
  /\ wpc[p] = "construct"
  /\ \/ UNCHANGED records
     \/ /\ records[currentWrite[p]] = Dead
        /\ records' = [records EXCEPT ![currentWrite[p]] = Head(tasks[p])]
  /\ building' = building \ {currentWrite[p]}
  /\ Goto(p, "store")
  /\ UNCHANGED <<poolVars, readIndex, writeIndex>>
  /\ UNCHANGED <<currentWrite, mainVars, histVars>>

StoreWrite(p) ==
  /\ wpc[p] = "store"
  /\ writeIndex' = NextRecord(currentWrite[p])
  /\ Goto(p, "postr")
  /\ UNCHANGED <<poolVars, records, building, readIndex>>
  /\ UNCHANGED <<currentWrite, mainVars, histVars>>

(* mutant: submitr does not post *)
PostResnNone(p) ==
  /\ wpc[p] = "postr"
  /\ Goto(p, "popTask")
  /\ UNCHANGED <<poolVars, queueVars, currentWrite, mainVars, histVars>>

PostResn(p) == wpc[p] = "postr" /\ PostLoop(p, "popTask")

PopTask(p) ==
  /\ wpc[p] = "popTask"
  /\ tasks' = [tasks EXCEPT ![p] = Tail(@)]
  /\ comp_tasks' = [comp_tasks EXCEPT ![p] = @ + 1]
  /\ Goto(p, "notify")
  /\ UNCHANGED <<spin, sems, rlck, latch, currentWrite>>
  /\ UNCHANGED <<queueVars, mainVars, histVars>>

(* fin_cv.notify_one(), without fin_m: lost unless finish() is blocked *)
NotifyOne(p) ==
  /\ wpc[p] = "notify"
  /\ IF mpc = "fin_wait" THEN FinWake ELSE UNCHANGED <<mpc, mi, ret>>
  /\ Goto(p, "wait")
  /\ UNCHANGED <<poolVars, queueVars, currentWrite, issued, histVars>>

WorkerStep(p) ==
  /\ ~crashed
  /\ \/ SemWait(p) \/ TryLock(p) \/ CheckResns(p) \/ UnlockEmpty(p)
     \/ PopResn(p) \/ Unlock(p) \/ PostAll(p)
     \/ CheckTask(p) \/ TryWait(p)
     \/ LoadWrite(p) \/ CheckFull(p) \/ BeginRecord(p) \/ EndRecord(p)
     \/ StoreWrite(p) \/ PostResn(p)
     \/ PopTask(p) \/ NotifyOne(p)

(* the program is over: main has joined the workers, or it crashed *)
Terminated == (mpc = "done" \/ crashed) /\ UNCHANGED vars

Next ==
  \/ Main
  \/ SpuriousWake
  \/ \E p \in Worker : WorkerStep(p)
  \/ Terminated

(***************************************************************************)
(* Threads that can run do run.  Nothing is assumed of spurious wake-ups.  *)
(***************************************************************************)
Fairness == WF_vars(Main) /\ \A p \in Worker : WF_vars(WorkerStep(p))

Spec == Init /\ [][Next]_vars
FairSpec == Spec /\ Fairness

-----------------------------------------------------------------------------
(* Safety *)

(* workers in submitr, and those that have counted down the latch of their *)
(* front task                                                              *)
Writing == {"load", "full", "new", "construct", "store"}
Counted == {"try_wait", "postr", "popTask"} \cup Writing

(* tdone[p]: tasks of worker p that have counted their latch down *)
tdone == [p \in Worker |->
            comp_tasks[p] + (IF wpc[p] \in Counted THEN 1 ELSE 0)]

(***************************************************************************)
(* No resolution starts before every worker has reattached its splinter:   *)
(* reattach reads the latch in a step after it decremented it, and queue   *)
(* slots may be written by several workers.                                *)
(***************************************************************************)
ResolveAfterTasks ==
  \A k \in Op : rruns[k] > 0 => \A p \in Worker : tdone[p] >= k

(* worker p has taken a token and has not yet given up on its task queue *)
Busy == {"try_lock", "isEmpty", "unlock_empty", "popResn", "unlock", "post",
         "task"} \cup Counted
Hand(p)     == IF wpc[p] \in Busy THEN 1 ELSE 0
Unposted(p) == IF mpc = "posts" /\ mi = p THEN 1 ELSE 0

(***************************************************************************)
(* No task is stranded: as long as the pool runs, every queued task of a   *)
(* worker is covered by a token of its semaphore, by the token the worker  *)
(* holds, or by the post submit() is about to do.  A worker that spends    *)
(* its token on a resolution instead must get it back (the loop of posts   *)
(* after rlck.unlock()).                                                   *)
(***************************************************************************)
TokenInv ==
  spin => \A p \in Worker :
            sems[p] + Hand(p) + Unposted(p) >= Len(tasks[p])

(* places from which worker p will still look at resns or post everybody *)
Attending == {"try_lock", "isEmpty", "popResn", "unlock", "post", "postr"}

(***************************************************************************)
(* No resolution is stranded: while resns holds something, some worker has *)
(* a token or is on its way to resns, although a worker whose try_lock     *)
(* fails gives up its token, and the holder may be about to unlock after   *)
(* having seen resns empty.                                                *)
(***************************************************************************)
ResnWake ==
  (spin /\ ~ResnsEmpty) =>
     \E p \in Worker : sems[p] > 0 \/ wpc[p] \in Attending

(***************************************************************************)
(* finish() returns only when all submitted tasks are done, although its   *)
(* predicate reads the queues one after the other without a lock.          *)
(***************************************************************************)
AllTasksDone ==
  (mpc = "fin_test" /\ ret) => \A p \in Worker : comp_tasks[p] = issued

(***************************************************************************)
(* finish() returns only when no resolution is running and every operation *)
(* has been resolved.                                                      *)
(***************************************************************************)
FinishSafe ==
  (mpc = "fin_test" /\ ret) =>
     /\ \A p \in Worker : wpc[p] # "popResn"
     /\ \A k \in 1 .. issued : rruns[k] >= 1

(***************************************************************************)
(* The asserts of worker(): a worker that leaves finds its own queue and   *)
(* resns empty.                                                            *)
(***************************************************************************)
ExitAssert ==
  \A p \in Worker : wpc[p] = "exit" => tasks[p] = <<>> /\ ResnsEmpty

(***************************************************************************)
(* What the class of resns promises to one producer and one consumer: the  *)
(* closure a worker calls is whole.                                        *)
(***************************************************************************)
CalledWhole == ~crashed

(***************************************************************************)
(* A destroyed closure is never called.  One under construction is called  *)
(* only when a second worker that found the same latch at zero was         *)
(* overtaken in write() and constructs the closure of the same operation   *)
(* again, in the slot the first one has published.                         *)
(***************************************************************************)
TornByTwin ==
  crashed => \E q \in Worker : /\ wpc[q] = "construct"
                               /\ currentWrite[q] = readIndex
                               /\ records[readIndex] = Head(tasks[q])
                               /\ writeIndex = NextRecord(currentWrite[q])

-----------------------------------------------------------------------------
(* The inductive invariant behind the safety properties *)

(* worker p's queue holds the operations after the ones it completed *)
Submitted(p) == IF \/ mpc = "write" /\ mi <= p
                   \/ mpc = "posts" /\ mi < p
                THEN issued - 1 ELSE issued

QueueInv ==
  \A p \in Worker :
    /\ comp_tasks[p] + Len(tasks[p]) = Submitted(p)
    /\ \A i \in 1 .. Len(tasks[p]) : tasks[p][i] = comp_tasks[p] + i
    /\ wpc[p] \in Counted => tasks[p] # <<>>

MainInv ==
  /\ mpc \in {"write", "posts"} => issued > 0
  /\ mpc \in {"write", "posts", "fin_tasks", "fin_resns"} => mi < HWCONC
  /\ spin <=> mpc \notin {"post_stop", "join", "done"}

(* a latch counts the workers that have not counted it down *)
LatchInv ==
  \A k \in Op :
    latch[k] = IF k <= issued
               THEN Cardinality({p \in Worker : tdone[p] < k}) ELSE 0

(* closures that are about to be queued, are queued or have been called *)
ClosureInv ==
  /\ \A p \in Worker :
       wpc[p] \in Writing => latch[Head(tasks[p])] = 0
  /\ \A s \in Slot :
       records[s] # Dead => records[s] <= issued /\ latch[records[s]] = 0
  /\ \A k \in Op : rruns[k] > 0 => k <= issued /\ latch[k] = 0

LockInv ==
  \A p \in Worker :
    rlck = p <=> wpc[p] \in {"isEmpty", "unlock_empty", "popResn", "unlock"}

(* resns was filled behind the back of a holder that saw it empty *)
HolderInv ==
  \A q \in Worker :
    (spin /\ wpc[q] = "unlock_empty" /\ ~ResnsEmpty) =>
       sems[q] > 0 \/ \E r \in Worker : wpc[r] = "postr"

(* queues that the predicate of finish() has found empty stay empty *)
FinishInv ==
  ret => /\ mpc \in {"fin_tasks", "fin_resns"} =>
              \A p \in Worker : p < mi => tasks[p] = <<>>
         /\ mpc = "fin_resns" => tasks[mi] = <<>>
         /\ mpc = "fin_test" => \A p \in Worker : tasks[p] = <<>>

(***************************************************************************)
(* The conjunction is inductive: every step of the pool preserves it.      *)
(***************************************************************************)
IInv ==
  /\ TypeOK
  /\ QueueInv
  /\ MainInv
  /\ LatchInv
  /\ ClosureInv
  /\ LockInv
  /\ TokenInv
  /\ ResnWake
  /\ HolderInv
  /\ FinishInv

-----------------------------------------------------------------------------
(* The pool implements the abstract executor *)

resolving == IF \E p \in Worker : wpc[p] = "popResn"
             THEN records[readIndex] ELSE 0

Exec == INSTANCE Executor WITH tdone <- tdone, resolving <- resolving

(***************************************************************************)
(* Tasks in issue order, resolutions one at a time, in issue order and     *)
(* after all tasks of the operation, finish() when all is over.            *)
(***************************************************************************)
ImplementsExecutor == Exec!ExecutorSpec

-----------------------------------------------------------------------------
(* Liveness, under FairSpec *)

(* Every operation that is issued gets resolved, unless the program crashes. *)
EveryOpResolved == \A k \in Op : (issued >= k) ~> (rruns[k] >= 1 \/ crashed)

(* A call of finish() returns, unless the program crashes. *)
FinishReturns == (mpc = "fin_tasks") ~> (mpc \in {"issue", "stop"} \/ crashed)

=============================================================================
