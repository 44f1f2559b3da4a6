------------------------------- MODULE LifoSem -------------------------------
(***************************************************************************)
(* folly::LifoSem, on which the workers of the pool sleep.  One word,      *)
(* head_, holds either the value of the semaphore or the top of a stack    *)
(* of waiting nodes, and a sequence number that makes a compare-and-swap   *)
(* fail if the stack was changed and changed back.  A waiter pushes a      *)
(* node, a poster pops one and hands off through the Baton in it; nodes    *)
(* are recycled through a pool while posters may still hold their index.   *)
(*                                                                         *)
(* Every access to head_, to a node's next or to a Baton's state_ is a     *)
(* step. shutdown(), post(n) and tryWait(n) are not used by the pool.      *)
(***************************************************************************)
EXTENDS Naturals, FiniteSets

CONSTANTS Waiter, Poster,   \* threads that call wait() and post()
          Calls,            \* bound: Calls[t] calls by thread t
          Nodes             \* indices of the IndexedMemPool, not 0

Thread == Waiter \cup Poster

ASSUME LifoSemAssumption ==
  /\ Waiter \cap Poster = {}
  /\ IsFiniteSet(Waiter) /\ IsFiniteSet(Poster) /\ IsFiniteSet(Nodes)
  /\ Calls \in [Thread -> Nat]
  /\ Nodes \subseteq Nat \ {0}
  /\ Cardinality(Nodes) >= Cardinality(Waiter)

VARIABLES
  head,    \* head_: isNodeIdx, the value or the index, seq
  next,    \* next[i]: the node under node i, 0 if none
  state,   \* state[i]: state_ of the Baton in node i; "dead" if not constructed
  free,    \* indices in the pool
  pc,      \* pc[t]: where thread t is
  h,       \* h[t]: the head it has loaded
  idx,     \* idx[t]: a waiter's own node, the node a poster works on
  under,   \* under[t]: the next a poster has read
  left     \* left[t]: calls still to make

vars == <<head, next, state, free, pc, h, idx, under, left>>

fresh(v) == [isNode |-> FALSE, bits |-> v, seq |-> 0]

Init ==
  /\ head = fresh(0)
  /\ next = [i \in Nodes |-> 0]
  /\ state = [i \in Nodes |-> "dead"]
  /\ free = Nodes
  /\ pc = [t \in Thread |-> "idle"]
  /\ h = [t \in Thread |-> fresh(0)]
  /\ idx = [t \in Thread |-> 0]
  /\ under = [t \in Thread |-> 0]
  /\ left = Calls

-----------------------------------------------------------------------------
(* LifoSemHead *)

\* mutant: popping leaves the sequence number alone
PopSameSeq(x, i) == [isNode |-> i # 0, bits |-> i, seq |-> x.seq]

withPop(x, i) == [isNode |-> i # 0, bits |-> i, seq |-> x.seq + 1]
withPush(x, i) == [isNode |-> TRUE, bits |-> i, seq |-> x.seq]
withValueIncr(x, n) == [isNode |-> FALSE, bits |-> x.bits + n, seq |-> x.seq + 1]
withValueDecr(x, n) == [isNode |-> FALSE, bits |-> x.bits - n, seq |-> x.seq + 1]

HasValue(x) == ~x.isNode /\ x.bits > 0

Goto(t, there) == pc' = [pc EXCEPT ![t] = there]
Load(t) == h' = [h EXCEPT ![t] = head]

\* head_.compare_exchange_strong(h, x): done goes on at there, else at again
Cas(t, x, there, again) ==
  \/ head = h[t] /\ head' = x /\ Goto(t, there)
  \/ head # h[t] /\ UNCHANGED head /\ Goto(t, again)

-----------------------------------------------------------------------------
(* wait() *)

Wait(t) ==
  /\ pc[t] = "idle" /\ left[t] > 0
  /\ left' = [left EXCEPT ![t] = @ - 1]
  /\ Goto(t, "tryWait")
  /\ UNCHANGED <<head, next, state, free, h, idx, under>>

\* decrOrPush(1, 0)
TryWait(t) ==
  /\ pc[t] = "tryWait"
  /\ Load(t)
  /\ Goto(t, IF HasValue(head) THEN "tryDecr" ELSE "allocate")
  /\ UNCHANGED <<head, next, state, free, idx, under, left>>

TryDecr(t) ==
  /\ pc[t] = "tryDecr"
  /\ Cas(t, withValueDecr(h[t], 1), "idle", "tryWait")
  /\ UNCHANGED <<next, state, free, h, idx, under, left>>

\* allocateNode(): any index the pool may have at hand
Allocate(t) ==
  /\ pc[t] = "allocate"
  /\ \E i \in free :
       /\ free' = free \ {i}
       /\ idx' = [idx EXCEPT ![t] = i]
       /\ next' = [next EXCEPT ![i] = 0]
       /\ state' = [state EXCEPT ![i] = "INIT"]
  /\ Goto(t, "push")
  /\ UNCHANGED <<head, h, under, left>>

\* decrOrPush(1, idx): load head_, link the node
Push(t) ==
  /\ pc[t] = "push"
  /\ Load(t)
  /\ \/ HasValue(head) /\ Goto(t, "decr") /\ UNCHANGED next
     \/ /\ ~HasValue(head)
        /\ next' = [next EXCEPT ![idx[t]] = head.bits]
        /\ Goto(t, "pushCas")
  /\ UNCHANGED <<head, state, free, idx, under, left>>

Decr(t) ==
  /\ pc[t] = "decr"
  /\ Cas(t, withValueDecr(h[t], 1), "recycle", "push")
  /\ UNCHANGED <<next, state, free, h, idx, under, left>>

PushCas(t) ==
  /\ pc[t] = "pushCas"
  /\ Cas(t, withPush(h[t], idx[t]), "handoff", "push")
  /\ UNCHANGED <<next, state, free, h, idx, under, left>>

\* ~UniquePtr: the Baton is destroyed, the index goes back to the pool
Recycle(t) ==
  /\ pc[t] = "recycle"
  /\ state' = [state EXCEPT ![idx[t]] = "dead"]
  /\ free' = free \cup {idx[t]}
  /\ idx' = [idx EXCEPT ![t] = 0]
  /\ Goto(t, "idle")
  /\ UNCHANGED <<head, next, h, under, left>>

-----------------------------------------------------------------------------
(* Baton::wait() *)

\* the spins end with an early delivery or with the state WAITING
HandoffWait(t) ==
  /\ pc[t] = "handoff"
  /\ \/ state[idx[t]] = "EARLY_DELIVERY" /\ Goto(t, "recycle") /\ UNCHANGED state
     \/ /\ state[idx[t]] # "EARLY_DELIVERY"
        /\ state' = [state EXCEPT ![idx[t]] = "WAITING"]
        /\ Goto(t, "futexWait")
  /\ UNCHANGED <<head, next, free, h, idx, under, left>>

\* mutant: goes to sleep whatever the state has become
FutexWaitBlind(t) ==
  /\ pc[t] = "futexWait"
  /\ Goto(t, "asleep")
  /\ UNCHANGED <<head, next, state, free, h, idx, under, left>>

\* futexWait(state_, WAITING) sleeps only if the state still is WAITING
FutexWait(t) ==
  /\ pc[t] = "futexWait"
  /\ Goto(t, IF state[idx[t]] = "WAITING" THEN "asleep" ELSE "check")
  /\ UNCHANGED <<head, next, state, free, h, idx, under, left>>

\* FUTEX_WAIT may also return for no reason; nobody relies on it
SpuriousWake(t) ==
  /\ pc[t] = "asleep"
  /\ Goto(t, "check")
  /\ UNCHANGED <<head, next, state, free, h, idx, under, left>>

\* mutant: a wake-up is taken for the delivery
CheckTrusting(t) ==
  /\ pc[t] = "check"
  /\ Goto(t, "recycle")
  /\ UNCHANGED <<head, next, state, free, h, idx, under, left>>

\* awake, perhaps by a wake-up that was meant for the node's earlier owner
Check(t) ==
  /\ pc[t] = "check"
  /\ Goto(t, IF state[idx[t]] = "LATE_DELIVERY" THEN "recycle" ELSE "futexWait")
  /\ UNCHANGED <<head, next, state, free, h, idx, under, left>>

-----------------------------------------------------------------------------
(* post() *)

Post(t) ==
  /\ pc[t] = "idle" /\ left[t] > 0
  /\ left' = [left EXCEPT ![t] = @ - 1]
  /\ Goto(t, "incrOrPop")
  /\ UNCHANGED <<head, next, state, free, h, idx, under>>

IncrOrPop(t) ==
  /\ pc[t] = "incrOrPop"
  /\ Load(t)
  /\ Goto(t, IF head.isNode THEN "readNext" ELSE "incr")
  /\ UNCHANGED <<head, next, state, free, idx, under, left>>

Incr(t) ==
  /\ pc[t] = "incr"
  /\ Cas(t, withValueIncr(h[t], 1), "idle", "incrOrPop")
  /\ UNCHANGED <<next, state, free, h, idx, under, left>>

\* node.next, of a node that may be somebody else's by now
ReadNext(t) ==
  /\ pc[t] = "readNext"
  /\ under' = [under EXCEPT ![t] = next[h[t].bits]]
  /\ Goto(t, "pop")
  /\ UNCHANGED <<head, next, state, free, h, idx, left>>

Pop(t) ==
  /\ pc[t] = "pop"
  /\ Cas(t, withPop(h[t], under[t]), "deliver", "incrOrPop")
  /\ idx' = [idx EXCEPT ![t] = IF head = h[t] THEN h[t].bits ELSE 0]
  /\ under' = [under EXCEPT ![t] = 0]
  /\ UNCHANGED <<next, state, free, h, left>>

\* Baton::post(): the state is loaded
Deliver(t) ==
  /\ pc[t] = "deliver"
  /\ Goto(t, IF state[idx[t]] = "INIT" THEN "early" ELSE "late")
  /\ UNCHANGED <<head, next, state, free, h, idx, under, left>>

\* mutant: the delivery is stored without looking whether the waiter gave up
EarlyStore(t) ==
  /\ pc[t] = "early"
  /\ state' = [state EXCEPT ![idx[t]] = "EARLY_DELIVERY"]
  /\ idx' = [idx EXCEPT ![t] = 0]
  /\ Goto(t, "idle")
  /\ UNCHANGED <<head, next, free, h, under, left>>

Early(t) ==
  /\ pc[t] = "early"
  /\ \/ /\ state[idx[t]] = "INIT"
        /\ state' = [state EXCEPT ![idx[t]] = "EARLY_DELIVERY"]
        /\ idx' = [idx EXCEPT ![t] = 0]
        /\ Goto(t, "idle")
     \/ state[idx[t]] # "INIT" /\ Goto(t, "late") /\ UNCHANGED <<state, idx>>
  /\ UNCHANGED <<head, next, free, h, under, left>>

Late(t) ==
  /\ pc[t] = "late"
  /\ state' = [state EXCEPT ![idx[t]] = "LATE_DELIVERY"]
  /\ Goto(t, "futexWake")
  /\ UNCHANGED <<head, next, free, h, idx, under, left>>

\* futexWake(1): one thread that sleeps on this address, whoever it is
FutexWake(t) ==
  LET asleep == {w \in Waiter : pc[w] = "asleep" /\ idx[w] = idx[t]}
  IN  /\ pc[t] = "futexWake"
      /\ \/ asleep = {} /\ Goto(t, "idle")
         \/ \E w \in asleep : pc' = [pc EXCEPT ![t] = "idle", ![w] = "check"]
      /\ idx' = [idx EXCEPT ![t] = 0]
      /\ UNCHANGED <<head, next, state, free, h, under, left>>

-----------------------------------------------------------------------------
WaitStep(t) ==
  \/ Wait(t) \/ TryWait(t) \/ TryDecr(t) \/ Allocate(t) \/ Push(t)
  \/ Decr(t) \/ PushCas(t) \/ Recycle(t) \/ HandoffWait(t) \/ FutexWait(t)
  \/ Check(t)

PostStep(t) ==
  \/ Post(t) \/ IncrOrPop(t) \/ Incr(t) \/ ReadNext(t) \/ Pop(t)
  \/ Deliver(t) \/ Early(t) \/ Late(t) \/ FutexWake(t)

\* every call has returned
Done == (\A t \in Thread : pc[t] = "idle" /\ left[t] = 0) /\ UNCHANGED vars

Next ==
  \/ \E t \in Waiter : WaitStep(t) \/ SpuriousWake(t)
  \/ \E t \in Poster : PostStep(t)
  \/ Done

\* threads run until they block; head_ is lock-free, so no stronger fairness
Spec ==
  /\ Init /\ [][Next]_vars
  /\ \A t \in Waiter : WF_vars(WaitStep(t))
  /\ \A t \in Poster : WF_vars(PostStep(t))

-----------------------------------------------------------------------------
(* Properties *)

\* waiters that a poster has already popped
Popped == {w \in Waiter : pc[w] \in {"handoff", "futexWait", "asleep", "check"} /\
             \/ state[idx[w]] \in {"EARLY_DELIVERY", "LATE_DELIVERY"}
             \/ \E t \in Poster : pc[t] \in {"deliver", "early", "late"} /\ idx[t] = idx[w]}

\* the nodes on the stack, from the top
Stack ==
  LET top == IF head.isNode THEN head.bits ELSE 0
      d[n \in 0 .. Cardinality(Nodes)] ==
        IF n = 0 THEN top ELSE LET i == d[n - 1] IN IF i = 0 THEN 0 ELSE next[i]
  IN  {d[n] : n \in DOMAIN d} \ {0}

(***************************************************************************)
(* The stack holds exactly the nodes of the waiters nobody has popped yet: *)
(* no waiter falls off it and none is left on it after it has returned,    *)
(* whatever the nodes were recycled for between a load and a swap.         *)
(***************************************************************************)
StackExact ==
  Stack = {idx[w] : w \in {w \in Waiter :
             pc[w] \in {"handoff", "futexWait", "asleep", "check"}} \ Popped}

(***************************************************************************)
(* The assertions of Baton: a Baton is posted once in its life and only    *)
(* while its waiter has not returned, and never destroyed while WAITING.   *)
(***************************************************************************)
BatonAsserts ==
  /\ \A t \in Poster : pc[t] \in {"deliver", "early", "late"} =>
       state[idx[t]] \in (IF pc[t] = "late" THEN {"WAITING"} ELSE {"INIT", "WAITING"})
  /\ \A w \in Waiter :
       /\ pc[w] = "handoff" => state[idx[w]] \in {"INIT", "EARLY_DELIVERY"}
       /\ pc[w] \in {"futexWait", "asleep", "check"} =>
            state[idx[w]] \in {"WAITING", "LATE_DELIVERY"}
       /\ pc[w] = "recycle" => state[idx[w]] # "WAITING"

\* nodes that carry a token: the wait they belong to is about to return
Delivered == {i \in Nodes : state[i] \in {"EARLY_DELIVERY", "LATE_DELIVERY"} /\
                \E w \in Waiter : idx[w] = i /\ pc[w] # "recycle"}

Sem == INSTANCE Semaphore WITH
         tokens <- (IF head.isNode THEN 0 ELSE head.bits)
                   + Cardinality({t \in Poster : pc[t] \in {"deliver", "early", "late"}})
                   + Cardinality(Delivered),
         waiting <- {t \in Waiter : pc[t] \notin {"idle", "recycle"}}

(***************************************************************************)
(* LifoSem is a semaphore: a wait returns only with a token of its own,    *)
(* and no token is lost or doubled on the way through value and handoff.   *)
(***************************************************************************)
ImplementsSemaphore == Sem!SemSpec

(***************************************************************************)
(* No wake-up is lost: when there are as many posts as waits, every wait   *)
(* returns.                                                                *)
(***************************************************************************)
EveryWaitReturns == <>[](\A t \in Waiter : pc[t] = "idle" /\ left[t] = 0)
=============================================================================
