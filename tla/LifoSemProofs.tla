--------------------------- MODULE LifoSemProofs ---------------------------
(***************************************************************************)
(* Theorems about LifoSem, for every number of threads, calls and nodes.   *)
(* IInv is inductive:                                                      *)
(*                                                                         *)
(*   TypeInv    types; where a thread may be                               *)
(*   OwnInv     a node is in the pool or belongs to one waiter             *)
(*   BatonInv   the state of a Baton, by where its waiter is               *)
(*   PostInv    a poster delivers to a waiter that is waiting, and no two  *)
(*              posters deliver to the same one                            *)
(*   HeadInv    what the head a thread has loaded still tells: a head with *)
(*              the present sequence number names a node on the stack whose*)
(*              next is as it was read                                     *)
(*   StackInv   head_ and the next of the nodes form a list without a      *)
(*              repetition of exactly the nodes of the unpopped waiters    *)
(***************************************************************************)
EXTENDS LifoSem, Integers, FiniteSetTheorems, TLAPS

HeadWord == [isNode : BOOLEAN, bits : Nat, seq : Nat]
Links == Nodes \cup {0}

InHandoff == {"handoff", "futexWait", "asleep", "check"}
Linking   == {"push", "decr", "pushCas"}
Owning    == InHandoff \cup Linking \cup {"recycle"}
WaitPC    == Owning \cup {"idle", "tryWait", "tryDecr", "allocate"}
Posting   == {"deliver", "early", "late"}
PostPC    == Posting \cup {"idle", "incrOrPop", "incr", "readNext", "pop", "futexWake"}
BatonState == {"dead", "INIT", "WAITING", "EARLY_DELIVERY", "LATE_DELIVERY"}

TypeInv ==
  /\ head \in HeadWord /\ (head.isNode => head.bits \in Nodes)
  /\ next \in [Nodes -> Links]
  /\ state \in [Nodes -> BatonState]
  /\ free \in SUBSET Nodes
  /\ pc \in [Thread -> WaitPC \cup PostPC]
  /\ \A w \in Waiter : pc[w] \in WaitPC
  /\ \A t \in Poster : pc[t] \in PostPC
  /\ h \in [Thread -> HeadWord]
  /\ idx \in [Thread -> Links]
  /\ under \in [Thread -> Links]
  /\ left \in [Thread -> Nat]

OwnInv ==
  /\ \A w \in Waiter : IF pc[w] \in Owning THEN idx[w] \in Nodes \ free ELSE idx[w] = 0
  /\ \A v, w \in Waiter : pc[v] \in Owning /\ pc[w] \in Owning /\ idx[v] = idx[w] => v = w

BatonInv ==
  \A w \in Waiter :
    /\ pc[w] \in Linking => state[idx[w]] = "INIT"
    /\ pc[w] = "handoff" => state[idx[w]] \in {"INIT", "EARLY_DELIVERY"}
    /\ pc[w] \in {"futexWait", "asleep", "check"} =>
         state[idx[w]] \in {"WAITING", "LATE_DELIVERY"}
    /\ pc[w] = "recycle" => state[idx[w]] # "WAITING"

(* Has a poster popped node i and not yet delivered to it? *)
Handed(i) == \E t \in Poster : pc[t] \in Posting /\ idx[t] = i

PostInv ==
  /\ \A t \in Poster : pc[t] \in Posting \cup {"futexWake"} => idx[t] \in Nodes
  /\ \A t \in Poster : pc[t] \in Posting =>
       /\ \E w \in Waiter : pc[w] \in InHandoff /\ idx[w] = idx[t]
       /\ state[idx[t]] \in (IF pc[t] = "late" THEN {"WAITING"} ELSE {"INIT", "WAITING"})
  /\ \A t, u \in Poster : pc[t] \in Posting /\ pc[u] \in Posting /\ idx[t] = idx[u] => t = u

(* Is waiter w in handoff, with nobody about to deliver or done delivering? *)
OnStack(w) ==
  /\ pc[w] \in InHandoff
  /\ state[idx[w]] \in {"INIT", "WAITING"}
  /\ ~Handed(idx[w])

Stacked == {i \in Nodes : \E w \in Waiter : OnStack(w) /\ idx[w] = i}

WaiterLoaded(w) ==
  /\ pc[w] \in {"tryDecr", "decr"} => HasValue(h[w])
  /\ pc[w] = "pushCas" => ~HasValue(h[w]) /\ next[idx[w]] = h[w].bits

PosterLoaded(t) ==
  /\ pc[t] = "incr" => ~h[t].isNode
  /\ pc[t] \in {"readNext", "pop"} =>
       /\ h[t].isNode /\ h[t].bits \in Nodes
       /\ h[t].seq <= head.seq
       /\ h[t].seq = head.seq =>
            h[t].bits \in Stacked /\ (pc[t] = "pop" => under[t] = next[h[t].bits])

HeadInv ==
  /\ \A w \in Waiter : WaiterLoaded(w)
  /\ \A t \in Poster : PosterLoaded(t)

Top == IF head.isNode THEN head.bits ELSE 0

(* f lists the nodes of the stack from the top, then 0 at place n *)
Lists(f, n) ==
  /\ f[0] = Top
  /\ f[n] = 0
  /\ \A k \in 0 .. n - 1 : f[k] \in Stacked /\ f[k + 1] = next[f[k]]
  /\ \A i \in Stacked : \E k \in 0 .. n - 1 : f[k] = i
  /\ \A k, l \in 0 .. n : f[k] = f[l] => k = l

StackInv == \E n \in 0 .. Cardinality(Nodes) : \E f \in [0 .. n -> Links] : Lists(f, n)

IInv == TypeInv /\ OwnInv /\ BatonInv /\ PostInv /\ HeadInv /\ StackInv

-----------------------------------------------------------------------------
(* Every nonempty set of natural numbers has a least element.  This follows *)
(* from the well-foundedness of strict inclusion on finite sets, with      *)
(* 0 .. x - 1 in place of x.                                               *)
LEMMA LeastNumber ==
  ASSUME NEW T, T \subseteq Nat, T # {}
  PROVE  \E x \in T : \A y \in T : x <= y
  <1>. DEFINE R == StrictSubsetOrdering(Nat)
              F == FiniteSubsetsOf(Nat)
              U == {0 .. x - 1 : x \in T}
  <1>1. U \subseteq F
    <2>1. \A x \in T : 0 .. x - 1 \in F
      BY FS_Interval DEF FiniteSubsetsOf
    <2>. QED
      BY <2>1
  <1>2. PICK u \in U : \A v \in U : ~(<<v, u>> \in R)
    <2>1. U # {}
      OBVIOUS
    <2>2. IsWellFoundedOn(R, F)
      BY FS_StrictSubsetOrderingWellFounded
    <2>. HIDE DEF R, F, U
    <2>. QED
      BY <2>1, <2>2, <1>1, WFMin
  <1>3. PICK x \in T : u = 0 .. x - 1
    OBVIOUS
  <1>4. ASSUME NEW y \in T, ~(x <= y)
        PROVE  FALSE
    <2>1. y < x /\ x \in Nat /\ y \in Nat
      BY <1>4
    <2>2. 0 .. y - 1 \subseteq 0 .. x - 1 /\ 0 .. y - 1 # 0 .. x - 1
      <3>1. y \in 0 .. x - 1 /\ y \notin 0 .. y - 1
        BY <2>1
      <3>. QED
        BY <2>1, <3>1
    <2>3. 0 .. y - 1 \in U
      OBVIOUS
    <2>. QED
      BY <1>1, <1>2, <1>3, <2>2, <2>3 DEF StrictSubsetOrdering, FiniteSubsetsOf
  <1>. QED
    BY <1>4

USE LifoSemAssumption
USE DEF Goto, Load, Cas

(* A thread either waits or posts. *)
LEMMA Threads ==
  /\ \A w \in Waiter : w \in Thread /\ w \notin Poster
  /\ \A t \in Poster : t \in Thread /\ t \notin Waiter
  /\ \A t \in Thread : t \in Waiter \/ t \in Poster
  /\ 0 \notin Nodes /\ Nodes \subseteq Nat
  BY DEF Thread

(* The changes of head_ keep its type. *)
LEMMA HeadTypes ==
  ASSUME NEW x \in HeadWord
  PROVE  /\ HasValue(x) => withValueDecr(x, 1) \in HeadWord /\ ~withValueDecr(x, 1).isNode
         /\ ~x.isNode => withValueIncr(x, 1) \in HeadWord /\ ~withValueIncr(x, 1).isNode
         /\ \A i \in Nodes : withPush(x, i) \in HeadWord
         /\ \A j \in Links : withPop(x, j) \in HeadWord
  <1>1. /\ x.bits \in Nat /\ x.seq \in Nat /\ x.isNode \in BOOLEAN
        /\ Nodes \subseteq Nat /\ Links \subseteq Nat
    BY Threads DEF HeadWord, Links
  <1>2. ASSUME HasValue(x)
        PROVE  withValueDecr(x, 1) \in HeadWord /\ ~withValueDecr(x, 1).isNode
    <2>1. x.bits - 1 \in Nat /\ ~x.isNode
      BY <1>1, <1>2 DEF HasValue
    <2>. QED
      BY <2>1, <1>1 DEF withValueDecr, HeadWord
  <1>3. ASSUME ~x.isNode
        PROVE  withValueIncr(x, 1) \in HeadWord /\ ~withValueIncr(x, 1).isNode
    BY <1>3, <1>1 DEF withValueIncr, HeadWord
  <1>4. \A i \in Nodes : withPush(x, i) \in HeadWord
    BY <1>1 DEF withPush, HeadWord
  <1>5. \A j \in Links : withPop(x, j) \in HeadWord
    BY <1>1 DEF withPop, HeadWord
  <1>. QED
    BY <1>2, <1>3, <1>4, <1>5

(* Where the pc of a waiter and of a poster can go. *)
LEMMA Places ==
  /\ {"idle", "tryWait", "tryDecr", "allocate", "push", "decr", "pushCas", "recycle",
      "handoff", "futexWait", "asleep", "check"} = WaitPC
  /\ {"idle", "incrOrPop", "incr", "readNext", "pop", "deliver", "early", "late",
      "futexWake"} = PostPC
  BY DEF WaitPC, PostPC, Owning, Linking, InHandoff, Posting

(* A waiter that moves leaves every other thread where it is. *)
LEMMA WaitMove ==
  ASSUME TypeInv, NEW w \in Waiter, NEW x \in WaitPC, Goto(w, x)
  PROVE  /\ pc' \in [Thread -> WaitPC \cup PostPC]
         /\ \A v \in Waiter : pc'[v] \in WaitPC
         /\ \A t \in Poster : pc'[t] \in PostPC
         /\ pc'[w] = x /\ \A t \in Thread : t # w => pc'[t] = pc[t]
  BY Threads DEF TypeInv

(* So does a poster, but in futexWake. *)
LEMMA PostMove ==
  ASSUME TypeInv, NEW t \in Poster, NEW x \in PostPC, Goto(t, x)
  PROVE  /\ pc' \in [Thread -> WaitPC \cup PostPC]
         /\ \A v \in Waiter : pc'[v] \in WaitPC
         /\ \A u \in Poster : pc'[u] \in PostPC
         /\ pc'[t] = x /\ \A u \in Thread : u # t => pc'[u] = pc[u]
  BY Threads DEF TypeInv

(* futexWake(1) moves its caller and at most one sleeper. *)
LEMMA WakeMove ==
  ASSUME TypeInv, NEW t \in Poster, FutexWake(t)
  PROVE  \E S \in SUBSET Waiter :
           /\ \A w \in S : pc[w] = "asleep" /\ pc'[w] = "check"
           /\ pc'[t] = "idle"
           /\ \A u \in Thread : u # t /\ u \notin S => pc'[u] = pc[u]
           /\ pc' \in [Thread -> WaitPC \cup PostPC]
           /\ \A v \in Waiter : pc'[v] \in WaitPC
           /\ \A u \in Poster : pc'[u] \in PostPC
  <1>. DEFINE asleep == {w \in Waiter : pc[w] = "asleep" /\ idx[w] = idx[t]}
  <1>1. CASE asleep = {} /\ Goto(t, "idle")
    <2>1. "idle" \in PostPC
      BY Places
    <2>. QED
      BY <1>1, <2>1, PostMove
  <1>2. CASE \E w \in asleep : pc' = [pc EXCEPT ![t] = "idle", ![w] = "check"]
    <2>1. PICK w \in asleep : pc' = [pc EXCEPT ![t] = "idle", ![w] = "check"]
      BY <1>2
    <2>2. w \in Waiter /\ pc[w] = "asleep" /\ w # t /\ w \in Thread /\ t \in Thread
      BY <2>1, Threads
    <2>3. "idle" \in PostPC /\ "check" \in WaitPC
      BY Places
    <2>4. pc \in [Thread -> WaitPC \cup PostPC]
      BY DEF TypeInv
    <2>5. /\ pc' \in [Thread -> WaitPC \cup PostPC]
          /\ pc'[t] = "idle" /\ pc'[w] = "check"
          /\ \A u \in Thread : u # t /\ u # w => pc'[u] = pc[u]
      BY <2>1, <2>2, <2>3, <2>4
    <2>6. \A v \in Waiter : pc'[v] \in WaitPC
      BY <2>2, <2>3, <2>5, Threads DEF TypeInv
    <2>7. \A u \in Poster : pc'[u] \in PostPC
      BY <2>2, <2>3, <2>5, Threads DEF TypeInv
    <2>8. WITNESS {w} \in SUBSET Waiter
    <2>. QED
      BY <2>2, <2>5, <2>6, <2>7
  <1>. QED
    BY <1>1, <1>2 DEF FutexWake

(* A node that is linked under another one is a node, or none. *)
LEMMA HeadBits ==
  ASSUME TypeInv, ~HasValue(head)
  PROVE  head.bits \in Links /\ Top = head.bits
  BY DEF TypeInv, HasValue, HeadWord, Links, Top

(* Every step keeps the types. *)
LEMMA TypeKept ==
  ASSUME TypeInv, OwnInv, PostInv, HeadInv, [Next]_vars
  PROVE  TypeInv'
  <1>1. ASSUME NEW w \in Waiter, Wait(w)
        PROVE  TypeInv'
    <2>1. /\ pc' \in [Thread -> WaitPC \cup PostPC]
          /\ \A u \in Waiter : pc'[u] \in WaitPC
          /\ \A u \in Poster : pc'[u] \in PostPC
      BY <1>1, Places, WaitMove DEF Wait
    <2>. QED
      BY <1>1, <2>1, Threads DEF Wait, TypeInv
  <1>2. ASSUME NEW w \in Waiter, TryWait(w)
        PROVE  TypeInv'
    <2>1. /\ pc' \in [Thread -> WaitPC \cup PostPC]
          /\ \A u \in Waiter : pc'[u] \in WaitPC
          /\ \A u \in Poster : pc'[u] \in PostPC
      BY <1>2, Places, WaitMove DEF TryWait
    <2>. QED
      BY <1>2, <2>1, Threads DEF TryWait, TypeInv
  <1>3. ASSUME NEW w \in Waiter, TryDecr(w)
        PROVE  TypeInv'
    <2>1. /\ pc' \in [Thread -> WaitPC \cup PostPC]
          /\ \A u \in Waiter : pc'[u] \in WaitPC
          /\ \A u \in Poster : pc'[u] \in PostPC
      BY <1>3, Places, WaitMove DEF TryDecr
    <2>2. head' \in HeadWord /\ (head'.isNode => head'.bits \in Nodes)
      BY <1>3, Threads, HeadTypes DEF TryDecr, HeadInv, WaiterLoaded, TypeInv
    <2>. QED
      BY <1>3, <2>1, <2>2, Threads DEF TryDecr, TypeInv
  <1>4. ASSUME NEW w \in Waiter, Allocate(w)
        PROVE  TypeInv'
    <2>1. /\ pc' \in [Thread -> WaitPC \cup PostPC]
          /\ \A u \in Waiter : pc'[u] \in WaitPC
          /\ \A u \in Poster : pc'[u] \in PostPC
      BY <1>4, Places, WaitMove DEF Allocate
    <2>2. /\ free' \in SUBSET Nodes /\ idx' \in [Thread -> Links]
          /\ next' \in [Nodes -> Links] /\ state' \in [Nodes -> BatonState]
      BY <1>4, Threads DEF Allocate, TypeInv, Links, BatonState
    <2>. QED
      BY <1>4, <2>1, <2>2, Threads DEF Allocate, TypeInv
  <1>5. ASSUME NEW w \in Waiter, Push(w)
        PROVE  TypeInv'
    <2>1. /\ pc' \in [Thread -> WaitPC \cup PostPC]
          /\ \A u \in Waiter : pc'[u] \in WaitPC
          /\ \A u \in Poster : pc'[u] \in PostPC
      BY <1>5, Places, WaitMove DEF Push
    <2>2. next' \in [Nodes -> Links]
      BY <1>5, HeadBits DEF Push, TypeInv
    <2>. QED
      BY <1>5, <2>1, <2>2, Threads DEF Push, TypeInv
  <1>6. ASSUME NEW w \in Waiter, Decr(w)
        PROVE  TypeInv'
    <2>1. /\ pc' \in [Thread -> WaitPC \cup PostPC]
          /\ \A u \in Waiter : pc'[u] \in WaitPC
          /\ \A u \in Poster : pc'[u] \in PostPC
      BY <1>6, Places, WaitMove DEF Decr
    <2>2. head' \in HeadWord /\ (head'.isNode => head'.bits \in Nodes)
      BY <1>6, Threads, HeadTypes DEF Decr, HeadInv, WaiterLoaded, TypeInv
    <2>. QED
      BY <1>6, <2>1, <2>2, Threads DEF Decr, TypeInv
  <1>7. ASSUME NEW w \in Waiter, PushCas(w)
        PROVE  TypeInv'
    <2>1. /\ pc' \in [Thread -> WaitPC \cup PostPC]
          /\ \A u \in Waiter : pc'[u] \in WaitPC
          /\ \A u \in Poster : pc'[u] \in PostPC
      BY <1>7, Places, WaitMove DEF PushCas
    <2>2. idx[w] \in Nodes
      BY <1>7 DEF PushCas, OwnInv, Owning, Linking
    <2>3. head' \in HeadWord /\ (head'.isNode => head'.bits \in Nodes)
      BY <1>7, <2>2, Threads, HeadTypes DEF PushCas, TypeInv, withPush
    <2>. QED
      BY <1>7, <2>1, <2>2, <2>3, Threads DEF PushCas, TypeInv
  <1>8. ASSUME NEW w \in Waiter, Recycle(w)
        PROVE  TypeInv'
    <2>1. /\ pc' \in [Thread -> WaitPC \cup PostPC]
          /\ \A u \in Waiter : pc'[u] \in WaitPC
          /\ \A u \in Poster : pc'[u] \in PostPC
      BY <1>8, Places, WaitMove DEF Recycle
    <2>2. idx[w] \in Nodes
      BY <1>8 DEF Recycle, OwnInv, Owning
    <2>3. /\ state' \in [Nodes -> BatonState] /\ free' \in SUBSET Nodes
          /\ idx' \in [Thread -> Links]
      BY <1>8, <2>2, Threads DEF Recycle, TypeInv, BatonState, Links
    <2>. QED
      BY <1>8, <2>1, <2>2, <2>3, Threads DEF Recycle, TypeInv
  <1>9. ASSUME NEW w \in Waiter, HandoffWait(w)
        PROVE  TypeInv'
    <2>1. /\ pc' \in [Thread -> WaitPC \cup PostPC]
          /\ \A u \in Waiter : pc'[u] \in WaitPC
          /\ \A u \in Poster : pc'[u] \in PostPC
      BY <1>9, Places, WaitMove DEF HandoffWait
    <2>2. state' \in [Nodes -> BatonState]
      BY <1>9 DEF HandoffWait, TypeInv, BatonState
    <2>. QED
      BY <1>9, <2>1, <2>2, Threads DEF HandoffWait, TypeInv
  <1>10. ASSUME NEW w \in Waiter, FutexWait(w)
        PROVE  TypeInv'
    <2>1. /\ pc' \in [Thread -> WaitPC \cup PostPC]
          /\ \A u \in Waiter : pc'[u] \in WaitPC
          /\ \A u \in Poster : pc'[u] \in PostPC
      BY <1>10, Places, WaitMove DEF FutexWait
    <2>. QED
      BY <1>10, <2>1, Threads DEF FutexWait, TypeInv
  <1>11. ASSUME NEW w \in Waiter, Check(w)
        PROVE  TypeInv'
    <2>1. /\ pc' \in [Thread -> WaitPC \cup PostPC]
          /\ \A u \in Waiter : pc'[u] \in WaitPC
          /\ \A u \in Poster : pc'[u] \in PostPC
      BY <1>11, Places, WaitMove DEF Check
    <2>. QED
      BY <1>11, <2>1, Threads DEF Check, TypeInv
  <1>12. ASSUME NEW w \in Waiter, SpuriousWake(w)
        PROVE  TypeInv'
    <2>1. /\ pc' \in [Thread -> WaitPC \cup PostPC]
          /\ \A u \in Waiter : pc'[u] \in WaitPC
          /\ \A u \in Poster : pc'[u] \in PostPC
      BY <1>12, Places, WaitMove DEF SpuriousWake
    <2>. QED
      BY <1>12, <2>1, Threads DEF SpuriousWake, TypeInv
  <1>13. ASSUME NEW t \in Poster, Post(t)
        PROVE  TypeInv'
    <2>1. /\ pc' \in [Thread -> WaitPC \cup PostPC]
          /\ \A u \in Waiter : pc'[u] \in WaitPC
          /\ \A u \in Poster : pc'[u] \in PostPC
      BY <1>13, Places, PostMove DEF Post
    <2>. QED
      BY <1>13, <2>1, Threads DEF Post, TypeInv
  <1>14. ASSUME NEW t \in Poster, IncrOrPop(t)
        PROVE  TypeInv'
    <2>1. /\ pc' \in [Thread -> WaitPC \cup PostPC]
          /\ \A u \in Waiter : pc'[u] \in WaitPC
          /\ \A u \in Poster : pc'[u] \in PostPC
      BY <1>14, Places, PostMove DEF IncrOrPop
    <2>. QED
      BY <1>14, <2>1, Threads DEF IncrOrPop, TypeInv
  <1>15. ASSUME NEW t \in Poster, Incr(t)
        PROVE  TypeInv'
    <2>1. /\ pc' \in [Thread -> WaitPC \cup PostPC]
          /\ \A u \in Waiter : pc'[u] \in WaitPC
          /\ \A u \in Poster : pc'[u] \in PostPC
      BY <1>15, Places, PostMove DEF Incr
    <2>2. head' \in HeadWord /\ (head'.isNode => head'.bits \in Nodes)
      BY <1>15, Threads, HeadTypes DEF Incr, HeadInv, PosterLoaded, TypeInv
    <2>. QED
      BY <1>15, <2>1, <2>2, Threads DEF Incr, TypeInv
  <1>16. ASSUME NEW t \in Poster, ReadNext(t)
        PROVE  TypeInv'
    <2>1. /\ pc' \in [Thread -> WaitPC \cup PostPC]
          /\ \A u \in Waiter : pc'[u] \in WaitPC
          /\ \A u \in Poster : pc'[u] \in PostPC
      BY <1>16, Places, PostMove DEF ReadNext
    <2>2. h[t].bits \in Nodes
      BY <1>16 DEF ReadNext, HeadInv, PosterLoaded
    <2>3. under' \in [Thread -> Links]
      BY <1>16, <2>2, Threads DEF ReadNext, TypeInv
    <2>. QED
      BY <1>16, <2>1, <2>2, <2>3, Threads DEF ReadNext, TypeInv
  <1>17. ASSUME NEW t \in Poster, Pop(t)
        PROVE  TypeInv'
    <2>1. /\ pc' \in [Thread -> WaitPC \cup PostPC]
          /\ \A u \in Waiter : pc'[u] \in WaitPC
          /\ \A u \in Poster : pc'[u] \in PostPC
      BY <1>17, Places, PostMove DEF Pop
    <2>2. head' \in HeadWord /\ (head'.isNode => head'.bits \in Nodes)
      <3>1. h[t] \in HeadWord /\ under[t] \in Links
        BY Threads DEF TypeInv
      <3>2. LET x == withPop(h[t], under[t])
            IN  x \in HeadWord /\ (x.isNode => x.bits \in Nodes)
        BY <3>1, HeadTypes DEF withPop, Links
      <3>. QED
        BY <1>17, <3>2 DEF Pop, TypeInv
    <2>3. h[t].bits \in Nodes
      BY <1>17 DEF Pop, HeadInv, PosterLoaded
    <2>4. idx' \in [Thread -> Links] /\ under' \in [Thread -> Links]
      BY <1>17, <2>3, Threads DEF Pop, TypeInv, Links
    <2>. QED
      BY <1>17, <2>1, <2>2, <2>3, <2>4, Threads DEF Pop, TypeInv
  <1>18. ASSUME NEW t \in Poster, Deliver(t)
        PROVE  TypeInv'
    <2>1. /\ pc' \in [Thread -> WaitPC \cup PostPC]
          /\ \A u \in Waiter : pc'[u] \in WaitPC
          /\ \A u \in Poster : pc'[u] \in PostPC
      BY <1>18, Places, PostMove DEF Deliver
    <2>. QED
      BY <1>18, <2>1, Threads DEF Deliver, TypeInv
  <1>19. ASSUME NEW t \in Poster, Early(t)
        PROVE  TypeInv'
    <2>1. /\ pc' \in [Thread -> WaitPC \cup PostPC]
          /\ \A u \in Waiter : pc'[u] \in WaitPC
          /\ \A u \in Poster : pc'[u] \in PostPC
      BY <1>19, Places, PostMove DEF Early
    <2>2. state' \in [Nodes -> BatonState] /\ idx' \in [Thread -> Links]
      BY <1>19 DEF Early, TypeInv, BatonState, Links
    <2>. QED
      BY <1>19, <2>1, <2>2, Threads DEF Early, TypeInv
  <1>20. ASSUME NEW t \in Poster, Late(t)
        PROVE  TypeInv'
    <2>1. /\ pc' \in [Thread -> WaitPC \cup PostPC]
          /\ \A u \in Waiter : pc'[u] \in WaitPC
          /\ \A u \in Poster : pc'[u] \in PostPC
      BY <1>20, Places, PostMove DEF Late
    <2>2. state' \in [Nodes -> BatonState]
      BY <1>20 DEF Late, TypeInv, BatonState
    <2>. QED
      BY <1>20, <2>1, <2>2, Threads DEF Late, TypeInv
  <1>21. ASSUME NEW t \in Poster, FutexWake(t)
        PROVE  TypeInv'
    BY <1>21, WakeMove, Threads DEF FutexWake, TypeInv, Links
  <1>22. CASE UNCHANGED vars
    BY <1>22 DEF vars, TypeInv
  <1>. QED
    BY <1>1, <1>2, <1>3, <1>4, <1>5, <1>6, <1>7, <1>8, <1>9, <1>10, <1>11, <1>12, <1>13, <1>14, <1>15, <1>16, <1>17, <1>18, <1>19, <1>20, <1>21, <1>22
    DEF Next, WaitStep, PostStep, Done

(* A node has one owner: the pool or a waiter. *)
LEMMA OwnKept ==
  ASSUME TypeInv, OwnInv, [Next]_vars
  PROVE  OwnInv'
  <1>1. ASSUME NEW w \in Waiter, Wait(w)
        PROVE  OwnInv'
    BY <1>1, Threads, Places, WaitMove
    DEF Wait, TypeInv, OwnInv, Owning, Linking, InHandoff
  <1>2. ASSUME NEW w \in Waiter, TryWait(w)
        PROVE  OwnInv'
    BY <1>2, Threads, Places, WaitMove
    DEF TryWait, TypeInv, OwnInv, Owning, Linking, InHandoff
  <1>3. ASSUME NEW w \in Waiter, TryDecr(w)
        PROVE  OwnInv'
    BY <1>3, Threads, Places, WaitMove
    DEF TryDecr, TypeInv, OwnInv, Owning, Linking, InHandoff
  <1>4. ASSUME NEW w \in Waiter, Allocate(w)
        PROVE  OwnInv'
    BY <1>4, Threads, Places, WaitMove
    DEF Allocate, TypeInv, OwnInv, Owning, Linking, InHandoff
  <1>5. ASSUME NEW w \in Waiter, Push(w)
        PROVE  OwnInv'
    BY <1>5, Threads, Places, WaitMove
    DEF Push, TypeInv, OwnInv, Owning, Linking, InHandoff
  <1>6. ASSUME NEW w \in Waiter, Decr(w)
        PROVE  OwnInv'
    BY <1>6, Threads, Places, WaitMove
    DEF Decr, TypeInv, OwnInv, Owning, Linking, InHandoff
  <1>7. ASSUME NEW w \in Waiter, PushCas(w)
        PROVE  OwnInv'
    BY <1>7, Threads, Places, WaitMove
    DEF PushCas, TypeInv, OwnInv, Owning, Linking, InHandoff
  <1>8. ASSUME NEW w \in Waiter, Recycle(w)
        PROVE  OwnInv'
    BY <1>8, Threads, Places, WaitMove
    DEF Recycle, TypeInv, OwnInv, Owning, Linking, InHandoff
  <1>9. ASSUME NEW w \in Waiter, HandoffWait(w)
        PROVE  OwnInv'
    BY <1>9, Threads, Places, WaitMove
    DEF HandoffWait, TypeInv, OwnInv, Owning, Linking, InHandoff
  <1>10. ASSUME NEW w \in Waiter, FutexWait(w)
        PROVE  OwnInv'
    BY <1>10, Threads, Places, WaitMove
    DEF FutexWait, TypeInv, OwnInv, Owning, Linking, InHandoff
  <1>11. ASSUME NEW w \in Waiter, Check(w)
        PROVE  OwnInv'
    BY <1>11, Threads, Places, WaitMove
    DEF Check, TypeInv, OwnInv, Owning, Linking, InHandoff
  <1>12. ASSUME NEW w \in Waiter, SpuriousWake(w)
        PROVE  OwnInv'
    BY <1>12, Threads, Places, WaitMove
    DEF SpuriousWake, TypeInv, OwnInv, Owning, Linking, InHandoff
  <1>13. ASSUME NEW t \in Poster, Post(t)
        PROVE  OwnInv'
    BY <1>13, Threads, Places, PostMove
    DEF Post, TypeInv, OwnInv, Owning, Linking, InHandoff
  <1>14. ASSUME NEW t \in Poster, IncrOrPop(t)
        PROVE  OwnInv'
    BY <1>14, Threads, Places, PostMove
    DEF IncrOrPop, TypeInv, OwnInv, Owning, Linking, InHandoff
  <1>15. ASSUME NEW t \in Poster, Incr(t)
        PROVE  OwnInv'
    BY <1>15, Threads, Places, PostMove
    DEF Incr, TypeInv, OwnInv, Owning, Linking, InHandoff
  <1>16. ASSUME NEW t \in Poster, ReadNext(t)
        PROVE  OwnInv'
    BY <1>16, Threads, Places, PostMove
    DEF ReadNext, TypeInv, OwnInv, Owning, Linking, InHandoff
  <1>17. ASSUME NEW t \in Poster, Pop(t)
        PROVE  OwnInv'
    BY <1>17, Threads, Places, PostMove
    DEF Pop, TypeInv, OwnInv, Owning, Linking, InHandoff
  <1>18. ASSUME NEW t \in Poster, Deliver(t)
        PROVE  OwnInv'
    BY <1>18, Threads, Places, PostMove
    DEF Deliver, TypeInv, OwnInv, Owning, Linking, InHandoff
  <1>19. ASSUME NEW t \in Poster, Early(t)
        PROVE  OwnInv'
    BY <1>19, Threads, Places, PostMove
    DEF Early, TypeInv, OwnInv, Owning, Linking, InHandoff
  <1>20. ASSUME NEW t \in Poster, Late(t)
        PROVE  OwnInv'
    BY <1>20, Threads, Places, PostMove
    DEF Late, TypeInv, OwnInv, Owning, Linking, InHandoff
  <1>21. ASSUME NEW t \in Poster, FutexWake(t)
        PROVE  OwnInv'
    BY <1>21, Threads, Places, WakeMove
    DEF FutexWake, TypeInv, OwnInv, Owning, Linking, InHandoff
  <1>22. CASE UNCHANGED vars
    BY <1>22 DEF vars, OwnInv, Owning, Linking, InHandoff
  <1>. QED
    BY <1>1, <1>2, <1>3, <1>4, <1>5, <1>6, <1>7, <1>8, <1>9, <1>10, <1>11, <1>12, <1>13, <1>14, <1>15, <1>16, <1>17, <1>18, <1>19, <1>20, <1>21, <1>22
    DEF Next, WaitStep, PostStep, Done

(* A Baton is in a state that its waiter expects. *)
LEMMA BatonKept ==
  ASSUME TypeInv, OwnInv, BatonInv, PostInv, [Next]_vars
  PROVE  BatonInv'
  <1>1. ASSUME NEW w \in Waiter, Wait(w)
        PROVE  BatonInv'
    BY <1>1, Threads, Places, WaitMove
    DEF Wait, TypeInv, OwnInv, BatonInv, PostInv, Owning, Linking, InHandoff, Posting
  <1>2. ASSUME NEW w \in Waiter, TryWait(w)
        PROVE  BatonInv'
    BY <1>2, Threads, Places, WaitMove
    DEF TryWait, TypeInv, OwnInv, BatonInv, PostInv, Owning, Linking, InHandoff, Posting
  <1>3. ASSUME NEW w \in Waiter, TryDecr(w)
        PROVE  BatonInv'
    BY <1>3, Threads, Places, WaitMove
    DEF TryDecr, TypeInv, OwnInv, BatonInv, PostInv, Owning, Linking, InHandoff, Posting
  <1>4. ASSUME NEW w \in Waiter, Allocate(w)
        PROVE  BatonInv'
    BY <1>4, Threads, Places, WaitMove
    DEF Allocate, TypeInv, OwnInv, BatonInv, PostInv, Owning, Linking, InHandoff, Posting
  <1>5. ASSUME NEW w \in Waiter, Push(w)
        PROVE  BatonInv'
    BY <1>5, Threads, Places, WaitMove
    DEF Push, TypeInv, OwnInv, BatonInv, PostInv, Owning, Linking, InHandoff, Posting
  <1>6. ASSUME NEW w \in Waiter, Decr(w)
        PROVE  BatonInv'
    BY <1>6, Threads, Places, WaitMove
    DEF Decr, TypeInv, OwnInv, BatonInv, PostInv, Owning, Linking, InHandoff, Posting
  <1>7. ASSUME NEW w \in Waiter, PushCas(w)
        PROVE  BatonInv'
    BY <1>7, Threads, Places, WaitMove
    DEF PushCas, TypeInv, OwnInv, BatonInv, PostInv, Owning, Linking, InHandoff, Posting
  <1>8. ASSUME NEW w \in Waiter, Recycle(w)
        PROVE  BatonInv'
    BY <1>8, Threads, Places, WaitMove
    DEF Recycle, TypeInv, OwnInv, BatonInv, PostInv, Owning, Linking, InHandoff, Posting
  <1>9. ASSUME NEW w \in Waiter, HandoffWait(w)
        PROVE  BatonInv'
    <2>1. idx[w] \in Nodes /\ idx' = idx
      BY <1>9 DEF HandoffWait, OwnInv, Owning, InHandoff
    <2>2. \A v \in Waiter : v # w /\ pc[v] \in Owning => idx[v] # idx[w]
      BY <1>9 DEF HandoffWait, OwnInv, Owning, InHandoff
    <2>3. CASE state[idx[w]] = "EARLY_DELIVERY" /\ Goto(w, "recycle") /\ UNCHANGED state
      BY <1>9, <2>1, <2>2, <2>3, Threads, Places, WaitMove
      DEF TypeInv, OwnInv, BatonInv, PostInv, Owning, Linking, InHandoff, Posting
    <2>4. CASE /\ state[idx[w]] # "EARLY_DELIVERY"
               /\ state' = [state EXCEPT ![idx[w]] = "WAITING"]
               /\ Goto(w, "futexWait")
      <3>1. /\ state'[idx[w]] = "WAITING" /\ \A i \in Nodes : i # idx[w] => state'[i] = state[i]
            /\ pc'[w] = "futexWait" /\ \A u \in Thread : u # w => pc'[u] = pc[u]
            /\ state[idx[w]] = "INIT" /\ pc[w] = "handoff"
        <4>1. /\ state'[idx[w]] = "WAITING"
              /\ \A i \in Nodes : i # idx[w] => state'[i] = state[i]
          BY <2>1, <2>4 DEF TypeInv
        <4>2. pc'[w] = "futexWait" /\ \A u \in Thread : u # w => pc'[u] = pc[u]
          BY <2>4, Places, WaitMove
        <4>3. pc[w] = "handoff" /\ state[idx[w]] = "INIT"
          BY <1>9, <2>4 DEF BatonInv, HandoffWait
        <4>. QED
          BY <4>1, <4>2, <4>3
      <3>2. ASSUME NEW v \in Waiter, v # w
            PROVE  pc'[v] = pc[v] /\ (pc[v] \in Owning => state'[idx[v]] = state[idx[v]])
        BY <3>1, <3>2, <2>2, Threads DEF OwnInv
      <3>. QED
        BY <3>1, <3>2, <2>1 DEF BatonInv, Owning, Linking, InHandoff, Posting
    <2>. QED
      BY <1>9, <2>3, <2>4 DEF HandoffWait
  <1>10. ASSUME NEW w \in Waiter, FutexWait(w)
        PROVE  BatonInv'
    BY <1>10, Threads, Places, WaitMove
    DEF FutexWait, TypeInv, OwnInv, BatonInv, PostInv, Owning, Linking, InHandoff, Posting
  <1>11. ASSUME NEW w \in Waiter, Check(w)
        PROVE  BatonInv'
    BY <1>11, Threads, Places, WaitMove
    DEF Check, TypeInv, OwnInv, BatonInv, PostInv, Owning, Linking, InHandoff, Posting
  <1>12. ASSUME NEW w \in Waiter, SpuriousWake(w)
        PROVE  BatonInv'
    BY <1>12, Threads, Places, WaitMove
    DEF SpuriousWake, TypeInv, OwnInv, BatonInv, PostInv, Owning, Linking, InHandoff, Posting
  <1>13. ASSUME NEW t \in Poster, Post(t)
        PROVE  BatonInv'
    BY <1>13, Threads, Places, PostMove
    DEF Post, TypeInv, OwnInv, BatonInv, PostInv, Owning, Linking, InHandoff, Posting
  <1>14. ASSUME NEW t \in Poster, IncrOrPop(t)
        PROVE  BatonInv'
    BY <1>14, Threads, Places, PostMove
    DEF IncrOrPop, TypeInv, OwnInv, BatonInv, PostInv, Owning, Linking, InHandoff, Posting
  <1>15. ASSUME NEW t \in Poster, Incr(t)
        PROVE  BatonInv'
    BY <1>15, Threads, Places, PostMove
    DEF Incr, TypeInv, OwnInv, BatonInv, PostInv, Owning, Linking, InHandoff, Posting
  <1>16. ASSUME NEW t \in Poster, ReadNext(t)
        PROVE  BatonInv'
    BY <1>16, Threads, Places, PostMove
    DEF ReadNext, TypeInv, OwnInv, BatonInv, PostInv, Owning, Linking, InHandoff, Posting
  <1>17. ASSUME NEW t \in Poster, Pop(t)
        PROVE  BatonInv'
    BY <1>17, Threads, Places, PostMove
    DEF Pop, TypeInv, OwnInv, BatonInv, PostInv, Owning, Linking, InHandoff, Posting
  <1>18. ASSUME NEW t \in Poster, Deliver(t)
        PROVE  BatonInv'
    BY <1>18, Threads, Places, PostMove
    DEF Deliver, TypeInv, OwnInv, BatonInv, PostInv, Owning, Linking, InHandoff, Posting
  <1>19. ASSUME NEW t \in Poster, Early(t)
        PROVE  BatonInv'
    <2>1. idx[t] \in Nodes /\ pc[t] = "early" /\ state[idx[t]] \in {"INIT", "WAITING"}
      BY <1>19 DEF Early, PostInv, Posting
    <2>2. \A u \in Poster : u # t /\ pc[u] \in Posting => idx[u] # idx[t]
      BY <2>1, Threads DEF PostInv, Posting
    <2>3. CASE /\ state[idx[t]] = "INIT"
               /\ state' = [state EXCEPT ![idx[t]] = "EARLY_DELIVERY"]
               /\ idx' = [idx EXCEPT ![t] = 0]
               /\ Goto(t, "idle")
      <3>1. /\ state'[idx[t]] = "EARLY_DELIVERY"
            /\ \A i \in Nodes : i # idx[t] => state'[i] = state[i]
            /\ pc'[t] = "idle" /\ \A u \in Thread : u # t => pc'[u] = pc[u]
            /\ \A u \in Thread : u # t => idx'[u] = idx[u]
        BY <1>19, <2>1, <2>3, Threads, Places, PostMove DEF TypeInv
      <3>2. PICK w \in Waiter : pc[w] = "handoff" /\ idx[w] = idx[t]
        BY <2>1, <2>3 DEF PostInv, BatonInv, Posting, InHandoff
      <3>3. \A v \in Waiter : v # w /\ pc[v] \in Owning => idx[v] # idx[t]
        BY <3>2 DEF OwnInv, Owning, InHandoff
      <3>4. ASSUME NEW v \in Waiter, v # w
            PROVE  /\ pc'[v] = pc[v] /\ idx'[v] = idx[v]
                   /\ pc[v] \in Owning => state'[idx[v]] = state[idx[v]]
        BY <3>1, <3>3, <3>4, Threads DEF OwnInv
      <3>5. pc'[w] = "handoff" /\ idx'[w] = idx[w] /\ state'[idx[w]] = "EARLY_DELIVERY"
        BY <3>1, <3>2, Threads
      <3>. QED
        BY <3>4, <3>5 DEF BatonInv, Owning, Linking, InHandoff, Posting
    <2>4. CASE state[idx[t]] # "INIT" /\ Goto(t, "late") /\ UNCHANGED <<state, idx>>
      BY <1>19, <2>1, <2>4, Threads, Places, PostMove
      DEF TypeInv, OwnInv, BatonInv, PostInv, Owning, Linking, InHandoff, Posting
    <2>. QED
      BY <1>19, <2>3, <2>4 DEF Early
  <1>20. ASSUME NEW t \in Poster, Late(t)
        PROVE  BatonInv'
    BY <1>20, Threads, Places, PostMove
    DEF Late, TypeInv, OwnInv, BatonInv, PostInv, Owning, Linking, InHandoff, Posting
  <1>21. ASSUME NEW t \in Poster, FutexWake(t)
        PROVE  BatonInv'
    BY <1>21, Threads, Places, WakeMove
    DEF FutexWake, TypeInv, OwnInv, BatonInv, PostInv, Owning, Linking, InHandoff, Posting
  <1>22. CASE UNCHANGED vars
    BY <1>22 DEF vars, OwnInv, BatonInv, PostInv, Owning, Linking, InHandoff, Posting
  <1>. QED
    BY <1>1, <1>2, <1>3, <1>4, <1>5, <1>6, <1>7, <1>8, <1>9, <1>10, <1>11, <1>12, <1>13, <1>14, <1>15, <1>16, <1>17, <1>18, <1>19, <1>20, <1>21, <1>22
    DEF Next, WaitStep, PostStep, Done

(* A poster delivers to a waiter, and only one delivers to it. *)
LEMMA PostKept ==
  ASSUME TypeInv, OwnInv, BatonInv, PostInv, HeadInv, StackInv, [Next]_vars
  PROVE  PostInv'
  <1>1. ASSUME NEW w \in Waiter, Wait(w)
        PROVE  PostInv'
    BY <1>1, Threads, Places, WaitMove
    DEF Wait, TypeInv, OwnInv, BatonInv, PostInv, Owning, Linking, InHandoff, Posting
  <1>2. ASSUME NEW w \in Waiter, TryWait(w)
        PROVE  PostInv'
    BY <1>2, Threads, Places, WaitMove
    DEF TryWait, TypeInv, OwnInv, BatonInv, PostInv, Owning, Linking, InHandoff, Posting
  <1>3. ASSUME NEW w \in Waiter, TryDecr(w)
        PROVE  PostInv'
    BY <1>3, Threads, Places, WaitMove
    DEF TryDecr, TypeInv, OwnInv, BatonInv, PostInv, Owning, Linking, InHandoff, Posting
  <1>4. ASSUME NEW w \in Waiter, Allocate(w)
        PROVE  PostInv'
    BY <1>4, Threads, Places, WaitMove
    DEF Allocate, TypeInv, OwnInv, BatonInv, PostInv, Owning, Linking, InHandoff, Posting
  <1>5. ASSUME NEW w \in Waiter, Push(w)
        PROVE  PostInv'
    BY <1>5, Threads, Places, WaitMove
    DEF Push, TypeInv, OwnInv, BatonInv, PostInv, Owning, Linking, InHandoff, Posting
  <1>6. ASSUME NEW w \in Waiter, Decr(w)
        PROVE  PostInv'
    BY <1>6, Threads, Places, WaitMove
    DEF Decr, TypeInv, OwnInv, BatonInv, PostInv, Owning, Linking, InHandoff, Posting
  <1>7. ASSUME NEW w \in Waiter, PushCas(w)
        PROVE  PostInv'
    BY <1>7, Threads, Places, WaitMove
    DEF PushCas, TypeInv, OwnInv, BatonInv, PostInv, Owning, Linking, InHandoff, Posting
  <1>8. ASSUME NEW w \in Waiter, Recycle(w)
        PROVE  PostInv'
    BY <1>8, Threads, Places, WaitMove
    DEF Recycle, TypeInv, OwnInv, BatonInv, PostInv, Owning, Linking, InHandoff, Posting
  <1>9. ASSUME NEW w \in Waiter, HandoffWait(w)
        PROVE  PostInv'
    <2>1. idx[w] \in Nodes /\ idx' = idx
      BY <1>9 DEF HandoffWait, OwnInv, Owning, InHandoff
    <2>2. \A v \in Waiter : v # w /\ pc[v] \in Owning => idx[v] # idx[w]
      BY <1>9 DEF HandoffWait, OwnInv, Owning, InHandoff
    <2>3. CASE state[idx[w]] = "EARLY_DELIVERY" /\ Goto(w, "recycle") /\ UNCHANGED state
      BY <1>9, <2>1, <2>2, <2>3, Threads, Places, WaitMove
      DEF TypeInv, OwnInv, BatonInv, PostInv, Owning, Linking, InHandoff, Posting
    <2>4. CASE /\ state[idx[w]] # "EARLY_DELIVERY"
               /\ state' = [state EXCEPT ![idx[w]] = "WAITING"]
               /\ Goto(w, "futexWait")
      <3>1. /\ state'[idx[w]] = "WAITING" /\ \A i \in Nodes : i # idx[w] => state'[i] = state[i]
            /\ pc'[w] = "futexWait" /\ \A u \in Thread : u # w => pc'[u] = pc[u]
            /\ state[idx[w]] = "INIT" /\ pc[w] = "handoff"
        <4>1. /\ state'[idx[w]] = "WAITING"
              /\ \A i \in Nodes : i # idx[w] => state'[i] = state[i]
          BY <2>1, <2>4 DEF TypeInv
        <4>2. pc'[w] = "futexWait" /\ \A u \in Thread : u # w => pc'[u] = pc[u]
          BY <2>4, Places, WaitMove
        <4>3. pc[w] = "handoff" /\ state[idx[w]] = "INIT"
          BY <1>9, <2>4 DEF BatonInv, HandoffWait
        <4>. QED
          BY <4>1, <4>2, <4>3
      <3>2. \A u \in Poster : pc'[u] = pc[u] /\ idx'[u] = idx[u]
        BY <3>1, <2>1, Threads
      <3>3. \A u \in Poster : pc[u] \in Posting =>
              \/ state'[idx[u]] = state[idx[u]]
              \/ pc[u] # "late" /\ state'[idx[u]] = "WAITING"
        BY <3>1 DEF PostInv
      <3>4. \A v \in Waiter : pc[v] \in InHandoff => pc'[v] \in InHandoff /\ idx'[v] = idx[v]
        BY <3>1, <2>1, Threads DEF InHandoff
      <3>. QED
        BY <3>2, <3>3, <3>4 DEF PostInv, Posting
    <2>. QED
      BY <1>9, <2>3, <2>4 DEF HandoffWait
  <1>10. ASSUME NEW w \in Waiter, FutexWait(w)
        PROVE  PostInv'
    BY <1>10, Threads, Places, WaitMove
    DEF FutexWait, TypeInv, OwnInv, BatonInv, PostInv, Owning, Linking, InHandoff, Posting
  <1>11. ASSUME NEW w \in Waiter, Check(w)
        PROVE  PostInv'
    BY <1>11, Threads, Places, WaitMove
    DEF Check, TypeInv, OwnInv, BatonInv, PostInv, Owning, Linking, InHandoff, Posting
  <1>12. ASSUME NEW w \in Waiter, SpuriousWake(w)
        PROVE  PostInv'
    BY <1>12, Threads, Places, WaitMove
    DEF SpuriousWake, TypeInv, OwnInv, BatonInv, PostInv, Owning, Linking, InHandoff, Posting
  <1>13. ASSUME NEW t \in Poster, Post(t)
        PROVE  PostInv'
    BY <1>13, Threads, Places, PostMove
    DEF Post, TypeInv, OwnInv, BatonInv, PostInv, Owning, Linking, InHandoff, Posting
  <1>14. ASSUME NEW t \in Poster, IncrOrPop(t)
        PROVE  PostInv'
    BY <1>14, Threads, Places, PostMove
    DEF IncrOrPop, TypeInv, OwnInv, BatonInv, PostInv, Owning, Linking, InHandoff, Posting
  <1>15. ASSUME NEW t \in Poster, Incr(t)
        PROVE  PostInv'
    BY <1>15, Threads, Places, PostMove
    DEF Incr, TypeInv, OwnInv, BatonInv, PostInv, Owning, Linking, InHandoff, Posting
  <1>16. ASSUME NEW t \in Poster, ReadNext(t)
        PROVE  PostInv'
    BY <1>16, Threads, Places, PostMove
    DEF ReadNext, TypeInv, OwnInv, BatonInv, PostInv, Owning, Linking, InHandoff, Posting
  <1>17. ASSUME NEW t \in Poster, Pop(t)
        PROVE  PostInv'
    <2>1. CASE head = h[t] /\ Goto(t, "deliver")
      <3>1. PICK w \in Waiter : OnStack(w) /\ idx[w] = h[t].bits
        BY <1>17, <2>1 DEF Pop, HeadInv, PosterLoaded, Stacked, TypeInv, HeadWord
      <3>2. /\ pc[w] \in InHandoff /\ state[idx[w]] \in {"INIT", "WAITING"}
            /\ \A u \in Poster : pc[u] \in Posting => idx[u] # idx[w]
        BY <3>1 DEF OnStack, Handed
      <3>3. /\ pc'[t] = "deliver" /\ \A u \in Thread : u # t => pc'[u] = pc[u]
            /\ idx'[t] = idx[w] /\ \A u \in Thread : u # t => idx'[u] = idx[u]
            /\ state' = state /\ w # t /\ idx[w] \in Nodes
        BY <1>17, <2>1, <3>1, Threads, Places, PostMove DEF Pop, TypeInv, HeadInv, PosterLoaded
      <3>. QED
        BY <3>2, <3>3, Threads DEF PostInv, Posting
    <2>2. CASE head # h[t] /\ Goto(t, "incrOrPop")
      BY <1>17, <2>2, Threads, Places, PostMove
      DEF Pop, TypeInv, PostInv, Posting
    <2>. QED
      BY <1>17, <2>1, <2>2 DEF Pop
  <1>18. ASSUME NEW t \in Poster, Deliver(t)
        PROVE  PostInv'
    BY <1>18, Threads, Places, PostMove
    DEF Deliver, TypeInv, OwnInv, BatonInv, PostInv, Owning, Linking, InHandoff, Posting
  <1>19. ASSUME NEW t \in Poster, Early(t)
        PROVE  PostInv'
    <2>1. idx[t] \in Nodes /\ pc[t] = "early" /\ state[idx[t]] \in {"INIT", "WAITING"}
      BY <1>19 DEF Early, PostInv, Posting
    <2>2. \A u \in Poster : u # t /\ pc[u] \in Posting => idx[u] # idx[t]
      BY <2>1, Threads DEF PostInv, Posting
    <2>3. CASE /\ state[idx[t]] = "INIT"
               /\ state' = [state EXCEPT ![idx[t]] = "EARLY_DELIVERY"]
               /\ idx' = [idx EXCEPT ![t] = 0]
               /\ Goto(t, "idle")
      <3>1. /\ state'[idx[t]] = "EARLY_DELIVERY"
            /\ \A i \in Nodes : i # idx[t] => state'[i] = state[i]
            /\ pc'[t] = "idle" /\ \A u \in Thread : u # t => pc'[u] = pc[u]
            /\ \A u \in Thread : u # t => idx'[u] = idx[u]
        BY <1>19, <2>1, <2>3, Threads, Places, PostMove DEF TypeInv
      <3>2. PICK w \in Waiter : pc[w] = "handoff" /\ idx[w] = idx[t]
        BY <2>1, <2>3 DEF PostInv, BatonInv, Posting, InHandoff
      <3>3. \A v \in Waiter : v # w /\ pc[v] \in Owning => idx[v] # idx[t]
        BY <3>2 DEF OwnInv, Owning, InHandoff
      <3>4. ASSUME NEW u \in Poster, u # t
            PROVE  /\ pc'[u] = pc[u] /\ idx'[u] = idx[u]
                   /\ pc[u] \in Posting => state'[idx[u]] = state[idx[u]]
        BY <2>2, <3>1, <3>4, Threads DEF PostInv
      <3>5. \A v \in Waiter : pc'[v] = pc[v] /\ idx'[v] = idx[v]
        BY <3>1, Threads
      <3>6. pc'[t] \notin Posting \cup {"futexWake"}
        BY <3>1 DEF Posting
      <3>. QED
        BY <3>4, <3>5, <3>6 DEF PostInv
    <2>4. CASE state[idx[t]] # "INIT" /\ Goto(t, "late") /\ UNCHANGED <<state, idx>>
      BY <1>19, <2>1, <2>4, Threads, Places, PostMove
      DEF TypeInv, OwnInv, BatonInv, PostInv, Owning, Linking, InHandoff, Posting
    <2>. QED
      BY <1>19, <2>3, <2>4 DEF Early
  <1>20. ASSUME NEW t \in Poster, Late(t)
        PROVE  PostInv'
    BY <1>20, Threads, Places, PostMove
    DEF Late, TypeInv, OwnInv, BatonInv, PostInv, Owning, Linking, InHandoff, Posting
  <1>21. ASSUME NEW t \in Poster, FutexWake(t)
        PROVE  PostInv'
    BY <1>21, Threads, Places, WakeMove
    DEF FutexWake, TypeInv, OwnInv, BatonInv, PostInv, Owning, Linking, InHandoff, Posting
  <1>22. CASE UNCHANGED vars
    BY <1>22 DEF vars, OwnInv, BatonInv, PostInv, Owning, Linking, InHandoff, Posting
  <1>. QED
    BY <1>1, <1>2, <1>3, <1>4, <1>5, <1>6, <1>7, <1>8, <1>9, <1>10, <1>11, <1>12, <1>13, <1>14, <1>15, <1>16, <1>17, <1>18, <1>19, <1>20, <1>21, <1>22
    DEF Next, WaitStep, PostStep, Done

-----------------------------------------------------------------------------
(* What a step does to the stack: nothing, or it pushes i, or it pops the top *)

Untouched ==
  /\ Stacked' = Stacked /\ Top' = Top
  /\ head'.seq >= head.seq
  /\ \A i \in Stacked : next'[i] = next[i]

Pushed(i) ==
  /\ i \in Nodes \ Stacked /\ Stacked' = Stacked \cup {i}
  /\ next[i] = Top /\ next' = next
  /\ head'.isNode /\ head'.bits = i /\ head'.seq = head.seq

TopPopped ==
  /\ head.isNode /\ head.bits \in Stacked /\ Stacked' = Stacked \ {head.bits}
  /\ Top' = next[head.bits] /\ next' = next
  /\ head'.seq = head.seq + 1

(* The stack is as it was if every waiter is on it or not as it was. *)
LEMMA SameStacked ==
  ASSUME \A w \in Waiter : (OnStack(w)' <=> OnStack(w)) /\ (OnStack(w) => idx'[w] = idx[w])
  PROVE  Stacked' = Stacked
  BY DEF Stacked

(* A node on the stack has an owner, so it is not in the pool. *)
LEMMA StackedOwner ==
  ASSUME OwnInv, NEW w \in Waiter, OnStack(w)
  PROVE  idx[w] \in Stacked /\ idx[w] \in Nodes \ free /\ pc[w] \in Owning
  BY DEF OwnInv, OnStack, Stacked, Owning

(***************************************************************************)
(* A waiter that stays out of handoff leaves the stack alone, as long as   *)
(* it touches no Baton but its own.                                        *)
(***************************************************************************)
LEMMA WaiterElsewhere ==
  ASSUME OwnInv, NEW w \in Waiter, pc[w] \notin InHandoff, pc'[w] \notin InHandoff,
         \A u \in Thread : u # w => pc'[u] = pc[u] /\ idx'[u] = idx[u],
         \A v \in Waiter : v # w /\ pc[v] \in InHandoff => state'[idx[v]] = state[idx[v]]
  PROVE  Stacked' = Stacked
  <1>1. \A i : Handed(i)' <=> Handed(i)
    BY Threads DEF Handed
  <1>2. ASSUME NEW v \in Waiter
        PROVE  (OnStack(v)' <=> OnStack(v)) /\ (OnStack(v) => idx'[v] = idx[v])
    BY <1>1, Threads DEF OnStack
  <1>. QED
    BY <1>2, SameStacked

(* The same for a waiter that stays in handoff, or leaves it served. *)
LEMMA WaiterInHandoff ==
  ASSUME OwnInv, NEW w \in Waiter, pc[w] \in InHandoff,
         \A u \in Thread : u # w => pc'[u] = pc[u],
         idx' = idx,
         \A v \in Waiter : v # w /\ pc[v] \in InHandoff => state'[idx[v]] = state[idx[v]],
         \/ ~OnStack(w) /\ pc'[w] = "recycle"
         \/ /\ pc'[w] \in InHandoff
            /\ state'[idx[w]] \in {"INIT", "WAITING"} <=> state[idx[w]] \in {"INIT", "WAITING"}
  PROVE  Stacked' = Stacked
  <1>1. \A i : Handed(i)' <=> Handed(i)
    BY Threads DEF Handed
  <1>2. ASSUME NEW v \in Waiter
        PROVE  (OnStack(v)' <=> OnStack(v)) /\ (OnStack(v) => idx'[v] = idx[v])
    BY <1>1, <1>2, Threads DEF OnStack, InHandoff
  <1>. QED
    BY <1>2, SameStacked

(* A poster that is not delivering, or only gets on with it. *)
LEMMA PosterElsewhere ==
  ASSUME TypeInv, OwnInv, NEW t \in Poster, pc'[t] \in Posting <=> pc[t] \in Posting,
         \A u \in Thread : u # t => pc'[u] = pc[u] /\ idx'[u] = idx[u],
         idx'[t] = idx[t] \/ pc[t] \notin Posting,
         state' = state
  PROVE  Stacked' = Stacked
  <1>1. \A i : Handed(i)' <=> Handed(i)
    BY Threads DEF Handed
  <1>2. ASSUME NEW v \in Waiter
        PROVE  (OnStack(v)' <=> OnStack(v)) /\ (OnStack(v) => idx'[v] = idx[v])
    BY <1>1, Threads DEF OnStack
  <1>. QED
    BY <1>2, SameStacked

(* A poster that delivers: the node was popped before and is served after. *)
LEMMA PosterDelivers ==
  ASSUME TypeInv, OwnInv, PostInv, NEW t \in Poster,
         pc[t] \in Posting, pc'[t] \notin Posting,
         \A u \in Thread : u # t => pc'[u] = pc[u] /\ idx'[u] = idx[u],
         NEW x \in {"EARLY_DELIVERY", "LATE_DELIVERY"}, state' = [state EXCEPT ![idx[t]] = x]
  PROVE  Stacked' = Stacked
  <1>1. idx[t] \in Nodes /\ state'[idx[t]] = x
    BY DEF PostInv, TypeInv
  <1>2. \A i \in Nodes : i # idx[t] => (Handed(i)' <=> Handed(i)) /\ state'[i] = state[i]
    BY Threads DEF Handed, TypeInv
  <1>3. Handed(idx[t])
    BY DEF Handed
  <1>4. ASSUME NEW v \in Waiter
        PROVE  (OnStack(v)' <=> OnStack(v)) /\ (OnStack(v) => idx'[v] = idx[v])
    <2>1. pc'[v] = pc[v] /\ idx'[v] = idx[v]
      BY Threads
    <2>2. pc[v] \in InHandoff => idx[v] \in Nodes
      BY DEF OwnInv, Owning
    <2>3. CASE idx[v] = idx[t]
      BY <1>1, <1>3, <2>1, <2>3 DEF OnStack
    <2>4. CASE idx[v] # idx[t]
      BY <1>2, <2>1, <2>2, <2>4 DEF OnStack
    <2>. QED
      BY <2>3, <2>4
  <1>. QED
    BY <1>4, SameStacked

(* Every step leaves the stack alone, pushes the node of a waiter or pops. *)
LEMMA StackStep ==
  ASSUME TypeInv, OwnInv, BatonInv, PostInv, HeadInv, [Next]_vars
  PROVE  Untouched \/ TopPopped \/ \E w \in Waiter : Pushed(idx[w])
  <1>1. ASSUME NEW w \in Waiter, Wait(w)
        PROVE  Untouched
    <2>1. Stacked' = Stacked
      BY <1>1, Places, WaitMove, Threads, WaiterElsewhere
      DEF Wait, TypeInv, OwnInv, Owning, Linking, InHandoff, Posting
    <2>2. Top' = Top /\ head'.seq >= head.seq /\ next' = next
      BY <1>1 DEF Wait, TypeInv, HeadWord, Top
    <2>. QED
      BY <2>1, <2>2 DEF Untouched
  <1>2. ASSUME NEW w \in Waiter, TryWait(w)
        PROVE  Untouched
    <2>1. Stacked' = Stacked
      BY <1>2, Places, WaitMove, Threads, WaiterElsewhere
      DEF TryWait, TypeInv, OwnInv, Owning, Linking, InHandoff, Posting
    <2>2. Top' = Top /\ head'.seq >= head.seq /\ next' = next
      BY <1>2 DEF TryWait, TypeInv, HeadWord, Top
    <2>. QED
      BY <2>1, <2>2 DEF Untouched
  <1>3. ASSUME NEW w \in Waiter, TryDecr(w)
        PROVE  Untouched
    <2>1. Stacked' = Stacked
      BY <1>3, Places, WaitMove, Threads, WaiterElsewhere
      DEF TryDecr, TypeInv, OwnInv, Owning, Linking, InHandoff, Posting
    <2>2. Top' = Top /\ head'.seq >= head.seq /\ next' = next
      BY <1>3, Threads DEF TryDecr, TypeInv, HeadInv, WaiterLoaded, HeadWord, HasValue, withValueDecr, Top
    <2>. QED
      BY <2>1, <2>2 DEF Untouched
  <1>4. ASSUME NEW w \in Waiter, Allocate(w)
        PROVE  Untouched
    <2>1. Stacked' = Stacked
      BY <1>4, Places, WaitMove, Threads, WaiterElsewhere
      DEF Allocate, TypeInv, OwnInv, Owning, Linking, InHandoff, Posting
    <2>2. Top' = Top /\ head'.seq >= head.seq
      BY <1>4 DEF Allocate, TypeInv, HeadWord, Top
    <2>3. \A i \in Stacked : next'[i] = next[i]
      BY <1>4 DEF Allocate, TypeInv, OwnInv, OnStack, Stacked, Owning, Linking, InHandoff
    <2>. QED
      BY <2>1, <2>2, <2>3 DEF Untouched
  <1>5. ASSUME NEW w \in Waiter, Push(w)
        PROVE  Untouched
    <2>1. Stacked' = Stacked
      BY <1>5, Places, WaitMove, Threads, WaiterElsewhere
      DEF Push, TypeInv, OwnInv, Owning, Linking, InHandoff, Posting
    <2>2. Top' = Top /\ head'.seq >= head.seq
      BY <1>5 DEF Push, TypeInv, HeadWord, Top
    <2>3. \A i \in Stacked : next'[i] = next[i]
      BY <1>5 DEF Push, TypeInv, OwnInv, OnStack, Stacked, Owning, Linking, InHandoff
    <2>. QED
      BY <2>1, <2>2, <2>3 DEF Untouched
  <1>6. ASSUME NEW w \in Waiter, Decr(w)
        PROVE  Untouched
    <2>1. Stacked' = Stacked
      BY <1>6, Places, WaitMove, Threads, WaiterElsewhere
      DEF Decr, TypeInv, OwnInv, Owning, Linking, InHandoff, Posting
    <2>2. Top' = Top /\ head'.seq >= head.seq /\ next' = next
      BY <1>6, Threads DEF Decr, TypeInv, HeadInv, WaiterLoaded, HeadWord, HasValue, withValueDecr, Top
    <2>. QED
      BY <2>1, <2>2 DEF Untouched
  <1>7. ASSUME NEW w \in Waiter, PushCas(w)
        PROVE  Untouched \/ \E v \in Waiter : Pushed(idx[v])
    <2>1. idx[w] \in Nodes /\ next[idx[w]] = h[w].bits /\ ~HasValue(h[w]) /\ state[idx[w]] = "INIT"
      BY <1>7 DEF PushCas, OwnInv, Owning, Linking, HeadInv, WaiterLoaded, BatonInv
    <2>2. \A v \in Waiter : v # w /\ pc[v] \in Owning => idx[v] # idx[w]
      BY <1>7 DEF PushCas, OwnInv, Owning, Linking
    <2>3. \A u \in Thread : u # w => pc'[u] = pc[u]
      BY <1>7, Places, WaitMove DEF PushCas
    <2>4. CASE head = h[w] /\ head' = withPush(h[w], idx[w]) /\ Goto(w, "handoff")
      <3>1. /\ head'.isNode /\ head'.bits = idx[w] /\ head'.seq = head.seq
            /\ next[idx[w]] = Top /\ next' = next
        BY <1>7, <2>1, <2>4, HeadBits DEF PushCas, withPush
      <3>2. ~Handed(idx[w])
        <4>1. SUFFICES ASSUME NEW t \in Poster, pc[t] \in Posting, idx[t] = idx[w]
                       PROVE  FALSE
          BY DEF Handed
        <4>2. PICK v \in Waiter : pc[v] \in InHandoff /\ idx[v] = idx[w]
          BY <4>1 DEF PostInv
        <4>. QED
          BY <1>7, <4>2, <2>2 DEF PushCas, Owning, InHandoff
      <3>3. \A i : Handed(i)' <=> Handed(i)
        BY <1>7, <2>3, Threads DEF Handed, PushCas
      <3>4. OnStack(w)' /\ idx'[w] = idx[w] /\ ~OnStack(w)
        BY <1>7, <2>1, <2>4, <3>2, <3>3, Places, WaitMove DEF OnStack, PushCas, InHandoff
      <3>5. \A v \in Waiter : v # w => (OnStack(v)' <=> OnStack(v)) /\ idx'[v] = idx[v]
        BY <1>7, <2>3, <3>3, Threads DEF OnStack, PushCas
      <3>6. Stacked' = Stacked \cup {idx[w]}
        BY <2>1, <3>4, <3>5 DEF Stacked
      <3>7. idx[w] \notin Stacked
        BY <2>2, <3>4 DEF Stacked, OnStack, Owning
      <3>. QED
        BY <2>1, <3>1, <3>6, <3>7 DEF Pushed
    <2>5. CASE head # h[w] /\ UNCHANGED head /\ Goto(w, "push")
      <3>1. Stacked' = Stacked
        BY <1>7, <2>3, <2>5, Places, WaitMove, WaiterElsewhere DEF PushCas, InHandoff
      <3>. QED
        BY <1>7, <2>5, <3>1 DEF PushCas, Untouched, Top, TypeInv, HeadWord
    <2>. QED
      BY <1>7, <2>4, <2>5 DEF PushCas
  <1>8. ASSUME NEW w \in Waiter, Recycle(w)
        PROVE  Untouched
    <2>1. Stacked' = Stacked
      BY <1>8, Places, WaitMove, Threads, WaiterElsewhere
      DEF Recycle, TypeInv, OwnInv, Owning, Linking, InHandoff, Posting
    <2>2. Top' = Top /\ head'.seq >= head.seq /\ next' = next
      BY <1>8 DEF Recycle, TypeInv, HeadWord, Top
    <2>. QED
      BY <2>1, <2>2 DEF Untouched
  <1>9. ASSUME NEW w \in Waiter, HandoffWait(w)
        PROVE  Untouched
    <2>1. Stacked' = Stacked
      <3>1. /\ pc[w] \in InHandoff /\ idx' = idx /\ idx[w] \in Nodes
            /\ \A v \in Waiter : v # w /\ pc[v] \in InHandoff => idx[v] \in Nodes \ {idx[w]}
        BY <1>9 DEF HandoffWait, OwnInv, Owning, InHandoff
      <3>2. \A u \in Thread : u # w => pc'[u] = pc[u]
        BY <1>9, Places, WaitMove DEF HandoffWait
      <3>3. CASE state[idx[w]] = "EARLY_DELIVERY" /\ Goto(w, "recycle") /\ UNCHANGED state
        BY <3>1, <3>2, <3>3, Places, WaitMove, WaiterInHandoff DEF OnStack
      <3>4. CASE /\ state[idx[w]] # "EARLY_DELIVERY"
                 /\ state' = [state EXCEPT ![idx[w]] = "WAITING"]
                 /\ Goto(w, "futexWait")
        <4>1. state[idx[w]] = "INIT"
          BY <1>9, <3>4 DEF HandoffWait, BatonInv
        <4>2. /\ state'[idx[w]] = "WAITING"
              /\ \A v \in Waiter : v # w /\ pc[v] \in InHandoff => state'[idx[v]] = state[idx[v]]
          BY <3>1, <3>4 DEF TypeInv
        <4>3. pc'[w] \in InHandoff
          BY <3>4, Places, WaitMove DEF InHandoff
        <4>. QED
          BY <3>1, <3>2, <4>1, <4>2, <4>3, WaiterInHandoff
      <3>. QED
        BY <1>9, <3>3, <3>4 DEF HandoffWait
    <2>2. Top' = Top /\ head'.seq >= head.seq /\ next' = next
      BY <1>9 DEF HandoffWait, TypeInv, HeadWord, Top
    <2>. QED
      BY <2>1, <2>2 DEF Untouched
  <1>10. ASSUME NEW w \in Waiter, FutexWait(w)
        PROVE  Untouched
    <2>1. Stacked' = Stacked
      BY <1>10, Places, WaitMove, Threads, WaiterInHandoff
      DEF FutexWait, TypeInv, OwnInv, Owning, Linking, InHandoff, Posting
    <2>2. Top' = Top /\ head'.seq >= head.seq /\ next' = next
      BY <1>10 DEF FutexWait, TypeInv, HeadWord, Top
    <2>. QED
      BY <2>1, <2>2 DEF Untouched
  <1>11. ASSUME NEW w \in Waiter, Check(w)
        PROVE  Untouched
    <2>1. Stacked' = Stacked
      <3>1. /\ pc[w] \in InHandoff /\ idx' = idx /\ state' = state
            /\ \A u \in Thread : u # w => pc'[u] = pc[u]
        BY <1>11, Places, WaitMove DEF Check, InHandoff
      <3>2. IF state[idx[w]] = "LATE_DELIVERY" THEN pc'[w] = "recycle" ELSE pc'[w] \in InHandoff
        BY <1>11, Places, WaitMove DEF Check, InHandoff
      <3>. QED
        BY <3>1, <3>2, WaiterInHandoff DEF OnStack
    <2>2. Top' = Top /\ head'.seq >= head.seq /\ next' = next
      BY <1>11 DEF Check, TypeInv, HeadWord, Top
    <2>. QED
      BY <2>1, <2>2 DEF Untouched
  <1>12. ASSUME NEW w \in Waiter, SpuriousWake(w)
        PROVE  Untouched
    <2>1. Stacked' = Stacked
      BY <1>12, Places, WaitMove, Threads, WaiterInHandoff
      DEF SpuriousWake, TypeInv, OwnInv, Owning, Linking, InHandoff, Posting
    <2>2. Top' = Top /\ head'.seq >= head.seq /\ next' = next
      BY <1>12 DEF SpuriousWake, TypeInv, HeadWord, Top
    <2>. QED
      BY <2>1, <2>2 DEF Untouched
  <1>13. ASSUME NEW t \in Poster, Post(t)
        PROVE  Untouched
    <2>1. Stacked' = Stacked
      BY <1>13, Places, PostMove, Threads, PosterElsewhere
      DEF Post, TypeInv, Posting
    <2>2. Top' = Top /\ head'.seq >= head.seq /\ next' = next
      BY <1>13 DEF Post, TypeInv, HeadWord, Top
    <2>. QED
      BY <2>1, <2>2 DEF Untouched
  <1>14. ASSUME NEW t \in Poster, IncrOrPop(t)
        PROVE  Untouched
    <2>1. Stacked' = Stacked
      BY <1>14, Places, PostMove, Threads, PosterElsewhere
      DEF IncrOrPop, TypeInv, Posting
    <2>2. Top' = Top /\ head'.seq >= head.seq /\ next' = next
      BY <1>14 DEF IncrOrPop, TypeInv, HeadWord, Top
    <2>. QED
      BY <2>1, <2>2 DEF Untouched
  <1>15. ASSUME NEW t \in Poster, Incr(t)
        PROVE  Untouched
    <2>1. Stacked' = Stacked
      BY <1>15, Places, PostMove, Threads, PosterElsewhere
      DEF Incr, TypeInv, Posting
    <2>2. Top' = Top /\ head'.seq >= head.seq /\ next' = next
      BY <1>15, Threads DEF Incr, TypeInv, HeadInv, PosterLoaded, HeadWord, withValueIncr, Top
    <2>. QED
      BY <2>1, <2>2 DEF Untouched
  <1>16. ASSUME NEW t \in Poster, ReadNext(t)
        PROVE  Untouched
    <2>1. Stacked' = Stacked
      BY <1>16, Places, PostMove, Threads, PosterElsewhere
      DEF ReadNext, TypeInv, Posting
    <2>2. Top' = Top /\ head'.seq >= head.seq /\ next' = next
      BY <1>16 DEF ReadNext, TypeInv, HeadWord, Top
    <2>. QED
      BY <2>1, <2>2 DEF Untouched
  <1>17. ASSUME NEW t \in Poster, Pop(t)
        PROVE  Untouched \/ TopPopped
    <2>1. /\ \A u \in Thread : u # t => pc'[u] = pc[u] /\ idx'[u] = idx[u]
          /\ state' = state /\ next' = next
      BY <1>17, Places, PostMove DEF Pop, TypeInv
    <2>2. CASE head = h[t] /\ head' = withPop(h[t], under[t]) /\ Goto(t, "deliver")
      <3>1. /\ head.isNode /\ head.bits \in Stacked
            /\ under[t] = next[head.bits] /\ head.seq \in Nat
        BY <1>17, <2>2 DEF Pop, HeadInv, PosterLoaded, TypeInv, HeadWord
      <3>2. Top' = next[head.bits] /\ head'.seq = head.seq + 1
        BY <2>2, <3>1 DEF withPop, Top
      <3>3. pc'[t] = "deliver" /\ idx'[t] = head.bits /\ pc[t] = "pop"
        BY <1>17, <2>2, Threads, Places, PostMove DEF Pop, TypeInv
      <3>4. \A i \in Nodes : Handed(i)' <=> (Handed(i) \/ i = head.bits)
        BY <2>1, <3>3, Threads DEF Handed, Posting
      <3>5. \A v \in Waiter : OnStack(v)' <=> (OnStack(v) /\ idx[v] # head.bits)
        BY <2>1, <3>4, Threads DEF OnStack, OwnInv, Owning
      <3>6. \A v \in Waiter : idx'[v] = idx[v]
        BY <2>1, Threads
      <3>7. Stacked' = Stacked \ {head.bits}
        BY <3>5, <3>6 DEF Stacked
      <3>. QED
        BY <2>1, <3>1, <3>2, <3>7 DEF TopPopped
    <2>3. CASE head # h[t] /\ UNCHANGED head /\ Goto(t, "incrOrPop")
      <3>1. Stacked' = Stacked
        BY <1>17, <2>1, <2>3, Places, PostMove, PosterElsewhere DEF Pop, Posting
      <3>. QED
        BY <2>1, <2>3, <3>1 DEF Untouched, Top, TypeInv, HeadWord
    <2>. QED
      BY <1>17, <2>2, <2>3 DEF Pop
  <1>18. ASSUME NEW t \in Poster, Deliver(t)
        PROVE  Untouched
    <2>1. Stacked' = Stacked
      BY <1>18, Places, PostMove, Threads, PosterElsewhere
      DEF Deliver, TypeInv, Posting
    <2>2. Top' = Top /\ head'.seq >= head.seq /\ next' = next
      BY <1>18 DEF Deliver, TypeInv, HeadWord, Top
    <2>. QED
      BY <2>1, <2>2 DEF Untouched
  <1>19. ASSUME NEW t \in Poster, Early(t)
        PROVE  Untouched
    <2>1. Stacked' = Stacked
      <3>1. CASE /\ state' = [state EXCEPT ![idx[t]] = "EARLY_DELIVERY"]
                 /\ idx' = [idx EXCEPT ![t] = 0]
                 /\ Goto(t, "idle")
        <4>1. /\ \A u \in Thread : u # t => pc'[u] = pc[u] /\ idx'[u] = idx[u]
              /\ pc[t] \in Posting /\ pc'[t] \notin Posting
          BY <1>19, <3>1, Places, PostMove, Threads DEF Early, TypeInv, Posting
        <4>. QED
          BY <3>1, <4>1, PosterDelivers
      <3>2. CASE Goto(t, "late") /\ UNCHANGED <<state, idx>>
        <4>1. /\ \A u \in Thread : u # t => pc'[u] = pc[u] /\ idx'[u] = idx[u]
              /\ pc[t] \in Posting /\ pc'[t] \in Posting
          BY <1>19, <3>2, Places, PostMove, Threads DEF Early, Posting
        <4>. QED
          BY <3>2, <4>1, PosterElsewhere
      <3>. QED
        BY <1>19, <3>1, <3>2 DEF Early
    <2>2. Top' = Top /\ head'.seq >= head.seq /\ next' = next
      BY <1>19 DEF Early, TypeInv, HeadWord, Top
    <2>. QED
      BY <2>1, <2>2 DEF Untouched
  <1>20. ASSUME NEW t \in Poster, Late(t)
        PROVE  Untouched
    <2>1. Stacked' = Stacked
      BY <1>20, Places, PostMove, Threads, PosterElsewhere, PosterDelivers
      DEF Late, TypeInv, Posting
    <2>2. Top' = Top /\ head'.seq >= head.seq /\ next' = next
      BY <1>20 DEF Late, TypeInv, HeadWord, Top
    <2>. QED
      BY <2>1, <2>2 DEF Untouched
  <1>21. ASSUME NEW t \in Poster, FutexWake(t)
        PROVE  Untouched
    <2>1. /\ \A w \in Waiter : pc'[w] = pc[w] \/ (pc[w] = "asleep" /\ pc'[w] = "check")
          /\ \A u \in Poster : u # t => pc'[u] = pc[u] /\ idx'[u] = idx[u]
          /\ pc[t] \notin Posting /\ pc'[t] \notin Posting
          /\ \A w \in Waiter : idx'[w] = idx[w]
          /\ state' = state
      <3>1. PICK S \in SUBSET Waiter :
              /\ \A w \in S : pc[w] = "asleep" /\ pc'[w] = "check"
              /\ pc'[t] = "idle"
              /\ \A u \in Thread : u # t /\ u \notin S => pc'[u] = pc[u]
        BY <1>21, WakeMove
      <3>2. \A u \in Thread : u # t => idx'[u] = idx[u]
        BY <1>21 DEF FutexWake, TypeInv
      <3>. QED
        <4>1. \A w \in Waiter : w # t /\ w \in Thread
          BY Threads
        <4>2. \A w \in Waiter : pc'[w] = pc[w] \/ (pc[w] = "asleep" /\ pc'[w] = "check")
          BY <3>1, Threads
        <4>3. \A u \in Poster : u \in Thread /\ u \notin S
          BY Threads
        <4>. QED
          BY <1>21, <3>1, <3>2, <4>1, <4>2, <4>3 DEF FutexWake, Posting
    <2>2. \A i : Handed(i)' <=> Handed(i)
      BY <2>1 DEF Handed
    <2>3. \A v \in Waiter : (OnStack(v)' <=> OnStack(v)) /\ idx'[v] = idx[v]
      BY <2>1, <2>2 DEF OnStack, InHandoff
    <2>4. Stacked' = Stacked
      BY <2>3, SameStacked
    <2>. QED
      BY <1>21, <2>4 DEF FutexWake, Untouched, Top, TypeInv, HeadWord
  <1>22. CASE UNCHANGED vars
    <2>1. Stacked' = Stacked /\ Top' = Top
      BY <1>22 DEF vars, Stacked, OnStack, Handed, Top
    <2>. QED
      BY <1>22, <2>1 DEF vars, Untouched, TypeInv, HeadWord
  <1>. QED
    BY <1>1, <1>2, <1>3, <1>4, <1>5, <1>6, <1>7, <1>8, <1>9, <1>10, <1>11, <1>12, <1>13, <1>14, <1>15, <1>16, <1>17, <1>18, <1>19, <1>20, <1>21, <1>22
    DEF Next, WaitStep, PostStep, Done

(* If head_ has a node, the node is on the stack. *)
LEMMA TopStacked ==
  ASSUME TypeInv, StackInv, head.isNode
  PROVE  head.bits \in Stacked
  <1>1. PICK n \in 0 .. Cardinality(Nodes) : \E f \in [0 .. n -> Links] : Lists(f, n)
    BY DEF StackInv
  <1>2. PICK f \in [0 .. n -> Links] : Lists(f, n)
    BY <1>1
  <1>3. f[0] = head.bits /\ head.bits # 0 /\ f[n] = 0
    BY <1>2, Threads DEF Lists, Top, TypeInv
  <1>4. n \in Nat /\ 0 \in 0 .. n - 1
    BY <1>3
  <1>. QED
    BY <1>2, <1>3, <1>4 DEF Lists

(* The stack changes only with head_. *)
LEMMA HeadSame ==
  ASSUME TypeInv, StackInv, head' = head,
         Untouched \/ TopPopped \/ \E w \in Waiter : Pushed(idx[w])
  PROVE  Stacked' = Stacked
  <1>1. head.seq \in Nat
    BY DEF TypeInv, HeadWord
  <1>2. ~TopPopped
    BY <1>1 DEF TopPopped
  <1>3. ~\E w \in Waiter : Pushed(idx[w])
    BY TopStacked DEF Pushed
  <1>. QED
    BY <1>2, <1>3 DEF Untouched

(* What a waiter that does not move has loaded remains true. *)
LEMMA WaiterKeeps ==
  ASSUME NEW w \in Waiter, WaiterLoaded(w),
         pc'[w] \in {"tryDecr", "decr", "pushCas"} =>
           pc'[w] = pc[w] /\ h'[w] = h[w] /\ idx'[w] = idx[w],
         pc[w] = "pushCas" => next'[idx[w]] = next[idx[w]]
  PROVE  WaiterLoaded(w)'
  BY DEF WaiterLoaded

(***************************************************************************)
(* What a poster that does not move has loaded remains true: a head with   *)
(* the present sequence number still names a node of the stack.            *)
(***************************************************************************)
LEMMA PosterKeeps ==
  ASSUME TypeInv, TypeInv', Untouched \/ TopPopped \/ \E w \in Waiter : Pushed(idx[w]),
         NEW t \in Poster, PosterLoaded(t),
         pc'[t] \in {"incr", "readNext", "pop"} =>
           pc'[t] = pc[t] /\ h'[t] = h[t] /\ under'[t] = under[t]
  PROVE  PosterLoaded(t)'
  <1>1. SUFFICES ASSUME pc'[t] \in {"readNext", "pop"}
                 PROVE  /\ h[t].seq <= head'.seq
                        /\ h[t].seq = head'.seq =>
                             /\ h[t].bits \in Stacked'
                             /\ pc[t] = "pop" => under[t] = next'[h[t].bits]
    BY DEF PosterLoaded
  <1>2. /\ h[t].seq <= head.seq
        /\ h[t].seq = head.seq =>
             /\ h[t].bits \in Stacked
             /\ pc[t] = "pop" => under[t] = next[h[t].bits]
    BY <1>1 DEF PosterLoaded
  <1>3. h[t].seq \in Nat /\ head.seq \in Nat /\ head'.seq \in Nat
    BY Threads DEF TypeInv, HeadWord
  <1>4. CASE Untouched
    BY <1>2, <1>3, <1>4 DEF Untouched
  <1>5. CASE TopPopped
    BY <1>2, <1>3, <1>5 DEF TopPopped
  <1>6. CASE \E w \in Waiter : Pushed(idx[w])
    BY <1>2, <1>3, <1>6 DEF Pushed
  <1>. QED
    BY <1>4, <1>5, <1>6

(* A loaded head says what it is taken for. *)
LEMMA HeadKept ==
  ASSUME TypeInv, OwnInv, BatonInv, PostInv, HeadInv, StackInv, [Next]_vars
  PROVE  HeadInv'
  <1>0. TypeInv' /\ (Untouched \/ TopPopped \/ \E w \in Waiter : Pushed(idx[w]))
    BY TypeKept, StackStep
  <1>1. ASSUME NEW w \in Waiter, Wait(w)
        PROVE  HeadInv'
    <2>1. \A t \in Poster : pc'[t] = pc[t] /\ h'[t] = h[t] /\ under'[t] = under[t]
      BY <1>1, Places, WaitMove, Threads DEF Wait, TypeInv
    <2>2. \A t \in Poster : PosterLoaded(t)'
      BY <1>0, <2>1, PosterKeeps DEF HeadInv
    <2>3. ASSUME NEW v \in Waiter, v # w
          PROVE  WaiterLoaded(v)'
      <3>1. pc'[v] = pc[v] /\ h'[v] = h[v] /\ idx'[v] = idx[v]
        BY <1>1, <2>3, Places, WaitMove, Threads DEF Wait, TypeInv
      <3>2. pc[v] = "pushCas" => next'[idx[v]] = next[idx[v]]
        BY <1>1, <2>3 DEF Wait
      <3>. QED
        BY <3>1, <3>2, WaiterKeeps DEF HeadInv
    <2>4. WaiterLoaded(w)'
      BY <1>1, Places, WaitMove DEF Wait, WaiterLoaded
    <2>. QED
      BY <2>2, <2>3, <2>4 DEF HeadInv
  <1>2. ASSUME NEW w \in Waiter, TryWait(w)
        PROVE  HeadInv'
    <2>1. \A t \in Poster : pc'[t] = pc[t] /\ h'[t] = h[t] /\ under'[t] = under[t]
      BY <1>2, Places, WaitMove, Threads DEF TryWait, TypeInv
    <2>2. \A t \in Poster : PosterLoaded(t)'
      BY <1>0, <2>1, PosterKeeps DEF HeadInv
    <2>3. ASSUME NEW v \in Waiter, v # w
          PROVE  WaiterLoaded(v)'
      <3>1. pc'[v] = pc[v] /\ h'[v] = h[v] /\ idx'[v] = idx[v]
        BY <1>2, <2>3, Places, WaitMove, Threads DEF TryWait, TypeInv
      <3>2. pc[v] = "pushCas" => next'[idx[v]] = next[idx[v]]
        BY <1>2, <2>3 DEF TryWait
      <3>. QED
        BY <3>1, <3>2, WaiterKeeps DEF HeadInv
    <2>4. WaiterLoaded(w)'
      BY <1>2, Places, WaitMove, Threads DEF TryWait, WaiterLoaded, TypeInv
    <2>. QED
      BY <2>2, <2>3, <2>4 DEF HeadInv
  <1>3. ASSUME NEW w \in Waiter, TryDecr(w)
        PROVE  HeadInv'
    <2>1. \A t \in Poster : pc'[t] = pc[t] /\ h'[t] = h[t] /\ under'[t] = under[t]
      BY <1>3, Places, WaitMove, Threads DEF TryDecr, TypeInv
    <2>2. \A t \in Poster : PosterLoaded(t)'
      BY <1>0, <2>1, PosterKeeps DEF HeadInv
    <2>3. ASSUME NEW v \in Waiter, v # w
          PROVE  WaiterLoaded(v)'
      <3>1. pc'[v] = pc[v] /\ h'[v] = h[v] /\ idx'[v] = idx[v]
        BY <1>3, <2>3, Places, WaitMove, Threads DEF TryDecr, TypeInv
      <3>2. pc[v] = "pushCas" => next'[idx[v]] = next[idx[v]]
        BY <1>3, <2>3 DEF TryDecr
      <3>. QED
        BY <3>1, <3>2, WaiterKeeps DEF HeadInv
    <2>4. WaiterLoaded(w)'
      BY <1>3, Places, WaitMove DEF TryDecr, WaiterLoaded
    <2>. QED
      BY <2>2, <2>3, <2>4 DEF HeadInv
  <1>4. ASSUME NEW w \in Waiter, Allocate(w)
        PROVE  HeadInv'
    <2>1. \A t \in Poster : pc'[t] = pc[t] /\ h'[t] = h[t] /\ under'[t] = under[t]
      BY <1>4, Places, WaitMove, Threads DEF Allocate, TypeInv
    <2>2. \A t \in Poster : PosterLoaded(t)'
      BY <1>0, <2>1, PosterKeeps DEF HeadInv
    <2>3. ASSUME NEW v \in Waiter, v # w
          PROVE  WaiterLoaded(v)'
      <3>1. pc'[v] = pc[v] /\ h'[v] = h[v] /\ idx'[v] = idx[v]
        BY <1>4, <2>3, Places, WaitMove, Threads DEF Allocate, TypeInv
      <3>2. pc[v] = "pushCas" => next'[idx[v]] = next[idx[v]]
        BY <1>4, <2>3 DEF Allocate, TypeInv, OwnInv, Owning, Linking
      <3>. QED
        BY <3>1, <3>2, WaiterKeeps DEF HeadInv
    <2>4. WaiterLoaded(w)'
      BY <1>4, Places, WaitMove DEF Allocate, WaiterLoaded
    <2>. QED
      BY <2>2, <2>3, <2>4 DEF HeadInv
  <1>5. ASSUME NEW w \in Waiter, Push(w)
        PROVE  HeadInv'
    <2>1. \A t \in Poster : pc'[t] = pc[t] /\ h'[t] = h[t] /\ under'[t] = under[t]
      BY <1>5, Places, WaitMove, Threads DEF Push, TypeInv
    <2>2. \A t \in Poster : PosterLoaded(t)'
      BY <1>0, <2>1, PosterKeeps DEF HeadInv
    <2>3. ASSUME NEW v \in Waiter, v # w
          PROVE  WaiterLoaded(v)'
      <3>1. pc'[v] = pc[v] /\ h'[v] = h[v] /\ idx'[v] = idx[v]
        BY <1>5, <2>3, Places, WaitMove, Threads DEF Push, TypeInv
      <3>2. pc[v] = "pushCas" => next'[idx[v]] = next[idx[v]]
        BY <1>5, <2>3 DEF Push, TypeInv, OwnInv, Owning, Linking
      <3>. QED
        BY <3>1, <3>2, WaiterKeeps DEF HeadInv
    <2>4. WaiterLoaded(w)'
      <3>1. idx[w] \in Nodes /\ idx' = idx /\ h'[w] = head
        BY <1>5, Threads DEF Push, OwnInv, Owning, Linking, TypeInv
      <3>2. CASE HasValue(head) /\ Goto(w, "decr")
        BY <3>1, <3>2, Places, WaitMove DEF WaiterLoaded
      <3>3. CASE /\ ~HasValue(head)
                 /\ next' = [next EXCEPT ![idx[w]] = head.bits]
                 /\ Goto(w, "pushCas")
        BY <3>1, <3>3, Places, WaitMove DEF WaiterLoaded, TypeInv
      <3>. QED
        BY <1>5, <3>2, <3>3 DEF Push
    <2>. QED
      BY <2>2, <2>3, <2>4 DEF HeadInv
  <1>6. ASSUME NEW w \in Waiter, Decr(w)
        PROVE  HeadInv'
    <2>1. \A t \in Poster : pc'[t] = pc[t] /\ h'[t] = h[t] /\ under'[t] = under[t]
      BY <1>6, Places, WaitMove, Threads DEF Decr, TypeInv
    <2>2. \A t \in Poster : PosterLoaded(t)'
      BY <1>0, <2>1, PosterKeeps DEF HeadInv
    <2>3. ASSUME NEW v \in Waiter, v # w
          PROVE  WaiterLoaded(v)'
      <3>1. pc'[v] = pc[v] /\ h'[v] = h[v] /\ idx'[v] = idx[v]
        BY <1>6, <2>3, Places, WaitMove, Threads DEF Decr, TypeInv
      <3>2. pc[v] = "pushCas" => next'[idx[v]] = next[idx[v]]
        BY <1>6, <2>3 DEF Decr
      <3>. QED
        BY <3>1, <3>2, WaiterKeeps DEF HeadInv
    <2>4. WaiterLoaded(w)'
      BY <1>6, Places, WaitMove DEF Decr, WaiterLoaded
    <2>. QED
      BY <2>2, <2>3, <2>4 DEF HeadInv
  <1>7. ASSUME NEW w \in Waiter, PushCas(w)
        PROVE  HeadInv'
    <2>1. \A t \in Poster : pc'[t] = pc[t] /\ h'[t] = h[t] /\ under'[t] = under[t]
      BY <1>7, Places, WaitMove, Threads DEF PushCas, TypeInv
    <2>2. \A t \in Poster : PosterLoaded(t)'
      BY <1>0, <2>1, PosterKeeps DEF HeadInv
    <2>3. ASSUME NEW v \in Waiter, v # w
          PROVE  WaiterLoaded(v)'
      <3>1. pc'[v] = pc[v] /\ h'[v] = h[v] /\ idx'[v] = idx[v]
        BY <1>7, <2>3, Places, WaitMove, Threads DEF PushCas, TypeInv
      <3>2. pc[v] = "pushCas" => next'[idx[v]] = next[idx[v]]
        BY <1>7, <2>3 DEF PushCas
      <3>. QED
        BY <3>1, <3>2, WaiterKeeps DEF HeadInv
    <2>4. WaiterLoaded(w)'
      BY <1>7, Places, WaitMove DEF PushCas, WaiterLoaded
    <2>. QED
      BY <2>2, <2>3, <2>4 DEF HeadInv
  <1>8. ASSUME NEW w \in Waiter, Recycle(w)
        PROVE  HeadInv'
    <2>1. \A t \in Poster : pc'[t] = pc[t] /\ h'[t] = h[t] /\ under'[t] = under[t]
      BY <1>8, Places, WaitMove, Threads DEF Recycle, TypeInv
    <2>2. \A t \in Poster : PosterLoaded(t)'
      BY <1>0, <2>1, PosterKeeps DEF HeadInv
    <2>3. ASSUME NEW v \in Waiter, v # w
          PROVE  WaiterLoaded(v)'
      <3>1. pc'[v] = pc[v] /\ h'[v] = h[v] /\ idx'[v] = idx[v]
        BY <1>8, <2>3, Places, WaitMove, Threads DEF Recycle, TypeInv
      <3>2. pc[v] = "pushCas" => next'[idx[v]] = next[idx[v]]
        BY <1>8, <2>3 DEF Recycle
      <3>. QED
        BY <3>1, <3>2, WaiterKeeps DEF HeadInv
    <2>4. WaiterLoaded(w)'
      BY <1>8, Places, WaitMove DEF Recycle, WaiterLoaded
    <2>. QED
      BY <2>2, <2>3, <2>4 DEF HeadInv
  <1>9. ASSUME NEW w \in Waiter, HandoffWait(w)
        PROVE  HeadInv'
    <2>1. \A t \in Poster : pc'[t] = pc[t] /\ h'[t] = h[t] /\ under'[t] = under[t]
      BY <1>9, Places, WaitMove, Threads DEF HandoffWait, TypeInv
    <2>2. \A t \in Poster : PosterLoaded(t)'
      BY <1>0, <2>1, PosterKeeps DEF HeadInv
    <2>3. ASSUME NEW v \in Waiter, v # w
          PROVE  WaiterLoaded(v)'
      <3>1. pc'[v] = pc[v] /\ h'[v] = h[v] /\ idx'[v] = idx[v]
        BY <1>9, <2>3, Places, WaitMove, Threads DEF HandoffWait, TypeInv
      <3>2. pc[v] = "pushCas" => next'[idx[v]] = next[idx[v]]
        BY <1>9, <2>3 DEF HandoffWait
      <3>. QED
        BY <3>1, <3>2, WaiterKeeps DEF HeadInv
    <2>4. WaiterLoaded(w)'
      BY <1>9, Places, WaitMove DEF HandoffWait, WaiterLoaded
    <2>. QED
      BY <2>2, <2>3, <2>4 DEF HeadInv
  <1>10. ASSUME NEW w \in Waiter, FutexWait(w)
        PROVE  HeadInv'
    <2>1. \A t \in Poster : pc'[t] = pc[t] /\ h'[t] = h[t] /\ under'[t] = under[t]
      BY <1>10, Places, WaitMove, Threads DEF FutexWait, TypeInv
    <2>2. \A t \in Poster : PosterLoaded(t)'
      BY <1>0, <2>1, PosterKeeps DEF HeadInv
    <2>3. ASSUME NEW v \in Waiter, v # w
          PROVE  WaiterLoaded(v)'
      <3>1. pc'[v] = pc[v] /\ h'[v] = h[v] /\ idx'[v] = idx[v]
        BY <1>10, <2>3, Places, WaitMove, Threads DEF FutexWait, TypeInv
      <3>2. pc[v] = "pushCas" => next'[idx[v]] = next[idx[v]]
        BY <1>10, <2>3 DEF FutexWait
      <3>. QED
        BY <3>1, <3>2, WaiterKeeps DEF HeadInv
    <2>4. WaiterLoaded(w)'
      BY <1>10, Places, WaitMove DEF FutexWait, WaiterLoaded
    <2>. QED
      BY <2>2, <2>3, <2>4 DEF HeadInv
  <1>11. ASSUME NEW w \in Waiter, Check(w)
        PROVE  HeadInv'
    <2>1. \A t \in Poster : pc'[t] = pc[t] /\ h'[t] = h[t] /\ under'[t] = under[t]
      BY <1>11, Places, WaitMove, Threads DEF Check, TypeInv
    <2>2. \A t \in Poster : PosterLoaded(t)'
      BY <1>0, <2>1, PosterKeeps DEF HeadInv
    <2>3. ASSUME NEW v \in Waiter, v # w
          PROVE  WaiterLoaded(v)'
      <3>1. pc'[v] = pc[v] /\ h'[v] = h[v] /\ idx'[v] = idx[v]
        BY <1>11, <2>3, Places, WaitMove, Threads DEF Check, TypeInv
      <3>2. pc[v] = "pushCas" => next'[idx[v]] = next[idx[v]]
        BY <1>11, <2>3 DEF Check
      <3>. QED
        BY <3>1, <3>2, WaiterKeeps DEF HeadInv
    <2>4. WaiterLoaded(w)'
      BY <1>11, Places, WaitMove DEF Check, WaiterLoaded
    <2>. QED
      BY <2>2, <2>3, <2>4 DEF HeadInv
  <1>12. ASSUME NEW w \in Waiter, SpuriousWake(w)
        PROVE  HeadInv'
    <2>1. \A t \in Poster : pc'[t] = pc[t] /\ h'[t] = h[t] /\ under'[t] = under[t]
      BY <1>12, Places, WaitMove, Threads DEF SpuriousWake, TypeInv
    <2>2. \A t \in Poster : PosterLoaded(t)'
      BY <1>0, <2>1, PosterKeeps DEF HeadInv
    <2>3. ASSUME NEW v \in Waiter, v # w
          PROVE  WaiterLoaded(v)'
      <3>1. pc'[v] = pc[v] /\ h'[v] = h[v] /\ idx'[v] = idx[v]
        BY <1>12, <2>3, Places, WaitMove, Threads DEF SpuriousWake, TypeInv
      <3>2. pc[v] = "pushCas" => next'[idx[v]] = next[idx[v]]
        BY <1>12, <2>3 DEF SpuriousWake
      <3>. QED
        BY <3>1, <3>2, WaiterKeeps DEF HeadInv
    <2>4. WaiterLoaded(w)'
      BY <1>12, Places, WaitMove DEF SpuriousWake, WaiterLoaded
    <2>. QED
      BY <2>2, <2>3, <2>4 DEF HeadInv
  <1>13. ASSUME NEW t \in Poster, Post(t)
        PROVE  HeadInv'
    <2>1. \A w \in Waiter : pc'[w] = pc[w] /\ h'[w] = h[w] /\ idx'[w] = idx[w] /\ next' = next
      BY <1>13, Places, PostMove, Threads DEF Post, TypeInv
    <2>2. \A w \in Waiter : WaiterLoaded(w)'
      BY <2>1, WaiterKeeps DEF HeadInv
    <2>3. ASSUME NEW u \in Poster, u # t
          PROVE  PosterLoaded(u)'
      <3>1. pc'[u] = pc[u] /\ h'[u] = h[u] /\ under'[u] = under[u]
        BY <1>13, <2>3, Places, PostMove, Threads DEF Post, TypeInv
      <3>. QED
        BY <1>0, <3>1, PosterKeeps DEF HeadInv
    <2>4. PosterLoaded(t)'
      BY <1>13, Places, PostMove DEF Post, PosterLoaded
    <2>. QED
      BY <2>2, <2>3, <2>4 DEF HeadInv
  <1>14. ASSUME NEW t \in Poster, IncrOrPop(t)
        PROVE  HeadInv'
    <2>1. \A w \in Waiter : pc'[w] = pc[w] /\ h'[w] = h[w] /\ idx'[w] = idx[w] /\ next' = next
      BY <1>14, Places, PostMove, Threads DEF IncrOrPop, TypeInv
    <2>2. \A w \in Waiter : WaiterLoaded(w)'
      BY <2>1, WaiterKeeps DEF HeadInv
    <2>3. ASSUME NEW u \in Poster, u # t
          PROVE  PosterLoaded(u)'
      <3>1. pc'[u] = pc[u] /\ h'[u] = h[u] /\ under'[u] = under[u]
        BY <1>14, <2>3, Places, PostMove, Threads DEF IncrOrPop, TypeInv
      <3>. QED
        BY <1>0, <3>1, PosterKeeps DEF HeadInv
    <2>4. PosterLoaded(t)'
      <3>1. h'[t] = head /\ head' = head /\ pc'[t] = IF head.isNode THEN "readNext" ELSE "incr"
        BY <1>14, Places, PostMove, Threads DEF IncrOrPop, TypeInv
      <3>2. head.isNode => head.bits \in Stacked /\ head.bits \in Nodes
        BY TopStacked DEF TypeInv
      <3>3. Stacked' = Stacked /\ head.seq \in Nat
        BY <1>0, <3>1, HeadSame DEF TypeInv, HeadWord
      <3>. QED
        BY <3>1, <3>2, <3>3 DEF PosterLoaded
    <2>. QED
      BY <2>2, <2>3, <2>4 DEF HeadInv
  <1>15. ASSUME NEW t \in Poster, Incr(t)
        PROVE  HeadInv'
    <2>1. \A w \in Waiter : pc'[w] = pc[w] /\ h'[w] = h[w] /\ idx'[w] = idx[w] /\ next' = next
      BY <1>15, Places, PostMove, Threads DEF Incr, TypeInv
    <2>2. \A w \in Waiter : WaiterLoaded(w)'
      BY <2>1, WaiterKeeps DEF HeadInv
    <2>3. ASSUME NEW u \in Poster, u # t
          PROVE  PosterLoaded(u)'
      <3>1. pc'[u] = pc[u] /\ h'[u] = h[u] /\ under'[u] = under[u]
        BY <1>15, <2>3, Places, PostMove, Threads DEF Incr, TypeInv
      <3>. QED
        BY <1>0, <3>1, PosterKeeps DEF HeadInv
    <2>4. PosterLoaded(t)'
      BY <1>15, Places, PostMove DEF Incr, PosterLoaded
    <2>. QED
      BY <2>2, <2>3, <2>4 DEF HeadInv
  <1>16. ASSUME NEW t \in Poster, ReadNext(t)
        PROVE  HeadInv'
    <2>1. \A w \in Waiter : pc'[w] = pc[w] /\ h'[w] = h[w] /\ idx'[w] = idx[w] /\ next' = next
      BY <1>16, Places, PostMove, Threads DEF ReadNext, TypeInv
    <2>2. \A w \in Waiter : WaiterLoaded(w)'
      BY <2>1, WaiterKeeps DEF HeadInv
    <2>3. ASSUME NEW u \in Poster, u # t
          PROVE  PosterLoaded(u)'
      <3>1. pc'[u] = pc[u] /\ h'[u] = h[u] /\ under'[u] = under[u]
        BY <1>16, <2>3, Places, PostMove, Threads DEF ReadNext, TypeInv
      <3>. QED
        BY <1>0, <3>1, PosterKeeps DEF HeadInv
    <2>4. PosterLoaded(t)'
      <3>1. /\ pc'[t] = "pop" /\ h' = h /\ head' = head /\ next' = next
            /\ under'[t] = next[h[t].bits] /\ pc[t] = "readNext"
        BY <1>16, Places, PostMove, Threads DEF ReadNext, TypeInv
      <3>2. Stacked' = Stacked
        BY <1>0, <3>1, HeadSame
      <3>. QED
        BY <3>1, <3>2 DEF PosterLoaded, HeadInv
    <2>. QED
      BY <2>2, <2>3, <2>4 DEF HeadInv
  <1>17. ASSUME NEW t \in Poster, Pop(t)
        PROVE  HeadInv'
    <2>1. \A w \in Waiter : pc'[w] = pc[w] /\ h'[w] = h[w] /\ idx'[w] = idx[w] /\ next' = next
      BY <1>17, Places, PostMove, Threads DEF Pop, TypeInv
    <2>2. \A w \in Waiter : WaiterLoaded(w)'
      BY <2>1, WaiterKeeps DEF HeadInv
    <2>3. ASSUME NEW u \in Poster, u # t
          PROVE  PosterLoaded(u)'
      <3>1. pc'[u] = pc[u] /\ h'[u] = h[u] /\ under'[u] = under[u]
        BY <1>17, <2>3, Places, PostMove, Threads DEF Pop, TypeInv
      <3>. QED
        BY <1>0, <3>1, PosterKeeps DEF HeadInv
    <2>4. PosterLoaded(t)'
      BY <1>17, Places, PostMove DEF Pop, PosterLoaded
    <2>. QED
      BY <2>2, <2>3, <2>4 DEF HeadInv
  <1>18. ASSUME NEW t \in Poster, Deliver(t)
        PROVE  HeadInv'
    <2>1. \A w \in Waiter : pc'[w] = pc[w] /\ h'[w] = h[w] /\ idx'[w] = idx[w] /\ next' = next
      BY <1>18, Places, PostMove, Threads DEF Deliver, TypeInv
    <2>2. \A w \in Waiter : WaiterLoaded(w)'
      BY <2>1, WaiterKeeps DEF HeadInv
    <2>3. ASSUME NEW u \in Poster, u # t
          PROVE  PosterLoaded(u)'
      <3>1. pc'[u] = pc[u] /\ h'[u] = h[u] /\ under'[u] = under[u]
        BY <1>18, <2>3, Places, PostMove, Threads DEF Deliver, TypeInv
      <3>. QED
        BY <1>0, <3>1, PosterKeeps DEF HeadInv
    <2>4. PosterLoaded(t)'
      BY <1>18, Places, PostMove DEF Deliver, PosterLoaded
    <2>. QED
      BY <2>2, <2>3, <2>4 DEF HeadInv
  <1>19. ASSUME NEW t \in Poster, Early(t)
        PROVE  HeadInv'
    <2>1. \A w \in Waiter : pc'[w] = pc[w] /\ h'[w] = h[w] /\ idx'[w] = idx[w] /\ next' = next
      BY <1>19, Places, PostMove, Threads DEF Early, TypeInv
    <2>2. \A w \in Waiter : WaiterLoaded(w)'
      BY <2>1, WaiterKeeps DEF HeadInv
    <2>3. ASSUME NEW u \in Poster, u # t
          PROVE  PosterLoaded(u)'
      <3>1. pc'[u] = pc[u] /\ h'[u] = h[u] /\ under'[u] = under[u]
        BY <1>19, <2>3, Places, PostMove, Threads DEF Early, TypeInv
      <3>. QED
        BY <1>0, <3>1, PosterKeeps DEF HeadInv
    <2>4. PosterLoaded(t)'
      BY <1>19, Places, PostMove DEF Early, PosterLoaded
    <2>. QED
      BY <2>2, <2>3, <2>4 DEF HeadInv
  <1>20. ASSUME NEW t \in Poster, Late(t)
        PROVE  HeadInv'
    <2>1. \A w \in Waiter : pc'[w] = pc[w] /\ h'[w] = h[w] /\ idx'[w] = idx[w] /\ next' = next
      BY <1>20, Places, PostMove, Threads DEF Late, TypeInv
    <2>2. \A w \in Waiter : WaiterLoaded(w)'
      BY <2>1, WaiterKeeps DEF HeadInv
    <2>3. ASSUME NEW u \in Poster, u # t
          PROVE  PosterLoaded(u)'
      <3>1. pc'[u] = pc[u] /\ h'[u] = h[u] /\ under'[u] = under[u]
        BY <1>20, <2>3, Places, PostMove, Threads DEF Late, TypeInv
      <3>. QED
        BY <1>0, <3>1, PosterKeeps DEF HeadInv
    <2>4. PosterLoaded(t)'
      BY <1>20, Places, PostMove DEF Late, PosterLoaded
    <2>. QED
      BY <2>2, <2>3, <2>4 DEF HeadInv
  <1>21. ASSUME NEW t \in Poster, FutexWake(t)
        PROVE  HeadInv'
    <2>1. PICK S \in SUBSET Waiter :
            /\ \A w \in S : pc[w] = "asleep" /\ pc'[w] = "check"
            /\ pc'[t] = "idle"
            /\ \A u \in Thread : u # t /\ u \notin S => pc'[u] = pc[u]
      BY <1>21, WakeMove
    <2>2. /\ \A w \in Waiter : pc'[w] = "check" \/ pc'[w] = pc[w]
          /\ \A u \in Poster : pc'[u] = "idle" \/ pc'[u] = pc[u]
      BY <2>1, Threads
    <2>3. h' = h /\ under' = under /\ next' = next /\ \A w \in Waiter : idx'[w] = idx[w]
      BY <1>21, Threads DEF FutexWake, TypeInv
    <2>4. \A w \in Waiter : WaiterLoaded(w)'
      BY <2>2, <2>3, WaiterKeeps DEF HeadInv
    <2>5. \A u \in Poster : PosterLoaded(u)'
      BY <1>0, <2>2, <2>3, PosterKeeps DEF HeadInv
    <2>. QED
      BY <2>4, <2>5 DEF HeadInv
  <1>22. CASE UNCHANGED vars
    <2>1. Stacked' = Stacked
      BY <1>22 DEF vars, Stacked, OnStack, Handed
    <2>. QED
      BY <1>22, <2>1 DEF vars, HeadInv, WaiterLoaded, PosterLoaded
  <1>. QED
    BY <1>1, <1>2, <1>3, <1>4, <1>5, <1>6, <1>7, <1>8, <1>9, <1>10, <1>11, <1>12, <1>13, <1>14, <1>15, <1>16, <1>17, <1>18, <1>19, <1>20, <1>21, <1>22
    DEF Next, WaitStep, PostStep, Done

(* Nothing happens to the list when the stack is left alone. *)
LEMMA ListKept ==
  ASSUME StackInv, Untouched
  PROVE  StackInv'
  <1>1. PICK n \in 0 .. Cardinality(Nodes) : \E f \in [0 .. n -> Links] : Lists(f, n)
    BY DEF StackInv
  <1>2. PICK f \in [0 .. n -> Links] : Lists(f, n)
    BY <1>1
  <1>3. Lists(f, n)'
    BY <1>2 DEF Lists, Untouched
  <1>. QED
    BY <1>3 DEF StackInv

(* Pushing puts a node before the list; there are nodes enough. *)
LEMMA ListPushed ==
  ASSUME TypeInv, StackInv, NEW i \in Nodes, Pushed(i)
  PROVE  StackInv'
  <1>1. PICK n \in 0 .. Cardinality(Nodes) : \E f \in [0 .. n -> Links] : Lists(f, n)
    BY DEF StackInv
  <1>2. PICK f \in [0 .. n -> Links] : Lists(f, n)
    BY <1>1
  <1>3. Cardinality(Nodes) \in Nat /\ n \in Nat
    BY <1>1, FS_CardinalityType
  <1>. DEFINE g == [k \in 0 .. n + 1 |-> IF k = 0 THEN i ELSE f[k - 1]]
  <1>4. g \in [0 .. n + 1 -> Links] /\ g[0] = i /\ \A k \in 0 .. n : g[k + 1] = f[k]
    BY <1>2, <1>3 DEF Links
  <1>. HIDE DEF g
  <1>5. i \notin Stacked /\ Stacked' = Stacked \cup {i} /\ next[i] = Top /\ next' = next /\ Top' = i
    BY DEF Pushed, Top
  <1>6. \A k \in 0 .. n : f[k] \in Stacked \/ (f[k] = 0 /\ k = n)
    BY <1>2, <1>3 DEF Lists
  <1>7. 0 \notin Nodes /\ i # 0 /\ Stacked \subseteq Nodes
    BY Threads DEF Stacked
  <1>8. ASSUME NEW k \in 0 .. n + 1
        PROVE  k = 0 \/ (k - 1 \in 0 .. n /\ g[k] = f[k - 1])
    <2>1. k # 0 => k - 1 \in 0 .. n /\ k = (k - 1) + 1
      BY <1>3
    <2>. QED
      BY <2>1, <1>4
  <1>9. g[n + 1] = 0
    BY <1>2, <1>3, <1>4 DEF Lists
  <1>10. \A k \in 0 .. n : g[k] \in Stacked' /\ g[k + 1] = next'[g[k]]
    <2>1. ASSUME NEW k \in 0 .. n
          PROVE  g[k] \in Stacked' /\ g[k + 1] = next'[g[k]]
      <3>1. CASE k = 0
        BY <1>2, <1>3, <1>4, <1>5, <3>1 DEF Lists
      <3>2. CASE k # 0
        <4>1. k - 1 \in 0 .. n - 1 /\ g[k] = f[k - 1] /\ g[k + 1] = f[k] /\ (k - 1) + 1 = k
          BY <1>3, <1>4, <1>8, <3>2
        <4>2. f[k - 1] \in Stacked /\ f[(k - 1) + 1] = next[f[k - 1]]
          BY <4>1, <1>2 DEF Lists
        <4>. QED
          BY <4>1, <4>2, <1>5
      <3>. QED
        BY <3>1, <3>2
    <2>. QED
      BY <2>1
  <1>11. \A j \in Stacked' : \E k \in 0 .. n : g[k] = j
    <2>1. ASSUME NEW j \in Stacked
          PROVE  \E k \in 0 .. n : g[k] = j
      <3>1. PICK k \in 0 .. n - 1 : f[k] = j
        BY <1>2 DEF Lists
      <3>2. k + 1 \in 0 .. n /\ g[k + 1] = j
        BY <3>1, <1>3, <1>4
      <3>. QED
        BY <3>2
    <2>. QED
      BY <2>1, <1>3, <1>4, <1>5
  <1>12. ASSUME NEW k \in 0 .. n + 1, NEW l \in 0 .. n + 1, g[k] = g[l]
         PROVE  k = l
    <2>1. \A m \in 0 .. n : f[m] # i
      BY <1>5, <1>6, <1>7
    <2>2. CASE k = 0 \/ l = 0
      BY <1>4, <1>8, <1>12, <2>1, <2>2
    <2>3. CASE k # 0 /\ l # 0
      <3>1. k - 1 \in 0 .. n /\ l - 1 \in 0 .. n /\ f[k - 1] = f[l - 1]
        BY <1>8, <1>12, <2>3
      <3>2. k - 1 = l - 1
        BY <3>1, <1>2 DEF Lists
      <3>. QED
        BY <3>2
    <2>. QED
      BY <2>2, <2>3
  <1>13. n + 1 <= Cardinality(Nodes)
    <2>. DEFINE e == [k \in 0 .. n |-> g[k]]
    <2>1. e \in [0 .. n -> Nodes]
      BY <1>5, <1>7, <1>10
    <2>2. IsFiniteSet(0 .. n) /\ Cardinality(0 .. n) = n + 1
      <3>1. 0 \in Int /\ n \in Int /\ ~(0 > n) /\ n - 0 + 1 = n + 1
        BY <1>3
      <3>. QED
        BY <3>1, FS_Interval
    <2>3. \A k, l \in 0 .. n : e[k] = e[l] => k = l
      BY <1>3, <1>12
    <2>. HIDE DEF e
    <2>4. ~(Cardinality(Nodes) < Cardinality(0 .. n))
      BY <2>1, <2>2, <2>3, FS_PigeonHole
    <2>. QED
      BY <2>2, <2>4, <1>3
  <1>14. Lists(g, n + 1)'
    <2>1. (n + 1) - 1 = n
      BY <1>3
    <2>. QED
      BY <2>1, <1>4, <1>5, <1>9, <1>10, <1>11, <1>12 DEF Lists
  <1>15. n + 1 \in 0 .. Cardinality(Nodes)
    BY <1>3, <1>13
  <1>. QED
    BY <1>4, <1>14, <1>15 DEF StackInv

(* Popping takes the first node off the list. *)
LEMMA ListPopped ==
  ASSUME TypeInv, StackInv, TopPopped
  PROVE  StackInv'
  <1>1. PICK n \in 0 .. Cardinality(Nodes) : \E f \in [0 .. n -> Links] : Lists(f, n)
    BY DEF StackInv
  <1>2. PICK f \in [0 .. n -> Links] : Lists(f, n)
    BY <1>1
  <1>3. /\ Top = head.bits /\ Top \in Stacked /\ Stacked' = Stacked \ {Top}
        /\ Top' = next[Top] /\ next' = next
    BY DEF TopPopped, Top
  <1>4. Cardinality(Nodes) \in Nat /\ n \in Nat \ {0} /\ f[0] = Top
    <2>1. f[0] # f[n]
      BY <1>2, <1>3, Threads DEF Lists, Stacked
    <2>. QED
      BY <1>1, <1>2, <2>1, FS_CardinalityType DEF Lists
  <1>. DEFINE m == n - 1
              g == [k \in 0 .. m |-> f[k + 1]]
  <1>5. m \in 0 .. Cardinality(Nodes) /\ m \in Nat /\ n = m + 1
    BY <1>1, <1>4
  <1>6. g \in [0 .. m -> Links] /\ \A k \in 0 .. m : k + 1 \in 0 .. n /\ g[k] = f[k + 1]
    BY <1>2, <1>5
  <1>. HIDE DEF g, m
  <1>7. g[0] = Top' /\ g[m] = 0
    BY <1>2, <1>3, <1>4, <1>5, <1>6 DEF Lists
  <1>8. ASSUME NEW k \in 0 .. m - 1
        PROVE  g[k] \in Stacked' /\ g[k + 1] = next'[g[k]]
    <2>1. k + 1 \in 0 .. n - 1 /\ k \in 0 .. m /\ k + 1 \in 0 .. m
      BY <1>5
    <2>2. f[k + 1] \in Stacked /\ f[(k + 1) + 1] = next[f[k + 1]]
      BY <2>1, <1>2 DEF Lists
    <2>3. f[k + 1] # f[0]
      BY <2>1, <1>2, <1>5 DEF Lists
    <2>. QED
      BY <2>1, <2>2, <2>3, <1>3, <1>4, <1>6
  <1>9. ASSUME NEW i \in Stacked'
        PROVE  \E k \in 0 .. m - 1 : g[k] = i
    <2>1. i \in Stacked /\ i # Top
      BY <1>3
    <2>2. PICK k \in 0 .. n - 1 : f[k] = i
      BY <2>1, <1>2 DEF Lists
    <2>3. k # 0
      BY <2>1, <2>2, <1>4
    <2>4. k - 1 \in 0 .. m - 1 /\ g[k - 1] = i
      <3>1. k - 1 \in 0 .. m - 1 /\ k - 1 \in 0 .. m /\ (k - 1) + 1 = k
        BY <2>3, <1>5
      <3>. QED
        BY <3>1, <2>2, <1>6
    <2>. QED
      BY <2>4
  <1>10. ASSUME NEW k \in 0 .. m, NEW l \in 0 .. m, g[k] = g[l]
         PROVE  k = l
    <2>1. k + 1 = l + 1
      BY <1>2, <1>6, <1>10 DEF Lists
    <2>. QED
      BY <2>1
  <1>11. Lists(g, m)'
    BY <1>7, <1>8, <1>9, <1>10 DEF Lists
  <1>. QED
    BY <1>5, <1>6, <1>11 DEF StackInv

(* head_ and the nodes stay a list of exactly the unpopped waiters. *)
LEMMA StackKept ==
  ASSUME TypeInv, OwnInv, BatonInv, PostInv, HeadInv, StackInv, [Next]_vars
  PROVE  StackInv'
  <1>1. CASE \E w \in Waiter : Pushed(idx[w])
    <2>1. PICK w \in Waiter : Pushed(idx[w])
      BY <1>1
    <2>. QED
      BY <2>1, ListPushed DEF Pushed
  <1>. QED
    BY <1>1, StackStep, ListKept, ListPopped

(* The invariant holds at the start: no node is taken, the value is 0. *)
LEMMA InitInv == Init => IInv
  <1>. SUFFICES ASSUME Init
                PROVE  IInv
    OBVIOUS
  <1>1. TypeInv
    <2>1. fresh(0) \in HeadWord /\ ~fresh(0).isNode
      BY DEF fresh, HeadWord
    <2>2. "idle" \in WaitPC /\ "idle" \in PostPC
      BY Places
    <2>. QED
      BY <2>1, <2>2, Threads DEF Init, TypeInv, Links, BatonState
  <1>2. OwnInv /\ BatonInv /\ PostInv
    BY Threads DEF Init, OwnInv, BatonInv, PostInv, Owning, Linking, InHandoff, Posting
  <1>3. HeadInv
    BY Threads DEF Init, HeadInv, WaiterLoaded, PosterLoaded
  <1>4. StackInv
    <2>1. Stacked = {} /\ Top = 0
      BY Threads DEF Init, Stacked, OnStack, InHandoff, Top, fresh
    <2>2. Cardinality(Nodes) \in Nat
      BY FS_CardinalityType
    <2>. DEFINE f == [k \in 0 .. 0 |-> 0]
    <2>3. f \in [0 .. 0 -> Links] /\ f[0] = 0
      BY DEF Links
    <2>. HIDE DEF f
    <2>4. Lists(f, 0)
      BY <2>1, <2>3 DEF Lists
    <2>5. 0 \in 0 .. Cardinality(Nodes)
      BY <2>2
    <2>. QED
      BY <2>3, <2>4, <2>5 DEF StackInv
  <1>. QED
    BY <1>1, <1>2, <1>3, <1>4 DEF IInv

(***************************************************************************)
(* Whatever the threads do, the nodes that head_ and next lead to are a    *)
(* list of the waiters nobody has popped, and a compare-and-swap succeeds  *)
(* only if what was loaded still holds.                                    *)
(***************************************************************************)
THEOREM Invariance == Spec => []IInv
  <1>1. IInv /\ [Next]_vars => IInv'
    BY TypeKept, OwnKept, BatonKept, PostKept, HeadKept, StackKept DEF IInv
  <1>. QED
    BY <1>1, InitInv, PTL DEF Spec

(***************************************************************************)
(* The assertions in Baton hold for every number of threads: post() finds  *)
(* the Baton alive and not posted, and it is not destroyed while WAITING.  *)
(***************************************************************************)
THEOREM BatonCorrect == Spec => []BatonAsserts
  <1>1. IInv => BatonAsserts
    BY DEF IInv, BatonInv, PostInv, BatonAsserts, Posting
  <1>. QED
    BY <1>1, Invariance, PTL

-----------------------------------------------------------------------------
(* The nodes that are reached from head_ in Cardinality(Nodes) steps. *)
LEMMA StackIsStacked ==
  ASSUME TypeInv, StackInv
  PROVE  Stack = Stacked
  <1>. DEFINE N == Cardinality(Nodes)
              Step(d) == [k \in 0 .. N |->
                            IF k = 0 THEN Top
                            ELSE LET i == d[k - 1] IN IF i = 0 THEN 0 ELSE next[i]]
  <1>1. PICK n \in 0 .. N : \E f \in [0 .. n -> Links] : Lists(f, n)
    BY DEF StackInv
  <1>2. PICK f \in [0 .. n -> Links] : Lists(f, n)
    BY <1>1
  <1>3. N \in Nat /\ n \in Nat /\ n <= N
    BY <1>1, FS_CardinalityType
  <1>. DEFINE D == [k \in 0 .. N |-> IF k <= n THEN f[k] ELSE 0]
  <1>. HIDE DEF N
  <1>4. DOMAIN D = 0 .. N /\ D = [k \in 0 .. N |-> D[k]] /\ \A k \in 0 .. N : D[k] = IF k <= n THEN f[k] ELSE 0
    OBVIOUS
  <1>5. D = Step(D)
    <2>1. ASSUME NEW k \in 0 .. N
          PROVE  D[k] = IF k = 0 THEN Top
                        ELSE IF D[k - 1] = 0 THEN 0 ELSE next[D[k - 1]]
      <3>1. CASE k = 0
        BY <1>2, <1>3, <3>1 DEF Lists
      <3>2. CASE k \in 1 .. n
        <4>1. k - 1 \in 0 .. n - 1 /\ k - 1 \in 0 .. N /\ (k - 1) + 1 = k
          BY <1>3, <3>2
        <4>2. f[k - 1] \in Stacked /\ f[k] = next[f[k - 1]]
          BY <4>1, <1>2 DEF Lists
        <4>3. f[k - 1] # 0
          BY <4>2, Threads DEF Stacked
        <4>4. D[k] = f[k] /\ D[k - 1] = f[k - 1]
          BY <1>3, <1>4, <3>2, <4>1
        <4>. QED
          BY <3>2, <4>2, <4>3, <4>4
      <3>3. CASE k > n
        <4>1. k - 1 \in 0 .. N /\ (k - 1 = n \/ k - 1 > n)
          BY <1>3, <3>3
        <4>2. D[k] = 0 /\ D[k - 1] = 0
          BY <4>1, <1>2, <1>3, <3>3 DEF Lists
        <4>. QED
          BY <4>2, <1>3, <3>3
      <3>. QED
        BY <3>1, <3>2, <3>3, <1>3
    <2>. QED
      BY <2>1
  <1>6. ASSUME NEW d, d = Step(d)
        PROVE  d = D
    <2>1. DOMAIN d = 0 .. N /\ d = [k \in 0 .. N |-> d[k]]
      BY <1>6
    <2>2. \A k \in 0 .. N : d[k] = Step(d)[k]
      BY <1>6, Zenon
    <2>3. \A k \in 0 .. N : d[k] = IF k = 0 THEN Top
                                   ELSE IF d[k - 1] = 0 THEN 0 ELSE next[d[k - 1]]
      BY <2>2
    <2>4. \A k \in 0 .. N : D[k] = Step(D)[k]
      BY <1>5, Zenon
    <2>5. \A k \in 0 .. N : D[k] = IF k = 0 THEN Top
                                   ELSE IF D[k - 1] = 0 THEN 0 ELSE next[D[k - 1]]
      BY <2>4
    <2>. HIDE DEF D
    <2>6. \A k \in 0 .. N : d[k] = D[k]
      <3>1. SUFFICES ASSUME \E k \in 0 .. N : d[k] # D[k]
                     PROVE  FALSE
        OBVIOUS
      <3>2. PICK k \in 0 .. N : d[k] # D[k] /\ \A l \in 0 .. k - 1 : d[l] = D[l]
        <4>. DEFINE T == {k \in 0 .. N : d[k] # D[k]}
        <4>1. T \subseteq Nat /\ T # {}
          BY <1>3, <3>1
        <4>2. PICK k \in T : \A l \in T : k <= l
          <5>. HIDE DEF T
          <5>. QED
            BY <4>1, LeastNumber
        <4>. QED
          BY <4>2, <1>3
      <3>3. CASE k = 0
        BY <2>3, <2>5, <3>2, <3>3
      <3>4. CASE k # 0
        <4>1. k - 1 \in 0 .. k - 1
          BY <1>3, <3>4
        <4>2. d[k - 1] = D[k - 1]
          BY <3>2, <4>1
        <4>. QED
          BY <2>3, <2>5, <3>2, <3>4, <4>2
      <3>. QED
        BY <3>3, <3>4
    <2>. QED
      <3>1. [k \in 0 .. N |-> d[k]] = [k \in 0 .. N |-> D[k]]
        BY <2>6
      <3>. QED
        BY <1>4, <2>1, <3>1, Zenon
  <1>7. Stack = {D[k] : k \in 0 .. N} \ {0}
    <2>1. (CHOOSE d : d = Step(d)) = D
      <3>. HIDE DEF Step, D
      <3>. QED
        BY <1>5, <1>6
    <2>. DEFINE E == CHOOSE d : d = Step(d)
    <2>2. Stack = {E[k] : k \in DOMAIN E} \ {0}
      BY DEF Stack, Top, N
    <2>. HIDE DEF E, D
    <2>3. E = D
      BY <2>1 DEF E
    <2>. QED
      BY <2>2, <2>3, <1>4
  <1>8. Stacked \subseteq {D[k] : k \in 0 .. N} \ {0}
    <2>1. ASSUME NEW i \in Stacked
          PROVE  \E k \in 0 .. N : D[k] = i
      <3>1. PICK k \in 0 .. n - 1 : f[k] = i
        BY <1>2 DEF Lists
      <3>2. k \in 0 .. N /\ D[k] = i
        BY <1>3, <3>1
      <3>. QED
        BY <3>2
    <2>2. 0 \notin Stacked
      BY Threads DEF Stacked
    <2>. QED
      BY <2>1, <2>2
  <1>9. ASSUME NEW k \in 0 .. N, D[k] # 0
        PROVE  D[k] \in Stacked
    <2>1. k <= n /\ k # n
      BY <1>2, <1>3, <1>9 DEF Lists
    <2>2. k \in 0 .. n - 1 /\ D[k] = f[k]
      BY <2>1, <1>3
    <2>. QED
      BY <2>2, <1>2 DEF Lists
  <1>. QED
    BY <1>7, <1>8, <1>9

(***************************************************************************)
(* For every number of threads and nodes: following next from head_ visits *)
(* exactly the nodes of the waiters nobody has popped, although a node may *)
(* be recycled between the load of head_ and the compare-and-swap.         *)
(***************************************************************************)
THEOREM StackCorrect == Spec => []StackExact
  <1>1. IInv => StackExact
    <2>. SUFFICES ASSUME IInv
                  PROVE  StackExact
      OBVIOUS
    <2>1. ASSUME NEW w \in Waiter, pc[w] \in InHandoff
          PROVE  w \notin Popped <=> OnStack(w)
      BY <2>1 DEF IInv, BatonInv, Popped, OnStack, Handed, InHandoff, Posting
    <2>2. \A w \in Waiter : OnStack(w) => pc[w] \in InHandoff /\ idx[w] \in Nodes
      BY DEF IInv, OwnInv, OnStack, Owning
    <2>3. Stacked = {idx[w] : w \in {w \in Waiter : pc[w] \in InHandoff} \ Popped}
      BY <2>1, <2>2 DEF Stacked
    <2>4. Stack = Stacked
      BY StackIsStacked DEF IInv
    <2>. QED
      BY <2>3, <2>4 DEF StackExact, InHandoff
  <1>. QED
    BY <1>1, Invariance, PTL

-----------------------------------------------------------------------------
(* The semaphore that LifoSem implements *)

Value      == IF head.isNode THEN 0 ELSE head.bits
Delivering == {t \in Poster : pc[t] \in Posting}
Inside     == {t \in Waiter : pc[t] \notin {"idle", "recycle"}}
Tokens     == Value + Cardinality(Delivering) + Cardinality(Delivered)

(* Has the node of waiter w got a token that w has not taken yet? *)
Served(w) ==
  /\ idx[w] \in Nodes /\ pc[w] # "recycle"
  /\ state[idx[w]] \in {"EARLY_DELIVERY", "LATE_DELIVERY"}

(* The parts of Tokens are natural numbers. *)
LEMMA TokenParts ==
  ASSUME TypeInv
  PROVE  /\ Value \in Nat
         /\ IsFiniteSet(Delivering) /\ Cardinality(Delivering) \in Nat
         /\ IsFiniteSet(Delivered) /\ Cardinality(Delivered) \in Nat
  <1>1. Delivering \subseteq Poster /\ Delivered \subseteq Nodes
    BY DEF Delivering, Delivered
  <1>. QED
    BY <1>1, FS_Subset, FS_CardinalityType DEF Value, TypeInv, HeadWord

(* The delivered nodes are those of the served waiters. *)
LEMMA DeliveredServed ==
  /\ Delivered = {i \in Nodes : \E w \in Waiter : Served(w) /\ idx[w] = i}
  /\ Delivered' = {i \in Nodes : \E w \in Waiter : Served(w)' /\ idx'[w] = i}
  BY DEF Delivered, Served

(* The delivered nodes stay if every waiter is served or not as before. *)
LEMMA SameDelivered ==
  ASSUME \A w \in Waiter : (Served(w)' <=> Served(w)) /\ (Served(w) => idx'[w] = idx[w])
  PROVE  Delivered' = Delivered
  BY DeliveredServed

(* A waiter is served only in handoff, and it has a node of its own. *)
LEMMA ServedInHandoff ==
  ASSUME OwnInv, BatonInv, NEW w \in Waiter, Served(w)
  PROVE  pc[w] \in InHandoff
  BY Threads DEF OwnInv, BatonInv, Served, Owning, Linking

(* What a step of a waiter does, if it touches no Baton but its own. *)
LEMMA WaiterServes ==
  ASSUME TypeInv, OwnInv, BatonInv, NEW w \in Waiter,
         \A u \in Thread : u # w => pc'[u] = pc[u] /\ idx'[u] = idx[u],
         \A v \in Waiter : v # w /\ pc[v] \in Owning => state'[idx[v]] = state[idx[v]],
         ~Served(w)'
  PROVE  /\ Delivering' = Delivering
         /\ ~Served(w) => Delivered' = Delivered
         /\ Served(w) => idx[w] \in Delivered /\ Delivered' = Delivered \ {idx[w]}
  <1>1. Delivering' = Delivering
    BY Threads DEF Delivering
  <1>2. \A v \in Waiter : v # w => (Served(v)' <=> Served(v)) /\ idx'[v] = idx[v]
    BY Threads DEF Served, OwnInv
  <1>3. ~Served(w) => Delivered' = Delivered
    BY <1>2, SameDelivered
  <1>4. ASSUME Served(w)
        PROVE  idx[w] \in Delivered /\ Delivered' = Delivered \ {idx[w]}
    <2>1. pc[w] \in Owning
      BY <1>4, ServedInHandoff DEF Owning
    <2>2. \A v \in Waiter : v # w /\ Served(v) => idx[v] # idx[w]
      BY <2>1, ServedInHandoff DEF OwnInv, Owning
    <2>. QED
      BY <1>2, <1>4, <2>2, DeliveredServed DEF Served
  <1>. QED
    BY <1>1, <1>3, <1>4

(* The steps of a semaphore, on Tokens and Inside *)
Same      == Tokens' = Tokens /\ Inside' = Inside
Enters(w) == w \notin Inside /\ Inside' = Inside \cup {w} /\ Tokens' = Tokens
Leaves(w) == w \in Inside /\ Tokens > 0 /\ Inside' = Inside \ {w} /\ Tokens' = Tokens - 1
Posts     == Tokens' = Tokens + 1 /\ Inside' = Inside

(* Only the moving thread enters or leaves. *)
LEMMA InsideStep ==
  ASSUME NEW t \in Thread, \A u \in Thread : u # t => pc'[u] = pc[u]
  PROVE  /\ t \in Poster => Inside' = Inside
         /\ t \in Waiter => Inside' = IF pc'[t] \in {"idle", "recycle"} THEN Inside \ {t}
                                                                       ELSE Inside \cup {t}
  BY Threads DEF Inside

(* Every step is a step of a semaphore, or none. *)
LEMMA SemaphoreStep ==
  ASSUME IInv, IInv', [Next]_vars
  PROVE  \/ Same \/ Posts
         \/ \E w \in Waiter : Enters(w) \/ Leaves(w)
  <1>. USE DEF IInv
  <1>0. /\ Value \in Nat
        /\ IsFiniteSet(Delivering) /\ Cardinality(Delivering) \in Nat
        /\ IsFiniteSet(Delivered) /\ Cardinality(Delivered) \in Nat
    BY TokenParts
  <1>1. ASSUME NEW w \in Waiter, Wait(w)
        PROVE  Enters(w)
    <2>1. /\ w \in Thread /\ \A u \in Thread : u # w => pc'[u] = pc[u] /\ idx'[u] = idx[u]
          /\ \A v \in Waiter : v # w /\ pc[v] \in Owning => state'[idx[v]] = state[idx[v]]
      BY <1>1, Places, WaitMove, Threads
      DEF Wait, TypeInv, OwnInv, Owning
    <2>2. ~Served(w) /\ ~Served(w)'
      BY <1>1, Places, WaitMove, Threads
      DEF Wait, Served, TypeInv, OwnInv, BatonInv, Owning, Linking, InHandoff
    <2>3. Delivering' = Delivering /\ Delivered' = Delivered
      BY <2>1, <2>2, WaiterServes
    <2>4. w \notin Inside /\ Inside' = Inside \cup {w}
      BY <1>1, <2>1, Places, WaitMove, InsideStep DEF Wait, Inside
    <2>. QED
      BY <1>1, <2>3, <2>4 DEF Wait, Enters, Tokens, Value
  <1>2. ASSUME NEW w \in Waiter, TryWait(w)
        PROVE  Same
    <2>1. /\ w \in Thread /\ \A u \in Thread : u # w => pc'[u] = pc[u] /\ idx'[u] = idx[u]
          /\ \A v \in Waiter : v # w /\ pc[v] \in Owning => state'[idx[v]] = state[idx[v]]
      BY <1>2, Places, WaitMove, Threads
      DEF TryWait, TypeInv, OwnInv, Owning
    <2>2. ~Served(w) /\ ~Served(w)'
      BY <1>2, Places, WaitMove, Threads
      DEF TryWait, Served, TypeInv, OwnInv, BatonInv, Owning, Linking, InHandoff
    <2>3. Delivering' = Delivering /\ Delivered' = Delivered
      BY <2>1, <2>2, WaiterServes
    <2>4. Inside' = Inside
      BY <1>2, <2>1, Places, WaitMove, InsideStep DEF TryWait, Inside
    <2>5. Value' = Value
      BY <1>2 DEF TryWait, Value
    <2>. QED
      BY <2>3, <2>4, <2>5 DEF Same, Tokens
  <1>3. ASSUME NEW w \in Waiter, TryDecr(w)
        PROVE  Same \/ Leaves(w)
    <2>1. /\ w \in Thread /\ \A u \in Thread : u # w => pc'[u] = pc[u] /\ idx'[u] = idx[u]
          /\ \A v \in Waiter : v # w /\ pc[v] \in Owning => state'[idx[v]] = state[idx[v]]
      BY <1>3, Places, WaitMove, Threads
      DEF TryDecr, TypeInv, OwnInv, Owning
    <2>2. ~Served(w) /\ ~Served(w)'
      BY <1>3, Places, WaitMove, Threads
      DEF TryDecr, Served, TypeInv, OwnInv, BatonInv, Owning, Linking, InHandoff
    <2>3. Delivering' = Delivering /\ Delivered' = Delivered
      BY <2>1, <2>2, WaiterServes
    <2>4. HasValue(h[w]) /\ w \in Inside
      BY <1>3 DEF TryDecr, HeadInv, WaiterLoaded, Inside
    <2>5. CASE head = h[w] /\ head' = withValueDecr(h[w], 1) /\ Goto(w, "idle")
      <3>1. Value > 0 /\ Value' = Value - 1
        BY <2>4, <2>5, <1>0 DEF HasValue, withValueDecr, Value
      <3>2. Tokens > 0 /\ Tokens' = Tokens - 1
        BY <1>0, <2>3, <3>1 DEF Tokens
      <3>3. Inside' = Inside \ {w}
        BY <2>1, <2>5, Places, WaitMove, InsideStep
      <3>. QED
        BY <2>4, <3>2, <3>3 DEF Leaves
    <2>6. CASE head # h[w] /\ UNCHANGED head /\ Goto(w, "tryWait")
      <3>1. pc'[w] = "tryWait"
        BY <2>6, Places, WaitMove
      <3>2. Inside' = Inside \cup {w}
        BY <2>1, <3>1, InsideStep
      <3>3. Inside' = Inside
        BY <2>4, <3>2
      <3>. QED
        BY <2>3, <2>6, <3>3 DEF Same, Tokens, Value
    <2>. QED
      BY <1>3, <2>5, <2>6 DEF TryDecr
  <1>4. ASSUME NEW w \in Waiter, Allocate(w)
        PROVE  Same
    <2>1. /\ w \in Thread /\ \A u \in Thread : u # w => pc'[u] = pc[u] /\ idx'[u] = idx[u]
          /\ \A v \in Waiter : v # w /\ pc[v] \in Owning => state'[idx[v]] = state[idx[v]]
      BY <1>4, Places, WaitMove, Threads
      DEF Allocate, TypeInv, OwnInv, Owning
    <2>2. ~Served(w) /\ ~Served(w)'
      BY <1>4, Places, WaitMove, Threads
      DEF Allocate, Served, TypeInv, OwnInv, BatonInv, Owning, Linking, InHandoff
    <2>3. Delivering' = Delivering /\ Delivered' = Delivered
      BY <2>1, <2>2, WaiterServes
    <2>4. Inside' = Inside
      BY <1>4, <2>1, Places, WaitMove, InsideStep DEF Allocate, Inside
    <2>5. Value' = Value
      BY <1>4 DEF Allocate, Value
    <2>. QED
      BY <2>3, <2>4, <2>5 DEF Same, Tokens
  <1>5. ASSUME NEW w \in Waiter, Push(w)
        PROVE  Same
    <2>1. /\ w \in Thread /\ \A u \in Thread : u # w => pc'[u] = pc[u] /\ idx'[u] = idx[u]
          /\ \A v \in Waiter : v # w /\ pc[v] \in Owning => state'[idx[v]] = state[idx[v]]
      BY <1>5, Places, WaitMove, Threads
      DEF Push, TypeInv, OwnInv, Owning, Linking
    <2>2. ~Served(w) /\ ~Served(w)'
      BY <1>5, Places, WaitMove, Threads
      DEF Push, Served, TypeInv, OwnInv, BatonInv, Owning, Linking, InHandoff
    <2>3. Delivering' = Delivering /\ Delivered' = Delivered
      BY <2>1, <2>2, WaiterServes
    <2>4. Inside' = Inside
      BY <1>5, <2>1, Places, WaitMove, InsideStep DEF Push, Inside
    <2>5. Value' = Value
      BY <1>5 DEF Push, Value
    <2>. QED
      BY <2>3, <2>4, <2>5 DEF Same, Tokens
  <1>6. ASSUME NEW w \in Waiter, Decr(w)
        PROVE  Same \/ Leaves(w)
    <2>1. /\ w \in Thread /\ \A u \in Thread : u # w => pc'[u] = pc[u] /\ idx'[u] = idx[u]
          /\ \A v \in Waiter : v # w /\ pc[v] \in Owning => state'[idx[v]] = state[idx[v]]
      BY <1>6, Places, WaitMove, Threads
      DEF Decr, TypeInv, OwnInv, Owning, Linking
    <2>2. ~Served(w) /\ ~Served(w)'
      BY <1>6, Places, WaitMove, Threads
      DEF Decr, Served, TypeInv, OwnInv, BatonInv, Owning, Linking, InHandoff
    <2>3. Delivering' = Delivering /\ Delivered' = Delivered
      BY <2>1, <2>2, WaiterServes
    <2>4. HasValue(h[w]) /\ w \in Inside
      BY <1>6 DEF Decr, HeadInv, WaiterLoaded, Inside
    <2>5. CASE head = h[w] /\ head' = withValueDecr(h[w], 1) /\ Goto(w, "recycle")
      <3>1. Value > 0 /\ Value' = Value - 1
        BY <2>4, <2>5, <1>0 DEF HasValue, withValueDecr, Value
      <3>2. Tokens > 0 /\ Tokens' = Tokens - 1
        BY <1>0, <2>3, <3>1 DEF Tokens
      <3>3. Inside' = Inside \ {w}
        BY <2>1, <2>5, Places, WaitMove, InsideStep
      <3>. QED
        BY <2>4, <3>2, <3>3 DEF Leaves
    <2>6. CASE head # h[w] /\ UNCHANGED head /\ Goto(w, "push")
      <3>1. pc'[w] = "push"
        BY <2>6, Places, WaitMove
      <3>2. Inside' = Inside \cup {w}
        BY <2>1, <3>1, InsideStep
      <3>3. Inside' = Inside
        BY <2>4, <3>2
      <3>. QED
        BY <2>3, <2>6, <3>3 DEF Same, Tokens, Value
    <2>. QED
      BY <1>6, <2>5, <2>6 DEF Decr
  <1>7. ASSUME NEW w \in Waiter, PushCas(w)
        PROVE  Same
    <2>1. /\ w \in Thread /\ \A u \in Thread : u # w => pc'[u] = pc[u] /\ idx'[u] = idx[u]
          /\ \A v \in Waiter : v # w /\ pc[v] \in Owning => state'[idx[v]] = state[idx[v]]
      BY <1>7, Places, WaitMove, Threads
      DEF PushCas, TypeInv, OwnInv, Owning, Linking
    <2>2. ~Served(w) /\ ~Served(w)'
      BY <1>7, Places, WaitMove, Threads
      DEF PushCas, Served, TypeInv, OwnInv, BatonInv, Owning, Linking, InHandoff
    <2>3. Delivering' = Delivering /\ Delivered' = Delivered
      BY <2>1, <2>2, WaiterServes
    <2>4. Inside' = Inside
      BY <1>7, <2>1, Places, WaitMove, InsideStep DEF PushCas, Inside
    <2>5. Value' = Value
      BY <1>7 DEF PushCas, Value, HeadInv, WaiterLoaded, HasValue, withPush, TypeInv, HeadWord
    <2>. QED
      BY <2>3, <2>4, <2>5 DEF Same, Tokens
  <1>8. ASSUME NEW w \in Waiter, Recycle(w)
        PROVE  Same
    <2>1. /\ w \in Thread /\ \A u \in Thread : u # w => pc'[u] = pc[u] /\ idx'[u] = idx[u]
          /\ \A v \in Waiter : v # w /\ pc[v] \in Owning => state'[idx[v]] = state[idx[v]]
      BY <1>8, Places, WaitMove, Threads
      DEF Recycle, TypeInv, OwnInv, Owning
    <2>2. ~Served(w) /\ ~Served(w)'
      BY <1>8, Places, WaitMove, Threads
      DEF Recycle, Served, TypeInv, OwnInv, BatonInv, Owning, Linking, InHandoff
    <2>3. Delivering' = Delivering /\ Delivered' = Delivered
      BY <2>1, <2>2, WaiterServes
    <2>4. Inside' = Inside
      BY <1>8, <2>1, Places, WaitMove, InsideStep DEF Recycle, Inside
    <2>5. Value' = Value
      BY <1>8 DEF Recycle, Value
    <2>. QED
      BY <2>3, <2>4, <2>5 DEF Same, Tokens
  <1>9. ASSUME NEW w \in Waiter, HandoffWait(w)
        PROVE  Same \/ Leaves(w)
    <2>1. /\ w \in Thread /\ \A u \in Thread : u # w => pc'[u] = pc[u] /\ idx'[u] = idx[u]
          /\ \A v \in Waiter : v # w /\ pc[v] \in Owning => state'[idx[v]] = state[idx[v]]
      <3>1. /\ pc[w] \in InHandoff /\ idx' = idx /\ idx[w] \in Nodes
            /\ \A v \in Waiter : v # w /\ pc[v] \in Owning => idx[v] \in Nodes \ {idx[w]}
        BY <1>9 DEF HandoffWait, OwnInv, Owning, InHandoff
      <3>2. w \in Thread /\ \A u \in Thread : u # w => pc'[u] = pc[u]
        BY <1>9, Places, WaitMove, Threads DEF HandoffWait
      <3>3. CASE state' = state
        BY <3>1, <3>2, <3>3
      <3>4. CASE state' = [state EXCEPT ![idx[w]] = "WAITING"]
        <4>1. \A v \in Waiter : v # w /\ pc[v] \in Owning => state'[idx[v]] = state[idx[v]]
          BY <3>1, <3>4 DEF TypeInv
        <4>. QED
          BY <3>1, <3>2, <4>1
      <3>. QED
        BY <1>9, <3>3, <3>4 DEF HandoffWait
    <2>2. w \in Inside /\ head' = head
      BY <1>9 DEF HandoffWait, Inside
    <2>3. CASE state[idx[w]] = "EARLY_DELIVERY"
      <3>1. Served(w) /\ pc'[w] = "recycle"
        BY <1>9, <2>3, Places, WaitMove DEF HandoffWait, Served, OwnInv, Owning, InHandoff
      <3>2. /\ Delivering' = Delivering
            /\ idx[w] \in Delivered /\ Delivered' = Delivered \ {idx[w]}
        BY <2>1, <3>1, WaiterServes DEF Served
      <3>3. Cardinality(Delivered') = Cardinality(Delivered) - 1
        BY <1>0, <3>2, FS_RemoveElement
      <3>4. Cardinality(Delivered) # 0
        BY <1>0, <3>2, FS_EmptySet
      <3>5. Inside' = Inside \ {w}
        BY <2>1, <3>1, InsideStep
      <3>6. Tokens > 0 /\ Tokens' = Tokens - 1
        BY <1>0, <2>2, <3>2, <3>3, <3>4 DEF Tokens, Value
      <3>. QED
        BY <2>2, <3>5, <3>6 DEF Leaves
    <2>4. CASE state[idx[w]] # "EARLY_DELIVERY"
      <3>1. ~Served(w) /\ ~Served(w)' /\ pc'[w] = "futexWait"
        BY <1>9, <2>4, Places, WaitMove DEF HandoffWait, Served, TypeInv, OwnInv, BatonInv, Owning, InHandoff
      <3>2. Delivering' = Delivering /\ Delivered' = Delivered
        BY <2>1, <3>1, WaiterServes
      <3>3. Inside' = Inside
        BY <2>1, <2>2, <3>1, InsideStep
      <3>. QED
        BY <2>2, <3>2, <3>3 DEF Same, Tokens, Value
    <2>. QED
      BY <2>3, <2>4
  <1>10. ASSUME NEW w \in Waiter, FutexWait(w)
        PROVE  Same
    <2>1. /\ w \in Thread /\ \A u \in Thread : u # w => pc'[u] = pc[u] /\ idx'[u] = idx[u]
          /\ \A v \in Waiter : v # w /\ pc[v] \in Owning => state'[idx[v]] = state[idx[v]]
      BY <1>10, Places, WaitMove, Threads
      DEF FutexWait, TypeInv, OwnInv, Owning, InHandoff
    <2>2. /\ pc[w] \notin {"idle", "recycle"} /\ pc'[w] \notin {"idle", "recycle"}
          /\ state' = state /\ idx' = idx /\ head' = head
      BY <1>10, Places, WaitMove DEF FutexWait
    <2>3. Delivered' = Delivered /\ Delivering' = Delivering
      BY <2>1, <2>2, Threads, SameDelivered DEF Served, Delivering
    <2>4. Inside' = Inside
      BY <2>1, <2>2, InsideStep DEF Inside
    <2>. QED
      BY <2>2, <2>3, <2>4 DEF Same, Tokens, Value
  <1>11. ASSUME NEW w \in Waiter, Check(w)
        PROVE  Same \/ Leaves(w)
    <2>1. /\ w \in Thread /\ \A u \in Thread : u # w => pc'[u] = pc[u] /\ idx'[u] = idx[u]
          /\ \A v \in Waiter : v # w /\ pc[v] \in Owning => state'[idx[v]] = state[idx[v]]
      BY <1>11, Places, WaitMove, Threads
      DEF Check, TypeInv, OwnInv, Owning, InHandoff
    <2>2. w \in Inside /\ head' = head
      BY <1>11 DEF Check, Inside
    <2>3. CASE state[idx[w]] = "LATE_DELIVERY"
      <3>1. Served(w) /\ pc'[w] = "recycle"
        BY <1>11, <2>3, Places, WaitMove DEF Check, Served, OwnInv, Owning, InHandoff
      <3>2. /\ Delivering' = Delivering
            /\ idx[w] \in Delivered /\ Delivered' = Delivered \ {idx[w]}
        BY <2>1, <3>1, WaiterServes DEF Served
      <3>3. Cardinality(Delivered') = Cardinality(Delivered) - 1
        BY <1>0, <3>2, FS_RemoveElement
      <3>4. Cardinality(Delivered) # 0
        BY <1>0, <3>2, FS_EmptySet
      <3>5. Inside' = Inside \ {w}
        BY <2>1, <3>1, InsideStep
      <3>6. Tokens > 0 /\ Tokens' = Tokens - 1
        BY <1>0, <2>2, <3>2, <3>3, <3>4 DEF Tokens, Value
      <3>. QED
        BY <2>2, <3>5, <3>6 DEF Leaves
    <2>4. CASE state[idx[w]] # "LATE_DELIVERY"
      <3>1. ~Served(w) /\ ~Served(w)' /\ pc'[w] = "futexWait"
        BY <1>11, <2>4, Places, WaitMove DEF Check, Served, TypeInv, OwnInv, BatonInv, Owning, InHandoff
      <3>2. Delivering' = Delivering /\ Delivered' = Delivered
        BY <2>1, <3>1, WaiterServes
      <3>3. Inside' = Inside
        BY <2>1, <2>2, <3>1, InsideStep
      <3>. QED
        BY <2>2, <3>2, <3>3 DEF Same, Tokens, Value
    <2>. QED
      BY <2>3, <2>4
  <1>12. ASSUME NEW w \in Waiter, SpuriousWake(w)
        PROVE  Same
    <2>1. /\ w \in Thread /\ \A u \in Thread : u # w => pc'[u] = pc[u] /\ idx'[u] = idx[u]
          /\ \A v \in Waiter : v # w /\ pc[v] \in Owning => state'[idx[v]] = state[idx[v]]
      BY <1>12, Places, WaitMove, Threads
      DEF SpuriousWake, TypeInv, OwnInv, Owning, InHandoff
    <2>2. /\ pc[w] \notin {"idle", "recycle"} /\ pc'[w] \notin {"idle", "recycle"}
          /\ state' = state /\ idx' = idx /\ head' = head
      BY <1>12, Places, WaitMove DEF SpuriousWake
    <2>3. Delivered' = Delivered /\ Delivering' = Delivering
      BY <2>1, <2>2, Threads, SameDelivered DEF Served, Delivering
    <2>4. Inside' = Inside
      BY <2>1, <2>2, InsideStep DEF Inside
    <2>. QED
      BY <2>2, <2>3, <2>4 DEF Same, Tokens, Value
  <1>13. ASSUME NEW t \in Poster, Post(t)
        PROVE  Same
    <2>1. t \in Thread /\ \A u \in Thread : u # t => pc'[u] = pc[u] /\ idx'[u] = idx[u]
      BY <1>13, Places, PostMove, Threads DEF Post, TypeInv
    <2>2. Inside' = Inside
      BY <2>1, InsideStep
    <2>3. Delivered' = Delivered
      BY <1>13, <2>1, Threads DEF Post, Delivered
    <2>4. Delivering' = Delivering
      BY <1>13, <2>1, Places, PostMove, Threads DEF Post, Delivering, Posting
    <2>. QED
      BY <1>13, <2>2, <2>3, <2>4 DEF Post, Same, Tokens, Value
  <1>14. ASSUME NEW t \in Poster, IncrOrPop(t)
        PROVE  Same
    <2>1. t \in Thread /\ \A u \in Thread : u # t => pc'[u] = pc[u] /\ idx'[u] = idx[u]
      BY <1>14, Places, PostMove, Threads DEF IncrOrPop, TypeInv
    <2>2. Inside' = Inside
      BY <2>1, InsideStep
    <2>3. Delivered' = Delivered
      BY <1>14, <2>1, Threads DEF IncrOrPop, Delivered
    <2>4. Delivering' = Delivering
      BY <1>14, <2>1, Places, PostMove, Threads DEF IncrOrPop, Delivering, Posting
    <2>. QED
      BY <1>14, <2>2, <2>3, <2>4 DEF IncrOrPop, Same, Tokens, Value
  <1>15. ASSUME NEW t \in Poster, Incr(t)
        PROVE  Same \/ Posts
    <2>1. t \in Thread /\ \A u \in Thread : u # t => pc'[u] = pc[u] /\ idx'[u] = idx[u]
      BY <1>15, Places, PostMove, Threads DEF Incr, TypeInv
    <2>2. Inside' = Inside
      BY <2>1, InsideStep
    <2>3. Delivered' = Delivered
      BY <1>15, <2>1, Threads DEF Incr, Delivered
    <2>4. Delivering' = Delivering
      BY <1>15, <2>1, Places, PostMove, Threads DEF Incr, Delivering, Posting
    <2>5. Value' = Value \/ Value' = Value + 1
      BY <1>15 DEF Incr, HeadInv, PosterLoaded, withValueIncr, Value
    <2>. QED
      BY <1>0, <2>2, <2>3, <2>4, <2>5 DEF Same, Posts, Tokens
  <1>16. ASSUME NEW t \in Poster, ReadNext(t)
        PROVE  Same
    <2>1. t \in Thread /\ \A u \in Thread : u # t => pc'[u] = pc[u] /\ idx'[u] = idx[u]
      BY <1>16, Places, PostMove, Threads DEF ReadNext, TypeInv
    <2>2. Inside' = Inside
      BY <2>1, InsideStep
    <2>3. Delivered' = Delivered
      BY <1>16, <2>1, Threads DEF ReadNext, Delivered
    <2>4. Delivering' = Delivering
      BY <1>16, <2>1, Places, PostMove, Threads DEF ReadNext, Delivering, Posting
    <2>. QED
      BY <1>16, <2>2, <2>3, <2>4 DEF ReadNext, Same, Tokens, Value
  <1>17. ASSUME NEW t \in Poster, Pop(t)
        PROVE  Same \/ Posts
    <2>1. t \in Thread /\ \A u \in Thread : u # t => pc'[u] = pc[u] /\ idx'[u] = idx[u]
      BY <1>17, Places, PostMove, Threads DEF Pop, TypeInv
    <2>2. Inside' = Inside
      BY <2>1, InsideStep
    <2>3. Delivered' = Delivered
      BY <1>17, <2>1, Threads DEF Pop, Delivered
    <2>4. t \notin Delivering
      BY <1>17 DEF Pop, Delivering, Posting
    <2>5. CASE head = h[t] /\ head' = withPop(h[t], under[t]) /\ Goto(t, "deliver")
      <3>1. Value = 0 /\ Value' = 0
        BY <1>17, <2>5 DEF Pop, HeadInv, PosterLoaded, withPop, Value
      <3>2. pc'[t] \in Posting
        BY <2>5, Places, PostMove DEF Posting
      <3>3. Delivering' = Delivering \cup {t}
        BY <2>1, <3>2, Threads DEF Delivering
      <3>4. Cardinality(Delivering') = Cardinality(Delivering) + 1
        BY <1>0, <2>4, <3>3, FS_AddElement
      <3>. QED
        BY <1>0, <2>2, <2>3, <3>1, <3>4 DEF Posts, Tokens
    <2>6. CASE head # h[t] /\ UNCHANGED head /\ Goto(t, "incrOrPop")
      <3>1. pc'[t] \notin Posting
        BY <2>6, Places, PostMove DEF Posting
      <3>2. Delivering' = Delivering
        BY <2>1, <2>4, <3>1, Threads DEF Delivering
      <3>. QED
        BY <2>2, <2>3, <2>6, <3>2 DEF Same, Tokens, Value
    <2>. QED
      BY <1>17, <2>5, <2>6 DEF Pop
  <1>18. ASSUME NEW t \in Poster, Deliver(t)
        PROVE  Same
    <2>1. t \in Thread /\ \A u \in Thread : u # t => pc'[u] = pc[u] /\ idx'[u] = idx[u]
      BY <1>18, Places, PostMove, Threads DEF Deliver, TypeInv
    <2>2. Inside' = Inside
      BY <2>1, InsideStep
    <2>3. Delivered' = Delivered
      BY <1>18, <2>1, Threads DEF Deliver, Delivered
    <2>4. Delivering' = Delivering
      BY <1>18, <2>1, Places, PostMove, Threads DEF Deliver, Delivering, Posting
    <2>. QED
      BY <1>18, <2>2, <2>3, <2>4 DEF Deliver, Same, Tokens, Value
  <1>19. ASSUME NEW t \in Poster, Early(t)
        PROVE  Same
    <2>1. t \in Thread /\ \A u \in Thread : u # t => pc'[u] = pc[u] /\ idx'[u] = idx[u]
      BY <1>19, Places, PostMove, Threads DEF Early, TypeInv
    <2>2. Inside' = Inside
      BY <2>1, InsideStep
    <2>3. pc[t] \in Posting /\ idx[t] \in Nodes /\ state[idx[t]] \in {"INIT", "WAITING"}
      BY <1>19 DEF Early, PostInv, Posting
    <2>4. t \in Delivering
      BY <2>3 DEF Delivering
    <2>5. CASE /\ state' = [state EXCEPT ![idx[t]] = "EARLY_DELIVERY"]
               /\ Goto(t, "idle")
      <3>. QED
        <4>1. pc'[t] \notin Posting
          BY <1>19, <2>5, Places, PostMove DEF Early, Posting
        <4>2. Delivering' = Delivering \ {t}
          BY <2>1, <4>1, Threads DEF Delivering
        <4>3. PICK w \in Waiter : pc[w] \in InHandoff /\ idx[w] = idx[t]
          BY <2>3 DEF PostInv
        <4>4. state'[idx[t]] = "EARLY_DELIVERY" /\ \A i \in Nodes : i # idx[t] => state'[i] = state[i]
          BY <1>19, <2>5, <2>3 DEF Early, TypeInv
        <4>5. \A v \in Waiter : pc'[v] = pc[v] /\ idx'[v] = idx[v]
          BY <2>1, Threads
        <4>6. idx[t] \notin Delivered
          BY <2>3 DEF Delivered
        <4>7. Delivered' = Delivered \cup {idx[t]}
          <5>1. \A v \in Waiter : idx[v] # idx[t] => (Served(v)' <=> Served(v))
            BY <4>4, <4>5 DEF Served
          <5>2. Served(w)'
            BY <2>3, <4>3, <4>4, <4>5 DEF Served, InHandoff
          <5>. QED
            BY <2>3, <4>3, <4>5, <4>6, <5>1, <5>2, DeliveredServed
        <4>8. /\ Cardinality(Delivering') = Cardinality(Delivering) - 1
              /\ Cardinality(Delivered') = Cardinality(Delivered) + 1
          BY <1>0, <2>4, <4>2, <4>6, <4>7, FS_RemoveElement, FS_AddElement
        <4>. QED
          BY <1>0, <1>19, <2>2, <4>8 DEF Early, Same, Tokens, Value
    <2>6. CASE Goto(t, "late") /\ UNCHANGED <<state, idx>>
      <3>1. pc'[t] \in Posting
        BY <2>6, Places, PostMove DEF Posting
      <3>2. Delivering' = Delivering
        BY <2>1, <2>3, <3>1, Threads DEF Delivering
      <3>3. Delivered' = Delivered
        BY <2>1, <2>6, Threads DEF Delivered
      <3>. QED
        BY <1>19, <2>2, <3>2, <3>3 DEF Early, Same, Tokens, Value
    <2>. QED
      BY <1>19, <2>5, <2>6 DEF Early
  <1>20. ASSUME NEW t \in Poster, Late(t)
        PROVE  Same
    <2>1. t \in Thread /\ \A u \in Thread : u # t => pc'[u] = pc[u] /\ idx'[u] = idx[u]
      BY <1>20, Places, PostMove, Threads DEF Late, TypeInv
    <2>2. Inside' = Inside
      BY <2>1, InsideStep
    <2>3. pc[t] \in Posting /\ idx[t] \in Nodes /\ state[idx[t]] \in {"INIT", "WAITING"}
      BY <1>20 DEF Late, PostInv, Posting
    <2>4. t \in Delivering
      BY <2>3 DEF Delivering
    <2>5. pc'[t] \notin Posting
      BY <1>20, Places, PostMove DEF Late, Posting
    <2>6. Delivering' = Delivering \ {t}
      BY <2>1, <2>5, Threads DEF Delivering
    <2>7. PICK w \in Waiter : pc[w] \in InHandoff /\ idx[w] = idx[t]
      BY <2>3 DEF PostInv
    <2>8. state'[idx[t]] = "LATE_DELIVERY" /\ \A i \in Nodes : i # idx[t] => state'[i] = state[i]
      BY <1>20, <2>3 DEF Late, TypeInv
    <2>9. \A v \in Waiter : pc'[v] = pc[v] /\ idx'[v] = idx[v]
      BY <2>1, Threads
    <2>10. idx[t] \notin Delivered
      BY <2>3 DEF Delivered
    <2>11. Delivered' = Delivered \cup {idx[t]}
      <3>1. \A v \in Waiter : idx[v] # idx[t] => (Served(v)' <=> Served(v))
        BY <2>8, <2>9 DEF Served
      <3>2. Served(w)'
        BY <2>3, <2>7, <2>8, <2>9 DEF Served, InHandoff
      <3>. QED
        BY <2>3, <2>7, <2>9, <2>10, <3>1, <3>2, DeliveredServed
    <2>12. /\ Cardinality(Delivering') = Cardinality(Delivering) - 1
          /\ Cardinality(Delivered') = Cardinality(Delivered) + 1
      BY <1>0, <2>4, <2>6, <2>10, <2>11, FS_RemoveElement, FS_AddElement
    <2>. QED
      BY <1>0, <1>20, <2>2, <2>12 DEF Late, Same, Tokens, Value
  <1>21. ASSUME NEW t \in Poster, FutexWake(t)
        PROVE  Same
    <2>1. PICK S \in SUBSET Waiter :
            /\ \A w \in S : pc[w] = "asleep" /\ pc'[w] = "check"
            /\ pc'[t] = "idle"
            /\ \A u \in Thread : u # t /\ u \notin S => pc'[u] = pc[u]
      BY <1>21, WakeMove
    <2>2. /\ \A w \in Waiter : pc'[w] = pc[w] \/ (pc[w] = "asleep" /\ pc'[w] = "check")
          /\ \A u \in Poster : pc'[u] \in Posting <=> pc[u] \in Posting
      BY <1>21, <2>1, Threads DEF FutexWake, Posting
    <2>3. state' = state /\ head' = head /\ \A w \in Waiter : idx'[w] = idx[w]
      BY <1>21, Threads DEF FutexWake, TypeInv
    <2>4. Delivering' = Delivering
      BY <2>2 DEF Delivering
    <2>5. Delivered' = Delivered
      BY <2>2, <2>3, SameDelivered DEF Served
    <2>6. Inside' = Inside
      BY <2>2 DEF Inside
    <2>. QED
      BY <2>3, <2>4, <2>5, <2>6 DEF Same, Tokens, Value
  <1>22. CASE UNCHANGED vars
    BY <1>22 DEF vars, Same, Tokens, Value, Delivering, Delivered, Inside
  <1>. QED
    BY <1>1, <1>2, <1>3, <1>4, <1>5, <1>6, <1>7, <1>8, <1>9, <1>10, <1>11, <1>12, <1>13, <1>14, <1>15, <1>16, <1>17, <1>18, <1>19, <1>20, <1>21, <1>22
    DEF Next, WaitStep, PostStep, Done

(***************************************************************************)
(* LifoSem implements a semaphore for every number of threads and nodes:   *)
(* a wait() returns with a token that it alone takes, no post() is lost or *)
(* counted twice, through the value, the handoff and the recycled nodes.   *)
(***************************************************************************)
THEOREM SemaphoreCorrect == Spec => ImplementsSemaphore
  <1>1. Init => Sem!SemInit
    <2>. SUFFICES ASSUME Init
                  PROVE  Sem!SemInit
      OBVIOUS
    <2>1. IInv
      BY InitInv
    <2>2. Value = 0 /\ Inside = {} /\ Delivering = {} /\ Delivered = {}
      BY Threads DEF Init, fresh, Value, Inside, Delivering, Delivered, Posting
    <2>3. Tokens = 0
      BY <2>2, FS_EmptySet DEF Tokens
    <2>. QED
      BY <2>2, <2>3 DEF Sem!SemInit, Tokens, Value, Delivering, Posting, Inside
  <1>2. IInv /\ IInv' /\ [Next]_vars => [Sem!SemNext]_<<Tokens, Inside>>
    <2>. SUFFICES ASSUME IInv, IInv', [Next]_vars
                  PROVE  [Sem!SemNext]_<<Tokens, Inside>>
      OBVIOUS
    <2>1. CASE Same
      BY <2>1 DEF Same
    <2>2. CASE Posts
      BY <2>2 DEF Posts, Sem!SemNext, Sem!Post, Tokens, Value, Delivering, Posting, Inside
    <2>3. ASSUME NEW w \in Waiter, Enters(w)
          PROVE  Sem!WaitCall(w)
      BY <2>3 DEF Enters, Sem!WaitCall, Tokens, Value, Delivering, Posting, Inside
    <2>4. ASSUME NEW w \in Waiter, Leaves(w)
          PROVE  Sem!WaitReturn(w)
      BY <2>4 DEF Leaves, Sem!WaitReturn, Tokens, Value, Delivering, Posting, Inside
    <2>. QED
      BY <2>1, <2>2, <2>3, <2>4, SemaphoreStep DEF Sem!SemNext
  <1>. QED
    BY <1>1, <1>2, Invariance, PTL
    DEF Spec, ImplementsSemaphore, Sem!SemSpec, Tokens, Value, Delivering, Posting, Inside

====
