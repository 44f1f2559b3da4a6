--------------------------- MODULE ClientsProofs ---------------------------
(***************************************************************************)
(* Clients that create and drop vectors, for every size of the ring of     *)
(* cont_heat and every number of workers and operations: if they are       *)
(* careful, no task and no resolution refers to a vector that is gone; and *)
(* careful or not, what an operation finds in a tracker depends on what    *)
(* earlier dependents at the same address have left there.                 *)
(***************************************************************************)
EXTENDS Clients, CommonProofs

USE HWCONCAssumption, MaxOpsAssumption, TStoreAssumption, FreeAssumption

(* Division with remainder, and that quotient and remainder are the only ones. *)
LEMMA Remainder ==
  ASSUME NEW a \in Nat, NEW n \in Nat \ {0}
  PROVE  /\ a % n \in 0 .. n - 1 /\ a \div n \in Nat
         /\ a = n * (a \div n) + (a % n)
  OBVIOUS

LEMMA RemainderUnique ==
  ASSUME NEW n \in Nat \ {0}, NEW q \in Nat, NEW r \in 0 .. n - 1
  PROVE  (n * q + r) % n = r
  <1>. DEFINE a == n * q + r
              p == a \div n
              s == a % n
  <1>1. a \in Nat
    <2>1. n * 0 <= n * q
      BY MulMonotonic
    <2>. QED
      BY <2>1
  <1>2. s \in 0 .. n - 1 /\ p \in Nat /\ a = n * p + s
    BY <1>1, Remainder
  <1>. HIDE DEF p, s
  <1>3. p = q
    <2>1. CASE p < q
      <3>1. n * (p + 1) <= n * q
        BY <1>2, <2>1, MulMonotonic
      <3>2. n * (p + 1) = n * p + n
        BY <1>2
      <3>. QED
        BY <1>2, <3>1, <3>2
    <2>2. CASE q < p
      <3>1. n * (q + 1) <= n * p
        BY <1>2, <2>2, MulMonotonic
      <3>2. n * (q + 1) = n * q + n
        OBVIOUS
      <3>. QED
        BY <1>2, <3>1, <3>2
    <2>. QED
      BY <1>2, <2>1, <2>2
  <1>4. s = r
    BY <1>2, <1>3
  <1>. QED
    BY <1>4 DEF s

(* The slots of the ring: consecutive vectors take consecutive ones. *)
LEMMA Slots ==
  ASSUME NEW n \in Nat \ {0}, NEW a \in Nat
  PROVE  /\ a < n => a % n = a
         /\ a >= n => (a - n) % n = a % n
         /\ (a + 1) % n = IF a % n = n - 1 THEN 0 ELSE (a % n) + 1
  <1>. DEFINE q == a \div n
              r == a % n
  <1>1. r \in 0 .. n - 1 /\ q \in Nat /\ a = n * q + r
    BY Remainder
  <1>2. q + 1 \in Nat /\ n * (q + 1) = n * q + n
    BY <1>1
  <1>. HIDE DEF q, r
  <1>3. ASSUME a < n
        PROVE  a % n = a
    <2>1. a \in 0 .. n - 1 /\ a = n * 0 + a
      BY <1>3
    <2>. QED
      BY <2>1, RemainderUnique
  <1>4. ASSUME a >= n
        PROVE  (a - n) % n = r
    <2>1. q # 0
      <3>. SUFFICES ASSUME q = 0
                    PROVE  FALSE
        OBVIOUS
      <3>1. n * q = 0
        OBVIOUS
      <3>. QED
        BY <1>1, <1>4, <3>1
    <2>2. q - 1 \in Nat /\ n * (q - 1) = n * q - n
      BY <1>1, <2>1
    <2>3. a - n = n * (q - 1) + r
      BY <1>1, <2>2
    <2>. QED
      BY <1>1, <2>2, <2>3, RemainderUnique
  <1>5. CASE r = n - 1
    <2>1. a + 1 = n * (q + 1) + 0
      BY <1>1, <1>2, <1>5
    <2>2. (a + 1) % n = 0
      BY <1>2, <2>1, RemainderUnique
    <2>. QED
      BY <1>3, <1>4, <1>5, <2>2 DEF r
  <1>6. CASE r # n - 1
    <2>1. a + 1 = n * q + (r + 1) /\ r + 1 \in 0 .. n - 1
      BY <1>1, <1>6
    <2>2. (a + 1) % n = r + 1
      BY <1>1, <2>1, RemainderUnique
    <2>. QED
      BY <1>3, <1>4, <1>6, <2>2 DEF r
  <1>. QED
    BY <1>5, <1>6

(* Vectors less than the size of the ring apart have slots of their own. *)
LEMMA OwnSlot ==
  ASSUME NEW n \in Nat \ {0}, NEW a \in Nat, NEW b \in Nat, a < b, b - a < n
  PROVE  a % n # b % n
  <1>. DEFINE p == a \div n
              q == b \div n
  <1>. SUFFICES ASSUME a % n = b % n
                PROVE  FALSE
    OBVIOUS
  <1>1. p \in Nat /\ q \in Nat /\ a = n * p + (a % n) /\ b = n * q + (a % n) /\ a % n \in Nat
    <2>1. p \in Nat /\ a = n * p + (a % n) /\ a % n \in Nat
      BY Remainder
    <2>2. q \in Nat /\ b = n * q + (b % n)
      BY Remainder
    <2>. QED
      BY <2>1, <2>2
  <1>. HIDE DEF p, q
  <1>2. CASE q <= p
    <2>1. n * q <= n * p
      BY <1>1, <1>2, MulMonotonic
    <2>2. n * p \in Nat /\ n * q \in Nat
      BY <1>1
    <2>. QED
      BY <1>1, <2>1, <2>2
  <1>3. CASE p < q
    <2>1. n * (p + 1) <= n * q /\ n * (p + 1) = n * p + n
      BY <1>1, <1>3, MulMonotonic
    <2>2. n * p \in Nat /\ n * q \in Nat
      BY <1>1
    <2>. QED
      BY <1>1, <2>1, <2>2
  <1>. QED
    BY <1>1, <1>2, <1>3

-----------------------------------------------------------------------------
MadeOp == [kind : Kind, src : Vector, other : Vector]

(* What there is of each vector and operation; a dependent is newer than its source. *)
RecordsInv ==
  /\ live \subseteq 0 .. issued
  /\ DOMAIN at = 0 .. issued
  /\ made \in Seq(MadeOp) /\ Len(made) = issued
  /\ \A k \in 1 .. issued : /\ made[k].src < k /\ made[k].other < k
                            /\ made[k].kind = "foreach_cvec" <=> made[k].src # made[k].other
  /\ DOMAIN tracker = 0 .. issued

(* A careful client drops nothing that was in use when finish() was last called. *)
RecentInv ==
  Careful => \A k \in finished + 1 .. issued : {k} \cup Arguments(k) \subseteq live

(* No later vector is where one that is still there is. *)
AddressInv == \A k \in live : \A j \in 1 .. issued : k < j => at[j] # at[k]

(* Operations on v whose dependents were placed at a. *)
Users(v, a) == {j \in 1 .. issued : v \in Arguments(j) /\ at[j] = a}

(* The maps of a stencil after the first, and all that entries ever have. *)
is(imap, op) == [imap |-> imap, op |-> op]
Offsets == <<is(offset(-1), <<"multplus", -1>>), is(offset(0), <<"multplus", 0>>),
             is(offset(1), <<"multplus", 1>>)>>
Maps == {is(alltoone(0), "plus"), is(identity, "mult"), is(identity, "plus")}
        \cup {Offsets[i] : i \in 1 .. 3}
EntryType == [imaps : Seq(Maps), frozen : Seq(Vector)]

(* The entry of reduces, and that of foreachs. *)
Sole(kind) ==
  IF kind = "reduce" THEN Fresh(alltoone(0), "plus") ELSE Fresh(identity, "mult")

(* Of the entry e that the users J made for vector v: it has maps, and never *)
(* only the first map of a stencil; what is frozen in it belongs to a foreach *)
(* with another vector; and users of one kind find it as the first has left it. *)
MapsOK(e) ==
  e \in EntryType /\ e.imaps # <<>> /\ e.imaps # <<is(identity, "plus")>>
FrozenOK(e, v, J, ops) ==
  \A i \in DOMAIN e.frozen :
    \E j \in J : ops[j].src = v /\ ops[j].other = e.frozen[i] /\ e.frozen[i] # v
SoleOK(e, J, ops) ==
  \A kind \in {"reduce", "foreach"} :
    (\A j \in J : ops[j].kind = kind) => e = Sole(kind)

EntryOK(e, v, J, ops) == MapsOK(e) /\ FrozenOK(e, v, J, ops) /\ SoleOK(e, J, ops)

(* A tracker has an entry for an address exactly if it had a dependent there. *)
TrackInv ==
  \A v \in 0 .. issued :
    /\ \A a : a \in DOMAIN tracker[v] <=> Users(v, a) # {}
    /\ \A a \in DOMAIN tracker[v] : EntryOK(tracker[v][a], v, Users(v, a), made)

(* At an address of its own an operation has the entry it wants; a stencil *)
(* at one that was used has not.                                           *)
FitsInv ==
  \A k \in live \ {0} :
    LET e == tracker[made[k].src][at[k]]
    IN  /\ rruns[k] = 0 /\ Before(k) = {} => e = Wanted(made[k])
        /\ made[k].kind = "stencil" /\ Before(k) # {} => e.imaps # Wanted(made[k]).imaps

LifeInv ==
  ExecutorInv /\ RecordsInv /\ RecentInv /\ AddressInv /\ TrackInv /\ FitsInv

(* What a task or a resolution still refers to was issued after finish() last returned. *)
LEMMA PendingRecent ==
  ASSUME ExecutorInv
  PROVE  Pending \subseteq finished + 1 .. issued
  <1>. SUFFICES ASSUME NEW k \in Pending
                PROVE  k \in finished + 1 .. issued
    OBVIOUS
  <1>1. /\ k \in 1 .. issued /\ k \in Op /\ issued \in Nat /\ finished \in Nat
        /\ \A p \in Worker : tdone[p] \in Nat /\ finished <= tdone[p]
        /\ \/ \E p \in Worker : tdone[p] < k
           \/ rruns[k] = 0
           \/ resolving = k
    BY DEF Pending, ExecutorInv, ExecutorTypeOK, IssuedInv, Op
  <1>2. k <= finished => rruns[k] >= 1 /\ resolving # k
    BY <1>1 DEF ExecutorInv, FinishedInv, Op
  <1>. QED
    BY <1>1, <1>2

(* What an operation is made from has been made, and its vector is there. *)
LEMMA MadeOf ==
  ASSUME LifeInv, NEW k \in 1 .. issued
  PROVE  /\ issued \in Nat /\ issued <= MaxOps
         /\ made[k] \in MadeOp /\ k \in 0 .. issued
         /\ made[k].src \in 0 .. issued /\ made[k].src # k
         /\ made[k].other \in 0 .. issued /\ made[k].other # k
         /\ at[k] \in DOMAIN tracker[made[k].src]
         /\ k \in Users(made[k].src, at[k])
  <1>1. /\ issued \in Nat /\ issued <= MaxOps /\ made \in Seq(MadeOp) /\ Len(made) = issued
        /\ made[k].src < k /\ made[k].other < k
    BY DEF LifeInv, ExecutorInv, ExecutorTypeOK, RecordsInv
  <1>2. made[k] \in MadeOp /\ made[k].src \in Nat /\ made[k].other \in Nat
    <2>1. made[k] \in MadeOp
      BY <1>1
    <2>. QED
      BY <2>1 DEF MadeOp, Vector
  <1>3. k \in Users(made[k].src, at[k])
    BY DEF Users, Arguments
  <1>4. made[k].src \in 0 .. issued
    BY <1>1, <1>2
  <1>5. at[k] \in DOMAIN tracker[made[k].src]
    BY <1>3, <1>4 DEF LifeInv, TrackInv
  <1>. QED
    BY <1>1, <1>2, <1>3, <1>4, <1>5

(* The invariant gives the properties. *)
LEMMA LifeSafe == LifeInv => (Careful => NoneDangling) /\ TrackerFits
  <1>. SUFFICES ASSUME LifeInv
                PROVE  (Careful => NoneDangling) /\ TrackerFits
    OBVIOUS
  <1>1. Careful => NoneDangling
    BY PendingRecent DEF LifeInv, RecentInv, NoneDangling
  <1>. SUFFICES ASSUME NEW k \in live \ {0}, rruns[k] = 0
                PROVE  LET kinds == {made[j].kind : j \in Before(k)}
                           fits  == tracker[made[k].src][at[k]] = Wanted(made[k])
                       IN  /\ kinds \subseteq {made[k].kind} \cap {"reduce", "foreach"} => fits
                           /\ made[k].kind = "stencil" /\ fits => kinds = {}
    BY <1>1 DEF TrackerFits
  <1>. DEFINE s == made[k].src
              kinds == {made[j].kind : j \in Before(k)}
              e == tracker[s][at[k]]
  <1>2. k \in 1 .. issued
    BY DEF LifeInv, RecordsInv
  <1>3. /\ s \in 0 .. issued /\ at[k] \in DOMAIN tracker[s] /\ k \in Users(s, at[k])
        /\ made[k] \in MadeOp
    BY <1>2, MadeOf
  <1>4. /\ Before(k) = {} => e = Wanted(made[k])
        /\ made[k].kind = "stencil" /\ Before(k) # {} => e.imaps # Wanted(made[k]).imaps
    BY DEF LifeInv, FitsInv
  <1>5. ASSUME kinds \subseteq {made[k].kind} \cap {"reduce", "foreach"}, Before(k) # {}
        PROVE  e = Wanted(made[k])
    <2>1. made[k].kind \in {"reduce", "foreach"}
      BY <1>5
    <2>2. ASSUME NEW j \in Users(s, at[k])
          PROVE  made[j].kind = made[k].kind
      <3>1. j \in 1 .. issued /\ s \in Arguments(j) /\ at[j] = at[k]
        BY DEF Users
      <3>2. j \in Nat /\ k \in Nat /\ j <= k
        <4>1. issued \in Nat /\ ~(k < j)
          BY <1>2, <3>1, MadeOf DEF LifeInv, AddressInv
        <4>. QED
          BY <1>2, <3>1, <4>1
      <3>3. j < k => j \in Before(k)
        <4>1. s \in Arguments(j) \cap Arguments(k)
          BY <3>1 DEF Arguments
        <4>2. j < k => j \in 1 .. k - 1
          BY <1>2, <3>1, <3>2
        <4>. QED
          BY <3>1, <4>1, <4>2 DEF Before
      <3>4. \A i \in Before(k) : made[i].kind = made[k].kind
        BY <1>5
      <3>. QED
        BY <3>2, <3>3, <3>4
    <2>3. EntryOK(e, s, Users(s, at[k]), made)
      BY <1>3 DEF LifeInv, TrackInv
    <2>4. e = Sole(made[k].kind)
      BY <2>1, <2>2, <2>3 DEF EntryOK, SoleOK
    <2>. QED
      BY <2>1, <2>4 DEF Sole, Wanted, Fresh, Entry
  <1>. HIDE DEF e, s
  <1>6. made[k].kind = "stencil" /\ e = Wanted(made[k]) => kinds = {}
    BY <1>4
  <1>7. kinds \subseteq {made[k].kind} \cap {"reduce", "foreach"} => e = Wanted(made[k])
    BY <1>4, <1>5
  <1>. QED
    BY <1>6, <1>7 DEF e, s

-----------------------------------------------------------------------------
(* The maps of entries. *)
LEMMA MapTypes ==
  /\ is(identity, "mult") \in Maps /\ is(offset(-1), <<"multplus", -1>>) \in Maps
  /\ is(offset(0), <<"multplus", 0>>) \in Maps /\ is(offset(1), <<"multplus", 1>>) \in Maps
  /\ Fresh(identity, "plus") \in EntryType /\ Fresh(identity, "mult") \in EntryType
  /\ Fresh(alltoone(0), "plus") \in EntryType
  <1>1. \A i \in 1 .. 3 : Offsets[i] \in Maps
    BY DEF Maps
  <1>2. /\ is(offset(-1), <<"multplus", -1>>) = Offsets[1]
        /\ is(offset(0), <<"multplus", 0>>) = Offsets[2]
        /\ is(offset(1), <<"multplus", 1>>) = Offsets[3]
    BY DEF Offsets
  <1>3. /\ is(identity, "mult") \in Maps /\ is(identity, "plus") \in Maps
        /\ is(alltoone(0), "plus") \in Maps
    BY DEF Maps
  <1>4. ASSUME NEW imap, NEW op, is(imap, op) \in Maps
        PROVE  Fresh(imap, op) \in EntryType
    <2>1. Fresh(imap, op) = [imaps |-> <<is(imap, op)>>, frozen |-> <<>>]
      BY DEF Fresh, Entry, is
    <2>2. <<is(imap, op)>> \in Seq(Maps) /\ <<>> \in Seq(Vector)
      BY <1>4
    <2>. QED
      BY <2>1, <2>2 DEF EntryType
  <1>. QED
    BY <1>1, <1>2, <1>3, <1>4

(* Trackers t after one freeze of v for a dependent at a: the entry there is e. *)
Tracks(u, t, v, a, e) ==
  /\ DOMAIN u = DOMAIN t
  /\ \A w \in DOMAIN t : w # v => u[w] = t[w]
  /\ DOMAIN u[v] = DOMAIN t[v] \cup {a}
  /\ \A x \in DOMAIN t[v] : x # a => u[v][x] = t[v][x]
  /\ u[v][a] = e

(* The entry of v for a, or a fresh one. *)
Kept(t, v, a, imap, op) == IF a \in DOMAIN t[v] THEN t[v][a] ELSE Fresh(imap, op)

(* The first freeze of an operation. *)
LEMMA FirstFreeze ==
  ASSUME NEW t, NEW v \in DOMAIN t, NEW a, NEW imap, NEW op
  PROVE  Tracks([t EXCEPT ![v] = Emplaced(@, a, imap, op)], t, v, a, Kept(t, v, a, imap, op))
  <1>. DEFINE f == Emplaced(t[v], a, imap, op)
              u == [t EXCEPT ![v] = f]
  <1>1. /\ DOMAIN f = DOMAIN t[v] \cup {a} /\ f[a] = Kept(t, v, a, imap, op)
        /\ \A x \in DOMAIN t[v] : x # a => f[x] = t[v][x]
    BY DEF Emplaced, Kept
  <1>. HIDE DEF f
  <1>2. DOMAIN u = DOMAIN t /\ u[v] = f /\ \A w \in DOMAIN t : w # v => u[w] = t[w]
    OBVIOUS
  <1>3. Tracks(u, t, v, a, Kept(t, v, a, imap, op))
    BY <1>1, <1>2, Zenon DEF Tracks
  <1>. QED
    BY <1>3 DEF f

(* A second freeze finds an entry and adds a map to it. *)
LEMMA FurtherFreeze ==
  ASSUME NEW t, NEW v \in DOMAIN t, NEW cont, NEW a, a \in DOMAIN t[v], NEW imap, NEW op
  PROVE  Tracks(FrozenTwice(t, v, cont, a, imap, op), t, v, a,
                Entry(Append(t[v][a].imaps, is(imap, op)), t[v][a].frozen))
  <1>. DEFINE f == Entry(Append(t[v][a].imaps, is(imap, op)), t[v][a].frozen)
  <1>1. FrozenTwice(t, v, cont, a, imap, op) = [t EXCEPT ![v][a] = f]
    BY DEF FrozenTwice, is
  <1>. HIDE DEF f
  <1>2. Tracks([t EXCEPT ![v][a] = f], t, v, a, f)
    BY DEF Tracks
  <1>. QED
    BY <1>1, <1>2 DEF f

(* Or it finds none: the entry of cont learns of v. *)
LEMMA OtherFreeze ==
  ASSUME NEW t, NEW v \in DOMAIN t, NEW cont \in DOMAIN t, v # cont,
         NEW a, a \notin DOMAIN t[v], a \in DOMAIN t[cont], NEW imap, NEW op
  PROVE  \E u : /\ Tracks(u, t, v, a, Fresh(imap, op))
                /\ Tracks(FrozenTwice(t, v, cont, a, imap, op), u, cont, a,
                          Entry(t[cont][a].imaps, Append(t[cont][a].frozen, v)))
  <1>. DEFINE u == [t EXCEPT ![v] = Emplaced(@, a, imap, op)]
              f == Entry(t[cont][a].imaps, Append(t[cont][a].frozen, v))
              w == FrozenTwice(t, v, cont, a, imap, op)
  <1>1. Tracks(u, t, v, a, Fresh(imap, op))
    BY FirstFreeze, Zenon DEF Kept
  <1>2. w = [u EXCEPT ![cont][a] = Entry(u[cont][a].imaps, Append(u[cont][a].frozen, v))]
    BY DEF FrozenTwice
  <1>. HIDE DEF u, w
  <1>3. u[cont] = t[cont] /\ cont \in DOMAIN u
    BY <1>1 DEF Tracks
  <1>4. w = [u EXCEPT ![cont][a] = f]
    BY <1>2, <1>3
  <1>. HIDE DEF f
  <1>5. Tracks(w, u, cont, a, f)
    BY <1>3, <1>4 DEF Tracks
  <1>. QED
    BY <1>1, <1>5 DEF f, w

(* Three maps added one after the other. *)
LEMMA ThreeMore ==
  ASSUME NEW S, NEW q \in Seq(S), NEW x \in S, NEW y \in S, NEW z \in S
  PROVE  Append(Append(Append(q, x), y), z) = q \o <<x, y, z>>
  OBVIOUS

(* Two freezes of the same vector. *)
LEMMA TwoFreezes ==
  ASSUME NEW t, NEW u, NEW w, NEW v \in DOMAIN t, NEW a, NEW e, NEW f,
         Tracks(u, t, v, a, e), Tracks(w, u, v, a, f)
  PROVE  Tracks(w, t, v, a, f)
  BY DEF Tracks

-----------------------------------------------------------------------------
(* Nothing but entries for a in the trackers of vs. *)
Touches(u, t, vs, a) ==
  /\ DOMAIN u = DOMAIN t
  /\ \A v \in DOMAIN t : v \notin vs => u[v] = t[v]
  /\ \A v \in vs : /\ DOMAIN u[v] = DOMAIN t[v] \cup {a}
                   /\ \A x \in DOMAIN t[v] : x # a => u[v][x] = t[v][x]

(***************************************************************************)
(* What an operation m, whose dependent is at a, makes of the entries for  *)
(* a: those of reduces and foreachs stay, a stencil adds its offsets to    *)
(* what it finds, a foreach with another vector freezes that vector or     *)
(* adds a map to its entry.                                                *)
(***************************************************************************)
Leaves(u, t, m, a) ==
  LET s == m.src
      o == m.other
      e == Kept(t, s, a, identity, "mult")
      f == Kept(t, s, a, identity, "plus")
  IN  /\ Touches(u, t, {s, o}, a)
      /\ m.kind = "reduce"  => u[s][a] = Kept(t, s, a, alltoone(0), "plus")
      /\ m.kind = "foreach" => u[s][a] = e
      /\ m.kind = "stencil" => u[s][a] = Entry(f.imaps \o Offsets, f.frozen)
      /\ m.kind = "foreach_cvec" /\ a \in DOMAIN t[o] =>
           /\ u[s][a] = e
           /\ u[o][a] = Entry(Append(t[o][a].imaps, is(identity, "mult")), t[o][a].frozen)
      /\ m.kind = "foreach_cvec" /\ a \notin DOMAIN t[o] =>
           /\ u[s][a] = Entry(e.imaps, Append(e.frozen, o))
           /\ u[o][a] = Fresh(identity, "mult")

LEMMA FrozenIs ==
  ASSUME NEW t, NEW m \in MadeOp, NEW a, {m.src, m.other} \subseteq DOMAIN t,
         m.kind = "foreach_cvec" <=> m.src # m.other,
         \A v \in {m.src, m.other} : a \in DOMAIN t[v] => t[v][a] \in EntryType
  PROVE  Leaves(Frozen(t, m, a), t, m, a)
  <1>. DEFINE s == m.src
              o == m.other
              once(imap, op) == [t EXCEPT ![s] = Emplaced(@, a, imap, op)]
              e == Kept(t, s, a, identity, "mult")
              f == Kept(t, s, a, identity, "plus")
              u == Frozen(t, m, a)
  <1>1. s \in DOMAIN t /\ o \in DOMAIN t
    OBVIOUS
  <1>2. \A imap, op : Tracks(once(imap, op), t, s, a, Kept(t, s, a, imap, op))
    BY <1>1, FirstFreeze
  <1>3. ASSUME NEW w, NEW g, Tracks(w, t, s, a, g), s = o
        PROVE  Touches(w, t, {s, o}, a) /\ w[s][a] = g
    BY <1>3, Zenon DEF Tracks, Touches
  <1>4. CASE m.kind = "reduce"
    <2>. DEFINE g == Kept(t, s, a, alltoone(0), "plus")
    <2>1. u = once(alltoone(0), "plus")
      BY <1>4 DEF Frozen
    <2>. HIDE DEF u
    <2>2. Tracks(u, t, s, a, g)
      BY <1>2, <2>1
    <2>. HIDE DEF g
    <2>3. Touches(u, t, {s, o}, a) /\ u[s][a] = g
      BY <1>3, <1>4, <2>2
    <2>. QED
      BY <1>4, <2>3 DEF u, g, Leaves
  <1>5. CASE m.kind = "foreach"
    <2>. DEFINE g == Kept(t, s, a, identity, "mult")
    <2>1. u = once(identity, "mult")
      BY <1>5 DEF Frozen
    <2>. HIDE DEF u
    <2>2. Tracks(u, t, s, a, g)
      BY <1>2, <2>1
    <2>. HIDE DEF g
    <2>3. Touches(u, t, {s, o}, a) /\ u[s][a] = g
      BY <1>3, <1>5, <2>2
    <2>. QED
      BY <1>5, <2>3 DEF u, g, Leaves
  <1>6. CASE m.kind = "stencil"
    <2>. DEFINE offs(w, d) == FrozenTwice(w, s, s, a, offset(d), <<"multplus", d>>)
                e1 == Append(f.imaps, is(offset(-1), <<"multplus", -1>>))
                e2 == Append(e1, is(offset(0), <<"multplus", 0>>))
                e3 == Append(e2, is(offset(1), <<"multplus", 1>>))
                u1 == once(identity, "plus")
                u2 == offs(u1, -1)
                u3 == offs(u2, 0)
                u4 == offs(u3, 1)
    <2>1. u = u4
      BY <1>6 DEF Frozen
    <2>2. Tracks(u1, t, s, a, f)
      BY <1>2
    <2>. HIDE DEF u1, f
    <2>3. ASSUME NEW w, NEW g, Tracks(w, t, s, a, g), NEW d
          PROVE  Tracks(offs(w, d), t, s, a,
                        Entry(Append(g.imaps, is(offset(d), <<"multplus", d>>)), g.frozen))
      <3>1. s \in DOMAIN w /\ a \in DOMAIN w[s] /\ w[s][a] = g
        BY <1>1, <2>3 DEF Tracks
      <3>2. Tracks(offs(w, d), w, s, a,
                   Entry(Append(g.imaps, is(offset(d), <<"multplus", d>>)), g.frozen))
        BY <3>1, FurtherFreeze
      <3>. QED
        BY <1>1, <2>3, <3>2, TwoFreezes
    <2>. HIDE DEF offs, once
    <2>4. \A g, h : Entry(g, h).imaps = g /\ Entry(g, h).frozen = h
      BY DEF Entry
    <2>5. Tracks(u2, t, s, a, Entry(e1, f.frozen))
      BY <2>2, <2>3
    <2>. HIDE DEF u2
    <2>6. Tracks(u3, t, s, a, Entry(e2, f.frozen))
      BY <2>3, <2>4, <2>5
    <2>. HIDE DEF u3
    <2>7. Tracks(u4, t, s, a, Entry(e3, f.frozen))
      BY <2>3, <2>4, <2>6
    <2>. HIDE DEF u4
    <2>8. e3 = f.imaps \o Offsets
      <3>1. f.imaps \in Seq(Maps)
        <4>1. a \in DOMAIN t[s] => t[s][a].imaps \in Seq(Maps)
          BY DEF EntryType
        <4>2. Fresh(identity, "plus").imaps \in Seq(Maps)
          BY MapTypes DEF EntryType
        <4>. QED
          BY <4>1, <4>2 DEF f, Kept
      <3>. HIDE DEF f
      <3>. DEFINE x == is(offset(-1), <<"multplus", -1>>)
                  y == is(offset(0), <<"multplus", 0>>)
                  z == is(offset(1), <<"multplus", 1>>)
      <3>2. x \in Maps /\ y \in Maps /\ z \in Maps /\ Offsets = <<x, y, z>>
        BY MapTypes DEF Offsets
      <3>. HIDE DEF x, y, z
      <3>3. Append(Append(Append(f.imaps, x), y), z) = f.imaps \o <<x, y, z>>
        BY <3>1, <3>2, ThreeMore
      <3>. QED
        BY <3>2, <3>3 DEF x, y, z
    <2>9. s = o
      BY <1>6
    <2>10. Touches(u4, t, {s, o}, a) /\ u4[s][a] = Entry(f.imaps \o Offsets, f.frozen)
      BY <1>3, <2>7, <2>8, <2>9
    <2>. QED
      BY <1>6, <2>1, <2>9, <2>10 DEF f, Leaves
  <1>7. CASE m.kind = "foreach_cvec"
    <2>. DEFINE u1 == once(identity, "mult")
    <2>1. Tracks(u1, t, s, a, e)
      BY <1>2
    <2>2. u = FrozenTwice(u1, o, s, a, identity, "mult")
      BY <1>7 DEF Frozen
    <2>. HIDE DEF u1, e, u
    <2>3. /\ s # o /\ s \in DOMAIN u1 /\ o \in DOMAIN u1 /\ u1[o] = t[o]
          /\ a \in DOMAIN u1[s] /\ u1[s][a] = e
      BY <1>1, <1>7, <2>1 DEF Tracks
    <2>4. CASE a \in DOMAIN t[o]
      <3>1. Tracks(u, u1, o, a, Entry(Append(t[o][a].imaps, is(identity, "mult")),
                                      t[o][a].frozen))
        BY <2>2, <2>3, <2>4, FurtherFreeze
      <3>2. Touches(u, t, {s, o}, a)
        <4>1. DOMAIN u = DOMAIN t
          BY <2>1, <3>1 DEF Tracks
        <4>2. ASSUME NEW v \in DOMAIN t, v \notin {s, o}
              PROVE  u[v] = t[v]
          BY <2>1, <3>1, <4>2 DEF Tracks
        <4>3. /\ DOMAIN u[s] = DOMAIN t[s] \cup {a}
              /\ \A x \in DOMAIN t[s] : x # a => u[s][x] = t[s][x]
          BY <2>1, <2>3, <3>1 DEF Tracks
        <4>4. /\ DOMAIN u[o] = DOMAIN t[o] \cup {a}
              /\ \A x \in DOMAIN t[o] : x # a => u[o][x] = t[o][x]
          BY <2>3, <3>1 DEF Tracks
        <4>. QED
          BY <4>1, <4>2, <4>3, <4>4 DEF Touches
      <3>3. /\ u[s][a] = e
            /\ u[o][a] = Entry(Append(t[o][a].imaps, is(identity, "mult")), t[o][a].frozen)
        BY <2>3, <3>1 DEF Tracks
      <3>. QED
        BY <1>7, <2>4, <3>2, <3>3 DEF e, u, Leaves
    <2>5. CASE a \notin DOMAIN t[o]
      <3>1. PICK w : /\ Tracks(w, u1, o, a, Fresh(identity, "mult"))
                     /\ Tracks(u, w, s, a, Entry(e.imaps, Append(e.frozen, o)))
        BY <2>2, <2>3, <2>5, OtherFreeze
      <3>2. s \in DOMAIN w /\ w[s] = u1[s] /\ DOMAIN w = DOMAIN t
        BY <1>1, <2>1, <2>3, <3>1 DEF Tracks
      <3>3. Touches(u, t, {s, o}, a)
        <4>1. DOMAIN u = DOMAIN t
          BY <3>1, <3>2 DEF Tracks
        <4>2. ASSUME NEW v \in DOMAIN t, v \notin {s, o}
              PROVE  u[v] = t[v]
          BY <2>1, <2>3, <3>1, <3>2, <4>2 DEF Tracks
        <4>3. /\ DOMAIN u[s] = DOMAIN t[s] \cup {a}
              /\ \A x \in DOMAIN t[s] : x # a => u[s][x] = t[s][x]
          BY <2>1, <2>3, <3>1, <3>2 DEF Tracks
        <4>4. /\ DOMAIN u[o] = DOMAIN t[o] \cup {a}
              /\ \A x \in DOMAIN t[o] : x # a => u[o][x] = t[o][x]
          BY <1>1, <2>1, <2>3, <3>1, <3>2 DEF Tracks
        <4>. QED
          BY <4>1, <4>2, <4>3, <4>4 DEF Touches
      <3>4. u[s][a] = Entry(e.imaps, Append(e.frozen, o))
        BY <3>1 DEF Tracks
      <3>5. u[o][a] = Fresh(identity, "mult")
        BY <1>1, <2>3, <3>1, <3>2 DEF Tracks
      <3>. QED
        BY <1>7, <2>5, <3>3, <3>4, <3>5 DEF e, u, Leaves
    <2>. QED
      BY <2>4, <2>5
  <1>8. m.kind \in Kind
    BY DEF MadeOp
  <1>. QED
    BY <1>4, <1>5, <1>6, <1>7, <1>8 DEF Kind

-----------------------------------------------------------------------------
(* Fresh entries and their users, and what further maps make of an entry. *)
LEMMA FreshOK ==
  ASSUME NEW v, NEW k, NEW ops, NEW kind \in {"reduce", "foreach", "foreach_cvec"},
         ops[k].kind = kind
  PROVE  EntryOK(Sole(kind), v, {k}, ops)
  <1>1. identity # alltoone(0) /\ identity = identity
    BY DEF identity, alltoone, offset
  <1>2. Sole(kind).imaps \in {<<is(alltoone(0), "plus")>>, <<is(identity, "mult")>>}
    BY DEF Sole, Fresh, Entry, is
  <1>3. /\ is(alltoone(0), "plus") # is(identity, "plus")
        /\ is(identity, "mult") # is(identity, "plus")
    BY <1>1 DEF is
  <1>4. <<is(alltoone(0), "plus")>>[1] = is(alltoone(0), "plus")
        /\ <<is(identity, "mult")>>[1] = is(identity, "mult")
        /\ <<is(identity, "plus")>>[1] = is(identity, "plus")
    OBVIOUS
  <1>5. Sole(kind).imaps # <<>> /\ Sole(kind).imaps # <<is(identity, "plus")>>
    BY <1>2, <1>3, <1>4
  <1>6. MapsOK(Sole(kind))
    BY <1>5, MapTypes DEF MapsOK, Sole
  <1>7. Sole(kind).frozen = <<>>
    BY DEF Sole, Fresh, Entry
  <1>8. FrozenOK(Sole(kind), v, {k}, ops) /\ SoleOK(Sole(kind), {k}, ops)
    BY <1>7 DEF FrozenOK, SoleOK
  <1>. QED
    BY <1>6, <1>8 DEF EntryOK

LEMMA LongOK ==
  ASSUME NEW e, e \in EntryType, e.imaps # <<>>
  PROVE  /\ \A f \in Seq(Vector) : \A q \in Maps :
              MapsOK(Entry(Append(e.imaps, q), f))
         /\ \A f \in Seq(Vector) : MapsOK(Entry(e.imaps \o Offsets, f))
  <1>1. e.imaps \in Seq(Maps) /\ Len(e.imaps) \in Nat /\ Len(e.imaps) # 0
    BY DEF EntryType
  <1>2. \A q \in Seq(Maps), f \in Seq(Vector) :
          /\ Entry(q, f) \in EntryType /\ Entry(q, f).imaps = q
    BY DEF Entry, EntryType
  <1>3. ASSUME NEW q \in Seq(Maps), NEW f \in Seq(Vector), Len(q) > 1
        PROVE  MapsOK(Entry(q, f))
    <2>. DEFINE one == <<is(identity, "plus")>>
    <2>1. Len(one) = 1
      OBVIOUS
    <2>. HIDE DEF one
    <2>2. q # one
      <3>. SUFFICES ASSUME q = one
                    PROVE  FALSE
        OBVIOUS
      <3>1. Len(q) = 1
        BY <2>1, Zenon
      <3>. QED
        BY <1>3, <3>1
    <2>4. q # <<>>
      BY <1>3
    <2>3. Entry(q, f) \in EntryType /\ Entry(q, f).imaps = q
      BY <1>2
    <2>. QED
      BY <2>2, <2>3, <2>4 DEF MapsOK, one
  <1>4. \A q \in Maps : Append(e.imaps, q) \in Seq(Maps) /\ Len(Append(e.imaps, q)) > 1
    BY <1>1
  <1>5. Offsets \in Seq(Maps) /\ Len(Offsets) = 3
    BY MapTypes DEF Offsets
  <1>6. e.imaps \o Offsets \in Seq(Maps) /\ Len(e.imaps \o Offsets) > 1
    BY <1>1, <1>5
  <1>. QED
    BY <1>3, <1>4, <1>6

(* The entry that a stencil wants. *)
LEMMA StencilMaps ==
  ASSUME NEW m, m.kind = "stencil"
  PROVE  Wanted(m) = Entry(<<is(identity, "plus")>> \o Offsets, <<>>)
  <1>1. [i \in 1 .. 3 |-> is(offset(i - 2), <<"multplus", i - 2>>)] = Offsets
    BY DEF Offsets
  <1>. QED
    BY <1>1 DEF Wanted, is

(* More users find less. *)
LEMMA MoreUsers ==
  ASSUME NEW e, NEW v, NEW J, NEW K, NEW ops, NEW later,
         EntryOK(e, v, J, ops), J \subseteq K, \A j \in J : later[j] = ops[j]
  PROVE  EntryOK(e, v, K, later)
  <1>1. FrozenOK(e, v, K, later)
    BY DEF EntryOK, FrozenOK
  <1>2. SoleOK(e, K, later)
    BY DEF EntryOK, SoleOK
  <1>. QED
    BY <1>1, <1>2 DEF EntryOK

(***************************************************************************)
(* The entries that an operation m leaves for a dependent at a are as they *)
(* should be, m being one of their users now.                              *)
(***************************************************************************)
UsersOf(t, m, a, users, ops, later) ==
  \A v \in {m.src, m.other} :
    /\ a \in DOMAIN t[v] <=> users[v] # {}
    /\ a \in DOMAIN t[v] => EntryOK(t[v][a], v, users[v], ops)
    /\ \A j \in users[v] : later[j] = ops[j]

LEMMA MadeOK ==
  ASSUME NEW t, NEW m \in MadeOp, NEW a, {m.src, m.other} \subseteq DOMAIN t,
         m.kind = "foreach_cvec" <=> m.src # m.other, m.other \in Vector,
         NEW users, NEW ops, NEW later, NEW k, later[k] = m,
         UsersOf(t, m, a, users, ops, later)
  PROVE  \A v \in {m.src, m.other} :
           EntryOK(Frozen(t, m, a)[v][a], v, users[v] \cup {k}, later)
  <1>. DEFINE s == m.src
              o == m.other
              u == Frozen(t, m, a)
              J(v) == users[v] \cup {k}
              OK(e, v) == EntryOK(e, v, J(v), later)
              e == Kept(t, s, a, identity, "mult")
              f == Kept(t, s, a, identity, "plus")
  <1>1. \A v \in {s, o} :
          a \in DOMAIN t[v] => t[v][a] \in EntryType /\ t[v][a].imaps # <<>>
    BY DEF UsersOf, EntryOK, MapsOK
  <1>2. /\ m.kind = "reduce"  => u[s][a] = Kept(t, s, a, alltoone(0), "plus")
        /\ m.kind = "foreach" => u[s][a] = e
        /\ m.kind = "stencil" => u[s][a] = Entry(f.imaps \o Offsets, f.frozen)
        /\ m.kind = "foreach_cvec" /\ a \in DOMAIN t[o] =>
             /\ u[s][a] = e
             /\ u[o][a] = Entry(Append(t[o][a].imaps, is(identity, "mult")), t[o][a].frozen)
        /\ m.kind = "foreach_cvec" /\ a \notin DOMAIN t[o] =>
             /\ u[s][a] = Entry(e.imaps, Append(e.frozen, o))
             /\ u[o][a] = Fresh(identity, "mult")
    <2>1. Leaves(u, t, m, a)
      BY <1>1, FrozenIs
    <2>. HIDE DEF u
    <2>. QED
      BY <2>1 DEF Leaves
  <1>3. \A v \in {s, o} : a \in DOMAIN t[v] => OK(t[v][a], v)
    BY MoreUsers DEF UsersOf
  <1>4. ASSUME NEW v \in {s, o}, a \notin DOMAIN t[v],
               NEW kind \in {"reduce", "foreach", "foreach_cvec"}, m.kind = kind
        PROVE  OK(Sole(kind), v)
    <2>1. J(v) = {k}
      BY <1>4 DEF UsersOf
    <2>. QED
      BY <1>4, <2>1, FreshOK
  <1>5. /\ Sole("reduce") = Fresh(alltoone(0), "plus")
        /\ Sole("foreach") = Fresh(identity, "mult")
        /\ Sole("foreach_cvec") = Fresh(identity, "mult")
    BY DEF Sole
  <1>. HIDE DEF u
  <1>6. CASE m.kind = "reduce"
    <2>1. OK(Kept(t, s, a, alltoone(0), "plus"), s)
      BY <1>3, <1>4, <1>5, <1>6 DEF Kept
    <2>. QED
      BY <1>2, <1>6, <2>1 DEF u
  <1>7. m.kind \in {"foreach", "foreach_cvec"} => OK(e, s)
    BY <1>3, <1>4, <1>5 DEF Kept
  <1>8. CASE m.kind = "foreach"
    BY <1>2, <1>7, <1>8 DEF u
  <1>9. ASSUME NEW g, NEW v, MapsOK(g), FrozenOK(g, v, J(v), later),
               m.kind \in {"stencil", "foreach_cvec"}
        PROVE  OK(g, v)
    <2>1. SoleOK(g, J(v), later)
      BY <1>9 DEF SoleOK
    <2>. QED
      BY <1>9, <2>1 DEF EntryOK
  <1>10. CASE m.kind = "stencil"
    <2>. DEFINE g == Entry(f.imaps \o Offsets, f.frozen)
    <2>1. f \in EntryType /\ f.imaps # <<>>
      <3>1. Fresh(identity, "plus").imaps # <<>>
        BY DEF Fresh, Entry
      <3>. QED
        BY <1>1, <3>1, MapTypes DEF Kept
    <2>2. f.frozen \in Seq(Vector) /\ g.frozen = f.frozen
      BY <2>1 DEF EntryType, Entry
    <2>3. MapsOK(g)
      BY <2>1, <2>2, LongOK
    <2>4. FrozenOK(g, s, J(s), later)
      <3>1. CASE a \in DOMAIN t[s]
        <4>1. FrozenOK(t[s][a], s, J(s), later)
          BY <1>3, <3>1 DEF EntryOK
        <4>2. g.frozen = t[s][a].frozen
          BY <2>2, <3>1 DEF Kept
        <4>. QED
          BY <4>1, <4>2 DEF FrozenOK
      <3>2. CASE a \notin DOMAIN t[s]
        <4>1. g.frozen = <<>>
          BY <2>2, <3>2 DEF Kept, Fresh, Entry
        <4>. QED
          BY <4>1 DEF FrozenOK
      <3>. QED
        BY <3>1, <3>2
    <2>. HIDE DEF g
    <2>5. OK(g, s)
      BY <1>9, <1>10, <2>3, <2>4
    <2>6. s = o
      BY <1>10
    <2>. QED
      BY <1>2, <1>10, <2>5, <2>6 DEF u, g
  <1>11. CASE m.kind = "foreach_cvec" /\ a \in DOMAIN t[o]
    <2>. DEFINE g == Entry(Append(t[o][a].imaps, is(identity, "mult")), t[o][a].frozen)
    <2>1. t[o][a] \in EntryType /\ t[o][a].imaps # <<>>
      BY <1>1, <1>11
    <2>2. t[o][a].frozen \in Seq(Vector) /\ g.frozen = t[o][a].frozen
      BY <2>1 DEF EntryType, Entry
    <2>3. MapsOK(g)
      BY <2>1, <2>2, LongOK, MapTypes
    <2>4. FrozenOK(g, o, J(o), later)
      BY <1>3, <1>11, <2>2 DEF EntryOK, FrozenOK
    <2>. HIDE DEF g
    <2>5. OK(g, o)
      BY <1>9, <1>11, <2>3, <2>4
    <2>. QED
      BY <1>2, <1>7, <1>11, <2>5 DEF u, g
  <1>12. CASE m.kind = "foreach_cvec" /\ a \notin DOMAIN t[o]
    <2>. DEFINE g == Entry(e.imaps, Append(e.frozen, o))
    <2>1. OK(e, s)
      BY <1>7, <1>12
    <2>. HIDE DEF e
    <2>2. e \in EntryType /\ MapsOK(e) /\ FrozenOK(e, s, J(s), later)
      BY <2>1 DEF EntryOK, MapsOK
    <2>3. /\ g.imaps = e.imaps /\ g.frozen = Append(e.frozen, o)
          /\ e.frozen \in Seq(Vector) /\ e.imaps \in Seq(Maps)
      BY <2>2 DEF EntryType, Entry
    <2>4. MapsOK(g)
      <3>1. Append(e.frozen, o) \in Seq(Vector)
        BY <2>3
      <3>2. g \in EntryType
        BY <2>3, <3>1 DEF EntryType, Entry
      <3>. QED
        BY <2>2, <2>3, <3>2 DEF MapsOK
    <2>5. FrozenOK(g, s, J(s), later)
      <3>. SUFFICES ASSUME NEW i \in DOMAIN g.frozen
                    PROVE  \E j \in J(s) : /\ later[j].src = s
                                           /\ later[j].other = g.frozen[i] /\ g.frozen[i] # s
        BY DEF FrozenOK
      <3>1. CASE i = Len(e.frozen) + 1
        <4>1. g.frozen[i] = o
          BY <2>3, <3>1
        <4>. QED
          BY <1>12, <4>1
      <3>2. CASE i # Len(e.frozen) + 1
        <4>1. i \in DOMAIN e.frozen /\ g.frozen[i] = e.frozen[i]
          BY <2>3, <3>2
        <4>. QED
          BY <2>2, <4>1 DEF FrozenOK
      <3>. QED
        BY <3>1, <3>2
    <2>. HIDE DEF g
    <2>6. OK(g, s)
      BY <1>9, <1>12, <2>4, <2>5
    <2>7. OK(Fresh(identity, "mult"), o)
      BY <1>4, <1>5, <1>12
    <2>. QED
      BY <1>2, <1>12, <2>6, <2>7 DEF u, g, e
  <1>13. m.kind \in Kind
    BY DEF MadeOp
  <1>. QED
    BY <1>6, <1>8, <1>10, <1>11, <1>12, <1>13 DEF Kind

(* What an operation finds at an address of its own is what it wants. *)
LEMMA OwnEntry ==
  ASSUME NEW t, NEW m \in MadeOp, NEW a, {m.src, m.other} \subseteq DOMAIN t,
         m.kind = "foreach_cvec" <=> m.src # m.other,
         \A v \in {m.src, m.other} : a \notin DOMAIN t[v]
  PROVE  Frozen(t, m, a)[m.src][a] = Wanted(m)
  <1>. DEFINE s == m.src
              o == m.other
              u == Frozen(t, m, a)
  <1>1. /\ m.kind = "reduce"  => u[s][a] = Fresh(alltoone(0), "plus")
        /\ m.kind = "foreach" => u[s][a] = Fresh(identity, "mult")
        /\ m.kind = "stencil" =>
             u[s][a] = Entry(Fresh(identity, "plus").imaps \o Offsets,
                             Fresh(identity, "plus").frozen)
        /\ m.kind = "foreach_cvec" =>
             u[s][a] = Entry(Fresh(identity, "mult").imaps,
                             Append(Fresh(identity, "mult").frozen, o))
    <2>1. Leaves(u, t, m, a)
      BY FrozenIs
    <2>. HIDE DEF u
    <2>. QED
      BY <2>1 DEF Leaves, Kept
  <1>. HIDE DEF u
  <1>2. CASE m.kind = "reduce"
    BY <1>1, <1>2 DEF Wanted, Fresh, u
  <1>3. CASE m.kind = "foreach"
    BY <1>1, <1>3 DEF Wanted, Fresh, u
  <1>4. CASE m.kind = "foreach_cvec"
    <2>1. /\ Fresh(identity, "mult").imaps = <<is(identity, "mult")>>
          /\ Append(Fresh(identity, "mult").frozen, o) = <<o>>
      BY DEF Fresh, Entry, is
    <2>2. Wanted(m) = Entry(<<is(identity, "mult")>>, <<o>>)
      BY <1>4 DEF Wanted, is
    <2>. QED
      BY <1>1, <1>4, <2>1, <2>2 DEF u
  <1>5. CASE m.kind = "stencil"
    <2>1. /\ Fresh(identity, "plus").imaps = <<is(identity, "plus")>>
          /\ Fresh(identity, "plus").frozen = <<>>
      BY DEF Fresh, Entry, is
    <2>2. Wanted(m) = Entry(<<is(identity, "plus")>> \o Offsets, <<>>)
      BY <1>5, StencilMaps
    <2>. QED
      BY <1>1, <1>5, <2>1, <2>2 DEF u
  <1>6. m.kind \in Kind
    BY DEF MadeOp
  <1>. QED
    BY <1>2, <1>3, <1>4, <1>5, <1>6 DEF Kind, u

(* Sequences that differ still do with the same end. *)
LEMMA SameEnd ==
  ASSUME NEW S, NEW p \in Seq(S), NEW q \in Seq(S), NEW r \in Seq(S), p \o r = q \o r
  PROVE  p = q
  <1>1. Len(p \o r) = Len(p) + Len(r) /\ Len(q \o r) = Len(q) + Len(r)
    OBVIOUS
  <1>2. Len(p) = Len(q)
    BY <1>1
  <1>3. \A i \in 1 .. Len(p) : p[i] = (p \o r)[i] /\ q[i] = (q \o r)[i]
    BY <1>2
  <1>. QED
    BY <1>2, <1>3

-----------------------------------------------------------------------------
(* Each step is one of the executor's, or none of its business. *)
LEMMA ExecutorSteps ==
  ASSUME [ClientNext]_vars
  PROVE  [ExecutorNext]_executorVars
  BY DEF ClientNext, Stencil, Store, Wait, Return, FreeOperate, FreeDestroy, FreeFinish, Done,
         Operate, Destroy, Work, Resolve, Finish, ExecutorNext, vars, executorVars, lifeVars

(* An operation leaves what the entries of other addresses say. *)
LEMMA OperateKept ==
  ASSUME LifeInv, ExecutorInv', NEW kind \in Kind, NEW s \in live, NEW o \in live, NEW a,
         Operate([kind |-> kind, src |-> s, other |-> o], a),
         kind = "foreach_cvec" <=> s # o
  PROVE  LifeInv'
  <1>. DEFINE m == [kind |-> kind, src |-> s, other |-> o]
              k == issued + 1
              t == [v \in 0 .. k |-> IF v = k THEN Untracked ELSE tracker[v]]
  <1>1. /\ issued \in Nat /\ finished \in Nat /\ issued' = k /\ finished' = finished
        /\ k <= MaxOps /\ finished <= issued /\ rruns' = rruns
    BY DEF Operate, Issue, LifeInv, ExecutorInv, ExecutorTypeOK, IssuedInv
  <1>2. /\ a \notin {at[v] : v \in live}
        /\ live' = live \cup {k}
        /\ at' = [v \in 0 .. k |-> IF v = k THEN a ELSE at[v]]
        /\ made' = Append(made, m)
        /\ tracker' = Frozen(t, m, a)
    BY DEF Operate
  <1>3. s \in 0 .. issued /\ o \in 0 .. issued /\ live \subseteq 0 .. issued
        /\ made \in Seq(MadeOp) /\ Len(made) = issued
        /\ DOMAIN at = 0 .. issued /\ DOMAIN tracker = 0 .. issued
    BY DEF LifeInv, RecordsInv
  <1>4. m \in MadeOp /\ m.kind = kind /\ m.src = s /\ m.other = o /\ o \in Vector
    BY <1>1, <1>3 DEF MadeOp, Vector
  <1>. HIDE DEF m
  <1>5. /\ made' \in Seq(MadeOp) /\ Len(made') = k /\ made'[k] = m
        /\ \A j \in 1 .. issued : made'[j] = made[j]
    BY <1>1, <1>2, <1>3, <1>4
  <1>6. /\ DOMAIN t = 0 .. k /\ t[k] = Untracked /\ \A v \in 0 .. issued : t[v] = tracker[v]
    BY <1>1
  <1>. HIDE DEF t
  <1>7. t[s] = tracker[s] /\ t[o] = tracker[o] /\ {s, o} \subseteq DOMAIN t
    BY <1>1, <1>3, <1>6
  <1>8. \A v \in {s, o} : a \in DOMAIN t[v] => EntryOK(t[v][a], v, Users(v, a), made)
    BY <1>3, <1>7 DEF LifeInv, TrackInv
  <1>9. Leaves(tracker', t, m, a) /\ Touches(tracker', t, {s, o}, a)
    <2>1. \A v \in {s, o} : a \in DOMAIN t[v] => t[v][a] \in EntryType
      BY <1>8 DEF EntryOK, MapsOK
    <2>2. Leaves(Frozen(t, m, a), t, m, a)
      BY <1>4, <1>7, <2>1, FrozenIs
    <2>. QED
      BY <1>2, <1>4, <2>2 DEF Leaves
  <1>10. /\ DOMAIN at' = 0 .. k /\ at'[k] = a /\ \A v \in 0 .. issued : at'[v] = at[v]
    BY <1>1, <1>2
  <1>11. RecordsInv'
    <2>1. \A j \in 1 .. k : /\ made'[j].src < j /\ made'[j].other < j
                            /\ made'[j].kind = "foreach_cvec" <=> made'[j].src # made'[j].other
      BY <1>1, <1>3, <1>4, <1>5 DEF LifeInv, RecordsInv
    <2>2. live' \subseteq 0 .. k
      <3>1. 0 .. issued \subseteq 0 .. k /\ k \in 0 .. k
        BY <1>1
      <3>. QED
        BY <1>2, <1>3, <3>1
    <2>3. DOMAIN tracker' = 0 .. k
      BY <1>6, <1>9 DEF Touches
    <2>4. /\ live' \subseteq 0 .. issued' /\ DOMAIN at' = 0 .. issued'
          /\ DOMAIN tracker' = 0 .. issued'
          /\ made' \in Seq(MadeOp) /\ Len(made') = issued'
          /\ \A j \in 1 .. issued' :
               /\ made'[j].src < j /\ made'[j].other < j
               /\ made'[j].kind = "foreach_cvec" <=> made'[j].src # made'[j].other
      BY <1>1, <1>5, <1>10, <2>1, <2>2, <2>3
    <2>. HIDE DEF k
    <2>. QED
      BY <2>4 DEF RecordsInv
  <1>12. \A j \in 1 .. k : Arguments(j)' = IF j = k THEN {s, o} ELSE Arguments(j)
    BY <1>1, <1>4, <1>5 DEF Arguments
  <1>13. RecentInv'
    <2>. SUFFICES ASSUME Careful, NEW j \in finished + 1 .. k
                  PROVE  ({j} \cup Arguments(j)') \subseteq live'
      BY <1>1 DEF RecentInv
    <2>1. CASE j = k
      BY <1>1, <1>2, <1>12, <2>1
    <2>2. CASE j # k
      <3>1. j \in finished + 1 .. issued /\ j \in 1 .. k
        BY <1>1, <2>2
      <3>2. {j} \cup Arguments(j) \subseteq live
        BY <3>1 DEF LifeInv, RecentInv
      <3>. QED
        BY <1>2, <1>12, <2>2, <3>1, <3>2
    <2>. QED
      BY <2>1, <2>2
  <1>14. AddressInv'
    <2>. SUFFICES ASSUME NEW i \in live', NEW j \in 1 .. k, i < j
                  PROVE  at'[j] # at'[i]
      BY <1>1 DEF AddressInv
    <2>1. i \in live /\ i \in 0 .. issued
      BY <1>1, <1>2, <1>3
    <2>2. CASE j = k
      BY <1>2, <1>10, <2>1, <2>2
    <2>3. CASE j # k
      <3>1. j \in 1 .. issued /\ j \in 0 .. issued
        BY <1>1, <2>3
      <3>. QED
        BY <1>10, <2>1, <3>1 DEF LifeInv, AddressInv
    <2>. QED
      BY <2>2, <2>3
  <1>15. ASSUME NEW v \in 0 .. k, NEW x
         PROVE  Users(v, x)' = IF v \in {s, o} /\ x = a THEN Users(v, x) \cup {k}
                               ELSE Users(v, x)
    <2>1. Users(v, x)' = {j \in 1 .. k : v \in Arguments(j)' /\ at'[j] = x}
      BY <1>1 DEF Users
    <2>2. \A j \in 1 .. k : (v \in Arguments(j)' /\ at'[j] = x) <=>
            IF j = k THEN v \in {s, o} /\ x = a ELSE v \in Arguments(j) /\ at[j] = x
      <3>. SUFFICES ASSUME NEW j \in 1 .. k
                    PROVE  (v \in Arguments(j)' /\ at'[j] = x) <=>
                             IF j = k THEN v \in {s, o} /\ x = a
                             ELSE v \in Arguments(j) /\ at[j] = x
        OBVIOUS
      <3>1. j # k => j \in 0 .. issued
        BY <1>1
      <3>. QED
        BY <1>10, <1>12, <3>1
    <2>3. 1 .. k = 1 .. issued \cup {k} /\ k \notin 1 .. issued
      BY <1>1
    <2>. HIDE DEF k
    <2>. QED
      BY <2>1, <2>2, <2>3 DEF Users
  <1>16. ASSUME NEW v \in 0 .. k, v \notin 0 .. issued, NEW x
         PROVE  x \notin DOMAIN tracker'[v] /\ Users(v, x) = {} /\ v \notin {s, o}
    <2>1. v = k /\ v \notin {s, o}
      BY <1>1, <1>3, <1>16
    <2>2. DOMAIN tracker'[v] = {}
      BY <1>6, <1>9, <2>1 DEF Touches, Untracked
    <2>3. \A j \in 1 .. issued : v \notin Arguments(j)
      BY <1>1, <2>1, MadeOf DEF Arguments
    <2>. QED
      BY <2>1, <2>2, <2>3 DEF Users
  <1>17. ASSUME NEW v \in 0 .. issued, NEW x, v \notin {s, o} \/ x # a
         PROVE  /\ x \in DOMAIN tracker'[v] <=> x \in DOMAIN tracker[v]
                /\ x \in DOMAIN tracker[v] => tracker'[v][x] = tracker[v][x]
    <2>1. t[v] = tracker[v] /\ v \in DOMAIN t
      BY <1>1, <1>6
    <2>2. CASE v \notin {s, o}
      BY <1>9, <2>1, <2>2 DEF Touches
    <2>3. CASE v \in {s, o}
      BY <1>9, <1>17, <2>1, <2>3 DEF Touches
    <2>. QED
      BY <2>2, <2>3
  <1>18. TrackInv'
    <2>1. ASSUME NEW v \in 0 .. k, NEW x
          PROVE  x \in DOMAIN tracker'[v] <=> Users(v, x)' # {}
      <3>1. CASE v \in {s, o} /\ x = a
        BY <1>9, <1>15, <3>1 DEF Touches
      <3>2. CASE ~(v \in {s, o} /\ x = a) /\ v \in 0 .. issued
        BY <1>15, <1>17, <3>2 DEF LifeInv, TrackInv
      <3>3. CASE v \notin 0 .. issued
        BY <1>15, <1>16, <3>3
      <3>. QED
        BY <3>1, <3>2, <3>3
    <2>2. ASSUME NEW v \in 0 .. k, NEW x \in DOMAIN tracker'[v]
          PROVE  EntryOK(tracker'[v][x], v, Users(v, x)', made')
      <3>1. v \in 0 .. issued /\ \A y : \A j \in Users(v, y) : made'[j] = made[j]
        BY <1>5, <1>16 DEF Users
      <3>2. CASE v \in {s, o} /\ x = a
        <4>. DEFINE users == [w \in {s, o} |-> Users(w, a)]
        <4>1. \A w \in {s, o} : /\ a \in DOMAIN t[w] <=> users[w] # {}
                                /\ a \in DOMAIN t[w] => EntryOK(t[w][a], w, users[w], made)
                                /\ \A j \in users[w] : made'[j] = made[j]
          BY <1>3, <1>5, <1>7 DEF LifeInv, TrackInv, Users
        <4>2. users[v] = Users(v, a)
          BY <3>2
        <4>. HIDE DEF users, k
        <4>3. /\ {m.src, m.other} \subseteq DOMAIN t /\ made'[k] = m
              /\ m.kind = "foreach_cvec" <=> m.src # m.other /\ m.other \in Vector
          BY <1>4, <1>5, <1>7
        <4>4. UsersOf(t, m, a, users, made, made')
          BY <1>4, <4>1 DEF UsersOf
        <4>5. /\ EntryOK(Frozen(t, m, a)[m.src][a], m.src, users[m.src] \cup {k}, made')
              /\ EntryOK(Frozen(t, m, a)[m.other][a], m.other, users[m.other] \cup {k}, made')
          BY <1>4, <4>3, <4>4, MadeOK
        <4>. QED
          BY <1>2, <1>4, <1>15, <3>2, <4>2, <4>5
      <3>3. CASE ~(v \in {s, o} /\ x = a)
        <4>1. x \in DOMAIN tracker[v] /\ tracker'[v][x] = tracker[v][x]
          BY <1>17, <3>1, <3>3
        <4>2. EntryOK(tracker[v][x], v, Users(v, x), made)
          BY <3>1, <4>1 DEF LifeInv, TrackInv
        <4>3. EntryOK(tracker[v][x], v, Users(v, x), made')
          BY <3>1, <4>2, MoreUsers
        <4>4. Users(v, x)' = Users(v, x)
          BY <1>15, <3>3
        <4>. QED
          BY <4>1, <4>3, <4>4
      <3>. QED
        BY <3>2, <3>3
    <2>. QED
      BY <1>1, <2>1, <2>2 DEF TrackInv
  <1>19. FitsInv'
    <2>1. ASSUME NEW j \in 1 .. k
          PROVE  Before(j)' = IF j = k THEN Users(s, a) \cup Users(o, a) ELSE Before(j)
      <3>1. Before(j)' = {i \in 1 .. j - 1 : at'[i] = at'[j]
                                              /\ Arguments(i)' \cap Arguments(j)' # {}}
        BY DEF Before
      <3>2. \A i \in 1 .. j - 1 : i \in 1 .. k /\ i # k /\ i \in 0 .. issued /\ i \in 1 .. issued
        BY <1>1
      <3>3. \A i \in 1 .. j - 1 : at'[i] = at[i] /\ Arguments(i)' = Arguments(i)
        BY <1>10, <1>12, <3>2
      <3>4. CASE j = k
        <4>1. at'[j] = a /\ Arguments(j)' = {s, o} /\ j - 1 = issued
          BY <1>1, <1>10, <1>12, <3>4
        <4>2. \A i \in 1 .. issued :
                Arguments(i) \cap {s, o} # {} <=> s \in Arguments(i) \/ o \in Arguments(i)
          OBVIOUS
        <4>3. Before(j)' = {i \in 1 .. issued : at[i] = a /\ Arguments(i) \cap {s, o} # {}}
          BY <3>1, <3>3, <4>1
        <4>. QED
          BY <3>4, <4>2, <4>3 DEF Users
      <3>5. CASE j # k
        <4>1. at'[j] = at[j] /\ Arguments(j)' = Arguments(j)
          <5>1. j \in 0 .. issued
            BY <1>1, <3>5
          <5>. QED
            BY <1>10, <1>12, <3>5, <5>1
        <4>2. Before(j)' = {i \in 1 .. j - 1 : at[i] = at[j]
                                                /\ Arguments(i) \cap Arguments(j) # {}}
          BY <3>1, <3>3, <4>1
        <4>. QED
          BY <3>5, <4>2 DEF Before
      <3>. QED
        BY <3>4, <3>5
    <2>. SUFFICES ASSUME NEW j \in live' \ {0}
                  PROVE  LET e == tracker'[made'[j].src][at'[j]]
                             w == Wanted(made'[j])
                         IN  /\ rruns[j] = 0 /\ Before(j)' = {} => e = w
                             /\ made'[j].kind = "stencil" /\ Before(j)' # {}
                                  => e.imaps # w.imaps
      BY <1>1 DEF FitsInv, Wanted
    <2>2. CASE j = k
      <3>1. /\ made'[j] = m /\ at'[j] = a /\ Before(j)' = Users(s, a) \cup Users(o, a)
        BY <1>1, <1>5, <1>10, <2>1, <2>2
      <3>2. ASSUME Before(j)' = {}
            PROVE  tracker'[s][a] = Wanted(m)
        <4>1. \A v \in {s, o} : a \notin DOMAIN t[v]
          BY <1>3, <1>7, <3>1, <3>2 DEF LifeInv, TrackInv
        <4>. QED
          BY <1>2, <1>4, <1>7, <4>1, OwnEntry
      <3>3. ASSUME Before(j)' # {}, m.kind = "stencil"
            PROVE  tracker'[s][a].imaps # Wanted(m).imaps
        <4>1. s = o /\ a \in DOMAIN t[s]
          BY <1>3, <1>4, <1>7, <3>1, <3>3 DEF LifeInv, TrackInv
        <4>. DEFINE q == t[s][a].imaps
                    one == <<is(identity, "plus")>>
        <4>2. MapsOK(t[s][a])
          BY <1>8, <4>1 DEF EntryOK
        <4>3. tracker'[s][a].imaps = q \o Offsets
          BY <1>4, <1>9, <3>3, <4>1 DEF Leaves, Kept, Entry
        <4>4. Wanted(m).imaps = one \o Offsets
          BY <3>3, StencilMaps DEF Entry
        <4>5. q \in Seq(Maps) /\ q # one /\ one \in Seq(Maps) /\ Offsets \in Seq(Maps)
          <5>1. Fresh(identity, "plus").imaps = one
            BY DEF Fresh, Entry, is
          <5>2. one \in Seq(Maps)
            BY <5>1, MapTypes DEF EntryType
          <5>3. Offsets \in Seq(Maps)
            BY MapTypes DEF Offsets
          <5>. QED
            BY <4>2, <5>2, <5>3 DEF MapsOK, EntryType
        <4>. HIDE DEF q, one
        <4>. QED
          BY <4>3, <4>4, <4>5, SameEnd
      <3>. QED
        BY <1>4, <3>1, <3>2, <3>3
    <2>3. CASE j # k
      <3>1. j \in live \ {0} /\ j \in 1 .. issued /\ j \in 1 .. k
        BY <1>1, <1>2, <1>3, <2>3
      <3>. DEFINE v == made[j].src
                  x == at[j]
      <3>2. made'[j] = made[j] /\ at'[j] = x /\ Before(j)' = Before(j) /\ x # a
        <4>1. j \in 0 .. issued
          BY <3>1
        <4>. QED
          BY <1>2, <1>5, <1>10, <2>1, <2>3, <3>1, <4>1
      <3>3. v \in 0 .. issued /\ x \in DOMAIN tracker[v]
        BY <3>1, MadeOf
      <3>4. tracker'[v][x] = tracker[v][x]
        BY <1>17, <3>2, <3>3
      <3>. QED
        BY <3>1, <3>2, <3>4 DEF LifeInv, FitsInv
    <2>. QED
      BY <2>2, <2>3
  <1>. QED
    BY <1>11, <1>13, <1>14, <1>18, <1>19 DEF LifeInv

(* A vector is dropped that nothing refers to any more. *)
LEMMA DestroyKept ==
  ASSUME LifeInv, ExecutorInv', NEW v \in live, Destroy(v),
         Careful => \A k \in finished + 1 .. issued : v # k /\ v \notin Arguments(k)
  PROVE  LifeInv'
  <1>1. live' = live \ {v} /\ UNCHANGED <<at, made, tracker, issued, finished, rruns>>
    BY DEF Destroy, executorVars
  <1>2. RecordsInv' /\ AddressInv'
    BY <1>1 DEF LifeInv, RecordsInv, AddressInv
  <1>3. TrackInv'
    <2>1. \A w, x : Users(w, x)' = Users(w, x)
      BY <1>1 DEF Users, Arguments
    <2>. QED
      BY <1>1, <2>1 DEF LifeInv, TrackInv
  <1>4. FitsInv'
    BY <1>1 DEF LifeInv, FitsInv, Before, Arguments
  <1>5. RecentInv'
    BY <1>1 DEF LifeInv, RecentInv, Arguments
  <1>. QED
    BY <1>2, <1>3, <1>4, <1>5 DEF LifeInv

(* What the pool does makes nothing recent that was not. *)
LEMMA PoolKept ==
  ASSUME LifeInv, ExecutorInv', UNCHANGED lifeVars, issued' = issued, rruns' = rruns,
         finished' = finished \/ finished' = issued
  PROVE  LifeInv'
  <1>1. UNCHANGED <<live, at, made, tracker>>
    BY DEF lifeVars
  <1>2. issued \in Nat /\ finished \in Nat
    BY DEF LifeInv, ExecutorInv, ExecutorTypeOK
  <1>3. RecordsInv' /\ AddressInv'
    BY <1>1 DEF LifeInv, RecordsInv, AddressInv
  <1>4. TrackInv'
    BY <1>1 DEF LifeInv, TrackInv, Users, Arguments
  <1>5. FitsInv'
    BY <1>1 DEF LifeInv, FitsInv, Before, Arguments
  <1>6. RecentInv'
    <2>1. CASE finished' = finished
      BY <1>1, <2>1 DEF LifeInv, RecentInv, Arguments
    <2>2. CASE finished' = issued
      BY <1>1, <1>2, <2>2 DEF RecentInv
    <2>. QED
      BY <2>1, <2>2
  <1>. QED
    BY <1>3, <1>4, <1>5, <1>6 DEF LifeInv

(* A resolution only forgets what is frozen in entries for its dependent. *)
LEMMA ThawedIs ==
  ASSUME NEW t, NEW v \in DOMAIN t, NEW a
  PROVE  LET u == Thawed(t, v, a)
         IN  /\ DOMAIN u = DOMAIN t
             /\ \A w \in DOMAIN t :
                  /\ DOMAIN u[w] = DOMAIN t[w]
                  /\ \A x \in DOMAIN t[w] :
                       \/ u[w][x] = t[w][x]
                       \/ /\ w \in Resolvers(t, v, a) /\ x = a
                          /\ u[w][x] = Entry(t[w][x].imaps, <<>>)
  <1>. DEFINE u == Thawed(t, v, a)
  <1>1. CASE FrozenIn(t, v, a) = {}
    <2>1. u = t
      BY <1>1 DEF Thawed
    <2>. QED
      BY <2>1
  <1>2. CASE FrozenIn(t, v, a) # {}
    <2>1. u = [w \in DOMAIN t |->
                 IF w \in Resolvers(t, v, a) /\ a \in DOMAIN t[w]
                 THEN [t[w] EXCEPT ![a] = Entry(@.imaps, <<>>)] ELSE t[w]]
      BY <1>2 DEF Thawed
    <2>. HIDE DEF u
    <2>2. DOMAIN u = DOMAIN t
      BY <2>1
    <2>3. ASSUME NEW w \in DOMAIN t
          PROVE  /\ DOMAIN u[w] = DOMAIN t[w]
                 /\ \A x \in DOMAIN t[w] :
                      \/ u[w][x] = t[w][x]
                      \/ /\ w \in Resolvers(t, v, a) /\ x = a
                         /\ u[w][x] = Entry(t[w][x].imaps, <<>>)
      <3>1. CASE w \in Resolvers(t, v, a) /\ a \in DOMAIN t[w]
        <4>1. u[w] = [t[w] EXCEPT ![a] = Entry(@.imaps, <<>>)]
          BY <2>1, <3>1
        <4>. QED
          BY <3>1, <4>1
      <3>2. CASE ~(w \in Resolvers(t, v, a) /\ a \in DOMAIN t[w])
        <4>1. u[w] = t[w]
          BY <2>1, <3>2
        <4>. QED
          BY <4>1
      <3>. QED
        BY <3>1, <3>2
    <2>. QED
      BY <2>2, <2>3 DEF u
  <1>. QED
    BY <1>1, <1>2

(* A vector that no entry for a has frozen is not resolved on behalf of another. *)
LEMMA NotResolved ==
  ASSUME NEW t, NEW v \in DOMAIN t, NEW a, NEW w \in DOMAIN t, v # w,
         \A x \in DOMAIN t : w \notin FrozenIn(t, x, a),
         \A x \in DOMAIN t : FrozenIn(t, x, a) \subseteq DOMAIN t
  PROVE  w \notin Resolvers(t, v, a)
  <1>. DEFINE S == DOMAIN t \ {w}
  <1>1. S \in SUBSET DOMAIN t /\ v \in S /\ w \notin S
    OBVIOUS
  <1>2. Closed(t, a, S)
    BY DEF Closed
  <1>. HIDE DEF S
  <1>. QED
    BY <1>1, <1>2 DEF Resolvers

(* Who is waiting for a resolution has at most itself to blame. *)
LEMMA ResolveKept ==
  ASSUME LifeInv, ExecutorInv', NEW i \in Op, Resolve(i)
  PROVE  LifeInv'
  <1>. DEFINE a == at[i]
              s == made[i].src
  <1>1. /\ UNCHANGED <<live, at, made, issued, finished>>
        /\ rruns' = [rruns EXCEPT ![i] = @ + 1] /\ i \in finished + 1 .. issued
        /\ tracker' = Thawed(tracker, s, a)
    BY DEF Resolve, ResolveStart
  <1>2. /\ issued \in Nat /\ finished \in Nat /\ DOMAIN tracker = 0 .. issued
        /\ rruns \in [Op -> Nat]
    BY DEF LifeInv, RecordsInv, ExecutorInv, ExecutorTypeOK
  <1>3. i \in 1 .. issued
    BY <1>1, <1>2
  <1>4. s \in DOMAIN tracker
    BY <1>2, <1>3, MadeOf
  <1>5. /\ DOMAIN tracker' = DOMAIN tracker
        /\ \A w \in DOMAIN tracker :
             /\ DOMAIN tracker'[w] = DOMAIN tracker[w]
             /\ \A x \in DOMAIN tracker[w] :
                  \/ tracker'[w][x] = tracker[w][x]
                  \/ /\ w \in Resolvers(tracker, s, a) /\ x = a
                     /\ tracker'[w][x] = Entry(tracker[w][x].imaps, <<>>)
    <2>. HIDE DEF a, s
    <2>1. PICK u : u = Thawed(tracker, s, a)
      OBVIOUS
    <2>2. /\ DOMAIN u = DOMAIN tracker
          /\ \A w \in DOMAIN tracker :
               /\ DOMAIN u[w] = DOMAIN tracker[w]
               /\ \A x \in DOMAIN tracker[w] :
                    \/ u[w][x] = tracker[w][x]
                    \/ /\ w \in Resolvers(tracker, s, a) /\ x = a
                       /\ u[w][x] = Entry(tracker[w][x].imaps, <<>>)
      BY <1>4, <2>1, ThawedIs
    <2>. QED
      BY <1>1, <2>1, <2>2
  <1>6. RecordsInv' /\ AddressInv'
    BY <1>1, <1>5 DEF LifeInv, RecordsInv, AddressInv
  <1>7. RecentInv'
    BY <1>1 DEF LifeInv, RecentInv, Arguments
  <1>8. \A v, x : Users(v, x)' = Users(v, x)
    BY <1>1 DEF Users, Arguments
  <1>9. ASSUME NEW v \in 0 .. issued, NEW x \in DOMAIN tracker[v]
        PROVE  EntryOK(tracker'[v][x], v, Users(v, x), made)
    <2>. DEFINE e == tracker[v][x]
    <2>1. EntryOK(e, v, Users(v, x), made)
      BY DEF LifeInv, TrackInv
    <2>2. CASE tracker'[v][x] = e
      BY <2>1, <2>2
    <2>3. CASE tracker'[v][x] = Entry(e.imaps, <<>>)
      <3>. DEFINE f == Entry(e.imaps, <<>>)
      <3>. HIDE DEF e
      <3>1. /\ f.imaps = e.imaps /\ f.frozen = <<>>
            /\ e.imaps \in Seq(Maps) => f \in EntryType
        BY DEF Entry, EntryType
      <3>2. MapsOK(f)
        BY <2>1, <3>1 DEF EntryOK, MapsOK, EntryType
      <3>3. FrozenOK(f, v, Users(v, x), made)
        BY <3>1 DEF FrozenOK
      <3>4. SoleOK(f, Users(v, x), made)
        <4>1. \A kind \in {"reduce", "foreach"} : e = Sole(kind) => f = e
          BY DEF Sole, Fresh, Entry
        <4>. QED
          BY <2>1, <4>1 DEF EntryOK, SoleOK
      <3>. QED
        BY <2>3, <3>2, <3>3, <3>4 DEF EntryOK, e
    <2>. QED
      BY <1>2, <1>5, <2>2, <2>3
  <1>10. TrackInv'
    BY <1>1, <1>2, <1>5, <1>8, <1>9 DEF LifeInv, TrackInv
  <1>11. ASSUME NEW v \in DOMAIN tracker, NEW x, NEW w \in FrozenIn(tracker, v, x)
         PROVE  \E j \in 1 .. issued : /\ at[j] = x /\ made[j].src = v
                                       /\ made[j].other = w /\ w # v
    <2>1. x \in DOMAIN tracker[v]
      BY DEF FrozenIn
    <2>2. PICK n \in DOMAIN tracker[v][x].frozen : w = tracker[v][x].frozen[n]
      BY <2>1 DEF FrozenIn
    <2>3. FrozenOK(tracker[v][x], v, Users(v, x), made)
      BY <1>2, <2>1 DEF LifeInv, TrackInv, EntryOK
    <2>. QED
      BY <2>2, <2>3 DEF FrozenOK, Users
  <1>12. FitsInv'
    <2>. SUFFICES ASSUME NEW k \in live \ {0}
                  PROVE  LET e == tracker'[made[k].src][at[k]]
                         IN  /\ rruns'[k] = 0 /\ Before(k) = {} => e = Wanted(made[k])
                             /\ made[k].kind = "stencil" /\ Before(k) # {} =>
                                  e.imaps # Wanted(made[k]).imaps
      BY <1>1 DEF FitsInv, Before, Arguments
    <2>. DEFINE v == made[k].src
                x == at[k]
                e == tracker[v][x]
    <2>1. k \in 1 .. issued /\ k \in Op
      BY <1>2 DEF LifeInv, RecordsInv, ExecutorInv, ExecutorTypeOK, Op
    <2>2. v \in DOMAIN tracker /\ x \in DOMAIN tracker[v]
      BY <1>2, <2>1, MadeOf
    <2>3. tracker'[v][x].imaps = e.imaps
      <3>1. Entry(e.imaps, <<>>).imaps = e.imaps
        BY DEF Entry
      <3>. QED
        BY <1>5, <2>2, <3>1
    <2>4. ASSUME rruns'[k] = 0, Before(k) = {}
          PROVE  tracker'[v][x] = Wanted(made[k])
      <3>1. k # i /\ rruns[k] = 0
        BY <1>1, <1>2, <2>1, <2>4
      <3>2. e = Wanted(made[k])
        BY <2>4, <3>1 DEF LifeInv, FitsInv
      <3>3. ASSUME x = a
            PROVE  v \notin Resolvers(tracker, s, a)
        <4>1. \A j \in 1 .. issued : at[j] = a /\ v \in Arguments(j) => j = k
          <5>. SUFFICES ASSUME NEW j \in 1 .. issued, at[j] = a, v \in Arguments(j), j # k
                        PROVE  FALSE
            OBVIOUS
          <5>1. ~(k < j)
            BY <2>1, <3>3 DEF LifeInv, AddressInv
          <5>2. j \in 1 .. k - 1 /\ v \in Arguments(j) \cap Arguments(k)
            <6>1. v \in Arguments(k)
              BY DEF Arguments
            <6>2. j \in 1 .. k - 1
              BY <1>2, <2>1, <5>1
            <6>. QED
              BY <6>1, <6>2
          <5>3. j \in Before(k)
            BY <3>3, <5>2 DEF Before
          <5>. QED
            BY <2>4, <5>3
        <4>2. s # v
          BY <1>3, <3>1, <4>1 DEF Arguments
        <4>3. \A w \in DOMAIN tracker : v \notin FrozenIn(tracker, w, a)
          <5>. SUFFICES ASSUME NEW w \in DOMAIN tracker, v \in FrozenIn(tracker, w, a)
                        PROVE  FALSE
            OBVIOUS
          <5>1. PICK j \in 1 .. issued : /\ at[j] = a /\ made[j].src = w
                                         /\ made[j].other = v /\ v # w
            BY <1>11
          <5>2. j = k
            BY <4>1, <5>1 DEF Arguments
          <5>. QED
            BY <5>1, <5>2
        <4>4. \A w \in DOMAIN tracker : FrozenIn(tracker, w, a) \subseteq DOMAIN tracker
          BY <1>2, <1>11, MadeOf
        <4>. HIDE DEF v, s, a
        <4>. QED
          BY <1>4, <2>2, <4>2, <4>3, <4>4, NotResolved
      <3>. QED
        BY <1>5, <2>2, <3>2, <3>3
    <2>5. made[k].kind = "stencil" /\ Before(k) # {} => e.imaps # Wanted(made[k]).imaps
      BY DEF LifeInv, FitsInv
    <2>. QED
      BY <2>3, <2>4, <2>5
  <1>. QED
    BY <1>6, <1>7, <1>10, <1>12 DEF LifeInv

-----------------------------------------------------------------------------
(* The vectors that the ring holds when the last one stored is n. *)
Stored(n) == {v \in 0 .. n : v > n - t_store}

(* cont_heat: each vector is a stencil of the one before, the ring has the last ones. *)
RingInv ==
  /\ pc \in {"stencil", "store", "finish", "return", "free"}
  /\ pc # "free" => \A k \in 1 .. issued : made[k].src = k - 1 /\ made[k].other = k - 1
  /\ pc \in {"stencil", "finish"} =>
       /\ live = Stored(issued)
       /\ \A v \in live : grid[v % t_store] = v
       /\ \A i \in 0 .. t_store - 1 : i > issued => grid[i] = -1
  /\ pc = "store" =>
       /\ issued > 0
       /\ live = Stored(issued - 1) \cup {issued}
       /\ \A v \in Stored(issued - 1) : grid[v % t_store] = v
       /\ \A i \in 0 .. t_store - 1 : i >= issued => grid[i] = -1
  /\ DOMAIN grid = 0 .. t_store - 1

(* finish() is never more than t_store - 1 operations behind. *)
LagInv ==
  /\ pc \in {"stencil", "store", "finish"} =>
       /\ issued - finished <= t_store - 1
       /\ ~FinishDue(issued) => issued - finished <= (issued % (t_store - 1)) + 1
  /\ pc = "finish" => FinishDue(issued)
  /\ pc = "stencil" /\ FinishDue(issued) => finished = issued
  /\ pc = "return" => finished = issued

ClientInv == LifeInv /\ RingInv /\ LagInv

(* grid[iprev] is the last vector. *)
LEMMA StencilKept ==
  ASSUME ClientInv, ExecutorInv', Stencil
  PROVE  ClientInv'
  <1>. DEFINE s == grid[issued % t_store]
  <1>1. PICK a : Operate([kind |-> "stencil", src |-> s, other |-> s], a)
    BY DEF Stencil
  <1>2. /\ pc = "stencil" /\ pc' = "store" /\ grid' = grid
        /\ issued' = issued + 1 /\ finished' = finished
    BY <1>1 DEF Stencil, Operate, Issue
  <1>3. issued \in Nat /\ finished \in Nat /\ t_store \in Nat \ {0, 1, 2}
    BY DEF ClientInv, LifeInv, ExecutorInv, ExecutorTypeOK
  <1>4. s = issued /\ issued \in live
    <2>1. issued \in Stored(issued)
      BY <1>3 DEF Stored
    <2>. QED
      BY <1>2, <2>1 DEF ClientInv, RingInv
  <1>6. LifeInv'
    <2>1. "stencil" \in Kind /\ s \in live /\ LifeInv
      BY <1>4 DEF Kind, ClientInv
    <2>. HIDE DEF s
    <2>. QED
      BY <1>1, <2>1, OperateKept
  <1>7. /\ live' = live \cup {issued + 1}
        /\ made' = Append(made, [kind |-> "stencil", src |-> issued, other |-> issued])
    BY <1>1, <1>4 DEF Operate
  <1>8. RingInv'
    <2>1. \A k \in 1 .. issued + 1 : made'[k].src = k - 1 /\ made'[k].other = k - 1
      BY <1>2, <1>3, <1>7 DEF ClientInv, RingInv, LifeInv, RecordsInv
    <2>2. /\ live' = Stored(issued) \cup {issued + 1}
          /\ \A v \in Stored(issued) : grid'[v % t_store] = v
          /\ \A i \in 0 .. t_store - 1 : i >= issued + 1 => grid'[i] = -1
      BY <1>2, <1>3, <1>7 DEF ClientInv, RingInv
    <2>3. issued' - 1 = issued /\ issued' > 0
      BY <1>2, <1>3
    <2>4. DOMAIN grid' = 0 .. t_store - 1
      BY <1>2 DEF ClientInv, RingInv
    <2>. QED
      BY <1>2, <2>1, <2>2, <2>3, <2>4 DEF RingInv
  <1>9. LagInv'
    <2>. DEFINE n == t_store - 1
                r == issued % n
    <2>1. n \in Nat \ {0} /\ n > 1
      BY <1>3
    <2>2. r \in 0 .. n - 1
      BY <1>3, <2>1, Remainder
    <2>3. (issued + 1) % n = IF r = n - 1 THEN 0 ELSE r + 1
      BY <1>3, <2>1, Slots
    <2>4. /\ FinishDue(issued) <=> r = n - 1
          /\ FinishDue(issued + 1) <=> (issued + 1) % n = n - 1
      BY <1>3 DEF FinishDue
    <2>5. /\ r # n - 1 => issued - finished <= r + 1
          /\ r = n - 1 => finished = issued
      BY <1>2, <2>4 DEF ClientInv, LagInv
    <2>. HIDE DEF r, n
    <2>6. issued + 1 - finished <= n
      BY <1>3, <2>1, <2>2, <2>5
    <2>7. (issued + 1) % n # n - 1 => issued + 1 - finished <= ((issued + 1) % n) + 1
      BY <1>3, <2>1, <2>2, <2>3, <2>5
    <2>8. issued' - finished' <= n
      BY <1>2, <1>3, <2>1, <2>6
    <2>9. ~FinishDue(issued') => issued' - finished' <= (issued' % n) + 1
      <3>1. issued' % n # n - 1 => issued' - finished' <= (issued' % n) + 1
        BY <1>2, <1>3, <2>1, <2>7
      <3>2. FinishDue(issued') <=> issued' % n = n - 1
        BY <1>2, <2>4, Zenon
      <3>. QED
        BY <3>1, <3>2
    <2>. QED
      BY <1>2, <2>8, <2>9 DEF LagInv, n
  <1>. QED
    BY <1>6, <1>8, <1>9 DEF ClientInv

(* The ring drops the vector of t_store steps ago: finish() has seen what used it. *)
LEMMA StoreKept ==
  ASSUME ClientInv, ExecutorInv', Store
  PROVE  ClientInv'
  <1>. DEFINE i == issued % t_store
  <1>1. /\ pc = "store" /\ grid' = [grid EXCEPT ![i] = issued]
        /\ pc' = IF FinishDue(issued) THEN "finish" ELSE "stencil"
        /\ IF grid[i] = -1 THEN UNCHANGED <<lifeVars, executorVars>> ELSE Destroy(grid[i])
    BY DEF Store
  <1>2. /\ issued \in Nat /\ finished \in Nat /\ t_store \in Nat \ {0, 1, 2}
        /\ issued > 0 /\ issued - 1 \in Nat
    BY <1>1 DEF ClientInv, LifeInv, ExecutorInv, ExecutorTypeOK, RingInv
  <1>3. i \in 0 .. t_store - 1
    BY <1>2, Remainder
  <1>4. /\ live = Stored(issued - 1) \cup {issued}
        /\ \A v \in Stored(issued - 1) : grid[v % t_store] = v
        /\ \A j \in 0 .. t_store - 1 : j >= issued => grid[j] = -1
        /\ DOMAIN grid = 0 .. t_store - 1
        /\ \A k \in 1 .. issued : made[k].src = k - 1 /\ made[k].other = k - 1
    BY <1>1 DEF ClientInv, RingInv
  <1>5. /\ issued < t_store => grid[i] = -1
        /\ issued >= t_store => grid[i] = issued - t_store /\ issued - t_store \in live
    <2>1. CASE issued < t_store
      <3>1. i = issued
        BY <1>2, <2>1, Slots
      <3>. HIDE DEF i
      <3>2. grid[i] = -1
        BY <1>2, <1>3, <1>4, <3>1
      <3>. QED
        BY <1>2, <2>1, <3>2 DEF i
    <2>2. CASE issued >= t_store
      <3>1. issued - t_store \in Stored(issued - 1)
        BY <1>2, <2>2 DEF Stored
      <3>2. (issued - t_store) % t_store = i
        BY <1>2, <2>2, Slots
      <3>. QED
        BY <1>2, <1>4, <2>2, <3>1, <3>2
    <2>. QED
      BY <1>2, <2>1, <2>2
  <1>6. LifeInv' /\ UNCHANGED <<issued, finished, made>> /\ live' = Stored(issued)
    <2>1. CASE issued < t_store
      <3>1. UNCHANGED <<lifeVars, executorVars>>
        BY <1>1, <1>5, <2>1
      <3>2. UNCHANGED <<issued, finished, rruns, made, live>> /\ UNCHANGED lifeVars
        BY <3>1 DEF lifeVars, executorVars
      <3>3. Stored(issued - 1) \cup {issued} = Stored(issued)
        BY <1>2, <2>1 DEF Stored
      <3>. QED
        BY <1>4, <3>2, <3>3, PoolKept DEF ClientInv
    <2>2. CASE issued >= t_store
      <3>. DEFINE v == issued - t_store
      <3>1. Destroy(v) /\ v \in live
        BY <1>1, <1>2, <1>5, <2>2
      <3>2. issued - finished <= t_store - 1
        BY <1>1 DEF ClientInv, LagInv
      <3>3. \A k \in finished + 1 .. issued : v # k /\ v \notin Arguments(k)
        <4>. SUFFICES ASSUME NEW k \in finished + 1 .. issued
                      PROVE  v # k /\ v \notin Arguments(k)
          OBVIOUS
        <4>1. k \in 1 .. issued /\ v < k - 1
          BY <1>2, <3>2
        <4>2. Arguments(k) = {k - 1}
          BY <1>4, <4>1 DEF Arguments
        <4>. QED
          BY <1>2, <4>1, <4>2
      <3>4. Stored(issued) = (Stored(issued - 1) \cup {issued}) \ {v}
        BY <1>2, <2>2 DEF Stored
      <3>5. live' = live \ {v} /\ UNCHANGED <<issued, finished, made>>
        BY <3>1 DEF Destroy, executorVars
      <3>. HIDE DEF v
      <3>. QED
        BY <1>4, <3>1, <3>3, <3>4, <3>5, DestroyKept DEF ClientInv
    <2>. QED
      BY <1>2, <2>1, <2>2
  <1>7. RingInv'
    <2>1. pc' \in {"stencil", "finish"}
      BY <1>1
    <2>2. ASSUME NEW v \in Stored(issued)
          PROVE  grid'[v % t_store] = v
      <3>1. CASE v = issued
        BY <1>1, <1>3, <1>4, <3>1
      <3>2. CASE v # issued
        <4>1. v \in Stored(issued - 1) /\ v \in Nat /\ v < issued /\ issued - v < t_store
          BY <1>2, <3>2 DEF Stored
        <4>2. v % t_store # i
          BY <1>2, <4>1, OwnSlot
        <4>3. grid'[v % t_store] = grid[v % t_store]
          <5>1. v % t_store \in 0 .. t_store - 1
            BY <1>2, <4>1, Remainder
          <5>. QED
            BY <1>1, <1>4, <4>2, <5>1
        <4>. QED
          BY <1>4, <4>1, <4>3
      <3>. QED
        BY <3>1, <3>2
    <2>3. ASSUME NEW j \in 0 .. t_store - 1, j > issued
          PROVE  grid'[j] = -1
      <3>1. i = issued
        BY <1>2, <2>3, Slots
      <3>2. grid[j] = -1
        BY <1>2, <1>4, <2>3
      <3>. HIDE DEF i
      <3>. QED
        BY <1>1, <1>2, <1>4, <2>3, <3>1, <3>2
    <2>4. DOMAIN grid' = 0 .. t_store - 1
      BY <1>1, <1>4
    <2>. QED
      BY <1>4, <1>6, <2>1, <2>2, <2>3, <2>4 DEF RingInv
  <1>8. LagInv'
    BY <1>1, <1>6 DEF ClientInv, LagInv
  <1>. QED
    BY <1>6, <1>7, <1>8 DEF ClientInv

(* finish() returns to cont_heat. *)
LEMMA WaitKept ==
  ASSUME ClientInv, ExecutorInv', Wait
  PROVE  ClientInv'
  <1>1. /\ grid' = grid /\ UNCHANGED <<live, at, made, tracker>> /\ UNCHANGED lifeVars
        /\ issued' = issued /\ finished' = issued /\ rruns' = rruns
        /\ \/ pc = "finish" /\ pc' = "stencil"
           \/ pc = "stencil" /\ pc' = "return"
    BY DEF Wait, Finish, FinishReturn, lifeVars
  <1>2. LifeInv'
    BY <1>1, PoolKept DEF ClientInv
  <1>3. RingInv'
    BY <1>1 DEF ClientInv, RingInv
  <1>4. LagInv'
    <2>1. issued \in Nat /\ t_store - 1 \in Nat \ {0}
      BY DEF ClientInv, LifeInv, ExecutorInv, ExecutorTypeOK
    <2>2. issued % (t_store - 1) \in Nat
      BY <2>1, Remainder
    <2>. QED
      BY <1>1, <2>1, <2>2 DEF LagInv
  <1>. QED
    BY <1>2, <1>3, <1>4 DEF ClientInv

(* The end of cont_heat. *)
LEMMA ReturnKept ==
  ASSUME ClientInv, ExecutorInv', Return
  PROVE  ClientInv'
  <1>1. PICK v \in live : Destroy(v)
    BY DEF Return
  <1>2. pc = "return" /\ UNCHANGED <<pc, grid>>
    BY DEF Return
  <1>3. UNCHANGED <<made, issued, finished>>
    BY <1>1 DEF Destroy, executorVars
  <1>4. finished + 1 .. issued = {}
    BY <1>2 DEF ClientInv, LagInv, LifeInv, ExecutorInv, ExecutorTypeOK
  <1>5. LifeInv'
    BY <1>1, <1>4, DestroyKept DEF ClientInv
  <1>6. RingInv' /\ LagInv'
    BY <1>2, <1>3 DEF ClientInv, RingInv, LagInv
  <1>. QED
    BY <1>5, <1>6 DEF ClientInv

(* The other program operates on what it likes. *)
LEMMA FreeOperateKept ==
  ASSUME ClientInv, ExecutorInv', FreeOperate
  PROVE  ClientInv'
  <1>. DEFINE usable == {v \in live : v > 0 => made[v].kind # "reduce"}
  <1>1. PICK kind \in Kind, s \in usable, o \in usable, a \in Addr :
          /\ kind = "foreach_cvec" <=> s # o
          /\ Operate([kind |-> kind, src |-> s, other |-> o], a)
    BY DEF FreeOperate
  <1>2. pc = "free" /\ UNCHANGED <<pc, grid>>
    BY DEF FreeOperate
  <1>3. s \in live /\ o \in live
    OBVIOUS
  <1>4. LifeInv'
    BY <1>1, <1>3, OperateKept DEF ClientInv
  <1>5. DOMAIN grid' = 0 .. t_store - 1
    BY <1>2 DEF ClientInv, RingInv
  <1>6. RingInv' /\ LagInv'
    BY <1>2, <1>5 DEF RingInv, LagInv
  <1>. QED
    BY <1>4, <1>6 DEF ClientInv

(* If it is careful, it drops vectors after finish(). *)
LEMMA FreeDestroyKept ==
  ASSUME ClientInv, ExecutorInv', FreeDestroy
  PROVE  ClientInv'
  <1>1. PICK v \in live : Destroy(v)
    BY DEF FreeDestroy
  <1>2. pc = "free" /\ UNCHANGED <<pc, grid>> /\ (Careful => finished = issued)
    BY DEF FreeDestroy
  <1>3. Careful => finished + 1 .. issued = {}
    BY <1>2 DEF ClientInv, LifeInv, ExecutorInv, ExecutorTypeOK
  <1>4. LifeInv'
    BY <1>1, <1>3, DestroyKept DEF ClientInv
  <1>5. DOMAIN grid' = 0 .. t_store - 1
    BY <1>2 DEF ClientInv, RingInv
  <1>6. RingInv' /\ LagInv'
    BY <1>2, <1>5 DEF RingInv, LagInv
  <1>. QED
    BY <1>4, <1>6 DEF ClientInv

(* The clients' invariant holds at first. *)
LEMMA ClientStart == ClientInit => ClientInv
  <1>. SUFFICES ASSUME ClientInit
                PROVE  ClientInv
    OBVIOUS
  <1>1. /\ live = {0} /\ made = <<>> /\ issued = 0 /\ finished = 0
        /\ tracker = [v \in {0} |-> Untracked]
        /\ pc \in {"stencil", "free"}
        /\ grid = [i \in 0 .. t_store - 1 |-> IF i = 0 THEN 0 ELSE -1]
    BY DEF ClientInit, Init, ExecutorInit
  <1>2. DOMAIN at = {0}
    BY DEF ClientInit, Init
  <1>3. ExecutorInv
    BY ExecutorInitInv DEF ClientInit, Init
  <1>4. 0 .. issued = {0} /\ finished + 1 .. issued = {} /\ 1 .. issued = {}
    BY <1>1
  <1>5. RecordsInv /\ RecentInv /\ AddressInv /\ FitsInv
    <2>1. made \in Seq(MadeOp) /\ Len(made) = 0
      BY <1>1
    <2>. QED
      BY <1>1, <1>2, <1>4, <2>1 DEF RecordsInv, RecentInv, AddressInv, FitsInv
  <1>6. TrackInv
    BY <1>1, <1>4 DEF TrackInv, Users, Untracked
  <1>7. RingInv
    <2>1. Stored(0) = {0}
      BY DEF Stored
    <2>2. 0 % t_store = 0
      BY Slots
    <2>3. grid[0] = 0 /\ \A i \in 0 .. t_store - 1 : i > 0 => grid[i] = -1
      BY <1>1
    <2>4. DOMAIN grid = 0 .. t_store - 1
      BY <1>1
    <2>. QED
      BY <1>1, <1>4, <2>1, <2>2, <2>3, <2>4 DEF RingInv
  <1>8. LagInv
    <2>1. t_store - 1 \in Nat \ {0} /\ t_store - 2 # 0
      OBVIOUS
    <2>2. 0 % (t_store - 1) = 0
      BY <2>1, Slots
    <2>3. ~FinishDue(0)
      BY <2>1, <2>2 DEF FinishDue
    <2>. QED
      BY <1>1, <2>1, <2>2, <2>3 DEF LagInv
  <1>. QED
    BY <1>3, <1>5, <1>6, <1>7, <1>8 DEF ClientInv, LifeInv

(* Every step of a client and of the pool keeps it. *)
LEMMA ClientKept ==
  ASSUME ClientInv, [ClientNext]_vars
  PROVE  ClientInv'
  <1>1. ExecutorInv'
    BY ExecutorSteps, ExecutorKept DEF ClientInv, LifeInv
  <1>2. CASE FreeFinish
    <2>1. /\ UNCHANGED lifeVars /\ UNCHANGED <<pc, grid>> /\ pc = "free"
          /\ issued' = issued /\ finished' = issued /\ rruns' = rruns
      BY <1>2 DEF FreeFinish, Finish, FinishReturn
    <2>2. LifeInv'
      BY <1>1, <2>1, PoolKept DEF ClientInv
    <2>3. RingInv' /\ LagInv'
      BY <2>1 DEF ClientInv, RingInv, LagInv
    <2>. QED
      BY <2>2, <2>3 DEF ClientInv
  <1>3. ASSUME UNCHANGED <<pc, grid, issued, finished, live, made>>, LifeInv'
        PROVE  ClientInv'
    <2>1. RingInv' /\ LagInv'
      BY <1>3 DEF ClientInv, RingInv, LagInv
    <2>. QED
      BY <1>3, <2>1 DEF ClientInv
  <1>4. CASE \/ UNCHANGED vars
             \/ ((\E p \in Worker : RunTask(p)) \/ ResolveEnd) /\ UNCHANGED <<lifeVars, pc, grid>>
    <2>1. UNCHANGED <<pc, grid, issued, finished, rruns>> /\ UNCHANGED lifeVars
      BY <1>4 DEF RunTask, ResolveEnd, vars, executorVars
    <2>2. UNCHANGED <<live, made>>
      BY <2>1 DEF lifeVars
    <2>3. LifeInv'
      BY <1>1, <2>1, PoolKept DEF ClientInv
    <2>. QED
      BY <1>3, <2>1, <2>2, <2>3
  <1>5. CASE (\E k \in Op : Resolve(k)) /\ UNCHANGED <<pc, grid>>
    <2>1. UNCHANGED <<pc, grid, issued, finished, live, made>>
      BY <1>5 DEF Resolve, ResolveStart
    <2>2. LifeInv'
      BY <1>1, <1>5, ResolveKept DEF ClientInv
    <2>. QED
      BY <1>3, <2>1, <2>2
  <1>6. CASE Work /\ UNCHANGED <<pc, grid>>
    BY <1>4, <1>5, <1>6 DEF Work
  <1>. QED
    BY <1>1, <1>2, <1>4, <1>6, StencilKept, StoreKept, WaitKept, ReturnKept, FreeOperateKept,
       FreeDestroyKept DEF ClientNext, Done

(* The inductive invariant of clients. *)
THEOREM ClientInvariance == ClientSpec => []ClientInv
  <1>1. ClientInv /\ [ClientNext]_vars => ClientInv'
    BY ClientKept
  <1>. QED
    BY <1>1, ClientStart, PTL DEF ClientSpec

(***************************************************************************)
(* Calling finish() once in t_store - 1 steps is enough, for a ring of any *)
(* size: no vector is dropped that a task or a resolution still refers to. *)
(***************************************************************************)
THEOREM ClientsSafe ==
  ASSUME Careful
  PROVE  ClientSpec => []NoneDangling
  <1>1. ClientInv => NoneDangling
    BY LifeSafe DEF ClientInv
  <1>. QED
    BY <1>1, ClientInvariance, PTL

(***************************************************************************)
(* Entries of trackers are never erased and addresses are used again: an   *)
(* operation whose dependent is where one of its source was before works   *)
(* with what that left.  Only reduces after reduces and foreachs after     *)
(* foreachs find the maps they were made with; a stencil there never does. *)
(***************************************************************************)
THEOREM TrackersFit == ClientSpec => []TrackerFits
  <1>1. ClientInv => TrackerFits
    BY LifeSafe DEF ClientInv
  <1>. QED
    BY <1>1, ClientInvariance, PTL
=============================================================================
