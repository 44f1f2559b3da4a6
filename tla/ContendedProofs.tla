-------------------------- MODULE ContendedProofs --------------------------
(***************************************************************************)
(* The partition of a vector among the workers is exact, its bounds give   *)
(* all contended indices and the stencil runs over the interior, for every *)
(* size of the vector, every number of workers and every offset.           *)
(***************************************************************************)
EXTENDS Contended, CommonProofs

USE HWCONCAssumption

(***************************************************************************)
(* For every size of the vector and every number of workers, each index is *)
(* in the partition of exactly one worker.                                 *)
(***************************************************************************)
THEOREM PartitionCorrect == Spec => []PartitionExact
  <1>. DEFINE SizeInv == sz \in Nat \ {0}
  <1>1. Init => SizeInv
    BY SizeAssumption DEF Init
  <1>2. SizeInv /\ [Next]_vars => SizeInv'
    BY DEF Next, Collect, Collected, vars
  <1>3. SizeInv => PartitionExact
    BY OneOwner DEF PartitionExact, Index
  <1>. QED
    BY <1>1, <1>2, <1>3, PTL DEF Spec

(***************************************************************************)
(* For every size, number of workers and offset: an index that one worker  *)
(* writes and that another worker's index depends on is in icontended when *)
(* the loop over the partitions is over.                                   *)
(***************************************************************************)
THEOREM ContendedCorrect == Spec => []ContendedComplete
  <1>. DEFINE CInv == /\ sz \in Nat \ {0}
                      /\ \E o \in Int : imap = offset(o)
                      /\ p \in 0 .. HWCONC
                      /\ \A q \in Worker : q < p => Crossing(imap, q, sz) \subseteq icontended
  <1>1. Init => CInv
    BY SizeAssumption, MaxOffAssumption DEF Init, Offsets, Worker
  <1>2. CInv /\ [Next]_vars => CInv'
    <2>. SUFFICES ASSUME CInv, [Next]_vars
                  PROVE  CInv'
      OBVIOUS
    <2>1. CASE Collect
      <3>1. p' = p + 1 /\ p' \in 0 .. HWCONC /\ UNCHANGED <<sz, imap>>
        BY <2>1 DEF Collect
      <3>2. icontended' = icontended \cup Crossing(imap, p, sz)
        BY <2>1 DEF Collect
      <3>3. \A q \in Worker : q < p' => q < p \/ q = p
        BY <3>1 DEF Worker
      <3>. QED
        BY <3>1, <3>2, <3>3
    <2>2. CASE UNCHANGED vars
      BY <2>2 DEF vars
    <2>. QED
      BY <2>1, <2>2 DEF Next, Collected
  <1>3. CInv => ContendedComplete
    <2>. SUFFICES ASSUME CInv, p = HWCONC, NEW c \in Index,
                         NEW q \in Worker, NEW r \in Worker,
                         Owns(q, c, sz), Owns(r, Apply(imap, c), sz), q # r
                  PROVE  c \in icontended
      BY DEF ContendedComplete
    <2>1. PICK o \in Int : imap = offset(o)
      OBVIOUS
    <2>2. Apply(imap, c) = c - o
      BY <2>1 DEF Apply, offset
    <2>3. ~Owns(r, c, sz)
      BY OneOwner DEF Index
    <2>4. c \in Crossing(offset(o), r, sz)
      BY <2>2, <2>3, CrossingFound DEF Index
    <2>5. r < p
      BY DEF Worker
    <2>. QED
      BY <2>1, <2>4, <2>5
  <1>. QED
    BY <1>1, <1>2, <1>3, PTL DEF Spec

(***************************************************************************)
(* For every size of at least two and every number of workers: if no       *)
(* partition is empty, the ranges that stencil_splt finds are valid and    *)
(* every interior index is computed, no other one is.                      *)
(***************************************************************************)
THEOREM KernelCorrect == Spec => []KernelCoversInterior
  <1>. DEFINE SizeInv == sz \in Nat \ {0}
  <1>1. Init => SizeInv
    BY SizeAssumption DEF Init
  <1>2. SizeInv /\ [Next]_vars => SizeInv'
    BY DEF Next, Collect, Collected, vars
  <1>3. SizeInv => KernelCoversInterior
    <2>. SUFFICES ASSUME SizeInv, sz > 1,
                         \A q \in Worker : partition(q, sz).a < partition(q, sz).b
                  PROVE  /\ \A q \in Worker : KernelLo(q, sz) <= KernelHi(q, sz)
                         /\ \A i \in Index : (i \in 1 .. sz - 2) <=>
                              \E q \in Worker : i >= KernelLo(q, sz) /\ i < KernelHi(q, sz)
      BY DEF KernelCoversInterior
    <2>1. ASSUME NEW q \in Worker
          PROVE  /\ partition(q, sz).a \in Nat
                 /\ partition(q, sz).b \in Nat
                 /\ partition(q, sz).b <= sz
                 /\ KernelLo(q, sz) = IF partition(q, sz).a = 0 THEN 1 ELSE partition(q, sz).a
                 /\ KernelHi(q, sz) = IF partition(q, sz).b = sz THEN sz - 1
                                                                 ELSE partition(q, sz).b
      BY PartitionBounds, KernelRange
    <2>2. \A q \in Worker : KernelLo(q, sz) <= KernelHi(q, sz)
      BY <2>1
    <2>3. ASSUME NEW i \in Index, i \in 1 .. sz - 2
          PROVE  \E q \in Worker : i >= KernelLo(q, sz) /\ i < KernelHi(q, sz)
      <3>1. PICK q \in Worker : Owns(q, i, sz)
        BY OneOwner DEF Index
      <3>. QED
        BY <3>1, <2>1, <2>3 DEF Owns
    <2>4. ASSUME NEW i \in Index, NEW q \in Worker,
                 i >= KernelLo(q, sz), i < KernelHi(q, sz)
          PROVE  i \in 1 .. sz - 2
      BY <2>1, <2>4 DEF Index
    <2>. QED
      BY <2>2, <2>3, <2>4
  <1>. QED
    BY <1>1, <1>2, <1>3, PTL DEF Spec

(* What the loop of resolve_monotonic collects are integers, and it ends. *)
THEOREM ContendedTyped == Spec => []TypeOK
  <1>1. Init => TypeOK
    BY DEF Init, TypeOK
  <1>2. TypeOK /\ [Next]_vars => TypeOK'
    <2>. SUFFICES ASSUME TypeOK, [Next]_vars
                  PROVE  TypeOK'
      OBVIOUS
    <2>1. CASE Collect
      <3>1. Crossing(imap, p, sz) \subseteq Int
        BY DEF Crossing
      <3>2. sz' \in MinSize .. MaxSize /\ imap' \in {offset(o) : o \in Offsets}
        BY <2>1, Zenon DEF Collect, TypeOK
      <3>3. p' \in 0 .. HWCONC
        BY <2>1 DEF Collect, TypeOK
      <3>4. icontended' \subseteq Int
        BY <2>1, <3>1 DEF Collect, TypeOK
      <3>. QED
        BY <3>2, <3>3, <3>4 DEF TypeOK
    <2>2. CASE UNCHANGED vars
      BY <2>2 DEF vars, TypeOK
    <2>. QED
      BY <2>1, <2>2 DEF Next, Collected
  <1>. QED
    BY <1>1, <1>2, PTL DEF Spec

=============================================================================
