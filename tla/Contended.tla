----------------------------- MODULE Contended -----------------------------
(***************************************************************************)
(* The first part of resolve_monotonic: for one index map, collect from    *)
(* the bounds of every partition the source indices that one worker writes *)
(* and another one reads.                                                  *)
(***************************************************************************)
EXTENDS Mapping

CONSTANTS
  MinSize, MaxSize,   \* bounds: sizes of the vectors that are looked at
  MaxOff              \* bound: offsets of the index maps, either way

ASSUME SizeAssumption == MinSize \in Nat \ {0} /\ MaxSize \in Nat
ASSUME MaxOffAssumption == MaxOff \in Nat

Offsets == -MaxOff .. MaxOff

VARIABLES
  sz,           \* this->size()
  imap,         \* dep_tracker.imaps[i]
  p,            \* loop index
  icontended    \* dep_tracker.icontended[i]

vars == <<sz, imap, p, icontended>>

TypeOK ==
  /\ sz \in MinSize .. MaxSize
  /\ imap \in {offset(o) : o \in Offsets}
  /\ p \in 0 .. HWCONC
  /\ icontended \subseteq Int

Init ==
  /\ sz \in MinSize .. MaxSize
  /\ imap \in {offset(o) : o \in Offsets}
  /\ p = 0
  /\ icontended = {}

(* mutant: the loop runs once too often *)
CollectPast ==
  /\ p <= HWCONC
  /\ icontended' = icontended \cup Crossing(imap, p, sz)
  /\ p' = p + 1
  /\ UNCHANGED <<sz, imap>>

(* one round of the loop over the workers *)
Collect ==
  /\ p < HWCONC
  /\ icontended' = icontended \cup Crossing(imap, p, sz)
  /\ p' = p + 1
  /\ UNCHANGED <<sz, imap>>

Collected == p = HWCONC /\ UNCHANGED vars

Next == Collect \/ Collected

Spec == Init /\ [][Next]_vars

-----------------------------------------------------------------------------
Index == 0 .. sz - 1

(* The partitions split the indices of a vector: no gap and no overlap. *)
PartitionExact ==
  \A i \in Index : \E q \in Worker : /\ Owns(q, i, sz)
                                     /\ \A r \in Worker : Owns(r, i, sz) => r = q

(***************************************************************************)
(* The bounds of the partitions give every source index that is written by *)
(* one worker and mapped to an index that another worker computes: none    *)
(* escapes the resolution.                                                 *)
(***************************************************************************)
ContendedComplete ==
  p = HWCONC =>
    \A c \in Index, q, r \in Worker :
      (Owns(q, c, sz) /\ Owns(r, Apply(imap, c), sz) /\ q # r) => c \in icontended

(***************************************************************************)
(* If no partition is empty, the ranges over which the workers run the     *)
(* three-point stencil are valid and split the interior of the vector. A   *)
(* vector of one element and one worker would have the range 1 .. -1.      *)
(***************************************************************************)
KernelCoversInterior ==
  (sz > 1 /\ \A q \in Worker : partition(q, sz).a < partition(q, sz).b) =>
    /\ \A q \in Worker : KernelLo(q, sz) <= KernelHi(q, sz)
    /\ \A i \in Index :
         (i \in 1 .. sz - 2) <=>
         (\E q \in Worker : i >= KernelLo(q, sz) /\ i < KernelHi(q, sz))
=============================================================================
