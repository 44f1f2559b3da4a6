------------------------------ MODULE Mapping ------------------------------
(***************************************************************************)
(* The index arithmetic of contentious.h and contentious.cc: how a vector  *)
(* is split among the workers, what an index map does to an index, which   *)
(* indices a worker reads and which it may compute.                        *)
(***************************************************************************)
EXTENDS ContentiousConstants

Lesser(a, b)  == IF a <= b THEN a ELSE b
Greater(a, b) == IF a >= b THEN a ELSE b

(* std::ceil(double(sz) / HWCONC), exact for the sizes of vectors *)
ChunkSz(sz) == (sz + HWCONC - 1) \div HWCONC

(* mutant: the quotient is truncated *)
ChunkSzFloor(p, sz) == [a |-> (sz \div HWCONC) * p,
                        b |-> Lesser((sz \div HWCONC) * (p + 1), sz)]

(* worker p has the indices a .. b - 1 *)
partition(p, sz) == [a |-> ChunkSz(sz) * p,
                     b |-> Lesser(ChunkSz(sz) * (p + 1), sz)]

Owns(p, i, sz) == i >= partition(p, sz).a /\ i < partition(p, sz).b

-----------------------------------------------------------------------------
(* Index maps: where an element of the source goes in the dependent *)

offset(o)   == [kind |-> "offset", o |-> o]
identity    == offset(0)
alltoone(i) == [kind |-> "alltoone", o |-> i]

Apply(imap, i) == IF imap.kind = "offset" THEN i - imap.o ELSE imap.o

is_monotonic(imap) == Apply(imap, 0) < Apply(imap, 1)

(* mutant: only the upper end is clipped *)
SafeMappingHigh(imap, i, lo, hi) ==
  LET o == i - Apply(imap, i)
      x == Greater(0, i + o - hi)
  IN  [dom |-> i + o - x, ran |-> i - x]

(***************************************************************************)
(* dom: the source index that index ran of the dependent reads, both       *)
(* shifted together so that lo <= dom <= hi.                               *)
(***************************************************************************)
safe_mapping(imap, i, lo, hi) ==
  LET o    == i - Apply(imap, i)
      up   == Greater(0, lo - (i + o))
      down == Greater(0, (i + o + up) - hi)
  IN  [dom |-> i + o + up - down, ran |-> i + up - down]

-----------------------------------------------------------------------------
(* What worker p contributes to icontended in resolve_monotonic *)

(* mutant: only the lower end of a partition is looked at *)
CrossingLow(imap, p, sz) ==
  LET lo == safe_mapping(imap, partition(p, sz).a, 0, sz)
  IN  lo.dom .. lo.ran - 1

Crossing(imap, p, sz) ==
  LET lo == safe_mapping(imap, partition(p, sz).a, 0, sz)
      hi == safe_mapping(imap, partition(p, sz).b, 0, sz)
  IN  (lo.dom .. lo.ran - 1) \cup (hi.ran .. hi.dom - 1)

Icontended(imap, sz) == UNION {Crossing(imap, p, sz) : p \in Worker}

-----------------------------------------------------------------------------
(* stencil_splt<-1, 0, 1>: "the narrowest valid range" of worker p *)

StencilOffs == {-1, 0, 1}

KernelLo(p, sz) ==
  LET ran == {safe_mapping(offset(o), partition(p, sz).a, 0, sz).ran : o \in StencilOffs}
  IN  CHOOSE r \in ran : \A s \in ran : s <= r

KernelHi(p, sz) ==
  LET ran == {safe_mapping(offset(o), partition(p, sz).b, 0, sz).ran : o \in StencilOffs}
  IN  CHOOSE r \in ran : \A s \in ran : r <= s

=============================================================================
