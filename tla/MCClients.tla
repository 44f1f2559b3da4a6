----------------------------- MODULE MCClients -----------------------------
(* Clients for TLC: which address a vector gets is up to symmetry. *)
EXTENDS Clients, TLC

AddrSymmetry == Permutations(Addr)
=============================================================================
