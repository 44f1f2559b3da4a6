----------------------------- MODULE MCLifoSem -----------------------------
(* LifoSem for TLC: one waiter that waits twice, so that a node can be pushed
   again while a poster still holds the head it loaded before. *)
EXTENDS LifoSem, TLC

CONSTANTS w1, w2, p1, p2

MCCalls == (w1 :> 2) @@ (w2 :> 1) @@ (p1 :> 1) @@ (p2 :> 2)
=============================================================================
