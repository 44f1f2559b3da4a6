------------------------ MODULE ContentiousConstants ------------------------
(* contentious_constants.h: the number of workers, fixed when compiling. *)
EXTENDS Integers

CONSTANT HWCONC

ASSUME HWCONCAssumption == HWCONC \in Nat \ {0}

Worker == 0 .. HWCONC - 1

=============================================================================
