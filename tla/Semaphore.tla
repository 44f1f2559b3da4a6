------------------------------ MODULE Semaphore ------------------------------
(***************************************************************************)
(* What a semaphore promises, and what Threadpool takes sems[p] for: a     *)
(* post adds a token, a wait returns when it has taken one.                *)
(***************************************************************************)
EXTENDS Naturals

CONSTANT Waiter        \* threads that call wait()

VARIABLES tokens,      \* posts that no wait has consumed
          waiting      \* threads inside wait()

SemInit == tokens = 0 /\ waiting = {}

WaitCall(t) ==
  /\ t \notin waiting
  /\ waiting' = waiting \cup {t}
  /\ UNCHANGED tokens

WaitReturn(t) ==
  /\ t \in waiting /\ tokens > 0
  /\ waiting' = waiting \ {t}
  /\ tokens' = tokens - 1

Post == tokens' = tokens + 1 /\ UNCHANGED waiting

SemNext == Post \/ \E t \in Waiter : WaitCall(t) \/ WaitReturn(t)

SemSpec == SemInit /\ [][SemNext]_<<tokens, waiting>>
=============================================================================
