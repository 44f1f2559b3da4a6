\* Two waiters and two posters on one semaphore, as many posts as waits.
SPECIFICATION Spec
CONSTANTS
  w1 = w1
  w2 = w2
  p1 = p1
  p2 = p2
  Waiter = {w1, w2}
  Poster = {p1, p2}
  Nodes = {1, 2}
  Calls <- MCCalls
INVARIANTS
  StackExact
  BatonAsserts
PROPERTIES
  ImplementsSemaphore
  EveryWaitReturns
