SPECIFICATION GateFairSpec
CONSTANTS
  Attempts = {a1, a2, a3, a4, p1, p2}
  Priority = {p1, p2}
  MaxRunning = 2
  MaxWaiting = 2
INVARIANTS NoIdlePlace
PROPERTIES ServedInOrder QueuedAreServed
