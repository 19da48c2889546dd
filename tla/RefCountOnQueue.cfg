\* Every push and pop of a Waiter is a sequence of steps of ArrayQueue.
CONSTANTS
  Handle = {h1, h2, h3}
  NoWaiter = NoWaiter
  MaxWaiting = 1
  RefLimit = 4
  Api = {"get_ref", "get_exclusive_ref"}
  CasAttempts = 1
  ExclusiveChecks = 2
  WeakCas = FALSE
  SpuriousPolls = FALSE
  Cancellation = FALSE
  Repeat = TRUE
  StaleLoads = TRUE
  MaxTail = 2
SPECIFICATION QSpec
INVARIANTS
  WaitersAlive
  SleepsForAReason
  QueueInv
PROPERTY
  AtomicQueue
SYMMETRY Symmetry
\* A push that would pass MaxTail does not start.
CHECK_DEADLOCK FALSE
