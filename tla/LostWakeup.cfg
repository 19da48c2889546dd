\* A Waiter queued just after the queue was drained.
CONSTANTS
  Handle = {h1, h2}
  NoWaiter = NoWaiter
  MaxWaiting = 1
  RefLimit = 4
  Api = {"get_ref", "get_exclusive_ref"}
  CasAttempts = 1
  ExclusiveChecks = 2
  WeakCas = FALSE
  SpuriousPolls = FALSE
  Cancellation = FALSE
  Repeat = FALSE
SPECIFICATION FairSpec
PROPERTY
  Served
CHECK_DEADLOCK FALSE
