\* A future that is Ready while its Waiter is queued.
CONSTANTS
  Handle = {h1, h2}
  NoWaiter = NoWaiter
  MaxWaiting = 1
  RefLimit = 4
  Api = {"get_ref", "get_exclusive_ref"}
  CasAttempts = 1
  ExclusiveChecks = 2
  WeakCas = FALSE
  SpuriousPolls = TRUE
  Cancellation = FALSE
  Repeat = TRUE
SPECIFICATION Spec
INVARIANT
  WaitersAlive
