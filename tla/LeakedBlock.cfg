\* A FutureExclusiveRef that owns the block is dropped.
CONSTANTS
  Handle = {h1, h2}
  NoWaiter = NoWaiter
  MaxWaiting = 1
  RefLimit = 4
  Api = {"get_ref", "get_exclusive_ref"}
  CasAttempts = 1
  ExclusiveChecks = 2
  WeakCas = FALSE
  SpuriousPolls = FALSE
  Cancellation = TRUE
  Repeat = TRUE
SPECIFICATION Spec
INVARIANT
  BlockedHasOwner
