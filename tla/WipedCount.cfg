\* try_get_exclusive_ref gives up while references exist.
CONSTANTS
  Handle = {h1, h2}
  NoWaiter = NoWaiter
  MaxWaiting = 1
  RefLimit = 4
  Api = {"try_get_ref", "try_get_exclusive_ref"}
  CasAttempts = 4
  ExclusiveChecks = 5
  WeakCas = TRUE
  SpuriousPolls = FALSE
  Cancellation = FALSE
  Repeat = TRUE
SPECIFICATION Spec
INVARIANT
  MutualExclusion
