\* The flag is stored after the Waiter has been woken.
CONSTANTS
  Handle = {h1, h2}
  NoWaiter = NoWaiter
  MaxWaiting = 1
  RefLimit = 4
  Api = {"get_ref", "get_exclusive_ref"}
  CasAttempts = 1
  ExclusiveChecks = 2
  WeakCas = FALSE
  SpuriousPolls = FALSE
  Cancellation = FALSE
  Repeat = TRUE
SPECIFICATION Spec
INVARIANT
  RegisteredMeansQueued
