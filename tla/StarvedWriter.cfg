\* A future that loses every compare-and-swap to another client.
CONSTANTS
  Handle = {h1, h2}
  NoWaiter = NoWaiter
  MaxWaiting = 1
  RefLimit = 4
  Api = {"get_ref", "get_exclusive_ref"}
  CasAttempts = 4
  ExclusiveChecks = 5
  WeakCas = FALSE
  SpuriousPolls = FALSE
  Cancellation = FALSE
  Repeat = TRUE
SPECIFICATION FairSpec
PROPERTY
  PolledIsServed
