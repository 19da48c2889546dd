\* An executor that polls at will and clients that drop futures.
CONSTANTS
  Handle = {h1, h2, h3}
  NoWaiter = NoWaiter
  MaxWaiting = 1
  RefLimit = 4
  Api = {"get_ref", "try_get_ref", "get_exclusive_ref", "blocking_get_exclusive_ref"}
  CasAttempts = 1
  ExclusiveChecks = 2
  WeakCas = TRUE
  SpuriousPolls = TRUE
  Cancellation = TRUE
  Repeat = TRUE
SPECIFICATION Spec
INVARIANTS
  TypeOK
  MutualExclusion
  CountExact
SYMMETRY Symmetry
