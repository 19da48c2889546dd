\* Every function, no block released over references.
CONSTANTS
  Handle = {h1, h2, h3}
  NoWaiter = NoWaiter
  MaxWaiting = 2
  RefLimit = 4
  Api = {"get_ref", "try_get_ref", "blocking_get_ref",
         "get_exclusive_ref", "try_get_exclusive_ref", "blocking_get_exclusive_ref",
         "block_refs", "try_block_refs"}
  CasAttempts = 4
  ExclusiveChecks = 5
  WeakCas = TRUE
  SpuriousPolls = FALSE
  Cancellation = FALSE
  Repeat = TRUE
SPECIFICATION CarefulSpec
INVARIANTS
  LockInv
  BlockedHasOwner
  WaiterInv
  SleepsForAReason
PROPERTIES
  RWSafeSpec
  ObservationsLast
  OnlyLateStoresLie
  OnlyLatePushesStrand
SYMMETRY Symmetry
