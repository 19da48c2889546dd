\* Clients that ask once, as futures and blocking: the readers-writer
\* protocol, with its liveness.
CONSTANTS
  Handle = {h1, h2, h3}
  NoWaiter = NoWaiter
  MaxWaiting = 2
  RefLimit = 4
  Api = {"get_ref", "get_exclusive_ref", "blocking_get_ref", "blocking_get_exclusive_ref"}
  CasAttempts = 2
  ExclusiveChecks = 2
  WeakCas = FALSE
  SpuriousPolls = FALSE
  Cancellation = FALSE
  Repeat = FALSE
SPECIFICATION FairSpec
PROPERTIES
  RWSpec
  QueuedIsWoken
  BlockingServed
  DrainEnds
\* Clients that are done stop.
CHECK_DEADLOCK FALSE
