\* Every call returns when every thread runs.
CONSTANTS
  Proc = {p1, p2, p3}
  Capacity = 1
  NoValue = NoValue
  Api = {"push", "force_push", "pop", "len"}
  WeakCas = FALSE
  StaleLoads = FALSE
  MaxCalls = 4
SPECIFICATION FairSpec
PROPERTY CallsReturn
\* The number of calls is bounded.
CHECK_DEADLOCK FALSE
