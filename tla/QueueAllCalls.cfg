\* Every function of the queue, over several laps of the buffer.
CONSTANTS
  Proc = {p1, p2, p3}
  Capacity = 2
  NoValue = NoValue
  Api = {"push", "force_push", "pop", "is_empty", "is_full", "len"}
  WeakCas = TRUE
  StaleLoads = TRUE
  MaxCalls = 6
SPECIFICATION Spec
INVARIANTS
  TypeOK
  StampInv
  NoDataRace
  WaitsForSomebody
  DropsEachValue
  IteratesInOrder
PROPERTIES
  FifoSpec
  FullMeansFull
  EmptyMeansEmpty
  LenCovers
SYMMETRY Symmetry
\* The number of calls is bounded.
CHECK_DEADLOCK FALSE
