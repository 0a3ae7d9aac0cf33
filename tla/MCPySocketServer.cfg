SPECIFICATION FairServerSpec
CONSTANTS
  c1 = c1
  c2 = c2
  c3 = c3
  Conns = {c1, c2, c3}
  MaxWorkers = 2
INVARIANTS
  CountersAddUp
  StopIsFinal
PROPERTIES
  PoolDrains
  ImplementsVerdictService
\* The threads end after stop.
CHECK_DEADLOCK FALSE
