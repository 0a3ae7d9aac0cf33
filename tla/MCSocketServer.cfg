SPECIFICATION FairSpec
CONSTANTS
  c1 = c1
  c2 = c2
  Conns = {c1, c2}
  MaxWorkers = 1
INVARIANTS
  TypeOK
  CountersAddUp
  NothingUsesClosed
PROPERTIES
  StopEndsProcess
  AcceptedIsHandled
  ImplementsVerdictService
\* The process ends after SIGTERM.
CHECK_DEADLOCK FALSE
