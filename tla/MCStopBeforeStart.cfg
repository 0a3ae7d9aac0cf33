\* SIGTERM before the server has published its listener.
SPECIFICATION FairSpec
CONSTANTS
  c1 = c1
  c2 = c2
  Conns = {c1}
  MaxWorkers = 1
PROPERTY
  StartEndsOnStop
\* The process ends after SIGTERM.
CHECK_DEADLOCK FALSE
