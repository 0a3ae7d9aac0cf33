SPECIFICATION FairSpec
CONSTANTS
  ip = ip
  cve = cve
  Keys <- MCKeys
  Addresses <- MCAddresses
  Values = {1, 2, 3}
  QueueSize = 2
  WriteBatch = 2
  Capacity = 2
  BatchSize = 1
  MaxEvents = 3
  MaxOther = 2
INVARIANTS
  EventsAccounted
  StopFlushesABatch
PROPERTIES
  WritesInOrder
  EventsAreOffered
\* Both threads and the writer end after stop and close.
CHECK_DEADLOCK FALSE
