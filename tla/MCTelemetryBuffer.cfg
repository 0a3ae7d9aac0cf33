SPECIFICATION FairSpec
CONSTANTS
  Capacity = 2
  BatchSize = 2
  MaxEvents = 5
INVARIANTS
  TypeOK
  Conservation
PROPERTIES
  AcceptedIsFlushed
  ImplementsLossyQueue
\* The flusher ends after Stop and the bounded number of Sends ends too.
CHECK_DEADLOCK FALSE
