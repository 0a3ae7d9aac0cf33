SPECIFICATION FairSpec
CONSTANTS
  Workers = {w1, w2}
  Requests <- MixedRequests
  IPs <- MCIPs
  Contents <- MCContents
  Sigs = {"log4shell"}
  Marks = {"webshell"}
  MarksOf <- MCMarksOf
  Types <- MCTypes
  SpoofedAs <- MCSpoofedAs
  MaxChecks = 3
  MaxReloads = 1
  Keys <- MCKeys
  Values = {"BLOCK", "PERMIT", "MALICIOUS", "CLEAN"}
  None = None
  Expiring <- MCIPs
  QueueCap = 2
  BatchMax = 2
INVARIANTS
  TypeOK
  ShadowNeverBlocks
  NoScanGap
  CloseFlushes
PROPERTIES
  WritesApplyInOrder
  BlockHolds
\* The agent ends after SIGTERM.
CHECK_DEADLOCK FALSE
