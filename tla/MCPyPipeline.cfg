SPECIFICATION PipelineSpec
CONSTANTS
  c1 = c1
  c2 = c2
  good = good
  evil = evil
  spoof = spoof
  cve = cve
  mark = mark
  own = own
  other = other
  Calls <- MCCalls
  Keys <- MCKeys
  Contents <- MCKeys
  Addresses = {}
  Values = {"MALICIOUS", "CLEAN"}
  Requests <- MCRequests
  Sigs = {cve}
  Marks = {mark}
  MarksOf <- MCMarksOf
  Types <- MCTypes
  SpoofedAs <- MCSpoofedAs
  QueueSize = 1
  WriteBatch = 1
  MaxReloads = 1
INVARIANTS
  BlockJustified
  DetectedIsBlocked
\* Both requests end.
CHECK_DEADLOCK FALSE
