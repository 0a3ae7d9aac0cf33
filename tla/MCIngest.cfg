SPECIFICATION FairSpec
CONSTANTS
  r1 = r1
  r2 = r2
  i1 = i1
  Ids = {r1, r2, i1}
  Agents = {"proxy"}
  Proxied = {r1, r2}
  Inspected = {i1}
  Proxy = "proxy"
  Actor = "proxy"
  Threads = 1
  Attempts = 2
  MaxFaults = 1
  MaxRestarts = 2
INVARIANTS
  RowsTellOutcome
PROPERTIES
  RequestEnds
  SettledOnce
\* The requests, the restarts and the attempts to register are bounded.
CHECK_DEADLOCK FALSE
