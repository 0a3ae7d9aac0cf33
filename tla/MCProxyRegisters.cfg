SPECIFICATION FairSpec
CONSTANTS
  r1 = r1
  r2 = r2
  i1 = i1
  Ids = {r1}
  Agents = {"proxy"}
  Proxied = {r1}
  Inspected = {}
  Proxy = "proxy"
  Actor = "proxy"
  Threads = 1
  Attempts = 10
  MaxFaults = 0
  MaxRestarts = 0
PROPERTIES
  ProxyRegisters
\* As in MCIngest.cfg.
CHECK_DEADLOCK FALSE
