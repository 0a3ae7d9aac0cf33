SPECIFICATION FairSpec
CONSTANTS
  r1 = r1
  r2 = r2
  r3 = r3
  Reqs = {r1, r2, r3}
  Addrs = {"a", "b"}
  Buckets = {1, 2}
  AddrOf <- MixedAddrs
  BucketOf <- TwoBuckets
  ServerOf <- MixedServers
  WithBody = {r2, r3}
  HasShm = TRUE
  TimeoutMs = 10
INVARIANTS
  TypeOK
  ForbiddenIsDecided
  CachedIfAllowed
PROPERTY
  EndsWithoutAgent
\* Every request ends.
CHECK_DEADLOCK FALSE
