SPECIFICATION FairSpec
CONSTANTS
  r1 = r1
  r2 = r2
  r3 = r3
  Requests = {r1, r2, r3}
  Ids = {"a", "b"}
  IdOf <- MCIdOf
  Free = Free
  MaxRestarts = 1
  Pool = 2
  MaxSyncs = 1
  KindOf <- MixedKinds
  CredOf <- MixedCreds
INVARIANTS
  ChainVerifies
  NothingElseStops
PROPERTIES
  StallsLast
  ServedUnlessStalled
  ImplementsAuditLog
\* Every request is answered in the end, and the locks may be waited for in a circle.
CHECK_DEADLOCK FALSE
