SPECIFICATION MCSpec
CONSTANTS
  Client = {"c1", "c2"}
  Burst = 2
  Cost = 2
  IdleTTL = 4
  MaxTime = 14
  Request = {"r1", "r2", "r3"}
  Operation <- MCOperation
  MayExpire = FALSE
  MayLeave = FALSE
  StoreMinds = FALSE
  Visitor = {"r1", "r2"}
  Id = {"t1"}
  TenantTTL = 2
  AbsentTTL = 1
  TenantVersions = 2
  Caller = {"c1", "c2", "c3"}
  Key = {"k1"}
  TTL = 1
  MaxVersion = 1
  CacheFails = TRUE
  None = None
  Outage = Outage
INVARIANTS
  RetriesReplay
  TenantsTrue
  RateKept
  OtherSettings
PROPERTIES
  LoadsShared
