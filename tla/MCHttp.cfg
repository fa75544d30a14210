SPECIFICATION MCSpec
CONSTANTS
  Caller = {c1, c2}
  Method = {GET, POST}
  RetryMethods = {GET}
  Status = {200, 404, 503}
  RetryStatuses = {503}
  MaxRetries = 1
  Threshold = 2
  Cooldown = 1
  MayPanic = FALSE
  Request = {r1, r2}
  Probe = {p1}
  Unhurried = FALSE
  Call = {g1, g2}
  Heedless = {g2}
  StatusCode = {200, 201}
  MaxWrites = 2
  MayLeave = TRUE
  None = None
INVARIANTS
  BreakerConsistent
  RetriesSafely
  BackendsLast
  RpcsDrained
  OneRightResponse
  RequestsTraced
PROPERTIES
  Responsive
