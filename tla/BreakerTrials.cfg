SPECIFICATION Spec
CONSTANTS
  Caller = {c1, c2}
  Method = {GET}
  RetryMethods = {GET}
  Status = {200, 503}
  RetryStatuses = {503}
  MaxRetries = 0
  Threshold = 2
  Cooldown = 1
  MayPanic = FALSE
INVARIANT SingleTrial
