SPECIFICATION MCSpec
CONSTANTS
  Key <- MCKey
  Mixed = {}
  FromMap = FALSE
  Defaults <- MCDefaults
  None = None
  Client = {c1, c2}
  Value = {v1, v2}
  Kind = "secrets"
  force = TRUE
  MaxBirths = 3
  Role = {"r1", "r2"}
  Home = "own"
  InPlace = FALSE
  MaxVals = 3
  MaxCells = 5
  LogConfig <- MCLogConfig
  Attr = {"a", "b"}
  Mins = {2, 3}
  Logged = {0, 1, 2, 3}
  MaxLoggers = 4
  Reqs = 3
  File = {"f", "g"}
  maxWorkers = 2
  Old = 0
INVARIANTS
  ConfigLayered
  ErrorsFaithful
  LogsFaithful
PROPERTIES
  KeepsContract
  OtherStores
  AwsExact
