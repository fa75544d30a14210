SPECIFICATION Spec
CONSTANTS
  Cause = {"r1", "job"}
  Background = "job"
  Service = {"a", "b"}
  Traced = {"a"}
  MaxTraces = 3
  MaxWork = 3
  MaxWire = 2
  None = None
INVARIANT EventKeepsLineage
CHECK_DEADLOCK FALSE
