SPECIFICATION MCSpec
CONSTANTS
  Msg = {"m1", "m2"}
  Replica = {"r1", "r2"}
  MaxDeliver = 2
  MaxAckPending = 2
  DeadLetterSet = TRUE
  MayStop = TRUE
  MayCrash = TRUE
  Slow = FALSE
  MayLose = TRUE
  Sub = {"s1", "s2", "s3"}
  Group <- MCGroup
  Packet = {"m1"}
  Req = {"q1"}
  Service = {"billing", "mail"}
  Prefix <- MCPrefix
  Subject <- MCSubject
  StreamOf <- MCStreamOf
  Groups <- MCGroups
  NoStream = "none"
  NoSubject = None
  Cause = {"r1", "job"}
  Background = "job"
  Traced = {"billing"}
  MaxTraces = 3
  MaxWork = 3
  MaxWire = 2
  None = None
INVARIANTS
  DeliveriesAccounted
  ExchangesMatch
  SubscriptionsOwn
  LineageKept
PROPERTIES
  EverythingArrives
