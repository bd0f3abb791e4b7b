SPECIFICATION FairSpec
CONSTANTS
  Events = {e1}
  NewerEvents = {}
  Sweeps = {s1, s2}
  Operators = {o1}
  NumConsumers = 1
  MaxAttempts = 2
  BatchSize = 1
  OperatorKinds = {"retry", "cancel"}
  NoSweep = NoSweep
  NoEvent = NoEvent
  MaxOverruns = 1
  MaxRequests = 1
  MaxFaults = 1
INVARIANTS
  DeliveredBeforeProcessed
PROPERTIES
  EventuallySettled
