SPECIFICATION Spec
CONSTANTS
  Events = {e1, e2}
  NewerEvents = {e2}
  Sweeps = {s1, s2}
  Operators = {o1}
  NumConsumers = 2
  MaxAttempts = 2
  BatchSize = 2
  OperatorKinds = {"cancel"}
  NoSweep = NoSweep
  NoEvent = NoEvent
  MaxOverruns = 0
  MaxRequests = 1
  MaxFaults = 1
INVARIANTS
  TypeOK
  OneSweepPerEvent
PROPERTIES
  OutboxIsTracked
  ProcessedIsFinal
SYMMETRY Symmetry
