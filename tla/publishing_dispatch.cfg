SPECIFICATION Spec
CONSTANTS
  Sweeps = {s1, s2}
  Operators = {o1, o2}
  OperatorKinds <- AllKinds
  MaxRequests = 4
  MaxFaults = 2
  MaxEvents = 2
INVARIANTS
  TypeOK
  PostedOnce
  PublishedMeansPosted
  FailedMeansNotPosted
  WithdrawnNeverSent
PROPERTIES
  ConfirmedStays
SYMMETRY Symmetry
CHECK_DEADLOCK FALSE
