SPECIFICATION Spec
CONSTANTS
  Calls = {c1, c2}
  Users = {u1, u2}
  Kinds = {"crm", "quick", "deep", "image"}
  NumSteps = 1
  FaultKinds = {"throw", "die", "twice", "refuse"}
  MaxAnswers = 2
  MaxFaults = 1
INVARIANTS
  TypeOK
  OneSearchPerOpening
  CompletedMeansWorked
PROPERTIES
  VerdictStays
SYMMETRY Symmetry
CHECK_DEADLOCK FALSE
