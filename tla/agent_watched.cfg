SPECIFICATION FairSpec
CONSTANTS
  Calls = {c1, c2}
  Users = {u1}
  Kinds = {"crm", "quick", "deep", "image"}
  NumSteps = 2
  FaultKinds = {"lose", "twice"}
  MaxAnswers = 1
  MaxFaults = 2
PROPERTIES
  WatchedRunEnds
CHECK_DEADLOCK FALSE
