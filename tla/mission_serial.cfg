SPECIFICATION Spec
CONSTANTS
  Tasks <- Three
  DependsOn <- Joined
  MaxAttempts = 2
  Callers = {w1}
  Ops <- AllOps
  Reported = {"DISPATCHING", "CONFIRMED"}
  Delivered = "twice"
INVARIANTS
  TypeOK
  CompletedMeansDone
  DoneMeansEnded
PROPERTIES
  MissionIsWorkflow
  ReplayedOnlyOnPurpose
CHECK_DEADLOCK FALSE
