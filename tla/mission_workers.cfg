SPECIFICATION Spec
CONSTANTS
  Tasks <- Three
  DependsOn <- Joined
  MaxAttempts = 2
  Callers = {w1, w2}
  Ops = {"claim", "complete", "fail", "wait", "reject", "cancel"}
  Reported = {"DISPATCHING", "CONFIRMED", "FAILED"}
  Delivered = "twice"
INVARIANTS
  DependenciesFirst
  ClaimedOnce
SYMMETRY Symmetry
CHECK_DEADLOCK FALSE
