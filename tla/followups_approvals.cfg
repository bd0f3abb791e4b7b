SPECIFICATION FSpec
CONSTANTS
  f1 = f1
  hold1 = hold1
  q1 = q1
  q2 = q2
  Keys = {f1}
  HumanKeys = {}
  Holders = {hold1}
  NoHolder = NoHolder
  HolderOf <- HolderOfOne
  Requests = {q1, q2}
  NoRequest = NoRequest
  About <- AboutOne
  AutoSend = {TRUE, FALSE}
  Sweeps = {s1, s2}
  People = {p1, p2}
  Calls = {s1, s2, p1, p2}
  NoKey = NoKey
  RetriesWait = FALSE
  MaxCalls = 2
  MaxActivity = 1
  MaxFaults = 1
  MaxExpiries = 0
  MayOptOut = FALSE
  MaxEvents = 1
  MaxBreaks = 1
INVARIANTS
  FollowUpTypeOK
  SentMeansSent
  ApprovalDecides
  SentOnce
  CancelledInTime
PROPERTIES
  SentStays
SYMMETRY Symmetry
CHECK_DEADLOCK FALSE
