SPECIFICATION ISpec
CONSTANTS
  m1 = m1
  m2 = m2
  ai = ai
  Keys = {m1, m2}
  HumanKeys = {}
  Holders = {ai}
  NoHolder = NoHolder
  HolderOf <- HolderOfAI
  Requests = {}
  NoRequest = NoRequest
  About <- AboutNone
  AutoSend = {TRUE, FALSE}
  Calls = {d1, d2}
  NoKey = NoKey
  Stops = {stop}
  NoMessage = NoMessage
  RetriesWait = FALSE
  MaxCalls = 2
  MaxActivity = 4
  MaxFaults = 1
  MaxExpiries = 0
  MayOptOut = TRUE
  MaxDeliveries = 3
  MaxPeople = 1
  MaxBreaks = 1
INVARIANTS
  InboundTypeOK
  ProcessedMeansHandled
  AnsweredOnce
  OptOutSticks
PROPERTIES
  PauseStands
  ProcessedStays
SYMMETRY Symmetry
CHECK_DEADLOCK FALSE
