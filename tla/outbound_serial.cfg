SPECIFICATION Spec
CONSTANTS
  human = human
  auto1 = auto1
  hHuman = hHuman
  hAuto1 = hAuto1
  Keys = {human, auto1}
  HumanKeys = {human}
  Holders = {hHuman, hAuto1}
  NoHolder = NoHolder
  HolderOf <- HolderOfPair
  Calls = {c1, c2}
  NoKey = NoKey
  r1 = r1
  Requests = {r1}
  NoRequest = NoRequest
  About <- AboutOne
  AutoSend = {FALSE, TRUE}
  RetriesWait = TRUE
  MaxCalls = 3
  MaxActivity = 1
  MaxFaults = 2
  MaxExpiries = 0
  MayOptOut = FALSE
INVARIANTS
  TypeOK
PROPERTIES
  DispatchIsSingleEffect
SYMMETRY Symmetry
CHECK_DEADLOCK FALSE
