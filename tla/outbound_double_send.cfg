SPECIFICATION Spec
CONSTANTS
  human = human
  auto1 = auto1
  hHuman = hHuman
  hAuto1 = hAuto1
  Keys = {human}
  HumanKeys = {human}
  Holders = {hHuman, hAuto1}
  NoHolder = NoHolder
  HolderOf <- HolderOfHuman
  Calls = {c1, c2}
  NoKey = NoKey
  r1 = r1
  Requests = {}
  NoRequest = NoRequest
  About <- AboutNone
  AutoSend = {FALSE}
  RetriesWait = FALSE
  MaxCalls = 2
  MaxActivity = 0
  MaxFaults = 0
  MaxExpiries = 0
  MayOptOut = FALSE
INVARIANTS
  AtMostOneSend
SYMMETRY Symmetry
CHECK_DEADLOCK FALSE
