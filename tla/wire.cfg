SPECIFICATION Spec
CONSTANTS
  Calls <- MCCalls
  ProbeRates = {2, 3, 4, 5}
  HostPause = 35000
  Turnarounds = {0, 10000}
  TickMs = 10
  FirstRates = {0, 3}
  Lossy = TRUE
INVARIANTS
  WireTypeOK
  SettledAtReturn
  AnsweredInTime
  SwitchDrained
  WireInv
