SPECIFICATION Spec
CONSTANTS
  Calls <- ProbeCalls
  ProbeRates = {0}
  HostPause = 35000
  Turnarounds = {0}
  TickMs = 1
  FirstRates = {0}
  Lossy = FALSE
INVARIANTS
  ProbeFinds
