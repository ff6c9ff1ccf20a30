SPECIFICATION Spec
CONSTANTS
  Calls <- BroadcastCalls
  ProbeRates = {}
  HostPause = 0
  Turnarounds = {0, 10000}
  TickMs = 10
  FirstRates = {3}
  Lossy = FALSE
INVARIANTS
  FramesApart
