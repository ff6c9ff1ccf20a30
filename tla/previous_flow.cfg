SPECIFICATION Spec
CONSTANTS
  HostCommands <- MeasCommands
  Held <- MCHeld
  Live <- MCLive
  Power <- MCPower
  Junk <- MCJunk
  MaxCommands = 1
INVARIANTS
  PrevAvgFlowFromItsRegisters
CHECK_DEADLOCK FALSE
