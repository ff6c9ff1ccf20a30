SPECIFICATION Spec
CONSTANTS
  d1 = d1
  d2 = d2
  s1 = s1
  s2 = s2
  Drivers = {d1, d2}
  Slaves = {s1, s2}
  Registers <- MCRegisters
  AddressReg = 45
  Calls <- TimelyCalls
  HostAddresses = {}
  Timeouts = {200}
  LongTimeouts = {200}
  Target <- TwoTargets
  PowerOn <- MCPowerOn
  MaxReadCount = 3
  MaxRxRegs = 2
  MaxWriteRegs = 2
  MaxAddress = 3
  MaxCalls = 3
  Serialised = TRUE
  Settled = FALSE
  Careful = TRUE
  Lossy = FALSE
INVARIANTS
  ErrorIsFinal
  SilentBetweenCalls
  RefusalReported
  OnTarget
  AddressesDistinct
  TimelyInv
