SPECIFICATION Spec
CONSTANTS
  d1 = d1
  d2 = d2
  s1 = s1
  s2 = s2
  Drivers = {d1}
  Slaves = {s1, s2}
  Registers <- MCRegisters
  AddressReg = 45
  Calls <- TimelyCalls
  HostAddresses = {}
  Timeouts = {200}
  LongTimeouts = {200}
  Target <- OneTarget
  PowerOn <- MCPowerOn
  MaxReadCount = 3
  MaxRxRegs = 2
  MaxWriteRegs = 2
  MaxAddress = 3
  MaxCalls = 1
  Serialised = TRUE
  Settled = TRUE
  Careful = FALSE
  Lossy = FALSE
INVARIANTS
  RefusedWriteReported
