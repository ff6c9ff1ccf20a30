SPECIFICATION Spec
CONSTANTS
  d1 = d1
  d2 = d2
  s1 = s1
  s2 = s2
  Drivers = {d1, d2}
  Slaves = {s1, s2}
  Registers <- SharedRegisters
  AddressReg = 45
  Calls <- SharedCalls
  HostAddresses = {}
  Timeouts = {200}
  LongTimeouts = {}
  Target <- TwoTargets
  PowerOn <- SharedPowerOn
  MaxReadCount = 3
  MaxRxRegs = 1
  MaxWriteRegs = 2
  MaxAddress = 3
  MaxCalls = 2
  Serialised = FALSE
  Settled = FALSE
  Careful = FALSE
  Lossy = TRUE
INVARIANTS
  AckedIsBacked
  ExceptionIsBacked
