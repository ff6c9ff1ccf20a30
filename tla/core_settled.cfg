SPECIFICATION FairSpec
CONSTANTS
  d1 = d1
  d2 = d2
  s1 = s1
  s2 = s2
  Drivers = {d1}
  Slaves = {s1, s2}
  Registers <- MCRegisters
  AddressReg = 45
  Calls <- CoreCalls
  HostAddresses = {0, 2}
  Timeouts = {200}
  LongTimeouts = {}
  Target <- OneTarget
  PowerOn <- MCPowerOn
  MaxReadCount = 3
  MaxRxRegs = 2
  MaxWriteRegs = 2
  MaxAddress = 3
  MaxCalls = 2
  Serialised = TRUE
  Settled = TRUE
  Careful = FALSE
  Lossy = TRUE
INVARIANTS
  TypeOK
  AckedMeansDone
  ExceptionIsOwn
  AckedInv
PROPERTIES
  ImplementsRegisters
  CallsReturn
