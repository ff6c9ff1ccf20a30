SPECIFICATION SweepSpec
CONSTANTS
  d1 = d1
  s1 = s1
  s2 = s2
  Drivers = {d1}
  Slaves = {s1, s2}
  Registers <- MCRegisters
  AddressReg = 45
  Calls <- MCCalls
  HostAddresses = {1, 2, 3, 255}
  Timeouts = {30, 200}
  LongTimeouts = {200}
  Target <- MCTarget
  PowerOn <- MCPowerOn
  MaxReadCount = 3
  MaxRxRegs = 2
  MaxWriteRegs = 2
  MaxAddress = 3
  MaxCalls = 2
  Serialised = TRUE
  Settled = FALSE
  Careful = FALSE
  Lossy = FALSE
  ProbeReg = 25
  Windows <- MCWindows
  BitmapSizes = {31, 32}
  MinBitmap = 32
INVARIANTS
  SweepTypeOK
  ReportedAnswered
  SweepComplete
  CompleteInv
  TargetKept
PROPERTIES
  SweepEnds
  TimeoutKept
