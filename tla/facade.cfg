SPECIFICATION Spec
CONSTANTS
  HostCommands <- MCCommands
  Held <- MCHeld
  Live <- MCLive
  Power <- MCPower
  Junk <- MCJunk
  MaxCommands = 2
INVARIANTS
  FacadeTypeOK
  InstantaneousIsSnapshot
  MeasurementIsWindow
  IdentityIsWhole
  SetpointHeld
  SettingsInRange
CHECK_DEADLOCK FALSE
