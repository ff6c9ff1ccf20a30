SPECIFICATION Spec
CONSTANTS
  Junk <- MCJunk
  Programs = {"full", "minimal"}
  Sources = {0, 1, 2}
  MaxCrashes = 2
  MaxRestarts = 1
INVARIANTS
  SessionTypeOK
  WatchdogNeedsLoss
  MeasurementIsOver
  SilenceClosesValve
  SessionInv
PROPERTIES
  CrashClosesValve
  KeepsReading
