------------------------------ MODULE MCFacade ------------------------------
(* Values for the constants of Facade: commands of every kind, with        *)
(* arguments on both sides of each limit and of each carry, and an         *)
(* instrument whose registers, but those of its identity, change between   *)
(* three moments, the total volume once from 65535 to 65536 and once to a  *)
(* negative number.  The full-scale flow is what TLC's integers hold.      *)
EXTENDS Facade

Cmd(name, arg) == [name |-> name, arg |-> arg]
Number(tenths) == [number |-> TRUE, tenths |-> tenths]
NotANumber     == [number |-> FALSE, tenths |-> 0]

MCHeld ==
  {BaudRate, TareCommand, ModbusAddress, AsciiUnitId, ReferenceTemperature,
   TotalizerResetCommand, TotalizerLimitMode, FlowAveragingMs, FactoryRestoreCommand,
   CommWatchdogMs, AutotareEnable, SetpointSource, SelectedGas, MeasurementTriggerMode,
   MeasurementSampleCount}
    \cup UNION {{r, r + 1} : r \in {TotalizerBatchVolume, MaxSetpointRamp, SetpointCommand}}

MCPower == [r \in MCHeld |-> IF r = AsciiUnitId THEN 65 ELSE IF r = ModbusAddress THEN 1 ELSE 0]

LiveRegisters == ((25..31) \cup (47..49) \cup (2101..2109) \cup (4202..4215)) \ MCHeld

Volume == <<<<0, 65535>>, <<1, 0>>, <<65535, 65534>>>>

Moment(m) ==
  [r \in LiveRegisters |->
    IF r \in {TotalVolumeStart, TotalVolumeStart + 1} THEN Volume[m][r - TotalVolumeStart + 1]
    ELSE IF r \in 25..49
         THEN (7919 * r) % (IF r = FlowUnitsCode THEN 256
                            ELSE IF r = FullScaleFlowUserUnits THEN 32768 ELSE 65536)
    ELSE (7919 * m * r + 31 * m) % 65536]

MCLive == <<Moment(1), Moment(2), Moment(3)>>

MCJunk == {0, 3001, 65535}

Reading == {Cmd(name, 0) : name \in DOMAIN Reads}

Setting ==
  {Cmd("SetSetpoint", Number(t)) : t \in {0, 25005, -19, 655359, -655369}}
    \cup {Cmd("SetSetpoint", NotANumber)}
    \cup {Cmd("SetReferenceTemperatureC", Number(t)) : t \in {-1, 0, 30000, 30001}}
    \cup {Cmd("SetCommWatchdogMs", a) : a \in {0, 5000, 5001}}
    \cup {Cmd("SetFlowAveragingMs", a) : a \in {2500, 2501}}
    \cup {Cmd("SetAsciiUnitId", a) : a \in {64, 65, 90, 91}}
    \cup {Cmd("SetMaxSetpointRamp", 65537), Cmd("SetTotalizerBatch", 131071),
          Cmd("SetSetpointSource", 2), Cmd("SetAutotareEnabled", 1), Cmd("SetGas", 3),
          Cmd("SetTotalizerLimitMode", 3), Cmd("ConfigureMeasurementTrigger", 7),
          Cmd("StartMeasurementSamples", 200), Cmd("SetBaudRate", 4), Cmd("Tare", 0),
          Cmd("ResetTotalizer", 0), Cmd("FactoryRestore", 0)}

MCCommands   == Reading \cup Setting
MeasCommands == Reading

(* What the theorems of FacadeProofs suppose holds here.                   *)
ASSUME MCFacadeAssumption == IdentityFixed /\ SetpointsFit /\ SettingsStart
=============================================================================
