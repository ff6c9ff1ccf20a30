------------------------------ MODULE Commands ------------------------------
(***************************************************************************)
(* The instrument operations of the driver (inc/alicat_basis2.hpp): which  *)
(* arguments each accepts, which requests it makes, and how it decodes     *)
(* what the instrument answers.  SetModbusAddress and the bus sweep are in *)
(* Basis2Bus and Discovery.                                                *)
(*                                                                         *)
(* A command is a record [name, arg].  A float argument is a record too:   *)
(* whether it is a number and, if so, its value in tenths of the unit of   *)
(* the register it is for.  Decoded floats are given as the integers they  *)
(* are scaled from.                                                        *)
(***************************************************************************)
EXTENDS Modbus, Words

CONSTANT Junk   \* what the cast of a float that does not fit may give

ASSUME JunkAssumption == Junk \subseteq Int

(* The register map.                                                       *)
BaudRate == 21
FirmwareVersion == 25
SerialNumberStart == 26
SerialNumberCount == 6
TareCommand == 39
ModbusAddress == 45
AsciiUnitId == 46
FullScaleFlowUserUnits == 47
FlowUnitsCode == 49
ReferenceTemperature == 52
TotalizerResetCommand == 53
TotalizerLimitMode == 54
FlowAveragingMs == 55
FactoryRestoreCommand == 80
CommWatchdogMs == 514
AutotareEnable == 515
SetpointSource == 516
TotalizerBatchVolume == 521
MaxSetpointRamp == 524
SetpointCommand == 2053
SelectedGas == 2100
StatusBitfield == 2101
TemperatureCenticC == 2102
Flow == 2103
TotalVolumeStart == 2104
SetpointReadback == 2106
ValveDriveCenti == 2107
BatchRemainingStart == 2108
MeasurementTriggerMode == 4200
MeasurementSampleCount == 4201
MeasurementMinTemp == 4202
MeasurementMaxTemp == 4203
MeasurementMinFlow == 4204
MeasurementMaxFlow == 4205
MeasurementSamplesAveraged == 4206
MeasurementAvgTemp == 4207
MeasurementAvgFlow == 4208
MeasurementPrevAvgFlowLow == 4214

kMagicTare == 43605             \* 0xAA55
kMagicFactoryRestore == 21012   \* 0x5214

-----------------------------------------------------------------------------
(* Commands that write one register, and the register.                     *)

ControlRegister ==
  [SetSetpointSource |-> SetpointSource, SetCommWatchdogMs |-> CommWatchdogMs,
   Tare |-> TareCommand, SetAutotareEnabled |-> AutotareEnable]

FlowRegister ==
  [SetGas |-> SelectedGas, ResetTotalizer |-> TotalizerResetCommand,
   SetTotalizerLimitMode |-> TotalizerLimitMode, SetFlowAveragingMs |-> FlowAveragingMs,
   SetReferenceTemperatureC |-> ReferenceTemperature]

MeasurementRegister ==
  [ConfigureMeasurementTrigger |-> MeasurementTriggerMode,
   StartMeasurementSamples |-> MeasurementSampleCount]

BusRegister ==
  [SetAsciiUnitId |-> AsciiUnitId, SetBaudRate |-> BaudRate,
   FactoryRestore |-> FactoryRestoreCommand]

(* Commands that write a pair of registers, and the first of them.         *)
PairRegister ==
  [SetSetpoint |-> SetpointCommand, SetMaxSetpointRamp |-> MaxSetpointRamp,
   SetTotalizerBatch |-> TotalizerBatchVolume]

(* Commands that read, and the registers they read: first and how many.    *)
SplitLiveBlock == <<<<SelectedGas, 5>>, <<TotalVolumeStart + 1, 5>>>>   \* in two requests
LiveBlock == <<<<SelectedGas, 10>>>>


IdentityBlocks ==
  <<<<FirmwareVersion, 1>>, <<SerialNumberStart, SerialNumberCount>>, <<ModbusAddress, 5>>>>

WindowBlock == <<<<MeasurementSampleCount, 14>>>>

Reads ==
  [ReadInstantaneous |-> LiveBlock, ReadIdentity |-> IdentityBlocks,
   ReadMeasurement |-> WindowBlock]

SingleRegister(name) ==
  IF name \in DOMAIN ControlRegister THEN ControlRegister[name]
  ELSE IF name \in DOMAIN FlowRegister THEN FlowRegister[name]
  ELSE IF name \in DOMAIN MeasurementRegister THEN MeasurementRegister[name]
  ELSE BusRegister[name]

CommandNames ==
  UNION {DOMAIN Reads, DOMAIN PairRegister, DOMAIN ControlRegister, DOMAIN FlowRegister,
         DOMAIN MeasurementRegister, DOMAIN BusRegister}

FloatCommands == {"SetSetpoint", "SetReferenceTemperatureC"}

(* An argument has its parameter's type.                                   *)
WellTyped(cmd) ==
  /\ cmd.name \in CommandNames
  /\ cmd.arg \in IF cmd.name \in FloatCommands THEN [number : BOOLEAN, tenths : Int] ELSE Nat

Unit == 1   \* the address of the instrument that is commanded

-----------------------------------------------------------------------------
(* The arguments that are refused.  Not a number is neither below 0 nor    *)
(* above 30.  The ASCII unit ids are 'A' to 'Z'.                           *)
BadWatchdog(ms) == ms > 5000

FaultyBadAveraging(ms) == ms > 25000   \* a zero too many
BadAveraging(ms) == ms > 2500

BadReference(c) == c.number /\ (c.tenths < 0 \/ c.tenths > 30000)

BadUnitId(id) == id < 65 \/ id > 90

CommandError(cmd) ==
  IF \/ cmd.name = "SetCommWatchdogMs" /\ BadWatchdog(cmd.arg)
     \/ cmd.name = "SetFlowAveragingMs" /\ BadAveraging(cmd.arg)
     \/ cmd.name = "SetReferenceTemperatureC" /\ BadReference(cmd.arg)
     \/ cmd.name = "SetAsciiUnitId" /\ BadUnitId(cmd.arg)
  THEN "InvalidParameter" ELSE "None"

(* A float cast to an integer: undefined if it does not fit.               *)
Cast(c) == IF c.number /\ Truncated(c.tenths) \in Int32 THEN {Truncated(c.tenths)} ELSE Junk

(* The values a command may write: one, unless a cast is undefined.        *)
Values(cmd) ==
  IF cmd.name \in FloatCommands THEN Cast(cmd.arg)
  ELSE IF cmd.name \in {"Tare", "ResetTotalizer"} THEN {kMagicTare}
  ELSE IF cmd.name = "FactoryRestore" THEN {kMagicFactoryRestore}
  ELSE {cmd.arg}

FaultyPair(value) == <<Low(value), High(value)>>   \* the low half first
Pair(value) == <<High(value), Low(value)>>

(* The requests a command makes, in order, to write value.                 *)
Requests(cmd, value, unit) ==
  IF cmd.name \in DOMAIN Reads
  THEN [i \in DOMAIN Reads[cmd.name] |->
         BuildReadHolding(unit, Reads[cmd.name][i][1], Reads[cmd.name][i][2])]
  ELSE IF cmd.name \in DOMAIN PairRegister
  THEN <<BuildWriteMultiple(unit, PairRegister[cmd.name], Pair(value))>>
  ELSE <<BuildWriteSingle(unit, SingleRegister(cmd.name), Low(value))>>

-----------------------------------------------------------------------------
(* Decoding, from the registers in the order they were read.               *)

InstantaneousData(r) ==
  [gas |-> LowByte(r[1]),
   mass_flow_overrange |-> IsSet(r[2], 0), temperature_overrange |-> IsSet(r[2], 1),
   totalizer_overrange |-> IsSet(r[2], 2), valve_held |-> IsSet(r[2], 3),
   valve_thermal_management |-> IsSet(r[2], 4),
   temperature |-> Signed(r[3]), flow |-> Signed(r[4]), total_volume |-> Join(r[5], r[6]),
   raw_setpoint_2053_2054 |-> Signed(r[7]), setpoint |-> Signed(r[7]), valve_drive |-> Signed(r[8]),
   batch_remaining |-> Join(r[9], r[10])]

(* r holds the registers of all three reads.                               *)
InstrumentIdentity(r) ==
  [firmware_version_raw |-> r[1],
   fw_major |-> HighByte(r[1]), fw_minor |-> Nibble(r[1]), fw_patch |-> r[1] % 16,
   serial_number |-> [i \in 1..12 |-> IF i % 2 = 1 THEN HighByte(r[1 + (i + 1) \div 2])
                                                    ELSE LowByte(r[1 + i \div 2])],
   modbus_address |-> LowByte(r[8]), ascii_unit_id |-> LowByte(r[9]),
   full_scale_flow_raw |-> JoinUnsigned(r[10], r[11]), flow_units |-> LowByte(r[12])]

FaultyAverages == <<6, 7>>   \* counts the number of samples as one of them
Averages == <<7, 8>>         \* of temperature and flow, in the block of 14

MeasurementData(r) ==
  [num_samples_collected |-> r[1],
   min_temperature |-> Signed(r[2]), max_temperature |-> Signed(r[3]),
   min_flow |-> Signed(r[4]), max_flow |-> Signed(r[5]),
   avg_temperature |-> Signed(r[Averages[1]]), avg_flow |-> Signed(r[Averages[2]]),
   prev_avg_flow |-> Join(r[13], r[14])]

Decode(name, r) ==
  CASE name = "ReadInstantaneous" -> InstantaneousData(r)
    [] name = "ReadIdentity"      -> InstrumentIdentity(r)
    [] name = "ReadMeasurement"   -> MeasurementData(r)
=============================================================================
