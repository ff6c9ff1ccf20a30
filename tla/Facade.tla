------------------------------- MODULE Facade -------------------------------
(***************************************************************************)
(* A host that commands one instrument through the driver's operations     *)
(* (module Commands), while the instrument goes on measuring.  A command   *)
(* makes its requests one by one and gives up at the first that fails; a   *)
(* write that fails may have been carried out all the same.  How a request *)
(* gets to be answered or to fail is the subject of Basis2Bus.             *)
(***************************************************************************)
EXTENDS Commands

CONSTANTS
  HostCommands,   \* what the host may ask for: records [name, arg]
  Held,           \* the registers that keep what is written to them
  Live,           \* what the other registers hold, from one moment to the next
  Power,          \* [Held -> Word]: what those hold at the start
  MaxCommands     \* bound on the commands issued

(* An instrument has every register that the driver reads.                 *)
Instrument ==
  \A name \in DOMAIN Reads : \A i \in DOMAIN Reads[name] :
    Reads[name][i][1] .. (Reads[name][i][1] + Reads[name][i][2] - 1)
      \subseteq Held \cup DOMAIN Live[1]

ASSUME FacadeAssumption ==
  /\ \A cmd \in HostCommands : WellTyped(cmd)
  /\ Held \subseteq Nat /\ Power \in [Held -> Word]
  /\ Live \in Seq([DOMAIN Live[1] -> Word]) \ {<<>>}
  /\ Instrument
  /\ MaxCommands \in Nat

VARIABLES
  held,     \* the registers of Held
  now,      \* the moment of Live
  job,      \* the command under way
  result,   \* what the last command returned
  issued    \* how many commands were issued

vars == <<held, now, job, result, issued>>

Content(r) == IF r \in Held THEN held[r] ELSE Live[now][r]

Idle == job.todo = <<>>

NoJob == [name |-> "", todo |-> <<>>, got |-> <<>>]

Init ==
  /\ held = Power
  /\ now = 1
  /\ job = NoJob
  /\ result = [cmd |-> [name |-> "", arg |-> 0], error |-> "None", value |-> <<>>, from |-> 1,
               to |-> 1]
  /\ issued = 0

-----------------------------------------------------------------------------
(* The command returns: with a decoded value, or with an error and none.   *)
Returns(error, value) ==
  /\ result' = [result EXCEPT !.error = error, !.value = value, !.to = now]
  /\ job' = NoJob

Issue(cmd) ==
  /\ Idle
  /\ issued < MaxCommands
  /\ issued' = issued + 1
  /\ IF CommandError(cmd) # "None"
     THEN /\ result' = [cmd |-> cmd, error |-> CommandError(cmd), value |-> <<>>,
                        from |-> now, to |-> now]
          /\ UNCHANGED job
     ELSE /\ result' = [cmd |-> cmd, error |-> "pending", value |-> <<>>, from |-> now,
                        to |-> now]
          /\ \E value \in Values(cmd) :
               job' = [name |-> cmd.name, todo |-> Requests(cmd, value, Unit), got |-> <<>>]
  /\ UNCHANGED <<held, now>>

Written(f) ==
  [r \in Held |-> IF r \in f.reg .. (f.reg + f.count - 1) THEN f.words[r - f.reg + 1]
                                                        ELSE held[r]]

(* The next request succeeds; the last one's data complete the answer.     *)
Succeed ==
  LET f == Head(job.todo)
      data == [i \in 1..f.count |-> Content(f.reg + i - 1)]
      got == IF f.fn = ReadHolding THEN job.got \o data ELSE job.got
  IN  /\ ~Idle
      /\ held' = IF f.fn = ReadHolding THEN held ELSE Written(f)
      /\ IF Tail(job.todo) = <<>>
         THEN Returns("None", IF f.fn = ReadHolding THEN <<Decode(job.name, got)>> ELSE <<>>)
         ELSE /\ job' = [job EXCEPT !.todo = Tail(job.todo), !.got = got]
              /\ UNCHANGED result
      /\ UNCHANGED <<now, issued>>

FaultyFail ==   \* goes on with zeros for what it could not read
  LET f == Head(job.todo)
      got == job.got \o [i \in 1..f.count |-> 0]
  IN  /\ ~Idle
      /\ IF f.fn # ReadHolding THEN Returns("Timeout", <<>>)
         ELSE IF Tail(job.todo) = <<>> THEN Returns("None", <<Decode(job.name, got)>>)
         ELSE /\ job' = [job EXCEPT !.todo = Tail(job.todo), !.got = got]
              /\ UNCHANGED result
      /\ UNCHANGED <<held, now, issued>>

(* The next request fails, and with it the command.                        *)
Fail ==
  LET f == Head(job.todo)
  IN  /\ ~Idle
      /\ \E applied \in BOOLEAN :
           held' = IF applied /\ f.fn # ReadHolding THEN Written(f) ELSE held
      /\ Returns("Timeout", <<>>)
      /\ UNCHANGED <<now, issued>>

(* The instrument measures on.                                             *)
Measure ==
  /\ now < Len(Live)
  /\ now' = now + 1
  /\ UNCHANGED <<held, job, result, issued>>

Next == (\E cmd \in HostCommands : Issue(cmd)) \/ Succeed \/ Fail \/ Measure

Spec == Init /\ [][Next]_vars

-----------------------------------------------------------------------------
(* Properties.                                                             *)

Answered(name) == Idle /\ result.cmd.name = name /\ result.error = "None"

(* What a register held at moment t, if nothing was written since.         *)
At(t, r) == IF r \in Held THEN held[r] ELSE Live[t][r]

FacadeTypeOK ==
  /\ held \in [Held -> Word]
  /\ now \in 1..Len(Live)
  /\ job \in [name : CommandNames \cup {""}, todo : Seq(RequestFrames), got : Seq(Word)]
  /\ DOMAIN result = {"cmd", "error", "value", "from", "to"}
  /\ Len(result.value) <= 1
  /\ issued \in 0..MaxCommands

(* While a command is under way, what is left of it are the last of its    *)
(* requests, and nothing was read before the first.                        *)
UnderwayInv ==
  /\ result.from \in 1..now
  /\ ~Idle =>
       /\ result.cmd \in HostCommands
       /\ job.name = result.cmd.name
       /\ CommandError(result.cmd) = "None"
       /\ \E value \in Values(result.cmd) :
            LET all == Requests(result.cmd, value, Unit)
            IN  \/ job.todo = all /\ job.got = <<>>
                \/ /\ job.name = "ReadIdentity"
                   /\ job.todo \in {Tail(all), Tail(Tail(all))}

(* ReadInstantaneous hands over a snapshot: every field is the register of *)
(* its name, all at one moment of the call, the two halves of the volumes  *)
(* included.  raw_setpoint_2053_2054 alone is not from the registers of    *)
(* its name: it is the setpoint read back, before it is scaled.            *)
StatusBits(v) ==
  (IF v.mass_flow_overrange THEN 1 ELSE 0) + (IF v.temperature_overrange THEN 2 ELSE 0)
    + (IF v.totalizer_overrange THEN 4 ELSE 0) + (IF v.valve_held THEN 8 ELSE 0)
    + (IF v.valve_thermal_management THEN 16 ELSE 0)

SnapshotAt(v, t) ==
  /\ v.gas = At(t, SelectedGas) % 256
  /\ v.flow \in Int16         /\ Low(v.flow) = At(t, Flow)
  /\ v.temperature \in Int16  /\ Low(v.temperature) = At(t, TemperatureCenticC)
  /\ v.setpoint \in Int16     /\ Low(v.setpoint) = At(t, SetpointReadback)
  /\ v.raw_setpoint_2053_2054 = v.setpoint
  /\ v.valve_drive \in Int16  /\ Low(v.valve_drive) = At(t, ValveDriveCenti)
  /\ High(v.total_volume) = At(t, TotalVolumeStart)
  /\ Low(v.total_volume) = At(t, TotalVolumeStart + 1)
  /\ High(v.batch_remaining) = At(t, BatchRemainingStart)
  /\ Low(v.batch_remaining) = At(t, BatchRemainingStart + 1)
  /\ At(t, StatusBitfield) % 32 = StatusBits(v)

InstantaneousIsSnapshot ==
  Answered("ReadInstantaneous") =>
    \E t \in result.from..result.to : SnapshotAt(result.value[1], t)

(* ReadMeasurement: likewise, for the statistics of the window just        *)
(* measured.  num_samples_collected is the count that was last asked for,  *)
(* as the code says, and not the one of the samples averaged.              *)
WindowAt(v, t) ==
  /\ v.num_samples_collected = At(t, MeasurementSampleCount)
  /\ Low(v.min_temperature) = At(t, MeasurementMinTemp)
  /\ Low(v.max_temperature) = At(t, MeasurementMaxTemp)
  /\ Low(v.min_flow) = At(t, MeasurementMinFlow)
  /\ Low(v.max_flow) = At(t, MeasurementMaxFlow)
  /\ Low(v.avg_temperature) = At(t, MeasurementAvgTemp)
  /\ Low(v.avg_flow) = At(t, MeasurementAvgFlow)

MeasurementIsWindow ==
  Answered("ReadMeasurement") =>
    \E t \in result.from..result.to : WindowAt(result.value[1], t)

(* Why: what it reports is the block of fourteen registers, decoded, as    *)
(* they all were at one moment of the call.                                *)
BlockAt(t) == [i \in 1..14 |-> At(t, MeasurementSampleCount + i - 1)]

MeasurementDecoded ==
  Answered("ReadMeasurement") =>
    \E t \in result.from..result.to :
      /\ BlockAt(t) \in [1..14 -> Word]
      /\ result.value[1] = MeasurementData(BlockAt(t))

(* ReadIdentity succeeds on all of its three reads or on none, and the     *)
(* parts are those of the packing a * 256 + b * 16 + c that                *)
(* InstrumentIdentity documents; the full-scale flow is the unsigned       *)
(* number that its two registers make, the high half first.                *)
IdentityIsWhole ==
  Answered("ReadIdentity") =>
    LET v == result.value[1]
    IN  /\ v.firmware_version_raw = At(1, FirmwareVersion)
        /\ 256 * v.fw_major + 16 * v.fw_minor + v.fw_patch = At(1, FirmwareVersion)
        /\ \A i \in 1..SerialNumberCount :
             256 * v.serial_number[2 * i - 1] + v.serial_number[2 * i]
               = At(1, SerialNumberStart + i - 1)
        /\ v.modbus_address = At(1, ModbusAddress)
        /\ v.ascii_unit_id = At(1, AsciiUnitId)
        /\ v.full_scale_flow_raw = 65536 * At(1, FullScaleFlowUserUnits)
                                     + At(1, FullScaleFlowUserUnits + 1)
        /\ v.flow_units = At(1, FlowUnitsCode)

(* An instrument's identity does not change as it measures, and its        *)
(* addresses and the code of its units are bytes.                          *)
IdentityRegisters ==
  (FirmwareVersion .. (SerialNumberStart + SerialNumberCount - 1))
    \cup (ModbusAddress .. FlowUnitsCode)

ByteRegisters == {ModbusAddress, AsciiUnitId, FlowUnitsCode}

IdentityFixed ==
  /\ \A r \in IdentityRegisters \ Held, t \in 1..Len(Live) : Live[t][r] = Live[1][r]
  /\ \A r \in ByteRegisters : (IF r \in Held THEN Power[r] ELSE Live[1][r]) < 256

(* What was read of the identity so far.                                   *)
IdentityData(reg, count) == [i \in 1..count |-> At(1, reg + i - 1)]

IdentityRead ==
  ~Idle /\ job.name = "ReadIdentity" =>
    LET version == BuildReadHolding(Unit, FirmwareVersion, 1)
        serial  == BuildReadHolding(Unit, SerialNumberStart, SerialNumberCount)
        rest    == BuildReadHolding(Unit, ModbusAddress, 5)
        first   == IdentityData(FirmwareVersion, 1)
    IN  \/ job.todo = <<version, serial, rest>> /\ job.got = <<>>
        \/ job.todo = <<serial, rest>> /\ job.got = first
        \/ job.todo = <<rest>>
             /\ job.got = first \o IdentityData(SerialNumberStart, SerialNumberCount)

IdentityInv ==
  /\ IdentityIsWhole
  /\ IdentityRead
  /\ \A r \in ByteRegisters : At(1, r) < 256

(* After SetSetpoint succeeds, the instrument holds the setpoint that was  *)
(* asked for, to within a thousandth of the user's unit and never beyond.  *)
SetpointHeld ==
  Answered("SetSetpoint") /\ result.cmd.arg.number =>
    LET asked == result.cmd.arg.tenths
        got == 10 * Join(held[SetpointCommand], held[SetpointCommand + 1])
    IN  IF asked >= 0 THEN got <= asked /\ asked < got + 10
                      ELSE got >= asked /\ asked > got - 10

(* The setpoints asked for fit an int32_t of thousandths.                  *)
SetpointsFit ==
  /\ {SetpointCommand, SetpointCommand + 1} \subseteq Held
  /\ \A cmd \in HostCommands :
       cmd.name = "SetSetpoint" /\ cmd.arg.number => Truncated(cmd.arg.tenths) \in Int32

(* Whatever fails, no command leaves a setting out of the range documented *)
(* for it.                                                                 *)
SettingsInRange ==
  /\ held[CommWatchdogMs] <= 5000
  /\ held[FlowAveragingMs] <= 2500
  /\ held[ReferenceTemperature] <= 3000
  /\ held[AsciiUnitId] \in 65..90

(* The settings are in range at the start, and a reference temperature     *)
(* asked for is a number.                                                  *)
SettingsStart ==
  /\ {CommWatchdogMs, FlowAveragingMs, ReferenceTemperature, AsciiUnitId} \subseteq Held
  /\ Power[CommWatchdogMs] <= 5000
  /\ Power[FlowAveragingMs] <= 2500
  /\ Power[ReferenceTemperature] <= 3000
  /\ Power[AsciiUnitId] \in 65..90
  /\ \A cmd \in HostCommands : cmd.name = "SetReferenceTemperatureC" => cmd.arg.number

(* MeasurementPrevAvgFlowLow is the first of the two registers of the      *)
(* previous window's average flow (inc/alicat_basis2_registers.hpp), in    *)
(* one order or the other.                                                 *)
PrevAvgFlowFromItsRegisters ==
  Answered("ReadMeasurement") =>
    \E t \in result.from..result.to :
      {High(result.value[1].prev_avg_flow), Low(result.value[1].prev_avg_flow)}
        = {At(t, MeasurementPrevAvgFlowLow), At(t, MeasurementPrevAvgFlowLow + 1)}

(* What it is instead, on every success: the register before them and the  *)
(* first of them, so that the second is never looked at.                   *)
PrevAvgFlowIsEarly ==
  Answered("ReadMeasurement") =>
    \E t \in result.from..result.to :
      /\ High(result.value[1].prev_avg_flow) = At(t, MeasurementPrevAvgFlowLow - 1)
      /\ Low(result.value[1].prev_avg_flow) = At(t, MeasurementPrevAvgFlowLow)
=============================================================================
