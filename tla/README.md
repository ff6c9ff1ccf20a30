# Verification of the Alicat BASIS-2 driver

TLA+ models, TLC runs and TLAPS proofs for the C++ driver in `src/`: a
header-only Modbus-RTU master for Alicat BASIS-2 gas mass-flow meters and
controllers on an RS-485 line. `PROJECT.json` lists the runs, the lines each
definition stands for, the hazards and the theorems.

## The system

| Part | State | Operations | Talks to |
|---|---|---|---|
| Protocol layer, `inc/alicat_basis2_modbus.hpp` | none | request builders, CRC, three response parsers | called by the primitives |
| Raw primitives, `inc/alicat_basis2.hpp` 561-620 | `address_`, `timeout_ms_` | `ReadHoldingRegisters`, `WriteSingleRegister`, `WriteMultipleRegisters` | UART: flush, write, read with timeout |
| `SetAddress`, `SetTimeoutMs`, `SetModbusAddress` | the same | change the target, by hand or with the instrument's | primitives |
| `DiscoverPresentAddresses` (527-555) | borrows target and timeout; the host's bitmap | one probe per address | primitives |
| Instrument operations (117-510) | none | three multi-field reads, two dozen settings | primitives |
| UART interface | the receive buffer of the adapter | `write`, `read`, `flush_rx`, `delay_ms` | line |
| Instruments and line (external) | registers, requests and replies under way | serve, refuse, lose, damage, delay | UART |
| Full example (`examples/esp32`) | a script, then a loop | sweep, identity, configuration, setpoint, measurement, periodic read | driver |
| Minimal example (`examples/esp32`) | the same | identity, periodic read | driver |

Calls are synchronous and run in the caller's thread. The driver has no thread,
lock, queue or callback of its own: what makes it hard is the line behind it.

**Hard behaviours.**

- Replies carry no transaction number. A read reply names no register, a
  multiple-write acknowledgement no values, an exception nothing but the
  function. A reply that comes after its call has timed out can reach a later
  call. The driver's only defence is a flush of what has *arrived* by then.
- Drivers for different instruments share one UART. The header leaves their
  serialisation to the host.
- Requests, replies and acknowledgements get lost: a failed write may have been
  carried out, and `address_` and the instrument's own address may drift apart.
- The number of bytes waited for, the order of the parser's checks and the
  order of the steps (parameters, flush, transmit, buffer check, broadcast,
  read) decide which error is reported and what is left behind for the next
  call.
- A sweep has to give back what it borrows, end at address 255, and not credit
  one address with another's late answer.
- Fields are decoded by index into blocks of registers, and numbers are cut
  into words with casts and shifts.
- An instrument's watchdog, its measurement and its tare depend on when the
  host calls, and outlive a crash of the host.
- A timeout runs while the request is still being sent, is cut to ticks of the
  operating system, and is the same at 4800 and at 115200 baud; `SetBaudRate`
  changes the instrument's rate and leaves the host's to the host; neither after
  a broadcast nor after a reply does anything keep the next frame apart.

**What makes each part correct.** For the primitives: success means done (by
whom, and by which call, depends on the host's discipline); an error is final or
not; every call returns. For `SetModbusAddress`: the driver stays on an
instrument. For a sweep: what it reports has answered, what answers is reported,
target and timeout come back, it ends. For the operations: a returned structure
is one consistent reading of the registers it is named after, and settings stay
in their ranges. For the example: the watchdog does not fire while it runs and
does fire when it dies; its loop is always reached. On the wire: a timeout
leaves time for the answer, a call leaves the line free, a change of rate is
over when it is acknowledged.

## Modules

| Module | Models | Built on |
|---|---|---|
| `Modbus` | frames, bytes on the wire, builders, CRC check, parsers | |
| `Basis2Bus` | drivers on a UART, line, instruments | `Modbus` |
| `RemoteRegisters` | what the primitives promise: registers held elsewhere | `Modbus` |
| `RegistersRefinement` | the mapping from `Basis2Bus` to `RemoteRegisters` | both |
| `Discovery` | the sweep, over the bus | `Basis2Bus` |
| `Words` | packing of numbers in registers | |
| `Commands` | register map, argument checks, requests and decoding of each operation | `Modbus`, `Words` |
| `Facade` | a host commanding an instrument through every operation | `Commands` |
| `Session` | the two examples in time, with crashes and restarts | `Commands` |
| `Wire` | the calls in microseconds, at every rate | `Modbus` |
| `MCBasis2Bus`, `MCDiscovery`, `MCFacade`, `MCSession`, `MCWire`, `MCRoomyWire` | values for the constants | |
| `Basis2BusProofs`, `TimelyProofs` | theorems about `Basis2Bus`, for any line and for a timely one | `Basis2Bus` |
| `RegistersProofs` | the refinement of `RemoteRegisters`, proved | `Basis2BusProofs`, `RegistersRefinement` |
| `DiscoveryProofs` | theorems about `Discovery` | `Discovery`, `Basis2BusProofs` |
| `CommandsProofs` | lemmas about `Words` and `Commands` | `Commands` |
| `FacadeProofs` | theorems about `Facade` | `Facade`, `CommandsProofs` |
| `SessionProofs` | theorems about `Session` | `Session`, `CommandsProofs` |
| `WireProofs` | theorems about `Wire` | `Wire` |

Definitions whose comment says what is wrong with them (`Faulty...` and the like,
before the definition they stand in for) are mistakes the properties are tried
against, one by one; no specification uses them.

### Modbus

A frame is a record of its fields. On the wire it is a sequence of bytes, each a
record of the frame it belongs to, its position, whether noise has damaged the
frame, and the transaction it answers; the last is for the properties only, and
no operator of the driver looks at it. Thus a buffer can hold parts of several
replies, as the code's buffer can. `CheckCrc` holds of exactly the bytes of one
undamaged frame: the CRC is taken as perfect. Each parser makes the checks of
its C++ namesake in the same order, the length first.

### Basis2Bus

A call goes through the points where something else can happen:
`Begin` (parameter checks passed, request built, receive buffer flushed),
`Transmit` (the request goes out; the refusal of a read larger than the receive
array and the return from a broadcast write come *after* it, as in the code),
then `ReceiveAll` (the UART has the bytes asked for) or `GiveUp` (the timeout
expires on fewer). `Refuse` is a call its parameters end. `Receive` parses and
returns; `Return` is where `SetModbusAddress` takes up the new address.
`SetAddress` and `SetTimeoutMs` happen between calls.

`Arrive` moves a byte from the line to the receive buffer, and `Serve` is an
instrument that takes its next request: drops it, carries it out or refuses it,
answers or not, intact or damaged, sooner or later. Neither is in the
repository; they do whatever the driver's error codes say may happen.

Timeouts have no clock. A call may give up whenever it has fewer bytes than it
needs, except that with a timeout in `LongTimeouts` it does so only when nothing
is under way any more. Four constants say what else a run assumes:
`Serialised` (the mutex of the host), `Settled` (a call begins only when nothing
is under way), `Careful` (no instrument gets an address that is taken) and
`Lossy`. `served` records what the instruments did and is for the properties
only. `MaxCalls` bounds `sent`; `MaxReadCount`, `MaxRxRegs` and `MaxWriteRegs`
stand for the 125, 32 and 32 of the code.

### RemoteRegisters and RegistersRefinement

The abstract specification knows registers (`store`), targets, calls with their
outcomes, what may yet be carried out (`due`) and what was (`done`); it has no
bytes, buffers, replies or timeouts. A call makes itself due at every
instrument. Each carries out what is due at most once and in one step
(`CarryOut`), before the call returns, after it, or never (`Lose`). A call
reports success only if it has been carried out and hands over what was read
then; an exception only if it has been refused. A target changes by hand, or to
the address a call has successfully set.

`RegistersRefinement` maps `Basis2Bus` to it: `target` is `address`, `store` is
`regs`, `done` is `served`, `calls` is `call`; `due` are the requests on their way to
instruments, and that of a driver between its flush and its transmission.
`Begin` becomes `Invoke`, `Serve` becomes `CarryOut` (or `Lose`, for another
unit's request), a `Transmit` that instruments miss becomes `Lose`, every way to return
becomes `Return`, and what happens to bytes becomes a stutter. It holds for
hosts that are `Serialised` and `Settled`; without them a call may report
another one's outcome.

### Discovery

Each statement of `DiscoverPresentAddresses` that touches the driver is a step:
`BeginSweep` takes up the probe timeout, `NextAddress` the next target, `Ask`
and the bus do the read, `Record` sets bit and counter, `EndLoop` and
`EndSweep` restore target and timeout. Every one of them is a step of the bus or
leaves it alone. The loop variable is 16 bits wide, the counter 8.

### Commands, Words and Facade

`Commands` has tables of which registers an operation reads or writes, the
arguments it refuses, the requests it makes and the decoders. A float argument
is tenths of the register's unit, or no number at all; a cast that is undefined
gives a value of `Junk`. Decoded floats are given as the integers the code
scales them from, and raw integers stand beside them where their bits differ or
their name does: `raw_setpoint_2053_2054` is the setpoint read back from 2106,
and `num_samples_collected` the count that was asked for (4201, as the comment
in the code says; 4206, the samples averaged, is read and dropped). `Facade` runs commands one request at a time: `Succeed` or
`Fail` (where a failed write may have been carried out), with `Measure` changing
the live registers in between.

### Session

The full example and the minimal one, in ticks of 100 ms: a script of commands
and delays whose last two steps are the loop. A request may be lost, refused or
left unanswered, and the examples carry on. A success takes less than a tick or
one, any other outcome the whole timeout. The sweep of 247 addresses is a probe
of the instrument and almost ten seconds of probes to others. These are traffic
too, and the comment on `SetCommWatchdogMs` has the watchdog act only if there
is none: each that is not lost on the line keeps it quiet (`Probing`). `Tick`
lets time pass for the host's waits, the watchdog, a running measurement and the
valve; `Crash` stops the host, and `Restart` runs it from the top while the
instrument keeps its state. What the instrument does is taken from the comments
on `SetCommWatchdogMs`, `StartMeasurementSamples` and `Tare`.

### Wire

One driver and one instrument in microseconds. The clock jumps to whatever is due
next (`Advance`). A byte takes ten bit times, rounded up. `Start` flushes and writes: the UART
takes the bytes at once, so that the timeout runs from there, and sends them
after what it had before (`Written`). The timeout is converted as the examples'
adapters convert it: to whole ticks, truncated (`Ticks`), of which the first may
come at once (`Waits`). `Delimit` is the instrument noticing 3.5 characters of
silence: it takes what was sent since the last silence as one frame, and nothing
at all if that is two. `Answer` ends its reply, begins the silence that is to
follow that and, after `SetBaudRate`, switches its rate; the host follows by `Retune`, which it must if the call has
succeeded and may if not, as the comment on `SetBaudRate` and the
troubleshooting page ask of it. The rates are codes, as in the code.

`Basis2Bus` leaves time to its constants; `Wire` says when they are justified.
`SettledAtReturn` is what `Settled` asks for, and together with `AnsweredInTime` it makes
the default timeout one of `LongTimeouts`: at every rate, for an instrument that
takes up to 10 ms to begin its reply and a tick of 10 ms.

## Runs

| Run | Bounds | What it shows |
|---|---|---|
| `core_settled` | 1 driver, 2 instruments, 2 of 7 calls, any loss; fair | for a host that lets the line settle, success is this call's own success, an exception its own refusal (`AckedMeansDone`, `ExceptionIsOwn`), the invariant of the proof, `AckedInv`, holds, the driver implements `RemoteRegisters` (`ImplementsRegisters`), and every call returns, through damage, short replies and none (`CallsReturn`) |
| `shared_unsync` | 2 drivers, no lock, 2 calls, any loss | success still means that an instrument at the target address accepted a request of this shape (`AckedIsBacked`), and an exception that one refused some request (`ExceptionIsBacked`), even after a read that the receive array has no room for, whose reply meets the next call |
| `shared_timely` | 2 drivers in turn, 3 calls, no loss, long timeouts | calls leave nothing behind, errors are final, a refused call is reported (a read as an exception, a write as `InvalidFrame`), drivers follow their instruments, addresses stay distinct (`SilentBetweenCalls`, `ErrorIsFinal`, `RefusalReported`, `OnTarget`, `AddressesDistinct`), and the invariant behind them, `TimelyInv`, holds |
| `discovery` | 1 driver, 2 instruments, 5 windows, 2 calls, both bitmap sizes, hurried or not | `ReportedAnswered`, `SweepComplete`, `SweepEnds`, target and timeout come back (`TargetKept`, `TimeoutKept`), and the invariant behind `SweepComplete`, `CompleteInv`, holds |
| `facade` | every operation with arguments on both sides of each limit, 2 in a row, 3 moments of the live registers | `InstantaneousIsSnapshot`, `MeasurementIsWindow`, `IdentityIsWhole`, `SetpointHeld`, `SettingsInRange` |
| `session` | both scripts and their loops; each source the setpoint may have at the start; 2 crashes, 1 restart | `WatchdogNeedsLoss`, `MeasurementIsOver`, `SilenceClosesValve`, `CrashClosesValve`, `KeepsReading`, and the invariant of the proof, `SessionInv` |
| `wire` | 13 calls, among them the longest read and write, broadcasts and a change to each rate; all six rates; turnarounds of 0 and 10 ms; ticks of 10 ms; any loss | `SettledAtReturn`, `AnsweredInTime` and `SwitchDrained`, for a host that pauses 35 ms after a broadcast, and the invariant of the proof, `WireInv` |

Five runs find a statement of the documentation violated:

| Run | Statement | What the code does |
|---|---|---|
| `refused_write` | a rejected write is `ModbusException` | an exception has 5 bytes, the write parsers want 8 first: `InvalidFrame`, after the whole timeout |
| `previous_flow` | the previous average flow is 4214 and the register after | it is decoded from 4213 and 4214; 4215 is not read |
| `tare` | tare at true zero flow | the example tares right after opening the valve |
| `probe_rate` | the sweep finds which addresses respond, at 4800 too | the default 30 ms of a probe are over before a reply can be there: request, silence and reply take 38.6 ms |
| `gap` | the driver sees to the silence between frames | it waits for it neither after a reply nor after a broadcast: a broadcast has it on neither side, since it follows the reply to a read at once and the next request runs into it |

Three more disagreements are left without a run: `SetModbusAddress` by a driver
whose target is the broadcast address takes up the new one although no slave
acknowledged anything (`inc/alicat_basis2.hpp:456` and 465); a reference
temperature that is not a number is not refused (378 and 382); and
`SetSetpoint` scales by 1000 whatever `flow_decimals` says, while
`docs/troubleshooting.md:21` tells to pass them.

**Why the bounds are enough to be interesting.** Two calls suffice for a late or
foreign reply to meet a call it does not belong to; three for it to skip one,
and for a driver to change an address, use it, and be followed by the other. Two
instruments suffice for one to answer in the other's place. Single and multiple
writes of the same and of different values, and a read of two registers, give
replies of equal and of different lengths. `CoreCalls` and `SharedCalls` include a read that is
given up after it was transmitted; in the latter nothing keeps its reply from
the next call. The windows of `discovery` include the empty
one and one that ends at 255. In `wire` the probes are made at 19200 and more,
where 30 ms suffice with a tick of 10 ms; 35 ms is longer than the
longest broadcast of the run and the silence after it take at 4800 (34.4 ms).
The longest answered call there, a write of 32 registers at 4800, takes 186 of
the 190 ms that the default timeout lasts at least. Deadlock is checked in every run but those of
`Facade`, where the bound on commands ends the behaviour.

**Fairness.** `FairSpec` asks that a thread in a call runs on, which for `read`
means that the UART returns at the count or at the timeout (this is the contract
in `alicat_basis2_uart_interface.hpp`), that the line delivers the bytes on it,
and that an instrument gets round to what it has received; replying or accepting
is never asked for, nor is the host ever obliged to call. `SweepSpec` asks the
same, and that the thread that sweeps goes on between its reads. In
`discovery` the long timeout expires only once instruments and line have come to
rest, which is what their fairness is for. `Session` asks that the host's thread goes on
unless it has crashed, and that time passes.

## Proofs

The proofs are for every value of the constants: any drivers, instruments,
registers, calls and timeouts, any number of calls, any arguments and register
contents. They use the `ASSUME`s of the modules, which TLC evaluates in every
run, and the hypotheses named with each theorem.

**Any line** (`Basis2BusProofs`).

- `TypeCorrect`: `Spec => []TypeOK`.
- `AckedInvHolds`, from it `SuccessMeansDone` and `ExceptionMeansRefused`:
  `Spec => []AckedMeansDone` and `Spec => []ExceptionIsOwn` for a host that is
  `Serialised` and `Settled`, whatever the line loses. `AckedMeansDone` alone is
  not inductive: it says nothing of a call under way. `AckedInv` adds that one
  call is under way at a time (`OneCall`), that from its flush on everything
  under way carries its transaction (`Fresh`), that an instrument has it at most
  once (`AtMostOne`) and that every reply under way was given by an instrument
  (`Backed`). A parser that accepts a buffer has found it whole and of one frame,
  `Backed` finds the service it comes from, and `Fresh` makes it this call's.
- `SuccessIsBacked`: `Spec => []AckedIsBacked`, by the invariant `BackedInv`,
  with no hypothesis on the host: drivers may
  interleave, replies may be late or read by another driver. The heart of it is
  `ParseMatches`: a buffer that a parser takes for the answer to a request is a
  reply to a request of that unit, function, registers and count.
- `ExceptionIsBackedHolds`, from the same invariant: an exception stands for a
  refusal by the target's unit, of whatever request, and no write ever reports
  one, since its parser looks at the length first. The second half is the
  finding `refused_write`, for any line and any host.

**The refinement** (`RegistersProofs`). `BusImplementsRegisters`: for a host
that is `Serialised` and `Settled`, `Spec => ImplementsRegisters`. `InitMaps`
maps the initial states, and there is one lemma for the actions of each kind,
all under `AckedInv`: a call is answered as `RemoteRegisters` allows only
because what the driver parses is the service of that very call, and a service
removes exactly one request from `due` only because an instrument has it once.

**The timely line** (`TimelyProofs`). The hypothesis `Timely` collects what the
host and the line must grant: calls one at a time, nothing lost, no timeout
shorter than a reply, no broadcasts, no read the receive array has no room for,
distinct addresses at the start and no careless change of one. None of the
properties of such a line is inductive. `TimelyInv` relates the three places a
call can be in: on its way and unanswered, answered by the bytes that are in the
buffer and on the line and by no others, or returned on a silent line
(`Phases`); with it, transactions are numbered apart (`Numbered`), calls are
allowed by their parameters (`Allowed`), and addresses are distinct even counting
changes an instrument has received but not made. From it follow `AckedMeansDone`
without `Settled`, `ErrorIsFinal`, `SilentBetweenCalls`, `RefusalReported`
and `AddressesDistinct` (`TimelyInvHolds` and the theorems after it). `OnTargetHolds` needs `OwnTargets` too, that each driver
starts on an instrument of its own and has its target changed by no hand; its
invariant speaks of the address a driver is heading for (`Heading`), which
between an instrument's acceptance and the driver's return is not `address`.
The run `shared_timely` satisfies both hypotheses and checks `TimelyInv`.

**The sweep** (`DiscoveryProofs`), for every window.

- `SweepInvHolds`, from it `SweepTypeCorrect` and `ReportedAnsweredHolds`: every
  step of a sweep is a step of the bus, so `BackedInv` carries over; `SweepInv`
  adds that the read under way is the probe of the address the loop is at
  (`Asks`), and that every bit already set has an answer behind it
  (`BitsBacked`). No hypothesis: the probes may be as hurried, and the other
  drivers as intrusive, as they like.
- `SweepAdvancesHolds`: the safety half of `SweepEnds`. `Ahead` counts the steps a
  sweep still has before it; nothing but those steps changes what the sweep has
  borrowed or found, and each of them lowers the count by one, so that what is
  left to liveness is only that they happen.
- `SweepsRefineTheBus`: `SweepSpec => Spec`, for hosts to whom the addresses of
  the windows, of the targets and of `SetModbusAddress` are open by hand too
  (`WithinReach`; the code has any host set any address). Whatever is proved of
  the bus holds of one that sweeps. `ReachInv` is needed because a sweep sets
  what it has saved: the addresses in its record must be ones a host can set.
- `TimeoutKeptHolds`: outside a sweep a driver has the timeout it began with (the
  host of `Discovery` sets no other), since during one the sweep has it saved.
- `TargetKeptHolds`, from `TargetInv`, for hosts that do not call
  `SetModbusAddress`, after which the target is rightly another.
- `CompleteInvHolds`, from it `SweepCompleteHolds`: a sweep gets through to every instrument in its window, and
  reports each that accepts a probe. Its hypothesis, `Undisturbed`, says that there is one driver, that nothing is lost,
  that the receive array has room for what a probe reads, that no call writes an
  address, and that the instruments' addresses are distinct and none is the
  broadcast address. The host may make any other calls before and between
  sweeps, with any timeouts, and need not wait for the line to settle: a sweep
  counts only if it was begun when nothing was under way and probes with a long
  timeout (`unhurried`). A report is complete only at its end, so `CompleteInv`
  follows the loop: instruments keep their addresses (`LeftAlone`); the probe of
  an address where there is an instrument is waiting for it, or replied to by the
  bytes in the buffer and on the line and by no others, or returned with what
  makes it found (`Probing`); and every instrument the loop has gone past is in
  the bitmap (`Thorough`). That the list returned is no shorter than the bitmap
  needs one more fact: `found` is 8 bits wide, and it does not wrap because
  address 0 is never reported, which leaves 255 (`CountFits`). `MCDiscovery`
  has TLC evaluate `Undisturbed` and `WithinReach` on the instance of the run.

**The operations** (`CommandsProofs`, `FacadeProofs`). First the arithmetic: a word is put
together again from its parts, a signed word from its low half, an `int32` from
its two halves, and the parts are in range (`WordBounds`, `SignedWord`,
`JoinHalves`, `HalvesJoin`, `Packed`, `Bits`, `TruncatedLeaves`); then what each
command requests (`BuiltFrames`, `RequestsType`, `ReadCommands`,
`WriteCommands`). `UnderwayInv` says that what is left of a command is the end of
the list of its requests. From these:

- `FacadeTypeCorrect`: whatever the arguments, registers hold 16-bit words.
- `InstantaneousIsSnapshotHolds`, `MeasurementIsWindowHolds`: for any contents
  that change at any moment (`MeasurementDecoded` says where each field of the
  measurement comes from).
- `PrevAvgFlowIsEarlyHolds`: the field that is not as documented is put together
  from the registers 4213 and 4214, on every success: the finding
  `previous_flow`, for any contents.
- `IdentityIsWholeHolds`, by induction over the three reads (`IdentityInv`), for
  an instrument whose identity does not change (`IdentityFixed`).
- `SetpointHeldHolds`, for setpoints that fit an `int32_t` of thousandths
  (`SetpointsFit`): for the others the cast is undefined in the code.
- `SettingsInRangeHolds`, for settings that start in range and reference
  temperatures that are numbers (`SettingsStart`): one that is not a number
  passes the comparisons.

TLC evaluates the three hypotheses on the instance of the run `facade`
(`MCFacade`).

**The examples** (`SessionProofs`), for any sources, any outcome of an undefined
cast, and any number of crashes and restarts. No hypothesis. `Steps` says which
command stands where in the scripts; `Accepted` what an accepted command leaves
in the registers that matter. None of the properties is inductive: each is about
a moment that the steps before have prepared. `SessionInv` says what holds at
every step instead: how long the instrument can have heard nothing on a line
that has lost nothing since, counting what the call under way may still take
(`HeardLately`); how long a running measurement still takes while it is waited
for (`SampledInTime`); and, as long as no command has failed, that from steps 8
and 9 on watchdog and source are set, and that a setpoint other than zero has
both of them behind it, and less than 2.1 s of silence, wherever the host has
crashed and begun again (`Guarded`). From it:

- `WatchdogNeedsLossHolds`: a request that is heard is followed by at most its whole
  timeout of 200 ms and a delay of 1000 ms, which leaves 800 ms of the watchdog's
  2000 ms.
- `SilenceClosesValveHolds`: as long as no command has failed, an instrument that
  has heard nothing for more than 2 s has no setpoint. This is what
  `CrashClosesValve` promises, with the bound that the liveness property leaves
  out: whenever the host has been dead for 2.1 s, the valve is closed. A host
  that starts again before may find it open, and its sweep, which is traffic,
  keeps it so: the example then sets gas and averaging under flow.
- `MeasurementIsOverHolds`, `SessionTypeCorrect`.

**The calls in time** (`WireProofs`), for any calls, rates, turnarounds and tick.
The hypothesis `Roomy` is about each call by itself: at each rate, its request,
the silence after it and the longest reply take less than the shortest wait its
timeout may turn into, and a broadcast no longer than the host's pause.
`ExampleNumbersAreRoomy` derives it from the numbers in the code and a tick of
10 ms, for every call the driver makes: the longest takes 81 bytes, at most
186.1 ms at 4800, of the 190 ms a timeout of 200 ms lasts at least, and a probe
at 19200 takes 19.6 of 20 ms. `MCRoomyWire` has TLC evaluate that hypothesis
(`ExampleNumbers`) on the instance of the run.

What `Roomy` does not say is that calls stay alone. `WireInvHolds` shows it: a
call that waits is on its way, being answered, or in vain (`Sent`, `Answering`,
`InVain`), in the first two with time left for the rest, and otherwise the line
is free but for the end of a broadcast (`Free`); this through losses, refusals,
damaged replies, and hosts and instruments at different rates. From it follow
`SettledAtReturn`, `SwitchDrained` and `AnsweredInTime`
(`SettledAtReturnHolds` and so on), none of which is inductive: each is about
the moment of the return only.

The reverse needs no hypothesis. A call is `Scarce` at a rate where its request,
the silence after it and the reply take longer than its timeout.
`ScarceFailsHolds`: such a call fails, whatever the tick, the turnarounds, the
losses and the other calls of the host. That it gives up before its own reply is
arithmetic; that the late reply to an earlier call does not make it succeed is
not, and `ScarceInv` is what shows it: a call flushes what has arrived of a reply
still under way, and its own bytes meet the rest on the line; and the request on
the line last is the call's own (`Late`). `SlowProbesFailHolds` applies it to a probe with the default
30 ms: at 4800 none ever succeeds, so the finding `probe_rate` does not depend
on the instance in which TLC found it. `WireTypeCorrect` comes from the same
invariant. `CallsFitATick` is about `Session`: at 9600 and more, every call that
is answered is over within the tick of 100 ms that `Session` gives a success;
the examples run at 38400.

**Only model-checked.** Liveness under fairness (`CallsReturn`, `SweepEnds`,
`CrashClosesValve`, `KeepsReading`), which is out of the prover's reach. What
recursive definitions compute cannot be proved here either; the modules have
none. The six disagreements of the violation runs are TLC's counterexamples; what the
code does instead is proved in general for three of them (`ExceptionIsBackedHolds`,
`PrevAvgFlowIsEarlyHolds`, `SlowProbesFailHolds`).

## Not modelled

- The bits of frames and the CRC polynomial; the chance that damage passes it.
- Instruments with the same address answering at once: both answer, one after
  the other. `Wire` has one instrument.
- A request that meets a reply still on the line: in `Wire` the reply is damaged
  and the request is not. In the runs whose properties hold no call begins while
  a reply is under way, which is what `SettledAtReturn` says of most calls, and
  `AnsweredInTime` of the probes.
- An instrument that takes longer than 10 ms to begin its reply: no line of the
  repository bounds it. With the ticks of `wire` more than 10.3 ms would be
  too long for a probe at 19200, and more than 13.9 ms for the longest write at
  4800.
- The floats themselves, and the cast in `SetSetpoint` whose result is unused.
- Names of gases, units and errors; logging; UART bring-up; registers and types
  no operation uses; the handler around the driver, which is in another
  repository.

## Plan

Done: the models of every part above, their runs, and the proofs about
`Basis2Bus`, its refinement, the sweep, the operations, the examples and the
calls in time. Every safety property the passing runs check is a theorem.
