------------------------------- MODULE Session -------------------------------
(***************************************************************************)
(* The two examples (examples/esp32/main/) against one instrument, in      *)
(* time: a script of commands and delays, then a loop that reads the live  *)
(* data.  Requests may be lost, refused or left unanswered, and the        *)
(* examples carry on; the host may crash, and start again from the top     *)
(* while the instrument keeps its state.  The instrument is the one the    *)
(* comments in inc/alicat_basis2.hpp describe: its watchdog closes the     *)
(* valve, a measurement takes its time per sample, a tare takes the flow   *)
(* of the moment for zero.                                                 *)
(*                                                                         *)
(* Time is counted in ticks of 100 ms; the host itself takes none.         *)
(***************************************************************************)
EXTENDS Commands

CONSTANTS
  Programs,     \* "full", "minimal": the examples the host may run
  Sources,      \* the setpoint sources the instrument may start with
  MaxCrashes,   \* bound on the crashes of the host
  MaxRestarts   \* bound on its restarts

ASSUME SessionAssumption ==
  /\ Programs \subseteq {"full", "minimal"} /\ Sources \subseteq 0..2
  /\ MaxCrashes \in Nat /\ MaxRestarts \in Nat

Ticks(ms) == ms \div 100

LongSilence == 25   \* bound on the ticks of silence that are told apart

kDefaultTimeoutMs == 200

SlowInterval == 2000   \* reads as seldom as the watchdog's own window

kReadIntervalMs == 1000

Command(name, arg) == [name |-> name, arg |-> arg]
Number(tenths)     == [number |-> TRUE, tenths |-> tenths]
Delay(ms)          == [name |-> "delay", arg |-> ms]

(* The full example's sweep, of the addresses 1 to 247 at 40 ms each.  The *)
(* instrument answers the first probe.  The other 246 find nobody, but     *)
(* they are traffic: its watchdog hears them, unless they are lost.        *)
SweepMs == 40
Sweep == <<Command("Probe", 0), Delay(246 * SweepMs)>>

NoWatchdog == <<>>   \* forgets the watchdog
Watchdog == <<Command("SetCommWatchdogMs", 2000)>>

Configuration ==
  <<Command("SetGas", 3), Command("SetReferenceTemperatureC", Number(25000)),
    Command("SetFlowAveragingMs", 50), Command("SetTotalizerLimitMode", 0)>> \o Watchdog

SetpointDemo ==
  <<Command("SetSetpointSource", 2), Command("SetSetpoint", Number(25000)),
    Command("Tare", 0), Command("ResetTotalizer", 0)>>

HastyMeasuring == Delay(300)   \* does not wait for the samples
Measuring == Delay(700)

MeasurementDemo ==
  <<Command("ConfigureMeasurementTrigger", 0), Command("StartMeasurementSamples", 200),
    Measuring, Command("ReadMeasurement", 0)>>

(* The last two steps of either example are its loop.                      *)
Loop == <<Command("ReadInstantaneous", 0), Delay(kReadIntervalMs)>>

Scripts ==
  [full    |-> Sweep \o <<Command("ReadIdentity", 0)>> \o Configuration \o SetpointDemo
                 \o MeasurementDemo \o Loop,
   minimal |-> <<Command("ReadIdentity", 0)>> \o Loop]

VARIABLES
  program,    \* the example the host runs
  at,         \* the step of the script the host is at
  nth,        \* the request of that command
  phase,      \* "ready" for it, "waiting" in it, or "crashed"
  wait,       \* ticks until it is over
  ok,         \* whether it succeeds
  failed,     \* a command has failed
  regs,       \* the instrument's registers that matter here
  flowing,    \* gas flows
  sampling,   \* ticks until the samples of a measurement are taken
  tared,      \* what the last tare took for zero
  silence,    \* ticks since the instrument last heard a request, to anybody
  lost,       \* requests lost since then, up to 2
  crashes,    \* how often the host has crashed
  restarts    \* and started again

host       == <<program, at, nth, phase, wait, ok, failed, crashes, restarts>>
instrument == <<regs, flowing, sampling, tared, silence, lost>>
vars       == <<host, instrument>>

Script   == Scripts[program]
LoopFrom == Len(Script) - 1

(* The host is waiting for the replies of the other addresses.             *)
Probing == program = "full" /\ at = Len(Sweep) /\ phase = "waiting"

Kept == {CommWatchdogMs, SetpointSource, SetpointCommand, SetpointCommand + 1}

Setpoint == Join(regs[SetpointCommand], regs[SetpointCommand + 1])
Armed    == regs[CommWatchdogMs] > 0 /\ regs[SetpointSource] = 2
Expired  == Armed /\ silence >= Ticks(regs[CommWatchdogMs])

RequestsOf(cmd) ==
  IF cmd.name = "Probe" THEN {<<BuildReadHolding(Unit, FirmwareVersion, 1)>>}
  ELSE {Requests(cmd, value, Unit) : value \in Values(cmd)}

TimeoutOf(cmd) == IF cmd.name = "Probe" THEN SweepMs ELSE kDefaultTimeoutMs

Init ==
  /\ program \in Programs /\ crashes = 0 /\ restarts = 0
  /\ at = 1 /\ nth = 1 /\ phase = "ready" /\ wait = 0 /\ ok = TRUE /\ failed = FALSE
  /\ \E source \in Sources :
       regs = [r \in Kept |-> IF r = SetpointSource THEN source ELSE 0]
  /\ flowing = FALSE /\ sampling = 0 /\ tared = "nothing"
  /\ silence = 0 /\ lost = 0

-----------------------------------------------------------------------------
(* The instrument carries out request f.  A sample takes 2.5 ms.           *)
Apply(f) ==
  LET wrote == IF f.fn = ReadHolding THEN {} ELSE f.reg .. (f.reg + f.count - 1)
  IN  /\ regs' = [r \in Kept |-> IF r \in wrote THEN f.words[r - f.reg + 1] ELSE regs[r]]
      /\ sampling' = IF MeasurementSampleCount \in wrote
                     THEN (f.words[1] * 25 + 999) \div 1000 ELSE sampling
      /\ tared' = IF TareCommand \in wrote /\ f.words[1] = kMagicTare
                  THEN (IF flowing THEN "flow" ELSE "no flow") ELSE tared

OneMore(n) == IF n < 2 THEN n + 1 ELSE 2

(* The host makes the request its script is at.  A success comes within a  *)
(* tick; a refusal is shorter than the reply the driver waits for, so it   *)
(* takes the whole timeout, as silence does.                               *)
Send ==
  /\ phase = "ready" /\ Script[at].name # "delay"
  /\ \E requests \in RequestsOf(Script[at]), heard, accepted, answered \in BOOLEAN :
       /\ accepted \/ answered => heard
       /\ IF accepted THEN Apply(requests[nth]) ELSE UNCHANGED <<regs, sampling, tared>>
       /\ silence' = IF heard THEN 0 ELSE silence
       /\ lost' = IF heard THEN 0 ELSE OneMore(lost)
       /\ ok' = (accepted /\ answered)
       /\ wait' \in IF accepted /\ answered THEN {0, 1} ELSE {Ticks(TimeoutOf(Script[at]))}
  /\ phase' = "waiting"
  /\ UNCHANGED <<program, at, nth, failed, flowing, crashes, restarts>>

Pause ==
  /\ phase = "ready" /\ Script[at].name = "delay"
  /\ wait' = Ticks(Script[at].arg)
  /\ ok' = TRUE
  /\ phase' = "waiting"
  /\ UNCHANGED <<program, at, nth, failed, crashes, restarts, instrument>>

RequestCount(name) == IF name \in DOMAIN Reads THEN Len(Reads[name]) ELSE 1

(* The step after this one.                                                *)
InsistentFollowing ==   \* repeats a command until it succeeds
  IF ~ok THEN at ELSE IF at = Len(Script) THEN LoopFrom ELSE at + 1
EndlessFollowing == at + 1   \* forgets the loop
Following == IF at = Len(Script) THEN LoopFrom ELSE at + 1

(* The next request of the command, or the next step.                      *)
Proceed ==
  /\ phase = "waiting" /\ wait = 0
  /\ phase' = "ready"
  /\ failed' = (failed \/ ~ok)
  /\ IF ok /\ nth < RequestCount(Script[at].name)
     THEN nth' = nth + 1 /\ UNCHANGED at
     ELSE nth' = 1 /\ at' = Following
  /\ UNCHANGED <<program, wait, ok, crashes, restarts, instrument>>

Crash ==
  /\ phase # "crashed" /\ crashes < MaxCrashes
  /\ crashes' = crashes + 1
  /\ phase' = "crashed"
  /\ UNCHANGED <<program, at, nth, wait, ok, failed, restarts, instrument>>

(* The host starts again.  Nothing of its own has survived; `failed' is    *)
(* for the properties.                                                     *)
Restart ==
  /\ phase = "crashed" /\ restarts < MaxRestarts
  /\ restarts' = restarts + 1
  /\ at' = 1 /\ nth' = 1 /\ phase' = "ready" /\ wait' = 0 /\ ok' = TRUE
  /\ UNCHANGED <<program, failed, crashes, instrument>>

(* A tick passes.  During the sweep it brings more probes, heard or lost.  *)
(* An expired watchdog forces a zero setpoint; the flow follows the        *)
(* setpoint, sooner or later.                                              *)
Tick ==
  /\ phase = "crashed" \/ (phase = "waiting" /\ wait > 0)
  /\ wait' = IF phase = "crashed" THEN wait ELSE wait - 1
  /\ \E heard \in IF Probing THEN BOOLEAN ELSE {FALSE} :
       /\ silence' = IF heard THEN 0
                     ELSE IF silence < LongSilence THEN silence + 1 ELSE LongSilence
       /\ lost' = IF heard THEN 0 ELSE IF Probing THEN OneMore(lost) ELSE lost
  /\ sampling' = IF sampling > 0 THEN sampling - 1 ELSE 0
  /\ regs' = IF Expired
             THEN [regs EXCEPT ![SetpointCommand] = 0, ![SetpointCommand + 1] = 0] ELSE regs
  /\ flowing' \in {flowing, Setpoint > 0}
  /\ UNCHANGED <<program, at, nth, phase, ok, failed, crashes, restarts, tared>>

Next == Send \/ Pause \/ Proceed \/ Crash \/ Restart \/ Tick

(* Time passes, and the host's thread goes on unless it has crashed.       *)
Spec == Init /\ [][Next]_vars /\ WF_vars(Send \/ Pause \/ Proceed) /\ WF_vars(Tick)

-----------------------------------------------------------------------------
(* Properties.                                                             *)

SessionTypeOK ==
  /\ at \in 1..Len(Script) /\ nth \in 1..3
  /\ phase \in {"ready", "waiting", "crashed"}
  /\ regs \in [Kept -> Word]
  /\ nth <= RequestCount(Script[at].name)
  /\ sampling \in 0..Ticks(700) /\ silence \in 0..LongSilence /\ lost \in 0..2
  /\ restarts <= crashes

(* The host, started or started again, has yet to send.                    *)
Silent == at = 1 /\ nth = 1 /\ phase = "ready"

(* While the host runs, the watchdog expires only on a line that has lost  *)
(* requests: the sweep is traffic too, and the loop's period leaves room   *)
(* for every call to take its whole timeout.                               *)
WatchdogNeedsLoss == phase # "crashed" /\ ~Silent /\ Expired => lost > 0

(* The samples have been taken when the measurement is read.               *)
MeasurementIsOver ==
  Script[at].name = "ReadMeasurement" /\ phase = "ready" => sampling = 0

(* If no command has failed, gas does not flow on under a host that has    *)
(* crashed for good: the watchdog was set before the setpoint.  (A host    *)
(* that starts again in time finds the valve as it was.)                   *)
CrashClosesValve ==
  phase = "crashed" /\ ~failed /\ Setpoint # 0 ~> Setpoint = 0 \/ phase # "crashed"

(* The same with a bound: as long as no command has failed, an instrument  *)
(* that has heard nothing for more than the 2 s of the watchdog has no     *)
(* setpoint, whatever the host is doing, has done, or has stopped doing.   *)
SilenceClosesValve == ~failed /\ silence > 20 => Setpoint = 0

(* Whatever fails, either example gets to its loop and reads on.           *)
KeepsReading ==
  []<>(phase = "crashed" \/ (Script[at].name = "ReadInstantaneous" /\ phase = "waiting"))

(* Why these hold.  In the full example, step 2 is the rest of the sweep,  *)
(* steps 8, 9 and 10 set watchdog, source and setpoint, and the            *)
(* measurement is started in step 14 and waited for in step 15.            *)
Closed == regs[SetpointCommand] = 0 /\ regs[SetpointCommand + 1] = 0

Counted ==
  /\ program \in {"full", "minimal"} /\ wait \in 0..98
  /\ ok \in BOOLEAN /\ failed \in BOOLEAN /\ crashes \in Nat /\ restarts \in Nat
  /\ phase = "crashed" => restarts < crashes
  /\ regs[CommWatchdogMs] \in {0, 2000}
  /\ program = "minimal" => regs[CommWatchdogMs] = 0 /\ Closed

(* On a line that has lost nothing since, the instrument has heard the     *)
(* last command: nothing but a delay and that command's wait are between.  *)
HeardLately ==
  phase # "crashed" /\ lost = 0 =>
    IF Script[at].name # "delay"
    THEN /\ phase = "waiting" => silence + wait <= 2
         /\ phase = "ready" /\ at > 1 => silence <= 12
    ELSE IF phase = "waiting" /\ ~Probing THEN silence + wait <= 12 ELSE silence <= 2

SampledInTime == program = "full" /\ at = 15 /\ phase = "waiting" => sampling <= wait

(* Whatever crashes there were, before a command has failed the setpoint   *)
(* is not set without the watchdog, which sees to it during a silence.     *)
Guarded ==
  program = "full" /\ ~failed =>
    /\ at > 8 \/ (at = 8 /\ phase = "waiting" /\ ok) => regs[CommWatchdogMs] = 2000
    /\ at > 9 \/ (at = 9 /\ phase = "waiting" /\ ok) => regs[SetpointSource] = 2
    /\ Closed \/ (regs[CommWatchdogMs] = 2000 /\ regs[SetpointSource] = 2 /\ silence <= 20)

SessionInv ==
  SessionTypeOK /\ Counted /\ HeardLately /\ SampledInTime /\ MeasurementIsOver /\ Guarded

(* The comment on Tare: the instrument must be exposed to true zero flow.  *)
TareAtZeroFlow == tared # "flow"
=============================================================================
