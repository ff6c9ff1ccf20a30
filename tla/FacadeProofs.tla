---------------------------- MODULE FacadeProofs ----------------------------
(***************************************************************************)
(* Theorems about Facade: for every set of commands, every instrument and  *)
(* every sequence of moments.                                              *)
(***************************************************************************)
EXTENDS Facade, CommandsProofs

-----------------------------------------------------------------------------
(* Type correctness, with what is left of the command under way.           *)

TypeInv == FacadeTypeOK /\ UnderwayInv

(* A register that the driver reads holds a word.                          *)
LEMMA ContentType ==
  ASSUME FacadeTypeOK, NEW r \in Held \cup DOMAIN Live[1]
  PROVE  Content(r) \in Word /\ Content(r) = At(now, r)
<1>. DEFINE S == [DOMAIN Live[1] -> Word]
<1>1. Live \in Seq(S) /\ now \in 1..Len(Live)
  BY FacadeAssumption DEF FacadeTypeOK
<1>2. Live[now] \in S
  <2>. HIDE DEF S
  <2>. QED
    BY <1>1
<1>. QED
  BY <1>2 DEF FacadeTypeOK, Content, At

(* The next request of a command is the first of its requests, or          *)
(* ReadIdentity's second or third; only ReadIdentity has more than one.    *)
LEMMA NextRequest ==
  ASSUME TypeInv, ~Idle
  PROVE  LET f == Head(job.todo)
         IN  /\ f \in RequestFrames
             /\ Tail(job.todo) \in Seq(RequestFrames)
             /\ WellTyped(result.cmd)
             /\ job.name = result.cmd.name
             /\ f.fn = ReadHolding <=> job.name \in DOMAIN Reads
             /\ Tail(job.todo) # <<>> => job.name = "ReadIdentity"
             /\ job.name # "ReadIdentity" =>
                  /\ job.got = <<>>
                  /\ \E value \in Values(result.cmd) :
                       <<f>> = Requests(result.cmd, value, Unit)
<1>. DEFINE f == Head(job.todo)
            cmd == result.cmd
<1>1. /\ job.todo \in Seq(RequestFrames) \ {<<>>}
      /\ cmd \in HostCommands /\ job.name = cmd.name
  BY DEF TypeInv, FacadeTypeOK, UnderwayInv, Idle
<1>2. f \in RequestFrames /\ Tail(job.todo) \in Seq(RequestFrames)
  <2>. HIDE DEF RequestFrames
  <2>. QED
    BY <1>1
<1>3. WellTyped(cmd)
  BY <1>1, FacadeAssumption
<1>4. PICK value \in Values(cmd) :
        LET all == Requests(cmd, value, Unit)
        IN  \/ job.todo = all /\ job.got = <<>>
            \/ /\ job.name = "ReadIdentity"
               /\ job.todo \in {Tail(all), Tail(Tail(all))}
  BY DEF TypeInv, UnderwayInv
<1>5. ASSUME NEW reg, NEW count PROVE BuildReadHolding(Unit, reg, count).fn = ReadHolding
  BY DEF BuildReadHolding
<1>6. CASE job.name = "ReadIdentity"
  <2>. DEFINE p == BuildReadHolding(Unit, FirmwareVersion, 1)
              q == BuildReadHolding(Unit, SerialNumberStart, SerialNumberCount)
              r == BuildReadHolding(Unit, ModbusAddress, 5)
  <2>1. /\ Requests(cmd, value, Unit) = <<p, q, r>>
        /\ p.fn = ReadHolding /\ q.fn = ReadHolding /\ r.fn = ReadHolding
    BY <1>1, <1>5, <1>6, ReadCommands
  <2>. HIDE DEF p, q, r
  <2>2. f \in {p, q, r}
    BY <1>1, <1>4, <2>1
  <2>. QED
    BY <1>1, <1>2, <1>3, <1>6, <2>1, <2>2, ReadCommands
<1>7. CASE job.name # "ReadIdentity" /\ job.name \in DOMAIN Reads
  <2>1. PICK p : Requests(cmd, value, Unit) = <<p>> /\ p.fn = ReadHolding
    <3>1. \/ Requests(cmd, value, Unit) = <<BuildReadHolding(Unit, SelectedGas, 10)>>
          \/ Requests(cmd, value, Unit) =
               <<BuildReadHolding(Unit, MeasurementSampleCount, 14)>>
      BY <1>1, <1>7, ReadCommands
    <3>2. ASSUME NEW reg, NEW count,
                 Requests(cmd, value, Unit) = <<BuildReadHolding(Unit, reg, count)>>
          PROVE  \E p : Requests(cmd, value, Unit) = <<p>> /\ p.fn = ReadHolding
      BY <1>5, <3>2, Zenon
    <3>. QED
      BY <3>1, <3>2, Zenon
  <2>2. f = p /\ Tail(job.todo) = <<>>
    <3>1. job.todo = <<p>>
      BY <1>4, <1>7, <2>1, Zenon
    <3>. QED
      BY <3>1
  <2>. QED
    BY <1>1, <1>2, <1>3, <1>4, <1>7, <2>1, <2>2
<1>8. CASE job.name \notin DOMAIN Reads
  <2>1. PICK p : Requests(cmd, value, Unit) = <<p>> /\ p.fn # ReadHolding
    <3>1. ASSUME NEW reg, NEW x
          PROVE  /\ BuildWriteSingle(Unit, reg, x).fn # ReadHolding
                 /\ BuildWriteMultiple(Unit, reg, x).fn # ReadHolding
      BY DEF BuildWriteSingle, BuildWriteMultiple, ReadHolding, WriteSingle, WriteMultiple
    <3>2. \/ Requests(cmd, value, Unit) =
               <<BuildWriteMultiple(Unit, PairRegister[cmd.name], <<High(value), Low(value)>>)>>
          \/ Requests(cmd, value, Unit) =
               <<BuildWriteSingle(Unit, SingleRegister(cmd.name), Low(value))>>
      BY <1>1, <1>3, <1>8, WriteCommands
    <3>. QED
      BY <3>1, <3>2, Zenon
  <2>2. job.name # "ReadIdentity"
    BY <1>8, ReadCommands
  <2>3. f = p /\ Tail(job.todo) = <<>>
    <3>1. job.todo = <<p>>
      BY <1>4, <2>1, <2>2, Zenon
    <3>. QED
      BY <3>1
  <2>. QED
    BY <1>1, <1>2, <1>3, <1>4, <1>8, <2>1, <2>2, <2>3
<1>. QED
  BY <1>6, <1>7, <1>8

(* What it reads are registers that the instrument has.                    *)
LEMMA NextRegisters ==
  ASSUME TypeInv, ~Idle, Head(job.todo).fn = ReadHolding
  PROVE  LET f == Head(job.todo)
         IN  /\ f.count \in Nat
             /\ \A i \in 1..f.count : f.reg + i - 1 \in Held \cup DOMAIN Live[1]
<1>. DEFINE f == Head(job.todo)
            Block(reg, count) ==
              \A i \in 1..count : reg + i - 1 \in Held \cup DOMAIN Live[1]
<1>1. job.name = result.cmd.name /\ job.name \in DOMAIN Reads
  BY NextRequest
<1>2. PICK value \in Values(result.cmd) :
        LET all == Requests(result.cmd, value, Unit)
        IN  \/ job.todo = all /\ job.got = <<>>
            \/ /\ job.name = "ReadIdentity"
               /\ job.todo \in {Tail(all), Tail(Tail(all))}
  BY DEF TypeInv, UnderwayInv
<1>3. /\ Block(SelectedGas, 10)
      /\ Block(MeasurementSampleCount, 14)
      /\ Block(FirmwareVersion, 1)
      /\ Block(SerialNumberStart, SerialNumberCount)
      /\ Block(ModbusAddress, 5)
  <2>1. ASSUME NEW name \in DOMAIN Reads, NEW i \in DOMAIN Reads[name],
               NEW reg \in Nat, NEW count \in Nat, Reads[name][i] = <<reg, count>>
        PROVE  Block(reg, count)
    <3>1. reg .. (reg + count - 1) \subseteq Held \cup DOMAIN Live[1]
      BY <2>1, FacadeAssumption DEF Instrument
    <3>. QED
      BY <3>1
  <2>2. Reads["ReadInstantaneous"][1] = <<SelectedGas, 10>>
    BY DEF Reads, LiveBlock
  <2>3. Reads["ReadMeasurement"][1] = <<MeasurementSampleCount, 14>>
    BY DEF Reads, WindowBlock
  <2>4. /\ Reads["ReadIdentity"][1] = <<FirmwareVersion, 1>>
        /\ Reads["ReadIdentity"][2] = <<SerialNumberStart, SerialNumberCount>>
        /\ Reads["ReadIdentity"][3] = <<ModbusAddress, 5>>
    BY DEF Reads, IdentityBlocks
  <2>5. /\ {"ReadInstantaneous", "ReadIdentity", "ReadMeasurement"} = DOMAIN Reads
        /\ 1 \in DOMAIN Reads["ReadInstantaneous"]
        /\ 1 \in DOMAIN Reads["ReadMeasurement"]
        /\ 1 \in DOMAIN Reads["ReadIdentity"]
        /\ 2 \in DOMAIN Reads["ReadIdentity"]
        /\ 3 \in DOMAIN Reads["ReadIdentity"]
    BY DEF Reads, LiveBlock, IdentityBlocks, WindowBlock
  <2>6. /\ SelectedGas \in Nat /\ MeasurementSampleCount \in Nat /\ FirmwareVersion \in Nat
        /\ SerialNumberStart \in Nat /\ SerialNumberCount \in Nat /\ ModbusAddress \in Nat
        /\ 1 \in Nat /\ 5 \in Nat /\ 10 \in Nat /\ 14 \in Nat
    BY SMT DEF SelectedGas, MeasurementSampleCount, FirmwareVersion, SerialNumberStart,
               SerialNumberCount, ModbusAddress
  <2>. HIDE DEF Block
  <2>. QED
    BY <2>1, <2>2, <2>3, <2>4, <2>5, <2>6, Zenon
<1>4. ASSUME NEW reg \in Nat, NEW count \in Nat, f = BuildReadHolding(Unit, reg, count)
      PROVE  f.reg = reg /\ f.count = count
  BY <1>4 DEF BuildReadHolding
<1>5. \E reg, count \in Nat : f = BuildReadHolding(Unit, reg, count) /\ Block(reg, count)
  <2>. HIDE DEF Block
  <2>1. /\ SelectedGas \in Nat /\ MeasurementSampleCount \in Nat /\ FirmwareVersion \in Nat
        /\ SerialNumberStart \in Nat /\ SerialNumberCount \in Nat /\ ModbusAddress \in Nat
        /\ 1 \in Nat /\ 5 \in Nat /\ 10 \in Nat /\ 14 \in Nat
    BY SMT DEF SelectedGas, MeasurementSampleCount, FirmwareVersion, SerialNumberStart,
               SerialNumberCount, ModbusAddress
  <2>2. CASE job.name = "ReadIdentity"
    <3>1. ASSUME NEW p, NEW q, NEW r, Requests(result.cmd, value, Unit) = <<p, q, r>>
          PROVE  f \in {p, q, r}
      BY <1>2, <3>1
    <3>2. Requests(result.cmd, value, Unit) =
            <<BuildReadHolding(Unit, FirmwareVersion, 1),
              BuildReadHolding(Unit, SerialNumberStart, SerialNumberCount),
              BuildReadHolding(Unit, ModbusAddress, 5)>>
      BY <1>1, <2>2, ReadCommands
    <3>3. f \in {BuildReadHolding(Unit, FirmwareVersion, 1),
                 BuildReadHolding(Unit, SerialNumberStart, SerialNumberCount),
                 BuildReadHolding(Unit, ModbusAddress, 5)}
      BY <3>1, <3>2, Zenon
    <3>. QED
      BY <1>3, <2>1, <3>3, Zenon
  <2>3. CASE job.name # "ReadIdentity"
    <3>1. ASSUME NEW p, Requests(result.cmd, value, Unit) = <<p>>
          PROVE  f = p
      BY <1>2, <2>3, <3>1
    <3>2. f \in {BuildReadHolding(Unit, SelectedGas, 10),
                 BuildReadHolding(Unit, MeasurementSampleCount, 14)}
      BY <1>1, <2>3, <3>1, ReadCommands
    <3>. QED
      BY <1>3, <2>1, <3>2, Zenon
  <2>. QED
    BY <2>2, <2>3
<1>. QED
  BY <1>4, <1>5

(* The moments and the commands are counted.                               *)
LEMMA Counts ==
  /\ Len(Live) \in Nat \ {0} /\ MaxCommands \in Nat
  /\ FacadeTypeOK => /\ now \in Nat /\ 1 <= now /\ now <= Len(Live)
                     /\ issued \in Nat /\ issued <= MaxCommands
<1>. DEFINE S == [DOMAIN Live[1] -> Word]
<1>1. Live \in Seq(S) \ {<<>>} /\ MaxCommands \in Nat
  BY FacadeAssumption
<1>2. Len(Live) \in Nat \ {0}
  <2>. HIDE DEF S
  <2>. QED
    BY <1>1
<1>3. ASSUME FacadeTypeOK PROVE now \in 1..Len(Live) /\ issued \in 0..MaxCommands
  BY <1>3 DEF FacadeTypeOK
<1>. QED
  BY <1>1, <1>2, <1>3

(* What a write leaves in the registers are words.                         *)
LEMMA WrittenType ==
  ASSUME FacadeTypeOK, NEW f \in RequestFrames, f.fn # ReadHolding
  PROVE  Written(f) \in [Held -> Word]
<1>1. /\ f.reg \in Nat /\ f.words \in Seq(Word) /\ f.count = Len(f.words)
  BY Zenon DEF RequestFrames, Frame
<1>2. held \in [Held -> Word]
  BY DEF FacadeTypeOK
<1>3. ASSUME NEW r \in Held, r \in f.reg .. (f.reg + f.count - 1)
      PROVE  f.words[r - f.reg + 1] \in Word
  <2>. HIDE DEF Word
  <2>. QED
    BY <1>1, <1>3
<1>. QED
  BY <1>2, <1>3, Zenon DEF Written

LEMMA IssueType ==
  ASSUME TypeInv, NEW cmd \in HostCommands, Issue(cmd)
  PROVE  TypeInv'
<1>1. /\ Idle /\ issued < MaxCommands /\ issued' = issued + 1 /\ held' = held /\ now' = now
      /\ MaxCommands \in Nat /\ WellTyped(cmd) /\ cmd.name \in CommandNames
  BY FacadeAssumption DEF Issue, WellTyped
<1>2. /\ held \in [Held -> Word] /\ now \in 1..Len(Live) /\ issued \in 0..MaxCommands
      /\ job \in [name : CommandNames \cup {""}, todo : Seq(RequestFrames), got : Seq(Word)]
  BY DEF TypeInv, FacadeTypeOK
<1>3. issued' \in 0..MaxCommands
  <2>1. issued \in Nat /\ issued < MaxCommands /\ issued' = issued + 1 /\ MaxCommands \in Nat
    BY <1>1, Counts DEF TypeInv
  <2>. QED
    BY <2>1
<1>4. now \in 1..now
  <2>1. now \in Nat /\ 1 <= now
    BY Counts DEF TypeInv
  <2>. QED
    BY <2>1
<1>5. CASE CommandError(cmd) # "None"
  <2>1. /\ job' = job
        /\ result' = [cmd |-> cmd, error |-> CommandError(cmd), value |-> <<>>,
                      from |-> now, to |-> now]
    BY <1>5 DEF Issue
  <2>2. /\ DOMAIN result' = {"cmd", "error", "value", "from", "to"}
        /\ Len(result'.value) <= 1 /\ result'.from = now
    BY <2>1
  <2>3. FacadeTypeOK'
    BY <1>1, <1>2, <1>3, <2>1, <2>2, Zenon DEF FacadeTypeOK
  <2>4. UnderwayInv'
    <3>1. result'.from \in 1..now'
      BY <1>1, <1>4, <2>2, Zenon
    <3>2. job'.todo = <<>>
      BY <1>1, <2>1 DEF Idle
    <3>. QED
      BY <3>1, <3>2, Zenon DEF UnderwayInv, Idle
  <2>. QED
    BY <2>3, <2>4 DEF TypeInv
<1>6. CASE CommandError(cmd) = "None"
  <2>1. PICK value \in Values(cmd) :
          job' = [name |-> cmd.name, todo |-> Requests(cmd, value, Unit), got |-> <<>>]
    BY <1>6 DEF Issue
  <2>2. result' = [cmd |-> cmd, error |-> "pending", value |-> <<>>, from |-> now, to |-> now]
    BY <1>6 DEF Issue
  <2>3. Requests(cmd, value, Unit) \in Seq(RequestFrames)
    BY <1>1, RequestsType
  <2>4. FacadeTypeOK'
    <3>1. /\ DOMAIN result' = {"cmd", "error", "value", "from", "to"}
          /\ Len(result'.value) <= 1
      BY <2>2
    <3>2. job' \in [name : CommandNames \cup {""}, todo : Seq(RequestFrames), got : Seq(Word)]
      <4>1. <<>> \in Seq(Word)
        OBVIOUS
      <4>. QED
        BY <1>1, <2>1, <2>3, <4>1, Zenon
    <3>. QED
      BY <1>1, <1>2, <1>3, <3>1, <3>2, Zenon DEF FacadeTypeOK
  <2>5. UnderwayInv'
    <3>1. /\ job'.todo = Requests(cmd, value, Unit) /\ job'.got = <<>> /\ job'.name = cmd.name
          /\ result'.cmd = cmd /\ result'.from = now
      BY <2>1, <2>2
    <3>2. result'.from \in 1..now'
      BY <1>1, <1>4, <3>1
    <3>. QED
      BY <1>6, <3>1, <3>2 DEF UnderwayInv
  <2>. QED
    BY <2>4, <2>5 DEF TypeInv
<1>. QED
  BY <1>5, <1>6

(* A command that returns leaves nothing under way.                        *)
LEMMA ReturnsType ==
  ASSUME TypeInv, NEW error, NEW value, Returns(error, value), Len(value) <= 1,
         held' \in [Held -> Word], now' = now, issued' = issued
  PROVE  TypeInv'
<1>1. /\ now \in 1..Len(Live) /\ issued \in 0..MaxCommands
      /\ DOMAIN result = {"cmd", "error", "value", "from", "to"}
      /\ result.from \in 1..now
  BY DEF TypeInv, FacadeTypeOK, UnderwayInv
<1>2. /\ DOMAIN result' = {"cmd", "error", "value", "from", "to"}
      /\ result'.value = value /\ result'.from = result.from
  BY <1>1 DEF Returns
<1>3. /\ job' \in [name : CommandNames \cup {""}, todo : Seq(RequestFrames), got : Seq(Word)]
      /\ job'.todo = <<>>
  <2>. HIDE DEF RequestFrames, Word
  <2>1. <<>> \in Seq(RequestFrames) /\ <<>> \in Seq(Word)
    OBVIOUS
  <2>. QED
    BY <2>1 DEF Returns, NoJob
<1>4. FacadeTypeOK'
  BY <1>1, <1>2, <1>3 DEF FacadeTypeOK
<1>5. UnderwayInv'
  BY <1>1, <1>2, <1>3 DEF UnderwayInv, Idle
<1>. QED
  BY <1>4, <1>5 DEF TypeInv

LEMMA SucceedType ==
  ASSUME TypeInv, Succeed
  PROVE  TypeInv'
<1>. DEFINE f == Head(job.todo)
            data == [i \in 1..f.count |-> Content(f.reg + i - 1)]
            got == IF f.fn = ReadHolding THEN job.got \o data ELSE job.got
            value == IF f.fn = ReadHolding THEN <<Decode(job.name, got)>> ELSE <<>>
<1>1. /\ ~Idle /\ now' = now /\ issued' = issued
      /\ held' = IF f.fn = ReadHolding THEN held ELSE Written(f)
      /\ Tail(job.todo) = <<>> => Returns("None", value)
      /\ Tail(job.todo) # <<>> =>
           /\ job' = [job EXCEPT !.todo = Tail(job.todo), !.got = got]
           /\ result' = result
  BY DEF Succeed
<1>2. /\ f \in RequestFrames /\ Tail(job.todo) \in Seq(RequestFrames)
      /\ f.fn = ReadHolding <=> job.name \in DOMAIN Reads
      /\ Tail(job.todo) # <<>> => job.name = "ReadIdentity"
  BY <1>1, NextRequest
<1>3. /\ held \in [Held -> Word] /\ now \in 1..Len(Live) /\ issued \in 0..MaxCommands
      /\ job \in [name : CommandNames \cup {""}, todo : Seq(RequestFrames), got : Seq(Word)]
      /\ DOMAIN result = {"cmd", "error", "value", "from", "to"} /\ Len(result.value) <= 1
      /\ FacadeTypeOK
  BY DEF TypeInv, FacadeTypeOK
<1>4. held' \in [Held -> Word]
  BY <1>1, <1>2, <1>3, WrittenType
<1>5. CASE Tail(job.todo) = <<>>
  <2>1. Len(value) <= 1
    OBVIOUS
  <2>. HIDE DEF value
  <2>. QED
    BY <1>1, <1>4, <1>5, <2>1, ReturnsType
<1>6. CASE Tail(job.todo) # <<>>
  <2>1. job.name = "ReadIdentity" /\ f.fn = ReadHolding /\ got = job.got \o data
    BY <1>2, <1>6, ReadCommands
  <2>2. got \in Seq(Word)
    <3>1. /\ f.count \in Nat
          /\ \A i \in 1..f.count : Content(f.reg + i - 1) \in Word
      BY <1>1, <1>3, <2>1, NextRegisters, ContentType
    <3>2. data \in Seq(Word)
      <4>. HIDE DEF Word
      <4>. QED
        BY <3>1
    <3>3. job.got \in Seq(Word)
      BY <1>3, Zenon
    <3>. HIDE DEF data, Word
    <3>. QED
      BY <2>1, <3>2, <3>3
  <2>. HIDE DEF got
  <2>3. /\ job' \in [name : CommandNames \cup {""}, todo : Seq(RequestFrames), got : Seq(Word)]
        /\ job'.todo = Tail(job.todo) /\ job'.name = job.name
    <3>. DEFINE T == Seq(RequestFrames)
                W == Seq(Word)
    <3>. HIDE DEF T, W, f
    <3>. QED
      BY <1>1, <1>2, <1>3, <1>6, <2>2
  <2>4. FacadeTypeOK'
    BY <1>1, <1>3, <1>4, <1>6, <2>3 DEF FacadeTypeOK
  <2>5. UnderwayInv'
    <3>1. PICK v \in Values(result.cmd) :
            LET all == Requests(result.cmd, v, Unit)
            IN  job.todo = all \/ job.todo \in {Tail(all), Tail(Tail(all))}
      BY <1>1 DEF TypeInv, UnderwayInv
    <3>2. /\ result.cmd \in HostCommands /\ job.name = result.cmd.name
          /\ CommandError(result.cmd) = "None" /\ result.from \in 1..now
      BY <1>1 DEF TypeInv, UnderwayInv
    <3>3. PICK p, q, r : Requests(result.cmd, v, Unit) = <<p, q, r>>
      BY <2>1, <3>2, ReadCommands
    <3>4. Tail(job.todo) \in {<<q, r>>, <<r>>}
      <4>1. /\ Tail(<<p, q, r>>) = <<q, r>> /\ Tail(<<q, r>>) = <<r>>
            /\ Tail(<<r>>) = <<>>
        OBVIOUS
      <4>2. job.todo = <<p, q, r>> \/ job.todo = <<q, r>> \/ job.todo = <<r>>
        BY <3>1, <3>3, <4>1, Zenon
      <4>. QED
        BY <1>6, <4>1, <4>2, Zenon
    <3>5. Tail(Requests(result.cmd, v, Unit)) = <<q, r>>
          /\ Tail(Tail(Requests(result.cmd, v, Unit))) = <<r>>
      BY <3>3
    <3>. QED
      BY <1>1, <1>6, <2>1, <2>3, <3>2, <3>4, <3>5, Zenon DEF UnderwayInv
  <2>. QED
    BY <2>4, <2>5 DEF TypeInv
<1>. QED
  BY <1>5, <1>6

LEMMA NextType ==
  ASSUME TypeInv, [Next]_vars
  PROVE  TypeInv'
<1>1. CASE Fail
  <2>. DEFINE f == Head(job.todo)
  <2>1. /\ ~Idle /\ now' = now /\ issued' = issued /\ Returns("Timeout", <<>>)
        /\ held' = held \/ (f.fn # ReadHolding /\ held' = Written(f))
    BY <1>1 DEF Fail
  <2>2. held' \in [Held -> Word]
    BY <2>1, NextRequest, WrittenType DEF TypeInv, FacadeTypeOK
  <2>. QED
    BY <2>1, <2>2, ReturnsType
<1>2. CASE Measure
  <2>1. /\ held' = held /\ job' = job /\ result' = result /\ issued' = issued
        /\ now' = now + 1 /\ now < Len(Live)
    BY <1>2 DEF Measure
  <2>2. now' \in 1..Len(Live) /\ now < now' /\ now' \in Nat /\ now \in Nat
    BY <2>1, Counts DEF TypeInv
  <2>3. FacadeTypeOK'
    BY <2>1, <2>2 DEF TypeInv, FacadeTypeOK
  <2>4. result'.from \in 1..now'
    <3>1. result.from \in 1..now
      BY DEF TypeInv, UnderwayInv
    <3>. QED
      BY <2>1, <2>2, <3>1
  <2>5. UnderwayInv'
    BY <2>1, <2>4 DEF TypeInv, UnderwayInv, Idle
  <2>. QED
    BY <2>3, <2>5 DEF TypeInv
<1>3. CASE UNCHANGED vars
  BY <1>3 DEF vars, TypeInv, FacadeTypeOK, UnderwayInv, Idle
<1>. QED
  BY <1>1, <1>2, <1>3, IssueType, SucceedType DEF Next

LEMMA InitType == Init => TypeInv
<1>. SUFFICES ASSUME Init PROVE TypeInv
  OBVIOUS
<1>1. held = Power /\ now = 1 /\ issued = 0 /\ job = NoJob
  BY DEF Init
<1>2. /\ DOMAIN result = {"cmd", "error", "value", "from", "to"}
      /\ Len(result.value) <= 1 /\ result.from = 1
  <2>1. PICK cmd : result = [cmd |-> cmd, error |-> "None", value |-> <<>>, from |-> 1, to |-> 1]
    BY DEF Init
  <2>. QED
    BY <2>1
<1>3. /\ job \in [name : CommandNames \cup {""}, todo : Seq(RequestFrames), got : Seq(Word)]
      /\ job.todo = <<>>
  <2>. HIDE DEF RequestFrames, Word
  <2>1. <<>> \in Seq(RequestFrames) /\ <<>> \in Seq(Word)
    OBVIOUS
  <2>. QED
    BY <1>1, <2>1 DEF NoJob
<1>4. now \in 1..Len(Live) /\ issued \in 0..MaxCommands /\ result.from \in 1..now
  BY <1>1, <1>2, Counts
<1>5. Power \in [Held -> Word]
  BY FacadeAssumption
<1>6. FacadeTypeOK
  BY <1>1, <1>2, <1>3, <1>4, <1>5, Zenon DEF FacadeTypeOK
<1>. QED
  BY <1>3, <1>4, <1>6, Zenon DEF TypeInv, UnderwayInv, Idle

LEMMA TypeInvHolds == Spec => []TypeInv
<1>. QED
  BY InitType, NextType, PTL DEF Spec

(* The registers keep words, and a command in progress is what is left of  *)
(* its requests and words read so far.                                     *)
THEOREM FacadeTypeCorrect == Spec => []FacadeTypeOK
<1>1. TypeInv => FacadeTypeOK
  BY DEF TypeInv
<1>. QED
  BY <1>1, TypeInvHolds, PTL

-----------------------------------------------------------------------------
(* Answers.                                                                *)

(* An answer stays what it was while the registers that are written to do  *)
(* not change, or it is the one just completed by its last request.        *)
LEMMA AnsweredStep ==
  ASSUME TypeInv, [Next]_vars, NEW name, Answered(name)'
  PROVE  \/ Answered(name) /\ held' = held /\ result' = result
         \/ Succeed /\ ~Idle /\ Tail(job.todo) = <<>> /\ job.name = name
<1>1. /\ job'.todo = <<>> /\ result'.cmd.name = name /\ result'.error = "None"
  BY DEF Answered, Idle
<1>2. ASSUME NEW cmd \in HostCommands, Issue(cmd) PROVE FALSE
  <2>1. CASE CommandError(cmd) # "None"
    <3>1. result' = [cmd |-> cmd, error |-> CommandError(cmd), value |-> <<>>,
                     from |-> now, to |-> now]
      BY <1>2, <2>1 DEF Issue
    <3>. QED
      BY <1>1, <2>1, <3>1
  <2>2. CASE CommandError(cmd) = "None"
    <3>1. result' = [cmd |-> cmd, error |-> "pending", value |-> <<>>, from |-> now, to |-> now]
      BY <1>2, <2>2 DEF Issue
    <3>. QED
      BY <1>1, <3>1
  <2>. QED
    BY <2>1, <2>2
<1>3. DOMAIN result = {"cmd", "error", "value", "from", "to"}
      /\ job \in [name : CommandNames \cup {""}, todo : Seq(RequestFrames), got : Seq(Word)]
  BY DEF TypeInv, FacadeTypeOK
<1>4. CASE Succeed
  <2>1. ~Idle
    BY <1>4 DEF Succeed
  <2>2. Tail(job.todo) = <<>>
    <3>1. SUFFICES ASSUME Tail(job.todo) # <<>> PROVE FALSE
      OBVIOUS
    <3>2. PICK got : job' = [job EXCEPT !.todo = Tail(job.todo), !.got = got]
      BY <1>4, <3>1 DEF Succeed
    <3>3. job'.todo = Tail(job.todo)
      <4>. DEFINE T == Seq(RequestFrames)
                  W == Seq(Word)
      <4>. HIDE DEF T, W
      <4>. QED
        BY <1>3, <3>2
    <3>. QED
      BY <1>1, <3>1, <3>3
  <2>3. result'.cmd = result.cmd
    <3>1. PICK value : Returns("None", value)
      BY <1>4, <2>2, Zenon DEF Succeed
    <3>. QED
      BY <1>3, <3>1 DEF Returns
  <2>4. job.name = result.cmd.name
    BY <2>1 DEF TypeInv, UnderwayInv
  <2>. QED
    BY <1>1, <1>4, <2>1, <2>2, <2>3, <2>4
<1>5. CASE Fail
  <2>1. result' = [result EXCEPT !.error = "Timeout", !.value = <<>>, !.to = now]
    BY <1>5 DEF Fail, Returns
  <2>. QED
    BY <1>1, <1>3, <2>1
<1>6. CASE Measure \/ UNCHANGED vars
  BY <1>6 DEF Measure, vars, Answered, Idle
<1>. QED
  BY <1>2, <1>4, <1>5, <1>6 DEF Next

(* What the last request of a command returns, and the registers after it. *)
LEMMA LastSucceeds ==
  ASSUME TypeInv, Succeed, Tail(job.todo) = <<>>
  PROVE  LET f == Head(job.todo)
             data == [i \in 1..f.count |-> At(now, f.reg + i - 1)]
         IN  /\ result'.cmd = result.cmd /\ job.name = result.cmd.name
             /\ now \in result'.from .. result'.to
             /\ f.fn = ReadHolding =>
                  /\ held' = held
                  /\ result'.value = <<Decode(job.name, job.got \o data)>>
                  /\ f.count \in Nat
                  /\ \A i \in 1..f.count : data[i] \in Word
             /\ f.fn # ReadHolding => held' = Written(f)
<1>. DEFINE f == Head(job.todo)
            data == [i \in 1..f.count |-> At(now, f.reg + i - 1)]
            content == [i \in 1..f.count |-> Content(f.reg + i - 1)]
            got == IF f.fn = ReadHolding THEN job.got \o content ELSE job.got
            value == IF f.fn = ReadHolding THEN <<Decode(job.name, got)>> ELSE <<>>
<1>1. /\ ~Idle /\ Returns("None", value)
      /\ held' = IF f.fn = ReadHolding THEN held ELSE Written(f)
  BY DEF Succeed
<1>2. /\ DOMAIN result = {"cmd", "error", "value", "from", "to"} /\ result.from \in 1..now
      /\ job.name = result.cmd.name
  BY <1>1 DEF TypeInv, FacadeTypeOK, UnderwayInv
<1>3. /\ result'.cmd = result.cmd /\ result'.value = value
      /\ result'.from = result.from /\ result'.to = now
  <2>. HIDE DEF value
  <2>. QED
    BY <1>1, <1>2 DEF Returns
<1>4. now \in result'.from .. result'.to
  BY <1>2, <1>3, Counts DEF TypeInv
<1>5. CASE f.fn = ReadHolding
  <2>1. /\ f.count \in Nat
        /\ \A i \in 1..f.count : f.reg + i - 1 \in Held \cup DOMAIN Live[1]
    BY <1>1, <1>5, NextRegisters
  <2>2. \A i \in 1..f.count : /\ Content(f.reg + i - 1) = At(now, f.reg + i - 1)
                             /\ Content(f.reg + i - 1) \in Word
    BY <2>1, ContentType DEF TypeInv
  <2>3. content = data /\ \A i \in 1..f.count : data[i] \in Word
    BY <2>2, Zenon
  <2>4. result'.value = <<Decode(job.name, job.got \o content)>>
    BY <1>3, <1>5
  <2>. QED
    BY <1>1, <1>2, <1>3, <1>4, <1>5, <2>1, <2>3, <2>4, Zenon
<1>6. CASE f.fn # ReadHolding
  BY <1>1, <1>2, <1>3, <1>4, <1>6
<1>. QED
  BY <1>5, <1>6

(* Of a command that makes one read, it is the decoded block, all of it as *)
(* it is now.                                                              *)
LEMMA BlockRead ==
  ASSUME TypeInv, Succeed, Tail(job.todo) = <<>>,
         NEW reg \in Nat, NEW count \in Nat, job.name \in DOMAIN Reads,
         job.name # "ReadIdentity",
         \A value : Requests(result.cmd, value, Unit) = <<BuildReadHolding(Unit, reg, count)>>
  PROVE  \E r \in [1..count -> Word] :
           /\ \A i \in 1..count : r[i] = At(now, reg + i - 1)
           /\ result'.value = <<Decode(job.name, r)>>
           /\ held' = held
<1>. DEFINE f == Head(job.todo)
            data == [i \in 1..f.count |-> At(now, f.reg + i - 1)]
<1>1. ~Idle
  BY DEF Succeed
<1>2. job.got = <<>> /\ f.fn = ReadHolding /\ f = BuildReadHolding(Unit, reg, count)
  BY <1>1, NextRequest
<1>3. f.reg = reg /\ f.count = count
  BY <1>2 DEF BuildReadHolding
<1>4. /\ held' = held
      /\ result'.value = <<Decode(job.name, job.got \o data)>>
      /\ \A i \in 1..f.count : data[i] \in Word
  BY <1>2, LastSucceeds
<1>5. data \in [1..count -> Word] /\ \A i \in 1..count : data[i] = At(now, reg + i - 1)
  BY <1>3, <1>4, Zenon
<1>6. <<>> \o data = data
  <2>. HIDE DEF data, Word
  <2>. QED
    BY <1>5
<1>7. result'.value = <<Decode(job.name, data)>>
  BY <1>2, <1>4, <1>6, Zenon
<1>. QED
  BY <1>4, <1>5, <1>7, Zenon

(* Decoded, the block of ten registers is a snapshot.                      *)
LEMMA SnapshotDecoded ==
  ASSUME NEW t, NEW r \in [1..10 -> Word],
         \A i \in 1..10 : r[i] = At(t, SelectedGas + i - 1)
  PROVE  SnapshotAt(InstantaneousData(r), t)
<1>. DEFINE v == InstantaneousData(r)
<1>1. /\ r[1] = At(t, SelectedGas)           /\ r[2] = At(t, StatusBitfield)
      /\ r[3] = At(t, TemperatureCenticC)    /\ r[4] = At(t, Flow)
      /\ r[5] = At(t, TotalVolumeStart)      /\ r[6] = At(t, TotalVolumeStart + 1)
      /\ r[7] = At(t, SetpointReadback)      /\ r[8] = At(t, ValveDriveCenti)
      /\ r[9] = At(t, BatchRemainingStart)   /\ r[10] = At(t, BatchRemainingStart + 1)
  <2>1. /\ SelectedGas + 1 - 1 = SelectedGas        /\ SelectedGas + 2 - 1 = StatusBitfield
        /\ SelectedGas + 3 - 1 = TemperatureCenticC /\ SelectedGas + 4 - 1 = Flow
        /\ SelectedGas + 5 - 1 = TotalVolumeStart
        /\ SelectedGas + 6 - 1 = TotalVolumeStart + 1
        /\ SelectedGas + 7 - 1 = SetpointReadback   /\ SelectedGas + 8 - 1 = ValveDriveCenti
        /\ SelectedGas + 9 - 1 = BatchRemainingStart
        /\ SelectedGas + 10 - 1 = BatchRemainingStart + 1
    BY SMT DEF SelectedGas, StatusBitfield, TemperatureCenticC, Flow, TotalVolumeStart,
               SetpointReadback, ValveDriveCenti, BatchRemainingStart
  <2>2. /\ 1 \in 1..10 /\ 2 \in 1..10 /\ 3 \in 1..10 /\ 4 \in 1..10 /\ 5 \in 1..10
        /\ 6 \in 1..10 /\ 7 \in 1..10 /\ 8 \in 1..10 /\ 9 \in 1..10 /\ 10 \in 1..10
    OBVIOUS
  <2>. QED
    BY <2>1, <2>2, Zenon
<1>2. /\ r[1] \in Word /\ r[2] \in Word /\ r[3] \in Word /\ r[4] \in Word /\ r[5] \in Word
      /\ r[6] \in Word /\ r[7] \in Word /\ r[8] \in Word /\ r[9] \in Word /\ r[10] \in Word
  <2>. HIDE DEF Word
  <2>. QED
    OBVIOUS
<1>3. /\ v.gas = r[1] % 256
      /\ v.flow = Signed(r[4]) /\ v.temperature = Signed(r[3])
      /\ v.setpoint = Signed(r[7]) /\ v.raw_setpoint_2053_2054 = v.setpoint
      /\ v.valve_drive = Signed(r[8])
      /\ v.total_volume = Join(r[5], r[6]) /\ v.batch_remaining = Join(r[9], r[10])
  BY DEF InstantaneousData, LowByte
<1>4. /\ v.mass_flow_overrange = IsSet(r[2], 0)
      /\ v.temperature_overrange = IsSet(r[2], 1)
      /\ v.totalizer_overrange = IsSet(r[2], 2)
      /\ v.valve_held = IsSet(r[2], 3)
      /\ v.valve_thermal_management = IsSet(r[2], 4)
  BY Zenon DEF InstantaneousData
<1>5. /\ Signed(r[4]) \in Int16 /\ Low(Signed(r[4])) = r[4]
      /\ Signed(r[3]) \in Int16 /\ Low(Signed(r[3])) = r[3]
      /\ Signed(r[7]) \in Int16 /\ Low(Signed(r[7])) = r[7]
      /\ Signed(r[8]) \in Int16 /\ Low(Signed(r[8])) = r[8]
  BY <1>2, SignedWord, Zenon
<1>6. /\ High(Join(r[5], r[6])) = r[5]  /\ Low(Join(r[5], r[6])) = r[6]
      /\ High(Join(r[9], r[10])) = r[9] /\ Low(Join(r[9], r[10])) = r[10]
  BY <1>2, JoinHalves, Zenon
<1>7. At(t, StatusBitfield) % 32 = StatusBits(v)
  <2>1. StatusBits(v) = (IF IsSet(r[2], 0) THEN 1 ELSE 0) + (IF IsSet(r[2], 1) THEN 2 ELSE 0)
                          + (IF IsSet(r[2], 2) THEN 4 ELSE 0)
                          + (IF IsSet(r[2], 3) THEN 8 ELSE 0)
                          + (IF IsSet(r[2], 4) THEN 16 ELSE 0)
    BY <1>4, Zenon DEF StatusBits
  <2>. QED
    <3>1. r[2] % 32 = (IF IsSet(r[2], 0) THEN 1 ELSE 0) + (IF IsSet(r[2], 1) THEN 2 ELSE 0)
                        + (IF IsSet(r[2], 2) THEN 4 ELSE 0)
                        + (IF IsSet(r[2], 3) THEN 8 ELSE 0)
                        + (IF IsSet(r[2], 4) THEN 16 ELSE 0)
      BY <1>2, Bits, Zenon
    <3>. HIDE DEF v
    <3>. QED
      BY <1>1, <2>1, <3>1, Zenon
<1>. HIDE DEF v
<1>8. SnapshotAt(v, t)
  BY <1>1, <1>3, <1>5, <1>6, <1>7, Zenon DEF SnapshotAt
<1>. QED
  BY <1>8 DEF v

LEMMA SnapshotNext ==
  ASSUME TypeInv, InstantaneousIsSnapshot, [Next]_vars
  PROVE  InstantaneousIsSnapshot'
<1>. SUFFICES ASSUME Answered("ReadInstantaneous")'
              PROVE  (\E t \in result.from .. result.to : SnapshotAt(result.value[1], t))'
  BY DEF InstantaneousIsSnapshot
<1>1. CASE Answered("ReadInstantaneous") /\ held' = held /\ result' = result
  <2>1. PICK t \in result.from .. result.to : SnapshotAt(result.value[1], t)
    BY <1>1 DEF InstantaneousIsSnapshot
  <2>2. SnapshotAt(result.value[1], t)'
    BY <1>1, <2>1, ZenonT(60) DEF SnapshotAt, At
  <2>. QED
    BY <1>1, <2>1, <2>2
<1>2. CASE Succeed /\ ~Idle /\ Tail(job.todo) = <<>> /\ job.name = "ReadInstantaneous"
  <2>1. /\ result'.cmd = result.cmd /\ job.name = result.cmd.name
        /\ now \in result'.from .. result'.to
    BY <1>2, LastSucceeds
  <2>2. PICK r \in [1..10 -> Word] :
          /\ \A i \in 1..10 : r[i] = At(now, SelectedGas + i - 1)
          /\ result'.value = <<Decode(job.name, r)>>
          /\ held' = held
    <3>1. /\ job.name \in DOMAIN Reads
          /\ \A value : Requests(result.cmd, value, Unit)
                          = <<BuildReadHolding(Unit, SelectedGas, 10)>>
      BY <1>2, <2>1, ReadCommands
    <3>2. SelectedGas \in Nat /\ 10 \in Nat
      BY SMT DEF SelectedGas
    <3>. QED
      BY <1>2, <3>1, <3>2, BlockRead
  <2>3. SnapshotAt(InstantaneousData(r), now)
    BY <2>2, SnapshotDecoded, Zenon
  <2>4. result'.value[1] = InstantaneousData(r)
    BY <1>2, <2>2 DEF Decode
  <2>5. (\E t \in result.from .. result.to : SnapshotAt(result.value[1], t))'
    <3>1. PICK t : t = now
      OBVIOUS
    <3>2. SnapshotAt(result.value[1], t)'
      <4>1. PICK v : v = InstantaneousData(r)
        OBVIOUS
      <4>2. SnapshotAt(v, t) /\ held' = held
        BY <2>2, <2>3, <3>1, <4>1, Zenon
      <4>3. SnapshotAt(v, t)'
        BY <4>2, ZenonT(60) DEF SnapshotAt, At
      <4>. QED
        BY <2>4, <4>1, <4>3, SMT DEF SnapshotAt, At, StatusBits
    <3>. QED
      BY <2>1, <3>1, <3>2
  <2>. QED
    BY <2>5
<1>. QED
  BY <1>1, <1>2, AnsweredStep

(* What ReadInstantaneous reports is a snapshot, at one moment of the call,*)
(* of the ten registers of its block.                                      *)
THEOREM InstantaneousIsSnapshotHolds == Spec => []InstantaneousIsSnapshot
<1>1. Init => InstantaneousIsSnapshot
  <2>1. ASSUME Init PROVE ~Answered("ReadInstantaneous")
    BY <2>1 DEF Init, Answered
  <2>. QED
    BY <2>1 DEF InstantaneousIsSnapshot
<1>. QED
  BY <1>1, TypeInvHolds, SnapshotNext, PTL DEF Spec

(* Decoded, the block of fourteen registers is the window just measured,   *)
(* and a previous average of its last two.                                 *)
LEMMA WindowDecoded ==
  ASSUME NEW t, BlockAt(t) \in [1..14 -> Word]
  PROVE  /\ WindowAt(MeasurementData(BlockAt(t)), t)
         /\ High(MeasurementData(BlockAt(t)).prev_avg_flow) = At(t, MeasurementPrevAvgFlowLow - 1)
         /\ Low(MeasurementData(BlockAt(t)).prev_avg_flow) = At(t, MeasurementPrevAvgFlowLow)
<1>. DEFINE r == BlockAt(t)
            v == MeasurementData(r)
<1>1. /\ r[1] = At(t, MeasurementSampleCount)
      /\ r[2] = At(t, MeasurementMinTemp) /\ r[3] = At(t, MeasurementMaxTemp)
      /\ r[4] = At(t, MeasurementMinFlow) /\ r[5] = At(t, MeasurementMaxFlow)
      /\ r[7] = At(t, MeasurementAvgTemp) /\ r[8] = At(t, MeasurementAvgFlow)
      /\ r[13] = At(t, MeasurementPrevAvgFlowLow - 1)
      /\ r[14] = At(t, MeasurementPrevAvgFlowLow)
  <2>1. /\ MeasurementSampleCount + 1 - 1 = MeasurementSampleCount
        /\ MeasurementSampleCount + 2 - 1 = MeasurementMinTemp
        /\ MeasurementSampleCount + 3 - 1 = MeasurementMaxTemp
        /\ MeasurementSampleCount + 4 - 1 = MeasurementMinFlow
        /\ MeasurementSampleCount + 5 - 1 = MeasurementMaxFlow
        /\ MeasurementSampleCount + 7 - 1 = MeasurementAvgTemp
        /\ MeasurementSampleCount + 8 - 1 = MeasurementAvgFlow
        /\ MeasurementSampleCount + 13 - 1 = MeasurementPrevAvgFlowLow - 1
        /\ MeasurementSampleCount + 14 - 1 = MeasurementPrevAvgFlowLow
    BY SMT DEF MeasurementSampleCount, MeasurementMinTemp, MeasurementMaxTemp,
               MeasurementMinFlow, MeasurementMaxFlow, MeasurementAvgTemp, MeasurementAvgFlow,
               MeasurementPrevAvgFlowLow
  <2>2. /\ 1 \in 1..14 /\ 2 \in 1..14 /\ 3 \in 1..14 /\ 4 \in 1..14 /\ 5 \in 1..14
        /\ 7 \in 1..14 /\ 8 \in 1..14 /\ 13 \in 1..14 /\ 14 \in 1..14
    OBVIOUS
  <2>3. \A i \in 1..14 : r[i] = At(t, MeasurementSampleCount + i - 1)
    BY Zenon DEF BlockAt
  <2>. HIDE DEF r
  <2>. QED
    BY <2>1, <2>2, <2>3, Zenon
<1>2. /\ r[2] \in Word /\ r[3] \in Word /\ r[4] \in Word /\ r[5] \in Word /\ r[7] \in Word
      /\ r[8] \in Word /\ r[13] \in Word /\ r[14] \in Word
  <2>. HIDE DEF Word, r
  <2>1. r \in [1..14 -> Word]
    BY DEF r
  <2>. QED
    BY <2>1
<1>3. /\ v.num_samples_collected = r[1]
      /\ v.min_temperature = Signed(r[2]) /\ v.max_temperature = Signed(r[3])
      /\ v.min_flow = Signed(r[4])        /\ v.max_flow = Signed(r[5])
      /\ v.avg_temperature = Signed(r[7]) /\ v.avg_flow = Signed(r[8])
      /\ v.prev_avg_flow = Join(r[13], r[14])
  <2>. HIDE DEF r
  <2>. QED
    BY DEF MeasurementData, Averages
<1>4. /\ Low(Signed(r[2])) = r[2] /\ Low(Signed(r[3])) = r[3] /\ Low(Signed(r[4])) = r[4]
      /\ Low(Signed(r[5])) = r[5] /\ Low(Signed(r[7])) = r[7] /\ Low(Signed(r[8])) = r[8]
  BY <1>2, SignedWord, Zenon
<1>5. High(Join(r[13], r[14])) = r[13] /\ Low(Join(r[13], r[14])) = r[14]
  BY <1>2, JoinHalves, Zenon
<1>. HIDE DEF v
<1>6. WindowAt(v, t)
  BY <1>1, <1>3, <1>4, Zenon DEF WindowAt
<1>7. /\ High(v.prev_avg_flow) = At(t, MeasurementPrevAvgFlowLow - 1)
      /\ Low(v.prev_avg_flow) = At(t, MeasurementPrevAvgFlowLow)
  BY <1>1, <1>3, <1>5, Zenon
<1>. QED
  BY <1>6, <1>7 DEF v

LEMMA DecodedNext ==
  ASSUME TypeInv, MeasurementDecoded, [Next]_vars
  PROVE  MeasurementDecoded'
<1>. SUFFICES ASSUME Answered("ReadMeasurement")'
              PROVE  (\E t \in result.from .. result.to :
                        /\ BlockAt(t) \in [1..14 -> Word]
                        /\ result.value[1] = MeasurementData(BlockAt(t)))'
  BY DEF MeasurementDecoded
<1>1. CASE Answered("ReadMeasurement") /\ held' = held /\ result' = result
  <2>1. PICK t \in result.from .. result.to :
          /\ BlockAt(t) \in [1..14 -> Word]
          /\ result.value[1] = MeasurementData(BlockAt(t))
    BY <1>1 DEF MeasurementDecoded
  <2>2. BlockAt(t)' = BlockAt(t)
    BY <1>1, Zenon DEF BlockAt, At
  <2>. QED
    BY <1>1, <2>1, <2>2
<1>2. CASE Succeed /\ ~Idle /\ Tail(job.todo) = <<>> /\ job.name = "ReadMeasurement"
  <2>1. /\ result'.cmd = result.cmd /\ job.name = result.cmd.name
        /\ now \in result'.from .. result'.to
    BY <1>2, LastSucceeds
  <2>2. PICK r \in [1..14 -> Word] :
          /\ \A i \in 1..14 : r[i] = At(now, MeasurementSampleCount + i - 1)
          /\ result'.value = <<Decode(job.name, r)>>
          /\ held' = held
    <3>1. /\ job.name \in DOMAIN Reads
          /\ \A value : Requests(result.cmd, value, Unit)
                          = <<BuildReadHolding(Unit, MeasurementSampleCount, 14)>>
      BY <1>2, <2>1, ReadCommands
    <3>2. MeasurementSampleCount \in Nat /\ 14 \in Nat
      BY SMT DEF MeasurementSampleCount
    <3>. QED
      BY <1>2, <3>1, <3>2, BlockRead
  <2>3. BlockAt(now) = r
    <3>. HIDE DEF Word
    <3>. QED
      BY <2>2, Zenon DEF BlockAt
  <2>4. result'.value[1] = MeasurementData(r)
    BY <1>2, <2>2 DEF Decode
  <2>5. PICK t : t = now
    OBVIOUS
  <2>6. BlockAt(t)' = r
    BY <2>2, <2>3, <2>5, Zenon DEF BlockAt, At
  <2>7. MeasurementData(BlockAt(t))' = MeasurementData(r)
    BY <2>6 DEF MeasurementData
  <2>. QED
    BY <2>1, <2>2, <2>4, <2>5, <2>6, <2>7, Zenon
<1>. QED
  BY <1>1, <1>2, AnsweredStep

(* What ReadMeasurement reports is a block as the instrument had it.       *)
LEMMA MeasurementDecodedHolds == Spec => []MeasurementDecoded
<1>1. Init => MeasurementDecoded
  <2>1. ASSUME Init PROVE ~Answered("ReadMeasurement")
    BY <2>1 DEF Init, Answered
  <2>. QED
    BY <2>1 DEF MeasurementDecoded
<1>. QED
  BY <1>1, TypeInvHolds, DecodedNext, PTL DEF Spec

(* What ReadMeasurement reports is what the registers of the statistics    *)
(* held at one moment of the call, each in its field.                      *)
THEOREM MeasurementIsWindowHolds == Spec => []MeasurementIsWindow
<1>1. MeasurementDecoded => MeasurementIsWindow
  BY WindowDecoded, Zenon DEF MeasurementDecoded, MeasurementIsWindow
<1>. QED
  BY <1>1, MeasurementDecodedHolds, PTL

(* The average flow of the previous window is never made of the two        *)
(* registers it is in: on every success its high half is the register      *)
(* before them.                                                            *)
THEOREM PrevAvgFlowIsEarlyHolds == Spec => []PrevAvgFlowIsEarly
<1>1. MeasurementDecoded => PrevAvgFlowIsEarly
  BY WindowDecoded, Zenon DEF MeasurementDecoded, PrevAvgFlowIsEarly
<1>. QED
  BY <1>1, MeasurementDecodedHolds, PTL

-----------------------------------------------------------------------------
(* Settings.                                                               *)

(* What a write leaves in a register: the value it was for that register,  *)
(* or what was there.                                                      *)
LEMMA WrittenSingle ==
  ASSUME NEW reg \in Nat, NEW word, NEW r \in Held
  PROVE  Written(BuildWriteSingle(Unit, reg, word))[r] = IF r = reg THEN word ELSE held[r]
<1>. DEFINE f == BuildWriteSingle(Unit, reg, word)
<1>1. f.reg = reg /\ f.count = 1 /\ f.words = <<word>>
  BY DEF BuildWriteSingle
<1>2. Written(f)[r] = IF r \in reg .. (reg + 1 - 1) THEN f.words[r - reg + 1] ELSE held[r]
  BY <1>1 DEF Written
<1>3. r \in reg .. (reg + 1 - 1) <=> r = reg
  <2>1. r \in Nat
    BY FacadeAssumption
  <2>. QED
    BY <2>1
<1>4. f.words[reg - reg + 1] = word
  BY <1>1
<1>. HIDE DEF f
<1>5. Written(f)[r] = IF r = reg THEN word ELSE held[r]
  BY <1>2, <1>3, <1>4
<1>. QED
  BY <1>5 DEF f

LEMMA WrittenPair ==
  ASSUME NEW reg \in Nat, NEW hi, NEW lo, NEW r \in Held
  PROVE  Written(BuildWriteMultiple(Unit, reg, <<hi, lo>>))[r] =
           IF r = reg THEN hi ELSE IF r = reg + 1 THEN lo ELSE held[r]
<1>. DEFINE f == BuildWriteMultiple(Unit, reg, <<hi, lo>>)
<1>1. f.reg = reg /\ f.count = 2 /\ f.words = <<hi, lo>>
  BY DEF BuildWriteMultiple
<1>2. Written(f)[r] = IF r \in reg .. (reg + 2 - 1) THEN f.words[r - reg + 1] ELSE held[r]
  BY <1>1 DEF Written
<1>3. r \in reg .. (reg + 2 - 1) <=> r = reg \/ r = reg + 1
  <2>1. r \in Nat
    BY FacadeAssumption
  <2>. QED
    BY <2>1
<1>4. f.words[reg - reg + 1] = hi /\ f.words[(reg + 1) - reg + 1] = lo /\ reg # reg + 1
  BY <1>1
<1>. HIDE DEF f
<1>5. Written(f)[r] = IF r = reg THEN hi ELSE IF r = reg + 1 THEN lo ELSE held[r]
  BY <1>2, <1>3, <1>4
<1>. QED
  BY <1>5 DEF f

LEMMA SetpointWritten ==
  ASSUME NEW hi, NEW lo, NEW r \in Held
  PROVE  Written(BuildWriteMultiple(Unit, SetpointCommand, <<hi, lo>>))[r] =
           IF r = SetpointCommand THEN hi ELSE IF r = SetpointCommand + 1 THEN lo ELSE held[r]
<1>1. SetpointCommand \in Nat
  BY SMT DEF SetpointCommand
<1>. QED
  BY <1>1, WrittenPair

(* The registers change only by the write of a command that was not        *)
(* refused.                                                                *)
LEMMA HeldChanges ==
  ASSUME TypeInv, [Next]_vars
  PROVE  \/ held' = held
         \/ \E cmd \in HostCommands : \E value \in Values(cmd) : \E f :
              /\ ~Idle /\ job.name = cmd.name
              /\ CommandError(cmd) = "None"
              /\ WellTyped(cmd)
              /\ cmd.name \notin DOMAIN Reads
              /\ Requests(cmd, value, Unit) = <<f>>
              /\ held' = Written(f)
<1>. DEFINE f == Head(job.todo)
<1>1. ASSUME ~Idle, f.fn # ReadHolding, held' = Written(f)
      PROVE  \E cmd \in HostCommands : \E value \in Values(cmd) : \E g :
               /\ ~Idle /\ job.name = cmd.name
               /\ CommandError(cmd) = "None"
               /\ WellTyped(cmd)
               /\ cmd.name \notin DOMAIN Reads
               /\ Requests(cmd, value, Unit) = <<g>>
               /\ held' = Written(g)
  <2>1. /\ job.name = result.cmd.name /\ job.name \notin DOMAIN Reads
        /\ job.name # "ReadIdentity" /\ WellTyped(result.cmd)
    BY <1>1, NextRequest, ReadCommands
  <2>2. PICK value \in Values(result.cmd) : <<f>> = Requests(result.cmd, value, Unit)
    BY <1>1, <2>1, NextRequest
  <2>3. result.cmd \in HostCommands /\ CommandError(result.cmd) = "None"
    BY <1>1 DEF TypeInv, UnderwayInv
  <2>. HIDE DEF f
  <2>. QED
    BY <1>1, <2>1, <2>2, <2>3, Zenon
<1>2. CASE Succeed
  <2>1. /\ ~Idle /\ held' = IF f.fn = ReadHolding THEN held ELSE Written(f)
    BY <1>2 DEF Succeed
  <2>. HIDE DEF f
  <2>. QED
    BY <1>1, <2>1, Zenon
<1>3. CASE Fail
  <2>1. ~Idle /\ (held' = held \/ (f.fn # ReadHolding /\ held' = Written(f)))
    BY <1>3 DEF Fail
  <2>. HIDE DEF f
  <2>. QED
    BY <1>1, <2>1, Zenon
<1>4. CASE Measure \/ UNCHANGED vars \/ \E cmd \in HostCommands : Issue(cmd)
  BY <1>4, Zenon DEF Measure, vars, Issue
<1>. QED
  BY <1>2, <1>3, <1>4 DEF Next

(* Each setting has one command that writes it, and nothing but what is in *)
(* range is written to it.  The address and the flow units have none.      *)
LEMMA SettingWritten ==
  ASSUME NEW cmd, WellTyped(cmd), CommandError(cmd) = "None",
         cmd.name \notin DOMAIN Reads, NEW value \in Values(cmd), NEW f,
         Requests(cmd, value, Unit) = <<f>>, NEW r \in Held
  PROVE  \/ Written(f)[r] = held[r]
         \/ /\ r \notin {ModbusAddress, FlowUnitsCode}
            /\ r = CommWatchdogMs => Written(f)[r] <= 5000
            /\ r = FlowAveragingMs => Written(f)[r] <= 2500
            /\ r = AsciiUnitId => Written(f)[r] \in 65..90
            /\ r = ReferenceTemperature =>
                 \/ cmd.name = "SetReferenceTemperatureC" /\ ~cmd.arg.number
                 \/ Written(f)[r] <= 3000
<1>1. CASE cmd.name \in DOMAIN PairRegister
  <2>. DEFINE reg == PairRegister[cmd.name]
  <2>1. f = BuildWriteMultiple(Unit, reg, <<High(value), Low(value)>>) /\ reg \in Nat
    BY <1>1, WriteCommands
  <2>2. Written(f)[r] = held[r] \/ r = reg \/ r = reg + 1
    BY <2>1, WrittenPair
  <2>3. reg \in {SetpointCommand, MaxSetpointRamp, TotalizerBatchVolume}
    BY <1>1 DEF PairRegister
  <2>4. r = reg \/ r = reg + 1 =>
          r \notin {ModbusAddress, FlowUnitsCode, CommWatchdogMs, FlowAveragingMs, AsciiUnitId,
                    ReferenceTemperature}
    <3>. HIDE DEF reg
    <3>. QED
      BY <2>3, SMT DEF SetpointCommand, MaxSetpointRamp, TotalizerBatchVolume, ModbusAddress,
        FlowUnitsCode, CommWatchdogMs, FlowAveragingMs, AsciiUnitId, ReferenceTemperature
  <2>. HIDE DEF reg
  <2>5. CASE r = reg \/ r = reg + 1
    BY <2>4, <2>5
  <2>6. CASE ~(r = reg \/ r = reg + 1)
    BY <2>2, <2>6
  <2>. QED
    BY <2>5, <2>6
<1>2. CASE cmd.name \notin DOMAIN PairRegister
  <2>. DEFINE reg == SingleRegister(cmd.name)
  <2>1. f = BuildWriteSingle(Unit, reg, Low(value)) /\ reg \in Nat /\ value \in Int
    <3>1. /\ value \in Int /\ SingleRegister(cmd.name) \in Nat
          /\ <<f>> = <<BuildWriteSingle(Unit, SingleRegister(cmd.name), Low(value))>>
      BY <1>2, WriteCommands
    <3>. QED
      BY <3>1
  <2>2. Written(f)[r] = IF r = reg THEN Low(value) ELSE held[r]
    BY <2>1, WrittenSingle
  <2>3. ASSUME reg \in {ModbusAddress, FlowUnitsCode, CommWatchdogMs, FlowAveragingMs,
                        AsciiUnitId, ReferenceTemperature}
        PROVE  \/ cmd.name = "SetCommWatchdogMs" /\ reg = CommWatchdogMs
               \/ cmd.name = "SetFlowAveragingMs" /\ reg = FlowAveragingMs
               \/ cmd.name = "SetAsciiUnitId" /\ reg = AsciiUnitId
               \/ cmd.name = "SetReferenceTemperatureC" /\ reg = ReferenceTemperature
    <3>1. \/ cmd.name = "SetSetpointSource" /\ reg = SetpointSource
          \/ cmd.name = "SetCommWatchdogMs" /\ reg = CommWatchdogMs
          \/ cmd.name = "Tare" /\ reg = TareCommand
          \/ cmd.name = "SetAutotareEnabled" /\ reg = AutotareEnable
          \/ cmd.name = "SetGas" /\ reg = SelectedGas
          \/ cmd.name = "ResetTotalizer" /\ reg = TotalizerResetCommand
          \/ cmd.name = "SetTotalizerLimitMode" /\ reg = TotalizerLimitMode
          \/ cmd.name = "SetFlowAveragingMs" /\ reg = FlowAveragingMs
          \/ cmd.name = "SetReferenceTemperatureC" /\ reg = ReferenceTemperature
          \/ cmd.name = "ConfigureMeasurementTrigger" /\ reg = MeasurementTriggerMode
          \/ cmd.name = "StartMeasurementSamples" /\ reg = MeasurementSampleCount
          \/ cmd.name = "SetAsciiUnitId" /\ reg = AsciiUnitId
          \/ cmd.name = "SetBaudRate" /\ reg = BaudRate
          \/ cmd.name = "FactoryRestore" /\ reg = FactoryRestoreCommand
      BY <1>2 DEF WellTyped, CommandNames, SingleRegister, ControlRegister, FlowRegister,
        MeasurementRegister, BusRegister
    <3>. HIDE DEF reg
    <3>. QED
      BY <2>3, <3>1, SMT DEF ModbusAddress, FlowUnitsCode, CommWatchdogMs, FlowAveragingMs,
        AsciiUnitId, ReferenceTemperature, SetpointSource, TareCommand, AutotareEnable,
        SelectedGas, TotalizerResetCommand, TotalizerLimitMode, MeasurementTriggerMode,
        MeasurementSampleCount, BaudRate, FactoryRestoreCommand
  <2>4. /\ CommWatchdogMs # FlowAveragingMs /\ CommWatchdogMs # AsciiUnitId
        /\ CommWatchdogMs # ReferenceTemperature /\ FlowAveragingMs # AsciiUnitId
        /\ FlowAveragingMs # ReferenceTemperature /\ AsciiUnitId # ReferenceTemperature
        /\ CommWatchdogMs \notin {ModbusAddress, FlowUnitsCode}
        /\ FlowAveragingMs \notin {ModbusAddress, FlowUnitsCode}
        /\ AsciiUnitId \notin {ModbusAddress, FlowUnitsCode}
        /\ ReferenceTemperature \notin {ModbusAddress, FlowUnitsCode}
    BY SMT DEF CommWatchdogMs, FlowAveragingMs, AsciiUnitId, ReferenceTemperature,
               ModbusAddress, FlowUnitsCode
  <2>5. ASSUME cmd.name \in {"SetCommWatchdogMs", "SetFlowAveragingMs", "SetAsciiUnitId"}
        PROVE  value = cmd.arg /\ cmd.arg \in Nat
    BY <2>5 DEF Values, WellTyped, FloatCommands
  <2>6. ASSUME NEW n \in Nat, n <= 5000 PROVE Low(n) = n
    BY <2>6, SMT DEF Low
  <2>7. cmd.name = "SetCommWatchdogMs" => Low(value) <= 5000
    <3>1. cmd.name = "SetCommWatchdogMs" => cmd.arg <= 5000
      BY <2>5, SMT DEF CommandError, BadWatchdog
    <3>. QED
      BY <2>5, <2>6, <3>1, SMT
  <2>8. cmd.name = "SetFlowAveragingMs" => Low(value) <= 2500
    <3>1. cmd.name = "SetFlowAveragingMs" => cmd.arg <= 2500
      BY <2>5, SMT DEF CommandError, BadAveraging
    <3>. QED
      BY <2>5, <2>6, <3>1, SMT
  <2>9. cmd.name = "SetAsciiUnitId" => Low(value) \in 65..90
    <3>1. cmd.name = "SetAsciiUnitId" => cmd.arg >= 65 /\ cmd.arg <= 90
      BY <2>5, SMT DEF CommandError, BadUnitId
    <3>. QED
      BY <2>5, <2>6, <3>1, SMT
  <2>10. cmd.name = "SetReferenceTemperatureC" /\ cmd.arg.number => Low(value) <= 3000
    <3>. SUFFICES ASSUME cmd.name = "SetReferenceTemperatureC", cmd.arg.number
                  PROVE  Low(value) <= 3000
      OBVIOUS
    <3>1. cmd.arg.tenths \in Int
      BY DEF WellTyped, FloatCommands
    <3>2. 0 <= cmd.arg.tenths /\ cmd.arg.tenths <= 30000
      BY <3>1, SMT DEF CommandError, BadReference
    <3>3. Truncated(cmd.arg.tenths) \in Nat /\ Truncated(cmd.arg.tenths) <= 3000
      BY <3>1, <3>2, SMT DEF Truncated
    <3>4. Truncated(cmd.arg.tenths) \in Int32
      <4>1. MaxInt32 = 2147483647
        BY DEF MaxInt32
      <4>2. -MaxInt32 - 1 <= Truncated(cmd.arg.tenths)
            /\ Truncated(cmd.arg.tenths) <= MaxInt32 /\ MaxInt32 \in Int
        BY <3>3, <4>1, SMT
      <4>. QED
        BY <3>3, <4>2, SMT DEF Int32
    <3>5. value = Truncated(cmd.arg.tenths)
      BY <3>4, Zenon DEF Values, Cast, FloatCommands
    <3>. QED
      BY <2>6, <3>3, <3>5, SMT
  <2>11. cmd.name = "SetReferenceTemperatureC" => cmd.arg.number \in BOOLEAN
    BY DEF WellTyped, FloatCommands
  <2>. HIDE DEF reg
  <2>12. CASE r # reg
    <3>1. Written(f)[r] = held[r]
      BY <2>2, <2>12
    <3>. QED
      BY <3>1
  <2>13. CASE r = reg
    <3>1. Written(f)[r] = Low(value)
      BY <2>2, <2>13
    <3>2. CASE r \in {ModbusAddress, FlowUnitsCode, CommWatchdogMs, FlowAveragingMs,
                      AsciiUnitId, ReferenceTemperature}
      <4>1. CASE cmd.name = "SetCommWatchdogMs" /\ reg = CommWatchdogMs
        BY <2>4, <2>7, <2>13, <3>1, <4>1, SMT
      <4>2. CASE cmd.name = "SetFlowAveragingMs" /\ reg = FlowAveragingMs
        BY <2>4, <2>8, <2>13, <3>1, <4>2, SMT
      <4>3. CASE cmd.name = "SetAsciiUnitId" /\ reg = AsciiUnitId
        BY <2>4, <2>9, <2>13, <3>1, <4>3, SMT
      <4>4. CASE cmd.name = "SetReferenceTemperatureC" /\ reg = ReferenceTemperature
        BY <2>4, <2>10, <2>13, <3>1, <4>4, SMT
      <4>. QED
        BY <2>3, <2>13, <3>2, <4>1, <4>2, <4>3, <4>4
    <3>3. CASE r \notin {ModbusAddress, FlowUnitsCode, CommWatchdogMs, FlowAveragingMs,
                         AsciiUnitId, ReferenceTemperature}
      BY <3>3
    <3>. QED
      BY <3>2, <3>3
  <2>. QED
    BY <2>12, <2>13
<1>. QED
  BY <1>1, <1>2

LEMMA SettingsNext ==
  ASSUME SettingsStart, TypeInv, SettingsInRange, [Next]_vars
  PROVE  SettingsInRange'
<1>1. CASE held' = held
  BY <1>1 DEF SettingsInRange
<1>2. ASSUME NEW cmd \in HostCommands, NEW value \in Values(cmd), NEW f,
             CommandError(cmd) = "None", WellTyped(cmd), cmd.name \notin DOMAIN Reads,
             Requests(cmd, value, Unit) = <<f>>, held' = Written(f)
      PROVE  SettingsInRange'
  <2>1. cmd.name = "SetReferenceTemperatureC" => cmd.arg.number
    BY DEF SettingsStart
  <2>2. /\ CommWatchdogMs \in Held /\ FlowAveragingMs \in Held
        /\ ReferenceTemperature \in Held /\ AsciiUnitId \in Held
    BY DEF SettingsStart
  <2>3. held'[CommWatchdogMs] <= 5000
    BY <1>2, <2>2, SettingWritten, SMT DEF SettingsInRange
  <2>4. held'[FlowAveragingMs] <= 2500
    BY <1>2, <2>2, SettingWritten, SMT DEF SettingsInRange
  <2>5. held'[ReferenceTemperature] <= 3000
    BY <1>2, <2>1, <2>2, SettingWritten, SMT DEF SettingsInRange
  <2>6. held'[AsciiUnitId] \in 65..90
    BY <1>2, <2>2, SettingWritten, SMT DEF SettingsInRange
  <2>. QED
    BY <2>3, <2>4, <2>5, <2>6, SMT DEF SettingsInRange
<1>. QED
  BY <1>1, <1>2, HeldChanges, Zenon

(* Whichever requests fail, and whether or not a failed write was carried  *)
(* out, a setting that starts in its range stays in it.                    *)
THEOREM SettingsInRangeHolds ==
  ASSUME SettingsStart
  PROVE  Spec => []SettingsInRange
<1>1. Init => SettingsInRange
  <2>1. Init => held = Power
    BY DEF Init
  <2>. QED
    BY <2>1, SMT DEF SettingsStart, SettingsInRange
<1>. QED
  BY <1>1, TypeInvHolds, SettingsNext, PTL DEF Spec

LEMMA SetpointNext ==
  ASSUME SetpointsFit, TypeInv, SetpointHeld, [Next]_vars
  PROVE  SetpointHeld'
<1>. SUFFICES ASSUME Answered("SetSetpoint")', result'.cmd.arg.number
              PROVE  SetpointHeld'
  BY DEF SetpointHeld
<1>1. CASE Answered("SetSetpoint") /\ held' = held /\ result' = result
  BY <1>1 DEF SetpointHeld
<1>2. CASE Succeed /\ ~Idle /\ Tail(job.todo) = <<>> /\ job.name = "SetSetpoint"
  <2>. DEFINE f == Head(job.todo)
              cmd == result.cmd
              asked == cmd.arg.tenths
  <2>1. /\ f.fn # ReadHolding /\ WellTyped(cmd) /\ cmd.name = "SetSetpoint"
        /\ cmd.name \notin DOMAIN Reads /\ cmd \in HostCommands
        /\ job.name # "ReadIdentity"
    BY <1>2, NextRequest, ReadCommands DEF TypeInv, UnderwayInv
  <2>2. result'.cmd = cmd /\ held' = Written(f)
    BY <1>2, <2>1, LastSucceeds
  <2>3. cmd.arg.number /\ asked \in Int /\ Truncated(asked) \in Int32
    BY <2>1, <2>2 DEF WellTyped, FloatCommands, SetpointsFit
  <2>4. PICK value \in Values(cmd) : <<f>> = Requests(cmd, value, Unit)
    BY <1>2, <2>1, NextRequest
  <2>5. value = Truncated(asked)
    BY <2>1, <2>3, Zenon DEF Values, Cast, FloatCommands
  <2>6. f = BuildWriteMultiple(Unit, SetpointCommand, <<High(value), Low(value)>>)
    <3>1. "SetSetpoint" \in DOMAIN PairRegister /\ PairRegister["SetSetpoint"] = SetpointCommand
      BY DEF PairRegister
    <3>2. <<f>> = <<BuildWriteMultiple(Unit, SetpointCommand, <<High(value), Low(value)>>)>>
      BY <2>1, <2>4, <3>1, WriteCommands
    <3>. HIDE DEF f
    <3>. QED
      BY <3>2
  <2>7. /\ SetpointCommand \in Nat /\ SetpointCommand \in Held /\ SetpointCommand + 1 \in Held
        /\ SetpointCommand # SetpointCommand + 1
    BY SMT DEF SetpointsFit, SetpointCommand
  <2>8. held'[SetpointCommand] = High(value) /\ held'[SetpointCommand + 1] = Low(value)
    <3>. HIDE DEF f
    <3>1. ASSUME NEW r \in Held
          PROVE  Written(f)[r] = IF r = SetpointCommand THEN High(value)
                                 ELSE IF r = SetpointCommand + 1 THEN Low(value) ELSE held[r]
      <4>1. ASSUME NEW hi, NEW lo
            PROVE  Written(BuildWriteMultiple(Unit, SetpointCommand, <<hi, lo>>))[r]
                     = IF r = SetpointCommand THEN hi
                       ELSE IF r = SetpointCommand + 1 THEN lo ELSE held[r]
        BY <3>1, SetpointWritten
      <4>. QED
        BY <2>6, <4>1, Zenon
    <3>. QED
      BY <2>2, <2>7, <3>1
  <2>9. Join(held'[SetpointCommand], held'[SetpointCommand + 1]) = Truncated(asked)
    BY <2>3, <2>5, <2>8, HalvesJoin, Zenon
  <2>10. /\ asked >= 0 => 10 * Truncated(asked) <= asked /\ asked < 10 * Truncated(asked) + 10
         /\ asked < 0 => 10 * Truncated(asked) >= asked /\ asked > 10 * Truncated(asked) - 10
         /\ ~(asked >= 0) => asked < 0
    <3>1. ~(asked >= 0) => asked < 0
      BY <2>3, SMT
    <3>. QED
      BY <2>3, <3>1, TruncatedLeaves, Zenon
  <2>11. result'.cmd.arg.tenths = asked
    BY <2>2
  <2>. HIDE DEF asked
  <2>. QED
    BY <2>9, <2>10, <2>11, Zenon DEF SetpointHeld
<1>. QED
  BY <1>1, <1>2, AnsweredStep

(* A setpoint that was set is held: the cast, the split into two registers *)
(* and their order lose less than one of the register's units, whatever    *)
(* the sign and the carry.                                                 *)
THEOREM SetpointHeldHolds ==
  ASSUME SetpointsFit
  PROVE  Spec => []SetpointHeld
<1>1. Init => SetpointHeld
  <2>1. ASSUME Init PROVE ~Answered("SetSetpoint")
    BY <2>1 DEF Init, Answered
  <2>. QED
    BY <2>1 DEF SetpointHeld
<1>. QED
  BY <1>1, TypeInvHolds, SetpointNext, PTL DEF Spec

-----------------------------------------------------------------------------
(* The identity.                                                           *)

(* The requests of ReadIdentity.                                           *)
Version == BuildReadHolding(Unit, FirmwareVersion, 1)
Serial  == BuildReadHolding(Unit, SerialNumberStart, SerialNumberCount)
Rest    == BuildReadHolding(Unit, ModbusAddress, 5)

(* The registers of the identity hold words, the same at every moment.     *)
LEMMA IdentityWords ==
  ASSUME IdentityFixed, FacadeTypeOK, NEW r \in IdentityRegisters
  PROVE  At(1, r) \in Word /\ At(now, r) = At(1, r)
<1>1. r \in Held \cup DOMAIN Live[1]
  <2>1. ASSUME NEW reg, NEW count, NEW i \in DOMAIN Reads["ReadIdentity"],
               Reads["ReadIdentity"][i] = <<reg, count>>
        PROVE  reg .. (reg + count - 1) \subseteq Held \cup DOMAIN Live[1]
    <3>1. "ReadIdentity" \in DOMAIN Reads
      BY DEF Reads
    <3>. QED
      BY <2>1, <3>1, FacadeAssumption DEF Instrument
  <2>2. /\ DOMAIN Reads["ReadIdentity"] = {1, 2, 3}
        /\ Reads["ReadIdentity"][1] = <<FirmwareVersion, 1>>
        /\ Reads["ReadIdentity"][2] = <<SerialNumberStart, SerialNumberCount>>
        /\ Reads["ReadIdentity"][3] = <<ModbusAddress, 5>>
    BY DEF Reads, IdentityBlocks
  <2>3. /\ FirmwareVersion .. (FirmwareVersion + 1 - 1) \subseteq Held \cup DOMAIN Live[1]
        /\ SerialNumberStart .. (SerialNumberStart + SerialNumberCount - 1)
             \subseteq Held \cup DOMAIN Live[1]
        /\ ModbusAddress .. (ModbusAddress + 5 - 1) \subseteq Held \cup DOMAIN Live[1]
    BY <2>1, <2>2
  <2>4. r \in Int /\ (\/ FirmwareVersion <= r /\ r <= SerialNumberStart + SerialNumberCount - 1
                      \/ ModbusAddress <= r /\ r <= FlowUnitsCode)
    BY SMT DEF IdentityRegisters, FirmwareVersion, SerialNumberStart, SerialNumberCount,
               ModbusAddress, FlowUnitsCode
  <2>5. \/ r \in FirmwareVersion .. (FirmwareVersion + 1 - 1)
        \/ r \in SerialNumberStart .. (SerialNumberStart + SerialNumberCount - 1)
        \/ r \in ModbusAddress .. (ModbusAddress + 5 - 1)
    BY <2>4, SMT DEF FirmwareVersion, SerialNumberStart, SerialNumberCount, ModbusAddress,
                     FlowUnitsCode
  <2>. QED
    BY <2>3, <2>5, Zenon
<1>. DEFINE S == [DOMAIN Live[1] -> Word]
<1>2. Live \in Seq(S) /\ now \in 1..Len(Live) /\ held \in [Held -> Word]
  BY FacadeAssumption DEF FacadeTypeOK
<1>3. 1 \in 1..Len(Live)
  BY Counts
<1>4. Live[1] \in S
  <2>. HIDE DEF S
  <2>. QED
    BY <1>2, <1>3
<1>5. r \notin Held => Live[now][r] = Live[1][r]
  BY <1>2 DEF IdentityFixed
<1>. QED
  BY <1>1, <1>2, <1>4, <1>5 DEF At

LEMMA Concatenated ==
  ASSUME NEW S, NEW d \in Seq(S), NEW e \in Seq(S)
  PROVE  /\ d \o e \in Seq(S) /\ Len(d \o e) = Len(d) + Len(e)
         /\ \A i \in 1..Len(d) : (d \o e)[i] = d[i]
         /\ \A i \in 1..Len(e) : (d \o e)[Len(d) + i] = e[i]
<1>1. /\ d \o e \in Seq(S) /\ Len(d \o e) = Len(d) + Len(e)
      /\ \A i \in 1..(Len(d) + Len(e)) :
           (d \o e)[i] = IF i <= Len(d) THEN d[i] ELSE e[i - Len(d)]
  BY ConcatProperties
<1>2. Len(d) \in Nat /\ Len(e) \in Nat
  OBVIOUS
<1>3. ASSUME NEW i \in 1..Len(d) PROVE (d \o e)[i] = d[i]
  <2>1. i \in 1..(Len(d) + Len(e)) /\ i <= Len(d)
    BY <1>2
  <2>. QED
    BY <1>1, <2>1, Zenon
<1>4. ASSUME NEW i \in 1..Len(e) PROVE (d \o e)[Len(d) + i] = e[i]
  <2>1. /\ Len(d) + i \in 1..(Len(d) + Len(e)) /\ ~(Len(d) + i <= Len(d))
        /\ (Len(d) + i) - Len(d) = i
    BY <1>2
  <2>. QED
    BY <1>1, <2>1, Zenon
<1>. QED
  BY <1>1, <1>3, <1>4

(* The data of the three reads of the identity are twelve words.           *)
LEMMA IdentityDataType ==
  ASSUME NEW s \in [1..1 -> Word], NEW u \in [1..SerialNumberCount -> Word],
         NEW v \in [1..5 -> Word]
  PROVE  LET r == (s \o u) \o v
         IN  /\ r[1] = s[1]
             /\ \A i \in 1..SerialNumberCount : r[1 + i] = u[i]
             /\ \A i \in 1..5 : r[7 + i] = v[i]
<1>. HIDE DEF Word
<1>1. ASSUME NEW n \in Nat, NEW d \in [1..n -> Word] PROVE d \in Seq(Word) /\ Len(d) = n
  OBVIOUS
<1>2. PICK one \in Nat, five \in Nat, six \in Nat, seven \in Nat :
        one = 1 /\ five = 5 /\ six = 6 /\ seven = 7
  OBVIOUS
<1>3. SerialNumberCount = 6
  BY DEF SerialNumberCount
<1>4. /\ s \in Seq(Word) /\ Len(s) = one /\ v \in Seq(Word) /\ Len(v) = five
      /\ u \in Seq(Word) /\ Len(u) = six
  BY <1>1, <1>2, <1>3
<1>5. /\ s \o u \in Seq(Word) /\ Len(s \o u) = one + six
      /\ \A i \in 1..one : (s \o u)[i] = s[i]
      /\ \A i \in 1..six : (s \o u)[one + i] = u[i]
  BY <1>4, Concatenated, SMTT(30)
<1>6. one + six = seven
  BY <1>2
<1>7. ASSUME NEW q \in Seq(Word), Len(q) = seven,
             \A i \in 1..one : q[i] = s[i],
             \A i \in 1..six : q[one + i] = u[i]
      PROVE  /\ (q \o v)[one] = s[one]
             /\ \A i \in 1..six : (q \o v)[one + i] = u[i]
             /\ \A i \in 1..five : (q \o v)[seven + i] = v[i]
  <2>1. /\ \A i \in 1..Len(q) : (q \o v)[i] = q[i]
        /\ \A i \in 1..Len(v) : (q \o v)[Len(q) + i] = v[i]
    BY <1>4, Concatenated
  <2>2. /\ one \in 1..one /\ one \in 1..seven
        /\ \A i \in 1..six : one + i \in 1..seven
    BY <1>2
  <2>. QED
    BY <1>4, <1>7, <2>1, <2>2, Zenon
<1>8. LET r == (s \o u) \o v
      IN  /\ r[one] = s[one]
          /\ \A i \in 1..six : r[one + i] = u[i]
          /\ \A i \in 1..five : r[seven + i] = v[i]
  BY <1>5, <1>6, <1>7, Zenon
<1>. QED
  BY <1>2, <1>3, <1>8, Zenon

(* Decoded, they are the identity.                                         *)
LEMMA IdentityDecoded ==
  ASSUME NEW r, NEW c \in [IdentityRegisters -> Word],
         \A x \in ByteRegisters : c[x] < 256,
         r[1] = c[FirmwareVersion],
         \A i \in 1..SerialNumberCount : r[1 + i] = c[SerialNumberStart + i - 1],
         \A i \in 1..5 : r[7 + i] = c[ModbusAddress + i - 1]
  PROVE  LET v == InstrumentIdentity(r)
         IN  /\ v.firmware_version_raw = c[FirmwareVersion]
             /\ 256 * v.fw_major + 16 * v.fw_minor + v.fw_patch = c[FirmwareVersion]
             /\ \A i \in 1..SerialNumberCount :
                  256 * v.serial_number[2 * i - 1] + v.serial_number[2 * i]
                    = c[SerialNumberStart + i - 1]
             /\ v.modbus_address = c[ModbusAddress]
             /\ v.ascii_unit_id = c[AsciiUnitId]
             /\ v.full_scale_flow_raw = JoinUnsigned(c[FullScaleFlowUserUnits],
                                                     c[FullScaleFlowUserUnits + 1])
             /\ v.flow_units = c[FlowUnitsCode]
<1>. DEFINE v == InstrumentIdentity(r)
<1>1. /\ FirmwareVersion \in IdentityRegisters
      /\ \A i \in 1..SerialNumberCount : SerialNumberStart + i - 1 \in IdentityRegisters
      /\ ByteRegisters \subseteq IdentityRegisters
  BY SMT DEF IdentityRegisters, ByteRegisters, FirmwareVersion, SerialNumberStart,
             SerialNumberCount, ModbusAddress, AsciiUnitId, FlowUnitsCode
<1>2. 256 * v.fw_major + 16 * v.fw_minor + v.fw_patch = c[FirmwareVersion]
  <2>1. /\ v.fw_major = HighByte(r[1]) /\ v.fw_minor = Nibble(r[1]) /\ v.fw_patch = r[1] % 16
    BY DEF InstrumentIdentity
  <2>. HIDE DEF v
  <2>. QED
    BY <1>1, <2>1, Packed
<1>3. ASSUME NEW i \in 1..SerialNumberCount
      PROVE  256 * v.serial_number[2 * i - 1] + v.serial_number[2 * i]
               = c[SerialNumberStart + i - 1]
  <2>1. /\ i \in Int /\ 2 * i - 1 \in 1..12 /\ 2 * i \in 1..12
        /\ (2 * i - 1) % 2 = 1 /\ (2 * i) % 2 # 1
        /\ ((2 * i - 1) + 1) \div 2 = i /\ (2 * i) \div 2 = i
    BY SMT DEF SerialNumberCount
  <2>2. v.serial_number = [k \in 1..12 |-> IF k % 2 = 1 THEN HighByte(r[1 + (k + 1) \div 2])
                                                        ELSE LowByte(r[1 + k \div 2])]
    BY DEF InstrumentIdentity
  <2>. HIDE DEF v
  <2>3. /\ v.serial_number[2 * i - 1] = HighByte(r[1 + i])
        /\ v.serial_number[2 * i] = LowByte(r[1 + i])
    BY <2>1, <2>2
  <2>4. r[1 + i] = c[SerialNumberStart + i - 1] /\ c[SerialNumberStart + i - 1] \in Word
    BY <1>1
  <2>. QED
    BY <2>3, <2>4, Packed
<1>4. /\ r[8] = c[ModbusAddress] /\ r[9] = c[AsciiUnitId]
      /\ r[10] = c[FullScaleFlowUserUnits] /\ r[11] = c[FullScaleFlowUserUnits + 1]
      /\ r[12] = c[FlowUnitsCode]
  <2>1. /\ ModbusAddress + 1 - 1 = ModbusAddress /\ ModbusAddress + 2 - 1 = AsciiUnitId
        /\ ModbusAddress + 3 - 1 = FullScaleFlowUserUnits
        /\ ModbusAddress + 4 - 1 = FullScaleFlowUserUnits + 1
        /\ ModbusAddress + 5 - 1 = FlowUnitsCode
    BY SMT DEF ModbusAddress, AsciiUnitId, FullScaleFlowUserUnits, FlowUnitsCode
  <2>2. /\ 1 \in 1..5 /\ 2 \in 1..5 /\ 3 \in 1..5 /\ 4 \in 1..5 /\ 5 \in 1..5
        /\ 7 + 1 = 8 /\ 7 + 2 = 9 /\ 7 + 3 = 10 /\ 7 + 4 = 11 /\ 7 + 5 = 12
    OBVIOUS
  <2>. QED
    BY <2>1, <2>2, Zenon
<1>5. ASSUME NEW x \in ByteRegisters PROVE LowByte(c[x]) = c[x]
  <2>1. c[x] \in Int /\ 0 <= c[x] /\ c[x] < 256
    BY <1>1, WordBounds
  <2>. QED
    BY <2>1, SMT DEF LowByte
<1>6. /\ v.modbus_address = LowByte(r[8]) /\ v.ascii_unit_id = LowByte(r[9])
      /\ v.full_scale_flow_raw = JoinUnsigned(r[10], r[11])
      /\ v.flow_units = LowByte(r[12]) /\ v.firmware_version_raw = r[1]
  BY DEF InstrumentIdentity
<1>. HIDE DEF v
<1>7. /\ v.modbus_address = c[ModbusAddress] /\ v.ascii_unit_id = c[AsciiUnitId]
      /\ v.flow_units = c[FlowUnitsCode]
      /\ v.firmware_version_raw = c[FirmwareVersion]
  BY <1>4, <1>5, <1>6 DEF ByteRegisters
<1>8. v.full_scale_flow_raw = JoinUnsigned(c[FullScaleFlowUserUnits],
                                           c[FullScaleFlowUserUnits + 1])
  BY <1>4, <1>6, Zenon
<1>. QED
  BY <1>2, <1>3, <1>7, <1>8 DEF v

(* A reading command changes no register, and no command the address or    *)
(* the units' code; the unit id stays a letter.                            *)
LEMMA BytesNext ==
  ASSUME TypeInv, \A r \in ByteRegisters : At(1, r) < 256, [Next]_vars
  PROVE  (\A r \in ByteRegisters : At(1, r) < 256)'
<1>. SUFFICES ASSUME NEW r \in ByteRegisters PROVE At(1, r)' < 256
  OBVIOUS
<1>1. CASE r \notin Held \/ held' = held
  <2>1. At(1, r)' = At(1, r)
    BY <1>1 DEF At
  <2>. QED
    BY <2>1, SMT
<1>2. ASSUME r \in Held, NEW cmd \in HostCommands, NEW value \in Values(cmd), NEW f,
             CommandError(cmd) = "None", WellTyped(cmd), cmd.name \notin DOMAIN Reads,
             Requests(cmd, value, Unit) = <<f>>, held' = Written(f)
      PROVE  At(1, r)' < 256
  <2>1. At(1, r) = held[r] /\ At(1, r)' = Written(f)[r]
    BY <1>2 DEF At
  <2>2. CASE Written(f)[r] = held[r]
    BY <2>1, <2>2, SMT
  <2>3. CASE Written(f)[r] # held[r]
    <3>1. r \notin {ModbusAddress, FlowUnitsCode} /\ (r = AsciiUnitId => Written(f)[r] \in 65..90)
      BY <1>2, <2>3, SettingWritten, SMT
    <3>2. Written(f)[r] \in 65..90
      BY <3>1 DEF ByteRegisters
    <3>. QED
      BY <2>1, <3>2, SMT
  <2>. QED
    BY <2>2, <2>3
<1>. QED
  BY <1>1, <1>2, HeldChanges, Zenon

(* The three steps of ReadIdentity, and what each reads.                   *)
LEMMA IdentityRequests ==
  ASSUME NEW cmd, NEW value, cmd.name = "ReadIdentity"
  PROVE  Requests(cmd, value, Unit) = <<Version, Serial, Rest>>
<1>. QED
  BY ReadCommands DEF Version, Serial, Rest

LEMMA IdentityBlock ==
  ASSUME IdentityFixed, TypeInv, NEW reg, NEW count, NEW f,
         \/ reg = FirmwareVersion /\ count = 1
         \/ reg = SerialNumberStart /\ count = SerialNumberCount
         \/ reg = ModbusAddress /\ count = 5,
         f = BuildReadHolding(Unit, reg, count)
  PROVE  /\ f.fn = ReadHolding
         /\ IdentityData(reg, count) \in [1..count -> Word]
         /\ [i \in 1..f.count |-> At(now, f.reg + i - 1)] = IdentityData(reg, count)
<1>1. ASSUME NEW i \in 1..count PROVE reg + i - 1 \in IdentityRegisters
  BY SMT DEF IdentityRegisters, FirmwareVersion, SerialNumberStart, SerialNumberCount,
             ModbusAddress, FlowUnitsCode
<1>2. \A i \in 1..count : /\ At(1, reg + i - 1) \in Word
                         /\ At(now, reg + i - 1) = At(1, reg + i - 1)
  BY <1>1, IdentityWords DEF TypeInv
<1>3. f.reg = reg /\ f.count = count /\ f.fn = ReadHolding
  BY DEF BuildReadHolding
<1>. QED
  BY <1>2, <1>3, Zenon DEF IdentityData

LEMMA IdentityReadNext ==
  ASSUME IdentityFixed, TypeInv, IdentityRead, [Next]_vars
  PROVE  IdentityRead'
<1>. DEFINE One == IdentityData(FirmwareVersion, 1)
            Two == IdentityData(SerialNumberStart, SerialNumberCount)
            Progress(todo, got) ==
              \/ todo = <<Version, Serial, Rest>> /\ got = <<>>
              \/ todo = <<Serial, Rest>> /\ got = One
              \/ todo = <<Rest>> /\ got = One \o Two
<1>1. IdentityRead <=> (~Idle /\ job.name = "ReadIdentity" => Progress(job.todo, job.got))
  BY DEF IdentityRead, Version, Serial, Rest
<1>. SUFFICES ASSUME (~Idle /\ job.name = "ReadIdentity")'
              PROVE  (Progress(job.todo, job.got))'
  BY DEF IdentityRead, Version, Serial, Rest
<1>2. ASSUME held' = held PROVE One' = One /\ Two' = Two
  BY <1>2 DEF IdentityData, At
<1>3. CASE (UNCHANGED vars \/ Measure)
  <2>1. held' = held /\ job' = job
    BY <1>3 DEF vars, Measure
  <2>2. Progress(job.todo, job.got)
    BY <1>1, <2>1 DEF Idle
  <2>. HIDE DEF One, Two
  <2>. QED
    BY <1>2, <2>1, <2>2
<1>4. ASSUME NEW cmd \in HostCommands, Issue(cmd) PROVE (Progress(job.todo, job.got))'
  <2>1. CASE CommandError(cmd) # "None"
    BY <1>4, <2>1 DEF Issue, Idle
  <2>2. CASE CommandError(cmd) = "None"
    <3>1. PICK value \in Values(cmd) :
            job' = [name |-> cmd.name, todo |-> Requests(cmd, value, Unit), got |-> <<>>]
      BY <1>4, <2>2 DEF Issue
    <3>2. job'.todo = <<Version, Serial, Rest>> /\ job'.got = <<>>
      BY <3>1, IdentityRequests
    <3>. QED
      BY <3>2
  <2>. QED
    BY <2>1, <2>2
<1>5. CASE Fail
  BY <1>5 DEF Fail, Returns, NoJob, Idle
<1>6. CASE Succeed
  <2>. DEFINE f == Head(job.todo)
              content == [i \in 1..f.count |-> Content(f.reg + i - 1)]
              data == [i \in 1..f.count |-> At(now, f.reg + i - 1)]
              got == IF f.fn = ReadHolding THEN job.got \o content ELSE job.got
  <2>1. /\ ~Idle
        /\ held' = IF f.fn = ReadHolding THEN held ELSE Written(f)
        /\ Tail(job.todo) = <<>> => job' = NoJob
        /\ Tail(job.todo) # <<>> => job' = [job EXCEPT !.todo = Tail(job.todo), !.got = got]
    BY <1>6 DEF Succeed, Returns
  <2>2. Tail(job.todo) # <<>>
    <3>1. Tail(job.todo) = <<>> => job'.todo = <<>>
      <4>1. NoJob.todo = <<>>
        BY DEF NoJob
      <4>. HIDE DEF got
      <4>. QED
        BY <2>1, <4>1
    <3>2. job'.todo # <<>>
      BY DEF Idle
    <3>. QED
      BY <3>1, <3>2
  <2>3. job.name = "ReadIdentity" /\ f.fn = ReadHolding
    BY <2>1, <2>2, NextRequest, ReadCommands
  <2>4. job'.todo = Tail(job.todo) /\ job'.got = job.got \o content
    <3>. DEFINE T == Seq(RequestFrames)
                W == Seq(Word)
    <3>1. job \in [name : CommandNames \cup {""}, todo : T, got : W]
      BY DEF TypeInv, FacadeTypeOK
    <3>2. got = job.got \o content
      BY <2>3
    <3>. HIDE DEF T, W, got, content
    <3>. QED
      BY <2>1, <2>2, <3>1, <3>2
  <2>5. content = data
    <3>1. \A i \in 1..f.count : Content(f.reg + i - 1) = At(now, f.reg + i - 1)
      BY <2>1, <2>3, NextRegisters, ContentType DEF TypeInv
    <3>. QED
      BY <3>1, Zenon
  <2>6. Progress(job.todo, job.got)
    BY <1>1, <2>1, <2>3
  <2>7. held' = held
    BY <2>1, <2>3
  <2>8. CASE job.todo = <<Version, Serial, Rest>> /\ job.got = <<>>
    <3>1. f = Version /\ Tail(job.todo) = <<Serial, Rest>>
      BY <2>8
    <3>2. data = One /\ One \in [1..1 -> Word]
      BY <3>1, IdentityBlock, Zenon DEF Version
    <3>3. <<>> \o One = One
      <4>. HIDE DEF One, Word
      <4>. QED
        BY <3>2
    <3>4. job'.todo = <<Serial, Rest>> /\ job'.got = One
      BY <2>4, <2>5, <2>8, <3>1, <3>2, <3>3, Zenon
    <3>. HIDE DEF One, Two
    <3>. QED
      BY <1>2, <2>7, <3>4
  <2>9. CASE job.todo = <<Serial, Rest>> /\ job.got = One
    <3>1. f = Serial /\ Tail(job.todo) = <<Rest>>
      BY <2>9
    <3>2. data = Two
      BY <3>1, IdentityBlock, Zenon DEF Serial
    <3>3. job'.todo = <<Rest>> /\ job'.got = One \o Two
      BY <2>4, <2>5, <2>9, <3>1, <3>2, Zenon
    <3>. HIDE DEF One, Two
    <3>. QED
      BY <1>2, <2>7, <3>3
  <2>10. CASE job.todo = <<Rest>>
    BY <2>2, <2>10
  <2>. HIDE DEF One, Two
  <2>. QED
    BY <2>6, <2>8, <2>9, <2>10
<1>. QED
  BY <1>3, <1>4, <1>5, <1>6 DEF Next

LEMMA IdentityWholeNext ==
  ASSUME IdentityFixed, TypeInv, IdentityInv, [Next]_vars
  PROVE  IdentityIsWhole'
<1>. SUFFICES ASSUME Answered("ReadIdentity")' PROVE IdentityIsWhole'
  BY DEF IdentityIsWhole
<1>1. CASE Answered("ReadIdentity") /\ held' = held /\ result' = result
  BY <1>1 DEF IdentityInv, IdentityIsWhole, At
<1>2. CASE Succeed /\ ~Idle /\ Tail(job.todo) = <<>> /\ job.name = "ReadIdentity"
  <2>. DEFINE f == Head(job.todo)
              s == IdentityData(FirmwareVersion, 1)
              u == IdentityData(SerialNumberStart, SerialNumberCount)
              v == IdentityData(ModbusAddress, 5)
              r == (s \o u) \o v
  <2>1. job.todo = <<Rest>> /\ job.got = s \o u
    <3>1. \/ job.todo = <<Version, Serial, Rest>>
          \/ job.todo = <<Serial, Rest>>
          \/ job.todo = <<Rest>> /\ job.got = s \o u
      BY <1>2 DEF IdentityInv, IdentityRead, Version, Serial, Rest
    <3>2. Tail(<<Version, Serial, Rest>>) # <<>> /\ Tail(<<Serial, Rest>>) # <<>>
      OBVIOUS
    <3>. QED
      BY <1>2, <3>1, <3>2, Zenon
  <2>2. f = Rest
    BY <2>1
  <2>3. /\ s \in [1..1 -> Word] /\ u \in [1..SerialNumberCount -> Word] /\ v \in [1..5 -> Word]
        /\ f.fn = ReadHolding
        /\ [i \in 1..f.count |-> At(now, f.reg + i - 1)] = v
    BY <2>2, IdentityBlock, Zenon DEF Rest
  <2>4. held' = held /\ result'.value = <<Decode("ReadIdentity", r)>>
    BY <1>2, <2>1, <2>3, LastSucceeds, Zenon
  <2>5. /\ r[1] = s[1]
        /\ \A i \in 1..SerialNumberCount : r[1 + i] = u[i]
        /\ \A i \in 1..5 : r[7 + i] = v[i]
    <3>. HIDE DEF s, u, v
    <3>. QED
      BY <2>3, IdentityDataType, Zenon
  <2>6. /\ s[1] = At(1, FirmwareVersion)
        /\ \A i \in 1..SerialNumberCount : u[i] = At(1, SerialNumberStart + i - 1)
        /\ \A i \in 1..5 : v[i] = At(1, ModbusAddress + i - 1)
    <3>1. 1 \in 1..1 /\ FirmwareVersion + 1 - 1 = FirmwareVersion
      BY SMT DEF FirmwareVersion
    <3>. QED
      BY <3>1, Zenon DEF IdentityData
  <2>7. /\ \A x \in IdentityRegisters : At(1, x) \in Word
        /\ \A x \in ByteRegisters : At(1, x) < 256
    BY IdentityWords DEF TypeInv, IdentityInv
  <2>8. result'.value[1] = InstrumentIdentity(r)
    <3>. HIDE DEF r
    <3>. QED
      BY <2>4 DEF Decode
  <2>9. PICK q : q = r
    OBVIOUS
  <2>. HIDE DEF r, s, u, v
  <2>10. /\ q[1] = At(1, FirmwareVersion)
         /\ \A i \in 1..SerialNumberCount : q[1 + i] = At(1, SerialNumberStart + i - 1)
         /\ \A i \in 1..5 : q[7 + i] = At(1, ModbusAddress + i - 1)
    BY <2>5, <2>6, <2>9, Zenon
  <2>11. LET w == InstrumentIdentity(q)
         IN  /\ w.firmware_version_raw = At(1, FirmwareVersion)
             /\ 256 * w.fw_major + 16 * w.fw_minor + w.fw_patch = At(1, FirmwareVersion)
             /\ \A i \in 1..SerialNumberCount :
                  256 * w.serial_number[2 * i - 1] + w.serial_number[2 * i]
                    = At(1, SerialNumberStart + i - 1)
             /\ w.modbus_address = At(1, ModbusAddress)
             /\ w.ascii_unit_id = At(1, AsciiUnitId)
             /\ w.full_scale_flow_raw = JoinUnsigned(At(1, FullScaleFlowUserUnits),
                                                     At(1, FullScaleFlowUserUnits + 1))
             /\ w.flow_units = At(1, FlowUnitsCode)
    <3>1. PICK c \in [IdentityRegisters -> Word] :
            \A x \in IdentityRegisters : c[x] = At(1, x)
      <4>. DEFINE c == [x \in IdentityRegisters |-> At(1, x)]
      <4>1. /\ c \in [IdentityRegisters -> Word]
            /\ \A x \in IdentityRegisters : c[x] = At(1, x)
        BY <2>7, Zenon
      <4>. HIDE DEF c
      <4>. QED
        BY <4>1, Zenon
    <3>2. /\ FirmwareVersion \in IdentityRegisters
          /\ \A i \in 1..SerialNumberCount : SerialNumberStart + i - 1 \in IdentityRegisters
          /\ \A i \in 1..5 : ModbusAddress + i - 1 \in IdentityRegisters
          /\ ByteRegisters \subseteq IdentityRegisters
          /\ FullScaleFlowUserUnits \in IdentityRegisters
          /\ FullScaleFlowUserUnits + 1 \in IdentityRegisters
      BY SMT DEF IdentityRegisters, ByteRegisters, FirmwareVersion, SerialNumberStart,
        SerialNumberCount, ModbusAddress, AsciiUnitId, FlowUnitsCode, FullScaleFlowUserUnits
    <3>3. ModbusAddress \in ByteRegisters /\ AsciiUnitId \in ByteRegisters
          /\ FlowUnitsCode \in ByteRegisters
      BY DEF ByteRegisters
    <3>4. /\ q[1] = c[FirmwareVersion]
          /\ \A i \in 1..SerialNumberCount : q[1 + i] = c[SerialNumberStart + i - 1]
          /\ \A i \in 1..5 : q[7 + i] = c[ModbusAddress + i - 1]
          /\ \A x \in ByteRegisters : c[x] < 256
      BY <2>7, <2>10, <3>1, <3>2, Zenon
    <3>5. LET w == InstrumentIdentity(q)
          IN  /\ w.firmware_version_raw = c[FirmwareVersion]
              /\ 256 * w.fw_major + 16 * w.fw_minor + w.fw_patch = c[FirmwareVersion]
              /\ \A i \in 1..SerialNumberCount :
                   256 * w.serial_number[2 * i - 1] + w.serial_number[2 * i]
                     = c[SerialNumberStart + i - 1]
              /\ w.modbus_address = c[ModbusAddress]
              /\ w.ascii_unit_id = c[AsciiUnitId]
              /\ w.full_scale_flow_raw = JoinUnsigned(c[FullScaleFlowUserUnits],
                                                      c[FullScaleFlowUserUnits + 1])
              /\ w.flow_units = c[FlowUnitsCode]
      BY <3>4, IdentityDecoded
    <3>. QED
      BY <3>1, <3>2, <3>3, <3>5, Zenon
  <2>12. result'.value[1] = InstrumentIdentity(q)
    BY <2>8, <2>9
  <2>. QED
    BY <2>4, <2>11, <2>12 DEF IdentityIsWhole, At, JoinUnsigned
<1>. QED
  BY <1>1, <1>2, AnsweredStep DEF IdentityInv

(* ReadIdentity hands over the whole of the identity, each part from its   *)
(* registers, if what these hold does not change while they are read.      *)
THEOREM IdentityIsWholeHolds ==
  ASSUME IdentityFixed
  PROVE  Spec => []IdentityIsWhole
<1>1. Init => IdentityInv
  <2>. SUFFICES ASSUME Init PROVE IdentityInv
    OBVIOUS
  <2>1. held = Power /\ Idle /\ ~Answered("ReadIdentity")
    BY DEF Init, Idle, NoJob, Answered
  <2>2. \A r \in ByteRegisters : At(1, r) < 256
    BY <2>1, SMT DEF At, IdentityFixed
  <2>3. IdentityIsWhole
    BY <2>1 DEF IdentityIsWhole
  <2>. QED
    BY <2>1, <2>2, <2>3, Zenon DEF IdentityInv, IdentityRead
<1>2. TypeInv /\ IdentityInv /\ [Next]_vars => IdentityInv'
  BY BytesNext, IdentityReadNext, IdentityWholeNext, Zenon DEF IdentityInv
<1>3. IdentityInv => IdentityIsWhole
  BY DEF IdentityInv
<1>. QED
  BY <1>1, <1>2, <1>3, TypeInvHolds, PTL DEF Spec

=============================================================================
