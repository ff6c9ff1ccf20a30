-------------------------- MODULE CommandsProofs --------------------------
(***************************************************************************)
(* Lemmas about Words and Commands: that numbers packed into registers     *)
(* come out again, and what each command requests.                         *)
(***************************************************************************)
EXTENDS Commands, SequenceTheorems, TLAPS

-----------------------------------------------------------------------------
(* Words.                                                                  *)

(* The words are the integers from 0 to 65535.                             *)
LEMMA WordBounds ==
  ASSUME NEW w \in Word
  PROVE  w \in Int /\ 0 <= w /\ w < 65536
<1>1. w \in Int /\ 0 <= w /\ w <= MaxWord
  BY SMT DEF Word
<1>2. MaxWord = 65535
  BY DEF MaxWord
<1>. QED
  BY <1>1, <1>2, SMT

LEMMA IsWord ==
  ASSUME NEW w \in Int, 0 <= w, w < 65536
  PROVE  w \in Word
<1>1. MaxWord = 65535
  BY DEF MaxWord
<1>2. w <= MaxWord /\ MaxWord \in Int
  BY <1>1, SMT
<1>. QED
  BY <1>2, SMT DEF Word

(* The halves of an integer fit a register each.                           *)
LEMMA HalfWords ==
  ASSUME NEW n \in Int
  PROVE  Low(n) \in Word /\ High(n) \in Word
<1>1. ASSUME NEW m \in Int PROVE m % 65536 \in Word
  <2>1. m % 65536 \in Int /\ 0 <= m % 65536 /\ m % 65536 < 65536
    BY SMT
  <2>. QED
    BY <2>1, IsWord
<1>2. n \div 65536 \in Int
  BY SMT
<1>. QED
  BY <1>1, <1>2 DEF Low, High

(* A register read as signed is an int16_t of the same bits.               *)
LEMMA SignedWord ==
  ASSUME NEW w \in Word
  PROVE  Signed(w) \in Int16 /\ Signed(w) \in Int /\ Low(Signed(w)) = w
<1>1. w \in Int /\ 0 <= w /\ w < 65536
  BY WordBounds
<1>2. w % 65536 = w
  BY <1>1, SMT
<1>3. (w - 65536) % 65536 = w
  <2>1. ASSUME NEW q \in Int, q = w - 65536 PROVE q % 65536 = w
    BY <1>1, <2>1, SMT
  <2>. QED
    BY <1>1, <2>1, w - 65536 \in Int, SMT
<1>4. Signed(w) \in Int /\ -32768 <= Signed(w) /\ Signed(w) <= 32767
  BY <1>1, SMT DEF Signed
<1>5. Signed(w) \in Int16
  <2>1. MaxInt16 = 32767
    BY DEF MaxInt16
  <2>2. MaxInt16 \in Int /\ -MaxInt16 - 1 <= Signed(w) /\ Signed(w) <= MaxInt16
    BY <2>1, <1>4, SMT
  <2>. QED
    BY <1>4, <2>2, SMT DEF Int16
<1>6. CASE w < 32768
  <2>1. Signed(w) = w
    BY <1>6 DEF Signed
  <2>. QED
    BY <1>2, <1>4, <1>5, <2>1, SMT DEF Low
<1>7. CASE ~(w < 32768)
  <2>1. Signed(w) = w - 65536
    BY <1>7 DEF Signed
  <2>. QED
    BY <1>3, <1>4, <1>5, <2>1, SMT DEF Low
<1>. QED
  BY <1>6, <1>7, SMT

(* Joining two registers loses neither half ...                            *)
LEMMA JoinHalves ==
  ASSUME NEW hi \in Word, NEW lo \in Word
  PROVE  High(Join(hi, lo)) = hi /\ Low(Join(hi, lo)) = lo
<1>1. hi \in Int /\ lo \in Int /\ 0 <= lo /\ lo < 65536
  BY WordBounds
<1>2. ASSUME NEW s \in Int
      PROVE  (s * 65536 + lo) % 65536 = lo /\ (s * 65536 + lo) \div 65536 = s
  BY <1>1, SMT
<1>3. Signed(hi) \in Int /\ Signed(hi) % 65536 = hi
  BY SignedWord DEF Low
<1>. QED
  BY <1>2, <1>3, SMT DEF High, Low, Join

(* ... and gives back the int32_t that was split into them.                *)
LEMMA HalvesJoin ==
  ASSUME NEW n \in Int32
  PROVE  n \in Int /\ Join(High(n), Low(n)) = n
<1>1. n \in Int /\ n >= -MaxInt32 - 1 /\ n <= MaxInt32
  <2>1. MaxInt32 \in Int
    BY SMT DEF MaxInt32
  <2>. QED
    BY <2>1, SMT DEF Int32
<1>2. MaxInt32 = 2147483647
  BY DEF MaxInt32
<1>3. /\ n \div 65536 \in Int
      /\ n = 65536 * (n \div 65536) + (n % 65536)
      /\ n % 65536 >= 0 /\ n % 65536 < 65536
  BY <1>1, SMT
<1>4. n \div 65536 >= -32768 /\ n \div 65536 <= 32767
  BY <1>1, <1>2, <1>3, SMT
<1>5. ASSUME NEW q \in Int, q >= -32768, q <= 32767
      PROVE  Signed(q % 65536) = q
  BY <1>5, SMT DEF Signed
<1>6. Signed(High(n)) = n \div 65536
  BY <1>3, <1>4, <1>5, SMT DEF High
<1>. QED
  BY <1>1, <1>3, <1>6, SMT DEF Join, Low

(* A register is its two bytes, and its high byte and two nibbles.         *)
LEMMA Packed ==
  ASSUME NEW w \in Word
  PROVE  /\ 256 * HighByte(w) + LowByte(w) = w
         /\ 256 * HighByte(w) + 16 * Nibble(w) + (w % 16) = w
<1>1. w \in Int /\ 0 <= w /\ w < 65536
  BY WordBounds
<1>2. (w \div 256) % 256 = w \div 256
  BY <1>1, SMT
<1>3. w = 256 * (w \div 256) + (w % 256)
  BY <1>1, SMT
<1>4. w % 256 = 16 * ((w \div 16) % 16) + (w % 16)
  BY <1>1, SMT
<1>. QED
  BY <1>1, <1>2, <1>3, <1>4, SMT DEF HighByte, Nibble, LowByte

(* The five lowest bits of a register.                                     *)
LEMMA Bits ==
  ASSUME NEW w \in Word
  PROVE  w % 32 = (IF IsSet(w, 0) THEN 1 ELSE 0) + (IF IsSet(w, 1) THEN 2 ELSE 0)
                    + (IF IsSet(w, 2) THEN 4 ELSE 0) + (IF IsSet(w, 3) THEN 8 ELSE 0)
                    + (IF IsSet(w, 4) THEN 16 ELSE 0)
<1>. DEFINE b(n) == IF (w \div n) % 2 = 1 THEN 1 ELSE 0
<1>1. w \in Int /\ 0 <= w /\ w < 65536
  BY WordBounds
<1>2. w % 32 = b(1) + 2 * b(2) + 4 * b(4) + 8 * b(8) + 16 * b(16)
  <2>1. ASSUME NEW n \in Int
        PROVE  n \div 2 \in Int /\ n = 2 * (n \div 2) + (IF n % 2 = 1 THEN 1 ELSE 0)
    BY SMT
  <2>2. /\ w \div 1 = w
        /\ w \div 4 = (w \div 2) \div 2
        /\ w \div 8 = (w \div 4) \div 2
        /\ w \div 16 = (w \div 8) \div 2
        /\ w \div 32 = (w \div 16) \div 2
    BY <1>1, SMT
  <2>3. /\ w \div 2 \in Int  /\ w = 2 * (w \div 2) + b(1)
        /\ w \div 4 \in Int  /\ w \div 2 = 2 * (w \div 4) + b(2)
        /\ w \div 8 \in Int  /\ w \div 4 = 2 * (w \div 8) + b(4)
        /\ w \div 16 \in Int /\ w \div 8 = 2 * (w \div 16) + b(8)
        /\ w \div 32 \in Int /\ w \div 16 = 2 * (w \div 32) + b(16)
    BY <1>1, <2>1, <2>2
  <2>4. b(1) \in Int /\ b(2) \in Int /\ b(4) \in Int /\ b(8) \in Int /\ b(16) \in Int
    BY SMT
  <2>. HIDE DEF b
  <2>5. w = 32 * (w \div 32) + b(1) + 2 * b(2) + 4 * b(4) + 8 * b(8) + 16 * b(16)
    BY <1>1, <2>3, <2>4, SMT
  <2>6. PICK q \in Int, m \in Int, c1 \in Int, c2 \in Int, c4 \in Int, c8 \in Int, c16 \in Int :
          /\ q = w \div 32 /\ m = w % 32
          /\ c1 = b(1) /\ c2 = b(2) /\ c4 = b(4) /\ c8 = b(8) /\ c16 = b(16)
    <3>1. w \div 32 \in Int /\ w % 32 \in Int
      BY <1>1, SMT
    <3>. QED
      BY <2>4, <3>1, Zenon
  <2>7. w = 32 * q + m
    BY <1>1, <2>6, SMT
  <2>8. w = 32 * q + c1 + 2 * c2 + 4 * c4 + 8 * c8 + 16 * c16
    BY <2>5, <2>6, Zenon
  <2>9. m = c1 + 2 * c2 + 4 * c4 + 8 * c8 + 16 * c16
    BY <1>1, <2>7, <2>8, SMT
  <2>. QED
    BY <2>6, <2>9, Zenon
<1>3. /\ IsSet(w, 0) <=> b(1) = 1
      /\ IsSet(w, 1) <=> b(2) = 1
      /\ IsSet(w, 2) <=> b(4) = 1
      /\ IsSet(w, 3) <=> b(8) = 1
      /\ IsSet(w, 4) <=> b(16) = 1
  <2>1. 2^0 = 1 /\ 2^1 = 2 /\ 2^2 = 4 /\ 2^3 = 8 /\ 2^4 = 16
    BY SMT
  <2>. QED
    BY <2>1 DEF IsSet
<1>4. /\ b(1) \in {0, 1} /\ b(2) \in {0, 1} /\ b(4) \in {0, 1} /\ b(8) \in {0, 1}
      /\ b(16) \in {0, 1}
  OBVIOUS
<1>5. /\ (IF IsSet(w, 0) THEN 1 ELSE 0) = b(1)
      /\ (IF IsSet(w, 1) THEN 2 ELSE 0) = 2 * b(2)
      /\ (IF IsSet(w, 2) THEN 4 ELSE 0) = 4 * b(4)
      /\ (IF IsSet(w, 3) THEN 8 ELSE 0) = 8 * b(8)
      /\ (IF IsSet(w, 4) THEN 16 ELSE 0) = 16 * b(16)
  <2>. HIDE DEF b
  <2>. QED
    BY <1>3, <1>4, SMT
<1>. HIDE DEF b
<1>. QED
  BY <1>2, <1>5, Zenon

(* The cast of a float leaves less than one of the register's units, and   *)
(* nothing beyond the float.                                               *)
LEMMA TruncatedLeaves ==
  ASSUME NEW t \in Int
  PROVE  /\ Truncated(t) \in Int
         /\ t >= 0 => 10 * Truncated(t) <= t /\ t < 10 * Truncated(t) + 10
         /\ t < 0  => 10 * Truncated(t) >= t /\ t > 10 * Truncated(t) - 10
  BY SMT DEF Truncated

-----------------------------------------------------------------------------
(* Commands and their requests.                                            *)

(* The requests are well-formed.                                           *)
LEMMA BuiltFrames ==
  /\ \A reg, count \in Nat : BuildReadHolding(Unit, reg, count) \in RequestFrames
  /\ \A reg \in Nat, word \in Word : BuildWriteSingle(Unit, reg, word) \in RequestFrames
  /\ \A reg \in Nat, hi, lo \in Word :
       BuildWriteMultiple(Unit, reg, <<hi, lo>>) \in RequestFrames
<1>. DEFINE F == [unit : Nat, fn : FunctionCodes \cup {ExceptionMask + c : c \in FunctionCodes},
                  reg : Nat, count : Nat, words : Seq(Word)]
<1>1. Unit \in Nat /\ FunctionCodes = {3, 6, 16}
  BY DEF Unit, FunctionCodes, ReadHolding, WriteSingle, WriteMultiple
<1>2. ASSUME NEW reg \in Nat, NEW count \in Nat, NEW fn \in FunctionCodes,
             NEW words \in Seq(Word), fn # ReadHolding => count = Len(words)
      PROVE  [unit |-> Unit, fn |-> fn, reg |-> reg, count |-> count, words |-> words]
               \in RequestFrames
  <2>. DEFINE f == [unit |-> Unit, fn |-> fn, reg |-> reg, count |-> count, words |-> words]
  <2>1. f \in Frame
    BY <1>1, Zenon DEF Frame
  <2>. QED
    BY <1>2, <2>1, Zenon DEF RequestFrames
<1>3. ReadHolding \in FunctionCodes /\ WriteSingle \in FunctionCodes
      /\ WriteMultiple \in FunctionCodes
  BY DEF FunctionCodes
<1>4. \A reg, count \in Nat : BuildReadHolding(Unit, reg, count) \in RequestFrames
  <2>1. <<>> \in Seq(Word)
    OBVIOUS
  <2>. QED
    BY <1>2, <1>3, <2>1, Zenon DEF BuildReadHolding
<1>5. \A reg \in Nat, word \in Word : BuildWriteSingle(Unit, reg, word) \in RequestFrames
  <2>. TAKE reg \in Nat, word \in Word
  <2>1. <<word>> \in Seq(Word) /\ Len(<<word>>) = 1
    <3>. HIDE DEF Word
    <3>. QED OBVIOUS
  <2>. QED
    BY <1>2, <1>3, <2>1, 1 \in Nat, Zenon DEF BuildWriteSingle
<1>6. \A reg \in Nat, hi, lo \in Word :
        BuildWriteMultiple(Unit, reg, <<hi, lo>>) \in RequestFrames
  <2>. TAKE reg \in Nat, hi, lo \in Word
  <2>1. <<hi, lo>> \in Seq(Word) /\ Len(<<hi, lo>>) \in Nat
    OBVIOUS
  <2>. QED
    BY <1>2, <1>3, <2>1, Zenon DEF BuildWriteMultiple
<1>. QED
  BY <1>4, <1>5, <1>6, Zenon

(* What a command may write is an integer.                                 *)
LEMMA ValueType ==
  ASSUME NEW cmd, WellTyped(cmd), NEW value \in Values(cmd)
  PROVE  value \in Int
<1>1. CASE cmd.name \in FloatCommands
  <2>1. cmd.arg.tenths \in Int
    BY <1>1 DEF WellTyped
  <2>. QED
    BY <1>1, <2>1, TruncatedLeaves, JunkAssumption DEF Values, Cast
<1>2. CASE cmd.name \notin FloatCommands
  <2>1. cmd.arg \in Nat
    BY <1>2 DEF WellTyped
  <2>2. kMagicTare \in Int /\ kMagicFactoryRestore \in Int
    BY SMT DEF kMagicTare, kMagicFactoryRestore
  <2>. QED
    BY <1>2, <2>1, <2>2, SMT DEF Values
<1>. QED
  BY <1>1, <1>2

(* The commands that read.                                                 *)
LEMMA ReadCommands ==
  ASSUME NEW cmd, NEW value
  PROVE  /\ DOMAIN Reads = {"ReadInstantaneous", "ReadIdentity", "ReadMeasurement"}
         /\ cmd.name = "ReadInstantaneous" =>
              Requests(cmd, value, Unit) = <<BuildReadHolding(Unit, SelectedGas, 10)>>
         /\ cmd.name = "ReadMeasurement" =>
              Requests(cmd, value, Unit) = <<BuildReadHolding(Unit, MeasurementSampleCount, 14)>>
         /\ cmd.name = "ReadIdentity" =>
              Requests(cmd, value, Unit) =
                <<BuildReadHolding(Unit, FirmwareVersion, 1),
                  BuildReadHolding(Unit, SerialNumberStart, SerialNumberCount),
                  BuildReadHolding(Unit, ModbusAddress, 5)>>
<1>1. DOMAIN Reads = {"ReadInstantaneous", "ReadIdentity", "ReadMeasurement"}
  BY DEF Reads
<1>2. /\ Reads["ReadInstantaneous"] = <<<<SelectedGas, 10>>>>
      /\ Reads["ReadMeasurement"] = <<<<MeasurementSampleCount, 14>>>>
      /\ Reads["ReadIdentity"] = <<<<FirmwareVersion, 1>>,
                                   <<SerialNumberStart, SerialNumberCount>>,
                                   <<ModbusAddress, 5>>>>
  BY DEF Reads, LiveBlock, IdentityBlocks, WindowBlock
<1>3. ASSUME NEW reg, NEW count, Reads[cmd.name] = <<<<reg, count>>>>, cmd.name \in DOMAIN Reads
      PROVE  Requests(cmd, value, Unit) = <<BuildReadHolding(Unit, reg, count)>>
  BY <1>3 DEF Requests
<1>4. cmd.name = "ReadIdentity" =>
        Requests(cmd, value, Unit) =
          <<BuildReadHolding(Unit, FirmwareVersion, 1),
            BuildReadHolding(Unit, SerialNumberStart, SerialNumberCount),
            BuildReadHolding(Unit, ModbusAddress, 5)>>
  BY <1>1, <1>2 DEF Requests
<1>. QED
  BY <1>1, <1>2, <1>3, <1>4

(* The commands that write make one request, of one register or two.       *)
LEMMA WriteCommands ==
  ASSUME NEW cmd, WellTyped(cmd), cmd.name \notin DOMAIN Reads, NEW value \in Values(cmd)
  PROVE  /\ value \in Int
         /\ cmd.name \in DOMAIN PairRegister =>
              /\ PairRegister[cmd.name] \in Nat
              /\ Requests(cmd, value, Unit) =
                   <<BuildWriteMultiple(Unit, PairRegister[cmd.name], <<High(value), Low(value)>>)>>
         /\ cmd.name \notin DOMAIN PairRegister =>
              /\ SingleRegister(cmd.name) \in Nat
              /\ Requests(cmd, value, Unit) =
                   <<BuildWriteSingle(Unit, SingleRegister(cmd.name), Low(value))>>
<1>1. value \in Int
  BY ValueType
<1>2. cmd.name \in DOMAIN PairRegister => PairRegister[cmd.name] \in Nat
  BY SMT DEF PairRegister, SetpointCommand, MaxSetpointRamp, TotalizerBatchVolume
<1>3. cmd.name \notin DOMAIN PairRegister => SingleRegister(cmd.name) \in Nat
  <2>1. cmd.name \in DOMAIN ControlRegister => ControlRegister[cmd.name] \in Nat
    BY SMT DEF ControlRegister, SetpointSource, CommWatchdogMs, TareCommand, AutotareEnable
  <2>2. cmd.name \in DOMAIN FlowRegister => FlowRegister[cmd.name] \in Nat
    BY SMT DEF FlowRegister, SelectedGas, TotalizerResetCommand, TotalizerLimitMode,
               FlowAveragingMs, ReferenceTemperature
  <2>3. cmd.name \in DOMAIN MeasurementRegister => MeasurementRegister[cmd.name] \in Nat
    BY SMT DEF MeasurementRegister, MeasurementTriggerMode, MeasurementSampleCount
  <2>4. cmd.name \in DOMAIN BusRegister => BusRegister[cmd.name] \in Nat
    BY SMT DEF BusRegister, AsciiUnitId, BaudRate, FactoryRestoreCommand
  <2>. QED
    BY <2>1, <2>2, <2>3, <2>4 DEF SingleRegister, WellTyped, CommandNames
<1>. QED
  BY <1>1, <1>2, <1>3 DEF Requests, Pair

(* Either way, a command has requests to make, and they are well-formed.   *)
LEMMA RequestsType ==
  ASSUME NEW cmd, WellTyped(cmd), NEW value \in Values(cmd)
  PROVE  Requests(cmd, value, Unit) \in Seq(RequestFrames) \ {<<>>}
<1>1. CASE cmd.name \in DOMAIN Reads
  <2>1. \A reg, count \in Nat : BuildReadHolding(Unit, reg, count) \in RequestFrames
    BY BuiltFrames
  <2>2. /\ SelectedGas \in Nat /\ MeasurementSampleCount \in Nat /\ FirmwareVersion \in Nat
        /\ SerialNumberStart \in Nat /\ SerialNumberCount \in Nat /\ ModbusAddress \in Nat
        /\ 1 \in Nat /\ 5 \in Nat /\ 10 \in Nat /\ 14 \in Nat
    BY SMT DEF SelectedGas, MeasurementSampleCount, FirmwareVersion, SerialNumberStart,
               SerialNumberCount, ModbusAddress
  <2>3. PICK f \in RequestFrames, g \in RequestFrames, h \in RequestFrames :
          Requests(cmd, value, Unit) = <<f>> \/ Requests(cmd, value, Unit) = <<f, g, h>>
    BY <1>1, <2>1, <2>2, ReadCommands, ZenonT(40)
  <2>. HIDE DEF RequestFrames
  <2>4. <<f>> \in Seq(RequestFrames) \ {<<>>} /\ <<f, g, h>> \in Seq(RequestFrames) \ {<<>>}
    OBVIOUS
  <2>. QED
    BY <2>3, <2>4, Zenon
<1>2. CASE cmd.name \notin DOMAIN Reads
  <2>1. value \in Int /\ Low(value) \in Word /\ High(value) \in Word
    BY ValueType, HalfWords
  <2>2. \E f \in RequestFrames : Requests(cmd, value, Unit) = <<f>>
    BY <1>2, <2>1, WriteCommands, BuiltFrames, Zenon
  <2>. QED
    BY <2>2
<1>. QED
  BY <1>1, <1>2
=============================================================================
