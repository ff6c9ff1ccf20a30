---------------------------- MODULE SessionProofs ----------------------------
(***************************************************************************)
(* Proofs about Session, for any setpoint sources, any outcome of an       *)
(* undefined cast and any number of crashes and restarts.                  *)
(***************************************************************************)
EXTENDS Session, CommandsProofs

-----------------------------------------------------------------------------
(* The scripts.                                                            *)

IsJoined(r, s, t) == r = s \o t

Pieces(D, r, s, m, t, n) ==
  /\ r \in Seq(D) /\ Len(r) = m + n
  /\ \A i \in 1..m : r[i] = s[i]
  /\ \A i \in 1..n : r[m + i] = t[i]

(* Two pieces of a script, one after the other.                            *)
LEMMA Joined ==
  ASSUME NEW D, NEW s \in Seq(D), NEW t \in Seq(D), NEW r, IsJoined(r, s, t),
         NEW m \in Nat, NEW n \in Nat, Len(s) = m, Len(t) = n
  PROVE  Pieces(D, r, s, m, t, n)
<1>. DEFINE q == s \o t
<1>1. /\ q \in Seq(D) /\ Len(q) = m + n
      /\ \A i \in 1..m + n : q[i] = IF i <= m THEN s[i] ELSE t[i - m]
  BY ConcatProperties
<1>. HIDE DEF q
<1>2. \A i \in 1..m : q[i] = s[i]
  BY <1>1
<1>3. ASSUME NEW i \in 1..n PROVE q[m + i] = t[i]
  <2>1. m + i \in 1..m + n /\ ~(m + i <= m) /\ (m + i) - m = i
    OBVIOUS
  <2>. QED
    BY <1>1, <2>1, Zenon
<1>4. r = q
  BY DEF q, IsJoined
<1>. QED
  BY <1>1, <1>2, <1>3, <1>4 DEF Pieces

(* The full example, step by step.                                         *)
LEMMA FullScript ==
  Scripts["full"] =
    <<Command("Probe", 0), Delay(246 * SweepMs), Command("ReadIdentity", 0),
      Command("SetGas", 3), Command("SetReferenceTemperatureC", Number(25000)),
      Command("SetFlowAveragingMs", 50), Command("SetTotalizerLimitMode", 0),
      Command("SetCommWatchdogMs", 2000), Command("SetSetpointSource", 2),
      Command("SetSetpoint", Number(25000)), Command("Tare", 0),
      Command("ResetTotalizer", 0), Command("ConfigureMeasurementTrigger", 0),
      Command("StartMeasurementSamples", 200), Delay(700), Command("ReadMeasurement", 0),
      Command("ReadInstantaneous", 0), Delay(1000)>>
<1>. DEFINE c1  == Command("Probe", 0)
            c2  == Delay(246 * SweepMs)
            c3  == Command("ReadIdentity", 0)
            c4  == Command("SetGas", 3)
            c5  == Command("SetReferenceTemperatureC", Number(25000))
            c6  == Command("SetFlowAveragingMs", 50)
            c7  == Command("SetTotalizerLimitMode", 0)
            c8  == Command("SetCommWatchdogMs", 2000)
            c9  == Command("SetSetpointSource", 2)
            c10 == Command("SetSetpoint", Number(25000))
            c11 == Command("Tare", 0)
            c12 == Command("ResetTotalizer", 0)
            c13 == Command("ConfigureMeasurementTrigger", 0)
            c14 == Command("StartMeasurementSamples", 200)
            c15 == Delay(700)
            c16 == Command("ReadMeasurement", 0)
            c17 == Command("ReadInstantaneous", 0)
            c18 == Delay(1000)
<1>1. Scripts["full"] =
        <<c1, c2>> \o <<c3>> \o (<<c4, c5, c6, c7>> \o <<c8>>)
          \o <<c9, c10, c11, c12>> \o <<c13, c14, c15, c16>> \o <<c17, c18>>
  BY DEF Scripts, Sweep, Configuration, Watchdog, SetpointDemo, MeasurementDemo, Measuring, Loop,
         kReadIntervalMs
<1>. HIDE DEF c1, c2, c3, c4, c5, c6, c7, c8, c9, c10, c11, c12, c13, c14, c15, c16, c17, c18
<1>. DEFINE D  == {c1, c2, c3, c4, c5, c6, c7, c8, c9, c10, c11, c12, c13, c14, c15, c16, c17,
                   c18}
            T  == <<c1, c2, c3, c4, c5, c6, c7, c8, c9, c10, c11, c12, c13, c14, c15, c16, c17,
                    c18>>
            A  == <<c1, c2>>
            B  == <<c3>>
            F  == <<c4, c5, c6, c7>>
            W  == <<c8>>
            P  == <<c9, c10, c11, c12>>
            M  == <<c13, c14, c15, c16>>
            L  == <<c17, c18>>
            S1 == A \o B
            S2 == F \o W
            S3 == S1 \o S2
            S4 == S3 \o P
            S5 == S4 \o M
            S6 == S5 \o L
<1>. /\ c1 \in D /\ c2 \in D /\ c3 \in D /\ c4 \in D /\ c5 \in D /\ c6 \in D /\ c7 \in D
     /\ c8 \in D /\ c9 \in D /\ c10 \in D /\ c11 \in D /\ c12 \in D /\ c13 \in D
     /\ c14 \in D /\ c15 \in D /\ c16 \in D /\ c17 \in D /\ c18 \in D
  OBVIOUS
<1>. HIDE DEF D
<1>2. A \in Seq(D) /\ Len(A) = 2 /\ A[1] = c1 /\ A[2] = c2
  OBVIOUS
<1>3. B \in Seq(D) /\ Len(B) = 1 /\ B[1] = c3
  OBVIOUS
<1>4. F \in Seq(D) /\ Len(F) = 4 /\ F[1] = c4 /\ F[2] = c5 /\ F[3] = c6 /\ F[4] = c7
  OBVIOUS
<1>5. W \in Seq(D) /\ Len(W) = 1 /\ W[1] = c8
  OBVIOUS
<1>6. P \in Seq(D) /\ Len(P) = 4 /\ P[1] = c9 /\ P[2] = c10 /\ P[3] = c11 /\ P[4] = c12
  OBVIOUS
<1>7. M \in Seq(D) /\ Len(M) = 4 /\ M[1] = c13 /\ M[2] = c14 /\ M[3] = c15 /\ M[4] = c16
  OBVIOUS
<1>8. L \in Seq(D) /\ Len(L) = 2 /\ L[1] = c17 /\ L[2] = c18
  OBVIOUS
<1>. HIDE DEF A, B, F, W, P, M, L
<1>9. /\ IsJoined(S1, A, B) /\ IsJoined(S2, F, W) /\ IsJoined(S3, S1, S2)
      /\ IsJoined(S4, S3, P) /\ IsJoined(S5, S4, M) /\ IsJoined(S6, S5, L)
  BY Zenon DEF IsJoined
<1>. HIDE DEF S1, S2, S3, S4, S5, S6
<1>10. S1 \in Seq(D) /\ Len(S1) = 3 /\ Pieces(D, S1, A, 2, B, 1)
  <2>1. 2 \in Nat /\ 1 \in Nat
    OBVIOUS
  <2>2. Pieces(D, S1, A, 2, B, 1)
    BY <1>9, <2>1, <1>2, <1>3, Joined, Zenon
  <2>. QED
    BY <2>2 DEF Pieces
<1>11. S2 \in Seq(D) /\ Len(S2) = 5 /\ Pieces(D, S2, F, 4, W, 1)
  <2>1. 4 \in Nat /\ 1 \in Nat
    OBVIOUS
  <2>2. Pieces(D, S2, F, 4, W, 1)
    BY <1>9, <2>1, <1>4, <1>5, Joined, Zenon
  <2>. QED
    BY <2>2 DEF Pieces
<1>12. S3 \in Seq(D) /\ Len(S3) = 8 /\ Pieces(D, S3, S1, 3, S2, 5)
  <2>1. 3 \in Nat /\ 5 \in Nat
    OBVIOUS
  <2>2. Pieces(D, S3, S1, 3, S2, 5)
    BY <1>9, <2>1, <1>10, <1>11, Joined, Zenon
  <2>. QED
    BY <2>2 DEF Pieces
<1>13. S4 \in Seq(D) /\ Len(S4) = 12 /\ Pieces(D, S4, S3, 8, P, 4)
  <2>1. 8 \in Nat /\ 4 \in Nat
    OBVIOUS
  <2>2. Pieces(D, S4, S3, 8, P, 4)
    BY <1>9, <2>1, <1>6, <1>12, Joined, Zenon
  <2>. QED
    BY <2>2 DEF Pieces
<1>14. S5 \in Seq(D) /\ Len(S5) = 16 /\ Pieces(D, S5, S4, 12, M, 4)
  <2>1. 12 \in Nat /\ 4 \in Nat
    OBVIOUS
  <2>2. Pieces(D, S5, S4, 12, M, 4)
    BY <1>9, <2>1, <1>7, <1>13, Joined, Zenon
  <2>. QED
    BY <2>2 DEF Pieces
<1>15. S6 \in Seq(D) /\ Len(S6) = 18 /\ Pieces(D, S6, S5, 16, L, 2)
  <2>1. 16 \in Nat /\ 2 \in Nat
    OBVIOUS
  <2>2. Pieces(D, S6, S5, 16, L, 2)
    BY <1>9, <2>1, <1>8, <1>14, Joined, Zenon
  <2>. QED
    BY <2>2 DEF Pieces
<1>16. /\ Len(S6) = 18
       /\ S6[1] = c1 /\ S6[2] = c2 /\ S6[3] = c3 /\ S6[4] = c4 /\ S6[5] = c5
       /\ S6[6] = c6 /\ S6[7] = c7 /\ S6[8] = c8 /\ S6[9] = c9 /\ S6[10] = c10
       /\ S6[11] = c11 /\ S6[12] = c12 /\ S6[13] = c13 /\ S6[14] = c14 /\ S6[15] = c15
       /\ S6[16] = c16 /\ S6[17] = c17 /\ S6[18] = c18
  BY <1>2, <1>3, <1>4, <1>5, <1>6, <1>7, <1>8, <1>10, <1>11, <1>12, <1>13, <1>14, <1>15
     DEF Pieces
<1>17. /\ T \in Seq(D) /\ Len(T) = 18
       /\ T[1] = c1 /\ T[2] = c2 /\ T[3] = c3 /\ T[4] = c4 /\ T[5] = c5
       /\ T[6] = c6 /\ T[7] = c7 /\ T[8] = c8 /\ T[9] = c9 /\ T[10] = c10
       /\ T[11] = c11 /\ T[12] = c12 /\ T[13] = c13 /\ T[14] = c14 /\ T[15] = c15
       /\ T[16] = c16 /\ T[17] = c17 /\ T[18] = c18
  OBVIOUS
<1>. HIDE DEF T
<1>18. \A i \in 1..Len(S6) : S6[i] = T[i]
  BY <1>16, <1>17
<1>19. S6 = T
  BY <1>15, <1>16, <1>17, <1>18, SeqEqual, Zenon
<1>20. Scripts["full"] = S6
  BY <1>1, Zenon DEF S6, S5, S4, S3, S2, S1, A, B, F, W, P, M, L
<1>. QED
  BY <1>19, <1>20, SMT DEF T, c1, c2, c3, c4, c5, c6, c7, c8, c9, c10, c11, c12, c13, c14, c15,
                           c16, c17, c18

(* The minimal one.                                                        *)
LEMMA MinimalScript ==
  Scripts["minimal"] =
    <<Command("ReadIdentity", 0), Command("ReadInstantaneous", 0), Delay(1000)>>
<1>1. ASSUME NEW a, NEW b, NEW c PROVE <<a>> \o <<b, c>> = <<a, b, c>>
  <2>. DEFINE D == {a, b, c}
              A == <<a>>
              B == <<b, c>>
              T == <<a, b, c>>
              S == A \o B
  <2>1. A \in Seq(D) /\ Len(A) = 1 /\ A[1] = a
    OBVIOUS
  <2>2. B \in Seq(D) /\ Len(B) = 2 /\ B[1] = b /\ B[2] = c
    OBVIOUS
  <2>3. T \in Seq(D) /\ Len(T) = 3 /\ T[1] = a /\ T[2] = b /\ T[3] = c
    OBVIOUS
  <2>4. IsJoined(S, A, B)
    BY Zenon DEF IsJoined
  <2>. HIDE DEF D, A, B, T, S
  <2>5. Pieces(D, S, A, 1, B, 2)
    BY <2>1, <2>2, <2>4, Joined, 1 \in Nat, 2 \in Nat, Zenon
  <2>6. S \in Seq(D) /\ Len(S) = 3 /\ S[1] = a /\ S[2] = b /\ S[3] = c
    BY <2>1, <2>2, <2>5 DEF Pieces
  <2>7. \A i \in 1..Len(S) : S[i] = T[i]
    BY <2>3, <2>6
  <2>8. S = T
    BY <2>3, <2>6, <2>7, SeqEqual, Zenon
  <2>. QED
    BY <2>8, Zenon DEF S, A, B, T
<1>2. Scripts["minimal"] =
        <<Command("ReadIdentity", 0)>> \o <<Command("ReadInstantaneous", 0), Delay(1000)>>
  BY DEF Scripts, Loop, kReadIntervalMs
<1>. QED
  BY <1>1, <1>2, SMT

(* Which step is what, in either.                                          *)
LEMMA Steps ==
  ASSUME NEW p, p \in {"full", "minimal"}
  PROVE  LET S == Scripts[p]
         IN  /\ Len(S) = IF p = "full" THEN 18 ELSE 3
             /\ \A i \in 1..Len(S) :
                  /\ S[i].name = "delay" <=> i \in IF p = "full" THEN {2, 15, 18} ELSE {3}
                  /\ S[i].name = "Probe" <=> p = "full" /\ i = 1
                  /\ S[i].name = "ReadIdentity" <=> i = IF p = "full" THEN 3 ELSE 1
                  /\ S[i].name = "SetCommWatchdogMs" <=> p = "full" /\ i = 8
                  /\ S[i].name = "SetSetpointSource" <=> p = "full" /\ i = 9
                  /\ S[i].name = "SetSetpoint" <=> p = "full" /\ i = 10
                  /\ S[i].name = "StartMeasurementSamples" <=> p = "full" /\ i = 14
                  /\ S[i].name = "ReadMeasurement" <=> p = "full" /\ i = 16
                  /\ S[i].name \notin {"SetMaxSetpointRamp", "SetTotalizerBatch"}
                  /\ p = "minimal" /\ i # 3 => S[i].name \in DOMAIN Reads
                  /\ S[i].name \notin {"delay", "Probe"} => WellTyped(S[i])
             /\ p = "full" =>
                  /\ S[2].arg = 9840 /\ S[8].arg = 2000 /\ S[9].arg = 2 /\ S[14].arg = 200
                  /\ S[15].arg = 700 /\ S[18].arg = 1000
             /\ p = "minimal" => S[3].arg = 1000
<1>1. CASE p = "full"
  <2>1. /\ Len(Scripts["full"]) = 18
        /\ Scripts["full"][1] = Command("Probe", 0)
        /\ Scripts["full"][2] = Delay(246 * SweepMs)
        /\ Scripts["full"][3] = Command("ReadIdentity", 0)
        /\ Scripts["full"][4] = Command("SetGas", 3)
        /\ Scripts["full"][5] = Command("SetReferenceTemperatureC", Number(25000))
        /\ Scripts["full"][6] = Command("SetFlowAveragingMs", 50)
        /\ Scripts["full"][7] = Command("SetTotalizerLimitMode", 0)
        /\ Scripts["full"][8] = Command("SetCommWatchdogMs", 2000)
        /\ Scripts["full"][9] = Command("SetSetpointSource", 2)
        /\ Scripts["full"][10] = Command("SetSetpoint", Number(25000))
        /\ Scripts["full"][11] = Command("Tare", 0)
        /\ Scripts["full"][12] = Command("ResetTotalizer", 0)
        /\ Scripts["full"][13] = Command("ConfigureMeasurementTrigger", 0)
        /\ Scripts["full"][14] = Command("StartMeasurementSamples", 200)
        /\ Scripts["full"][15] = Delay(700)
        /\ Scripts["full"][16] = Command("ReadMeasurement", 0)
        /\ Scripts["full"][17] = Command("ReadInstantaneous", 0)
        /\ Scripts["full"][18] = Delay(1000)
    BY FullScript, SMT
  <2>2. \A name, arg : Command(name, arg).name = name /\ Command(name, arg).arg = arg
    BY DEF Command
  <2>3. \A ms : Delay(ms).name = "delay" /\ Delay(ms).arg = ms
    BY DEF Delay
  <2>4. 246 * SweepMs = 9840
    BY SMT DEF SweepMs
  <2>5. \A arg \in Nat : \A name \in CommandNames \ FloatCommands : WellTyped(Command(name, arg))
    BY <2>2 DEF WellTyped
  <2>6. \A name \in FloatCommands : WellTyped(Command(name, Number(25000)))
    <3>1. Number(25000) \in [number : BOOLEAN, tenths : Int]
      BY SMT DEF Number
    <3>2. FloatCommands \subseteq CommandNames
      BY DEF FloatCommands, CommandNames, PairRegister, FlowRegister
    <3>3. ASSUME NEW name \in FloatCommands, NEW arg \in [number : BOOLEAN, tenths : Int]
          PROVE  WellTyped(Command(name, arg))
      BY <2>2, <3>2 DEF WellTyped
    <3>. QED
      BY <3>1, <3>3
  <2>7. {"ReadIdentity", "SetGas", "SetFlowAveragingMs", "SetTotalizerLimitMode",
         "SetCommWatchdogMs", "SetSetpointSource", "Tare", "ResetTotalizer",
         "ConfigureMeasurementTrigger", "StartMeasurementSamples", "ReadMeasurement",
         "ReadInstantaneous"} \subseteq CommandNames \ FloatCommands
    BY DEF CommandNames, FloatCommands, Reads, FlowRegister, ControlRegister, MeasurementRegister
  <2>8. {"SetReferenceTemperatureC", "SetSetpoint"} \subseteq FloatCommands
    BY DEF FloatCommands
  <2>9. 0 \in Nat /\ 2 \in Nat /\ 3 \in Nat /\ 50 \in Nat /\ 200 \in Nat /\ 2000 \in Nat
    BY SMT
  <2>10. \A i \in 1..18 : Scripts["full"][i].name \notin {"delay", "Probe"} =>
                            WellTyped(Scripts["full"][i])
    BY <2>1, <2>2, <2>3, <2>5, <2>6, <2>7, <2>8, <2>9, SMTT(30)
  <2>. QED
    BY <1>1, <2>1, <2>2, <2>3, <2>4, <2>10, SMT
<1>2. CASE p = "minimal"
  <2>1. /\ Len(Scripts["minimal"]) = 3
        /\ Scripts["minimal"][1] = Command("ReadIdentity", 0)
        /\ Scripts["minimal"][2] = Command("ReadInstantaneous", 0)
        /\ Scripts["minimal"][3] = Delay(1000)
    BY MinimalScript, SMT
  <2>2. \A name, arg : Command(name, arg).name = name /\ Command(name, arg).arg = arg
    BY DEF Command
  <2>3. \A ms : Delay(ms).name = "delay" /\ Delay(ms).arg = ms
    BY DEF Delay
  <2>4. /\ "ReadIdentity" \in DOMAIN Reads /\ "ReadInstantaneous" \in DOMAIN Reads
        /\ "ReadIdentity" \notin FloatCommands /\ "ReadInstantaneous" \notin FloatCommands
    BY DEF Reads, FloatCommands
  <2>5. \A i \in 1..2 : WellTyped(Scripts["minimal"][i])
    BY <2>1, <2>2, <2>4, SMT DEF WellTyped, CommandNames
  <2>. QED
    BY <1>2, <2>1, <2>2, <2>3, <2>4, <2>5, SMT
<1>. QED
  BY <1>1, <1>2

-----------------------------------------------------------------------------
(* What the instrument does with a request.                                *)

LEMMA KeptRegisters ==
  /\ Kept = {514, 516, 2053, 2054} /\ CommWatchdogMs = 514 /\ SetpointSource = 516
  /\ SetpointCommand = 2053 /\ MeasurementSampleCount = 4201 /\ Unit = 1
BY SMT DEF Kept, CommWatchdogMs, SetpointSource, SetpointCommand, MeasurementSampleCount, Unit

(* A request that is carried out writes the registers it names, and those  *)
(* only.                                                                   *)
Wrote(f) == IF f.fn = ReadHolding THEN {} ELSE f.reg .. (f.reg + f.count - 1)

LEMMA Applied ==
  ASSUME NEW f, Apply(f)
  PROVE  /\ regs' = [r \in Kept |-> IF r \in Wrote(f) THEN f.words[r - f.reg + 1] ELSE regs[r]]
         /\ sampling' = IF MeasurementSampleCount \in Wrote(f)
                        THEN (f.words[1] * 25 + 999) \div 1000 ELSE sampling
BY Zenon DEF Apply, Wrote

LEMMA AppliedWords ==
  ASSUME NEW f, Apply(f), regs \in [Kept -> Word],
         \A r \in Wrote(f) \cap Kept : f.words[r - f.reg + 1] \in Word
  PROVE  /\ regs' \in [Kept -> Word]
         /\ \A r \in Kept : regs'[r] = IF r \in Wrote(f) THEN f.words[r - f.reg + 1] ELSE regs[r]
         /\ MeasurementSampleCount \notin Wrote(f) => sampling' = sampling
<1>. DEFINE new(r) == IF r \in Wrote(f) THEN f.words[r - f.reg + 1] ELSE regs[r]
<1>1. \A r \in Kept : new(r) \in Word
  BY Zenon
<1>2. regs' = [r \in Kept |-> new(r)]
  BY Applied, Zenon
<1>3. MeasurementSampleCount \notin Wrote(f) => sampling' = sampling
  <2>1. sampling' = IF MeasurementSampleCount \in Wrote(f)
                    THEN (f.words[1] * 25 + 999) \div 1000 ELSE sampling
    BY Applied
  <2>. HIDE DEF new
  <2>. QED
    BY <2>1
<1>. HIDE DEF new
<1>4. regs' \in [Kept -> Word] /\ \A r \in Kept : regs'[r] = new(r)
  BY <1>1, <1>2, Zenon
<1>. QED
  BY <1>3, <1>4, Zenon DEF new

(* A read changes nothing.                                                 *)
LEMMA AppliedRead ==
  ASSUME NEW reg, NEW count, Apply(BuildReadHolding(Unit, reg, count)),
         regs \in [Kept -> Word]
  PROVE  /\ regs' \in [Kept -> Word] /\ \A r \in Kept : regs'[r] = regs[r]
         /\ sampling' = sampling
<1>. DEFINE f == BuildReadHolding(Unit, reg, count)
<1>1. Wrote(f) = {}
  BY DEF Wrote, BuildReadHolding
<1>. HIDE DEF f
<1>2. Apply(f)
  BY Zenon DEF f
<1>. QED
  BY <1>1, <1>2, AppliedWords

(* A write of one register changes that one, and may start a measurement.  *)
LEMMA AppliedSingle ==
  ASSUME NEW reg \in Nat, NEW word \in Word, Apply(BuildWriteSingle(Unit, reg, word)),
         regs \in [Kept -> Word]
  PROVE  /\ regs' \in [Kept -> Word]
         /\ \A r \in Kept : regs'[r] = IF r = reg THEN word ELSE regs[r]
         /\ MeasurementSampleCount # reg => sampling' = sampling
         /\ MeasurementSampleCount = reg => sampling' = (word * 25 + 999) \div 1000
<1>. DEFINE f == BuildWriteSingle(Unit, reg, word)
<1>1. f.fn # ReadHolding /\ f.reg = reg /\ f.count = 1 /\ f.words = <<word>>
  BY DEF BuildWriteSingle, ReadHolding, WriteSingle
<1>2. Apply(f)
  OBVIOUS
<1>. HIDE DEF f, Word
<1>3. Wrote(f) = {reg} /\ f.words[1] = word /\ reg - f.reg + 1 = 1
  BY <1>1 DEF Wrote
<1>4. /\ regs' \in [Kept -> Word]
      /\ \A r \in Kept : regs'[r] = IF r \in {reg} THEN f.words[r - f.reg + 1] ELSE regs[r]
      /\ MeasurementSampleCount \notin {reg} => sampling' = sampling
  <2>1. \A r \in {reg} \cap Kept : f.words[r - f.reg + 1] \in Word
    BY <1>3
  <2>. QED
    BY <1>2, <1>3, <2>1, AppliedWords
<1>5. \A r \in Kept : regs'[r] = IF r = reg THEN word ELSE regs[r]
  BY <1>3, <1>4
<1>6. MeasurementSampleCount = reg => sampling' = (word * 25 + 999) \div 1000
  <2>1. sampling' = IF MeasurementSampleCount \in {reg}
                    THEN (word * 25 + 999) \div 1000 ELSE sampling
    BY <1>2, <1>3, Applied
  <2>. QED
    BY <2>1, ZenonT(40)
<1>7. MeasurementSampleCount # reg => sampling' = sampling
  BY <1>4
<1>. QED
  BY <1>4, <1>5, <1>6, <1>7

(* A write of a pair changes no other register, and starts no measurement. *)
LEMMA AppliedPair ==
  ASSUME NEW hi \in Word, NEW lo \in Word,
         Apply(BuildWriteMultiple(Unit, SetpointCommand, <<hi, lo>>)), regs \in [Kept -> Word]
  PROVE  /\ regs' \in [Kept -> Word] /\ regs'[514] = regs[514] /\ regs'[516] = regs[516]
         /\ sampling' = sampling
<1>. DEFINE f == BuildWriteMultiple(Unit, SetpointCommand, <<hi, lo>>)
<1>1. f.fn # ReadHolding /\ f.reg = SetpointCommand /\ f.count = 2 /\ f.words = <<hi, lo>>
  BY DEF BuildWriteMultiple, ReadHolding, WriteMultiple
<1>2. Apply(f)
  OBVIOUS
<1>. HIDE DEF f, Word
<1>3. f.words[1] = hi /\ f.words[2] = lo
  BY <1>1
<1>4. Wrote(f) = {2053, 2054}
  <2>1. Wrote(f) = 2053 .. 2054
    BY <1>1, KeptRegisters, SMT DEF Wrote
  <2>. QED
    BY <2>1, SMT
<1>5. 2053 - f.reg + 1 = 1 /\ 2054 - f.reg + 1 = 2
  BY <1>1, KeptRegisters, SMT
<1>6. \A r \in Wrote(f) \cap Kept : f.words[r - f.reg + 1] \in Word
  BY <1>3, <1>4, <1>5, SMT
<1>7. 514 \in Kept \ Wrote(f) /\ 516 \in Kept \ Wrote(f) /\ MeasurementSampleCount \notin Wrote(f)
  BY <1>4, KeptRegisters, SMT
<1>. QED
  BY <1>2, <1>6, <1>7, AppliedWords, SMT

(* The registers that are written one by one.                              *)
LEMMA SingleRegisters ==
  ASSUME NEW cmd, WellTyped(cmd), cmd.name \notin DOMAIN Reads, cmd.name \notin DOMAIN PairRegister
  PROVE  /\ SingleRegister(cmd.name) \notin {2053, 2054}
         /\ SingleRegister(cmd.name) = 514 <=> cmd.name = "SetCommWatchdogMs"
         /\ SingleRegister(cmd.name) = 516 <=> cmd.name = "SetSetpointSource"
         /\ SingleRegister(cmd.name) = 4201 <=> cmd.name = "StartMeasurementSamples"
<1>1. /\ DOMAIN ControlRegister = {"SetSetpointSource", "SetCommWatchdogMs", "Tare",
                                   "SetAutotareEnabled"}
      /\ ControlRegister["SetSetpointSource"] = 516 /\ ControlRegister["SetCommWatchdogMs"] = 514
      /\ ControlRegister["Tare"] = 39 /\ ControlRegister["SetAutotareEnabled"] = 515
  BY SMT DEF ControlRegister, SetpointSource, CommWatchdogMs, TareCommand, AutotareEnable
<1>2. /\ DOMAIN FlowRegister = {"SetGas", "ResetTotalizer", "SetTotalizerLimitMode",
                                "SetFlowAveragingMs", "SetReferenceTemperatureC"}
      /\ FlowRegister["SetGas"] = 2100 /\ FlowRegister["ResetTotalizer"] = 53
      /\ FlowRegister["SetTotalizerLimitMode"] = 54 /\ FlowRegister["SetFlowAveragingMs"] = 55
      /\ FlowRegister["SetReferenceTemperatureC"] = 52
  BY SMT DEF FlowRegister, SelectedGas, TotalizerResetCommand, TotalizerLimitMode,
             FlowAveragingMs, ReferenceTemperature
<1>3. /\ DOMAIN MeasurementRegister = {"ConfigureMeasurementTrigger", "StartMeasurementSamples"}
      /\ MeasurementRegister["ConfigureMeasurementTrigger"] = 4200
      /\ MeasurementRegister["StartMeasurementSamples"] = 4201
  BY SMT DEF MeasurementRegister, MeasurementTriggerMode, MeasurementSampleCount
<1>4. /\ DOMAIN BusRegister = {"SetAsciiUnitId", "SetBaudRate", "FactoryRestore"}
      /\ BusRegister["SetAsciiUnitId"] = 46 /\ BusRegister["SetBaudRate"] = 21
      /\ BusRegister["FactoryRestore"] = 80
  BY SMT DEF BusRegister, AsciiUnitId, BaudRate, FactoryRestoreCommand
<1>5. \/ cmd.name \in DOMAIN ControlRegister \/ cmd.name \in DOMAIN FlowRegister
      \/ cmd.name \in DOMAIN MeasurementRegister \/ cmd.name \in DOMAIN BusRegister
  BY DEF WellTyped, CommandNames
<1>6. CASE cmd.name \in DOMAIN ControlRegister
  <2>1. SingleRegister(cmd.name) = ControlRegister[cmd.name]
    BY <1>6, Zenon DEF SingleRegister
  <2>. QED
    BY <1>1, <1>6, <2>1, SMT
<1>7. CASE cmd.name \in DOMAIN FlowRegister
  <2>1. SingleRegister(cmd.name) = FlowRegister[cmd.name]
    BY <1>1, <1>2, <1>7, SMT DEF SingleRegister
  <2>. QED
    BY <1>2, <1>7, <2>1, SMT
<1>8. CASE cmd.name \in DOMAIN MeasurementRegister
  <2>1. SingleRegister(cmd.name) = MeasurementRegister[cmd.name]
    BY <1>1, <1>2, <1>3, <1>8, SMT DEF SingleRegister
  <2>. QED
    BY <1>3, <1>8, <2>1, SMT
<1>9. CASE cmd.name \in DOMAIN BusRegister
  <2>1. SingleRegister(cmd.name) = BusRegister[cmd.name]
    BY <1>1, <1>2, <1>3, <1>4, <1>9, SMT DEF SingleRegister
  <2>. QED
    BY <1>4, <1>9, <2>1, SMT
<1>. QED
  BY <1>5, <1>6, <1>7, <1>8, <1>9

-----------------------------------------------------------------------------
(* The host and the instrument together.                                   *)

(* What the request at this step does to the instrument, if accepted: the  *)
(* watchdog, the source and the setpoint are each set by one step of the   *)
(* full example, and a measurement is started by one.                      *)
Step(i) == program = "full" /\ at = i

Effect ==
  /\ regs' \in [Kept -> Word]
  /\ regs'[514] = IF Step(8) THEN 2000 ELSE regs[514]
  /\ regs'[516] = IF Step(9) THEN 2 ELSE regs[516]
  /\ Step(10) \/ (regs'[2053] = regs[2053] /\ regs'[2054] = regs[2054])
  /\ sampling' = IF Step(14) THEN 5 ELSE sampling

LEMMA Accepted ==
  ASSUME program \in {"full", "minimal"}, at \in 1..Len(Script), nth \in 1..3,
         nth <= RequestCount(Script[at].name), regs \in [Kept -> Word],
         Script[at].name # "delay",
         NEW requests \in RequestsOf(Script[at]), Apply(requests[nth])
  PROVE  Effect
<1>. DEFINE cmd == Script[at]
<1>1. /\ cmd.name = "Probe" <=> Step(1)
      /\ cmd.name = "SetCommWatchdogMs" <=> Step(8)
      /\ cmd.name = "SetSetpointSource" <=> Step(9)
      /\ cmd.name = "SetSetpoint" <=> Step(10)
      /\ cmd.name = "StartMeasurementSamples" <=> Step(14)
      /\ cmd.name \notin {"SetMaxSetpointRamp", "SetTotalizerBatch"}
      /\ cmd.name # "Probe" => WellTyped(cmd)
      /\ Step(8) => cmd.arg = 2000
      /\ Step(9) => cmd.arg = 2
      /\ Step(14) => cmd.arg = 200
  BY Steps, SMT DEF Script, Step
<1>2. cmd.name \notin DOMAIN Reads => nth = 1
  BY SMT DEF RequestCount
<1>3. ASSUME NEW reg, NEW count, requests[nth] = BuildReadHolding(Unit, reg, count),
             cmd.name \in DOMAIN Reads \cup {"Probe"}
      PROVE  Effect
  <2>1. regs' \in [Kept -> Word] /\ (\A r \in Kept : regs'[r] = regs[r]) /\ sampling' = sampling
    BY <1>3, AppliedRead
  <2>2. ~Step(8) /\ ~Step(9) /\ ~Step(14)
    <3>1. cmd.name \in {"ReadInstantaneous", "ReadIdentity", "ReadMeasurement", "Probe"}
      BY <1>3, ReadCommands, Zenon
    <3>. QED
      BY <1>1, <3>1
  <2>. QED
    BY <2>1, <2>2, KeptRegisters, SMT DEF Effect
<1>4. CASE cmd.name = "Probe"
  <2>1. requests = <<BuildReadHolding(Unit, FirmwareVersion, 1)>>
    BY <1>4 DEF RequestsOf
  <2>2. nth = 1
    BY <1>2, <1>4, ReadCommands
  <2>. QED
    BY <1>3, <1>4, <2>1, <2>2
<1>5. ASSUME cmd.name # "Probe"
      PROVE  \E value \in Values(cmd) : requests = Requests(cmd, value, Unit)
  BY <1>5, Zenon DEF RequestsOf
<1>6. CASE cmd.name \in DOMAIN Reads
  <2>1. cmd.name # "Probe"
    BY <1>6, ReadCommands
  <2>2. PICK value \in Values(cmd) : requests = Requests(cmd, value, Unit)
    BY <1>5, <2>1
  <2>3. \E reg, count : requests[nth] = BuildReadHolding(Unit, reg, count)
    <3>1. CASE cmd.name = "ReadIdentity"
      <4>1. requests = <<BuildReadHolding(Unit, FirmwareVersion, 1),
                         BuildReadHolding(Unit, SerialNumberStart, SerialNumberCount),
                         BuildReadHolding(Unit, ModbusAddress, 5)>>
        BY <2>2, <3>1, ReadCommands
      <4>2. nth = 1 \/ nth = 2 \/ nth = 3
        OBVIOUS
      <4>. QED
        BY <4>1, <4>2
    <3>2. CASE cmd.name = "ReadInstantaneous"
      <4>1. requests = <<BuildReadHolding(Unit, SelectedGas, 10)>>
        BY <2>2, <3>2, ReadCommands
      <4>2. nth = 1
        BY <1>6, <3>2, SMT DEF RequestCount, Reads, LiveBlock
      <4>. QED
        BY <4>1, <4>2
    <3>3. CASE cmd.name = "ReadMeasurement"
      <4>1. requests = <<BuildReadHolding(Unit, MeasurementSampleCount, 14)>>
        BY <2>2, <3>3, ReadCommands
      <4>2. nth = 1
        BY <1>6, <3>3, SMT DEF RequestCount, Reads, WindowBlock
      <4>. QED
        BY <4>1, <4>2
    <3>. QED
      BY <1>6, <3>1, <3>2, <3>3, ReadCommands
  <2>. QED
    BY <1>3, <1>6, <2>3
<1>7. CASE cmd.name \notin DOMAIN Reads /\ cmd.name # "Probe"
  <2>1. PICK value \in Values(cmd) : requests = Requests(cmd, value, Unit)
    BY <1>5, <1>7
  <2>2. WellTyped(cmd) /\ value \in Int /\ Low(value) \in Word /\ High(value) \in Word
    BY <1>1, <1>7, ValueType, HalfWords
  <2>3. DOMAIN PairRegister = {"SetSetpoint", "SetMaxSetpointRamp", "SetTotalizerBatch"}
        /\ PairRegister["SetSetpoint"] = SetpointCommand
    BY DEF PairRegister
  <2>4. CASE cmd.name = "SetSetpoint"
    <3>1. requests[nth] =
            BuildWriteMultiple(Unit, SetpointCommand, <<High(value), Low(value)>>)
      BY <1>2, <1>7, <2>1, <2>2, <2>3, <2>4, WriteCommands
    <3>2. /\ regs' \in [Kept -> Word] /\ regs'[514] = regs[514] /\ regs'[516] = regs[516]
          /\ sampling' = sampling
      BY <2>2, <3>1, AppliedPair
    <3>. QED
      BY <1>1, <2>4, <3>2, SMT DEF Effect
  <2>5. CASE cmd.name # "SetSetpoint"
    <3>. DEFINE reg  == SingleRegister(cmd.name)
                word == Low(value)
    <3>1. cmd.name \notin DOMAIN PairRegister
      BY <1>1, <2>3, <2>5
    <3>2. reg \in Nat /\ requests[nth] = BuildWriteSingle(Unit, reg, word)
      <4>1. reg \in Nat /\ requests = <<BuildWriteSingle(Unit, reg, word)>>
        BY <1>7, <2>1, <2>2, <3>1, WriteCommands, Zenon
      <4>. HIDE DEF reg, word
      <4>. QED
        BY <1>2, <1>7, <4>1
    <3>3. /\ regs' \in [Kept -> Word]
          /\ \A r \in Kept : regs'[r] = IF r = reg THEN word ELSE regs[r]
          /\ MeasurementSampleCount # reg => sampling' = sampling
          /\ MeasurementSampleCount = reg => sampling' = (word * 25 + 999) \div 1000
      BY <2>2, <3>2, AppliedSingle
    <3>4. /\ reg \notin {2053, 2054} /\ (reg = 514 <=> Step(8)) /\ (reg = 516 <=> Step(9))
          /\ (reg = 4201 <=> Step(14))
      BY <1>1, <1>7, <2>2, <3>1, SingleRegisters
    <3>5. Step(8) \/ Step(9) \/ Step(14) => value = cmd.arg
      BY <1>1, <2>1 DEF Values, FloatCommands
    <3>6. /\ Step(8) => word = 2000
          /\ Step(9) => word = 2
          /\ Step(14) => (word * 25 + 999) \div 1000 = 5
      BY <1>1, <3>5, SMT DEF Low
    <3>. HIDE DEF reg, word
    <3>. QED
      BY <3>3, <3>4, <3>6, KeptRegisters, SMT DEF Effect
  <2>. QED
    BY <2>4, <2>5
<1>. QED
  BY <1>4, <1>6, <1>7

-----------------------------------------------------------------------------
(* The invariant.                                                          *)

(* The step a state is at.                                                 *)
Placed(p, i) ==
  LET name == Scripts[p][i].name
  IN  /\ p \in {"full", "minimal"} /\ i \in Int /\ 1 <= i
      /\ i <= IF p = "full" THEN 18 ELSE 3
      /\ Len(Scripts[p]) = IF p = "full" THEN 18 ELSE 3
      /\ name = "delay" <=> i \in IF p = "full" THEN {2, 15, 18} ELSE {3}
      /\ name = "ReadMeasurement" <=> p = "full" /\ i = 16
      /\ RequestCount(name) = IF i = (IF p = "full" THEN 3 ELSE 1) THEN 3 ELSE 1

LEMMA Located ==
  ASSUME NEW p \in {"full", "minimal"}, NEW i \in 1..Len(Scripts[p])
  PROVE  Placed(p, i)
<1>1. \A name : RequestCount(name) = IF name = "ReadIdentity" THEN 3 ELSE 1
  <2>1. /\ DOMAIN Reads = {"ReadInstantaneous", "ReadIdentity", "ReadMeasurement"}
        /\ Len(Reads["ReadInstantaneous"]) = 1 /\ Len(Reads["ReadIdentity"]) = 3
        /\ Len(Reads["ReadMeasurement"]) = 1
    BY DEF Reads, LiveBlock, IdentityBlocks, WindowBlock
  <2>. QED
    BY <2>1 DEF RequestCount
<1>2. /\ Len(Scripts[p]) = IF p = "full" THEN 18 ELSE 3
      /\ Scripts[p][i].name = "delay" <=> i \in IF p = "full" THEN {2, 15, 18} ELSE {3}
      /\ Scripts[p][i].name = "ReadMeasurement" <=> p = "full" /\ i = 16
      /\ Scripts[p][i].name = "ReadIdentity" <=> i = IF p = "full" THEN 3 ELSE 1
  BY Steps
<1>. QED
  BY <1>1, <1>2, SMT DEF Placed

(* The sweep is the first two steps of the full example.                   *)
LEMMA SweepLength == Len(Sweep) = 2
BY DEF Sweep

LEMMA LocatedHere ==
  ASSUME SessionInv
  PROVE  Placed(program, at)
<1>1. program \in {"full", "minimal"} /\ at \in 1..Len(Scripts[program])
  BY DEF SessionInv, SessionTypeOK, Counted, Script
<1>. QED
  BY <1>1, Located, Zenon

LEMMA SendKeeps == SessionInv /\ Send => SessionInv'
<1>. SUFFICES ASSUME SessionInv, Send PROVE SessionInv'
  OBVIOUS
<1>1. PICK requests \in RequestsOf(Script[at]), heard \in BOOLEAN, accepted \in BOOLEAN,
           answered \in BOOLEAN :
        /\ accepted \/ answered => heard
        /\ IF accepted THEN Apply(requests[nth]) ELSE UNCHANGED <<regs, sampling, tared>>
        /\ silence' = IF heard THEN 0 ELSE silence
        /\ lost' = IF heard THEN 0 ELSE OneMore(lost)
        /\ ok' = (accepted /\ answered)
        /\ wait' \in IF accepted /\ answered THEN {0, 1} ELSE {Ticks(TimeoutOf(Script[at]))}
  BY DEF Send
<1>2. /\ phase = "ready" /\ Script[at].name # "delay" /\ phase' = "waiting"
      /\ program' = program /\ at' = at /\ nth' = nth /\ failed' = failed
      /\ crashes' = crashes /\ restarts' = restarts
  BY DEF Send
<1>3. SessionTypeOK /\ Counted /\ HeardLately /\ SampledInTime /\ MeasurementIsOver /\ Guarded
  BY DEF SessionInv
<1>4. /\ program \in {"full", "minimal"} /\ at \in Int
      /\ at \notin IF program = "full" THEN {2, 15, 18} ELSE {3}
      /\ Script' = Script
  BY <1>2, LocatedHere DEF Placed, Script
<1>5. accepted => Effect
  BY <1>1, <1>2, <1>3, Accepted DEF SessionTypeOK, Counted
<1>6. ~accepted => regs' = regs /\ sampling' = sampling
  BY <1>1
<1>7. wait' \in Int /\ 0 <= wait' /\ wait' <= 2
  <2>1. Ticks(SweepMs) = 0 /\ Ticks(kDefaultTimeoutMs) = 2
    BY SMT DEF Ticks, SweepMs, kDefaultTimeoutMs
  <2>. QED
    BY <1>1, <2>1 DEF TimeoutOf
<1>8. /\ regs' \in [Kept -> Word]
      /\ regs'[514] \in {regs[514], 2000} /\ (Step(8) /\ accepted => regs'[514] = 2000)
      /\ (~Step(8) => regs'[514] = regs[514])
      /\ regs'[516] \in {regs[516], 2} /\ (Step(9) /\ accepted => regs'[516] = 2)
      /\ (~Step(9) => regs'[516] = regs[516])
      /\ (regs'[2053] = regs[2053] /\ regs'[2054] = regs[2054]) \/ (Step(10) /\ accepted)
      /\ sampling' \in {sampling, 5}
  BY <1>3, <1>5, <1>6, SMTT(30) DEF Effect, SessionTypeOK
<1>9. SessionTypeOK'
  <2>1. sampling' \in 0..Ticks(700) /\ silence' \in 0..LongSilence /\ lost' \in 0..2
    BY <1>1, <1>3, <1>8, SMT DEF SessionTypeOK, Ticks, LongSilence, OneMore
  <2>. QED
    BY <1>2, <1>3, <1>4, <1>8, <2>1 DEF SessionTypeOK
<1>10. Counted'
  BY <1>1, <1>2, <1>3, <1>4, <1>7, <1>8, KeptRegisters, SMT DEF Counted, Closed, Step
<1>11. HeardLately'
  <2>1. lost' = 0 => silence' = 0
    BY <1>1, <1>3, SMT DEF SessionTypeOK, OneMore
  <2>2. Script'[at'].name # "delay" /\ phase' = "waiting"
    BY <1>2, <1>4
  <2>3. lost' = 0 => silence' + wait' <= 2
    <3>1. \A s, w \in Int : s <= 0 /\ w <= 2 => s + w <= 2
      BY SMT
    <3>2. silence' \in Int /\ (lost' = 0 => silence' <= 0)
      BY <1>1, <1>3, <2>1, SMT DEF SessionTypeOK
    <3>. QED
      BY <1>7, <3>1, <3>2, Zenon
  <2>. QED
    BY <2>2, <2>3, Zenon DEF HeardLately
<1>12. SampledInTime' /\ MeasurementIsOver'
  BY <1>2, <1>4, SMT DEF SampledInTime, MeasurementIsOver
<1>13. Guarded'
  <2>1. silence' \in {0, silence} /\ (accepted => silence' = 0) /\ (ok' => accepted)
        /\ silence \in Int /\ 0 <= silence
    BY <1>1, <1>3, SMT DEF SessionTypeOK
  <2>. QED
    BY <1>2, <1>3, <1>4, <1>8, <2>1, KeptRegisters, SMT DEF Guarded, Closed, Step
<1>. QED
  BY <1>9, <1>10, <1>11, <1>12, <1>13 DEF SessionInv

LEMMA InitKeeps == Init => SessionInv
<1>. SUFFICES ASSUME Init PROVE SessionInv
  OBVIOUS
<1>1. program \in {"full", "minimal"} /\ at = 1 /\ nth = 1 /\ phase = "ready" /\ wait = 0
      /\ ok = TRUE /\ failed = FALSE /\ crashes = 0 /\ restarts = 0 /\ sampling = 0
      /\ silence = 0 /\ lost = 0
  BY SessionAssumption DEF Init
<1>2. /\ regs \in [Kept -> Word] /\ regs[514] = 0 /\ regs[2053] = 0 /\ regs[2054] = 0
  <2>1. PICK source \in Sources : regs = [r \in Kept |-> IF r = SetpointSource THEN source ELSE 0]
    BY DEF Init
  <2>2. source \in Word /\ 0 \in Word
    BY SessionAssumption, IsWord, SMT
  <2>3. regs \in [Kept -> Word] /\ \A r \in Kept : r # 516 => regs[r] = 0
    <3>. HIDE DEF Kept, Word
    <3>1. regs \in [Kept -> Word]
      BY <2>1, <2>2, Zenon
    <3>2. \A r \in Kept : regs[r] = IF r = SetpointSource THEN source ELSE 0
      BY <2>1, Zenon
    <3>. QED
      BY <3>1, <3>2, KeptRegisters
  <2>. QED
    BY <2>3, KeptRegisters, SMT
<1>3. at \in 1..Len(Script)
  BY <1>1, Steps, SMT DEF Script
<1>4. Placed(program, at)
  BY <1>1, <1>3, Located, Zenon DEF Script
<1>5. SessionTypeOK
  BY <1>1, <1>2, <1>3, <1>4, SMT DEF SessionTypeOK, Placed, Script, Ticks, LongSilence
<1>6. Counted /\ Closed
  <2>1. SetpointCommand + 1 = 2054
    BY KeptRegisters, SMT
  <2>2. Closed
    BY <1>2, <2>1, KeptRegisters DEF Closed
  <2>3. Counted
    <3>1. regs[CommWatchdogMs] \in {0, 2000} /\ wait \in 0..98 /\ crashes \in Nat
          /\ restarts \in Nat
      BY <1>1, <1>2, KeptRegisters, SMT
    <3>2. regs[CommWatchdogMs] = 0
      BY <1>2, KeptRegisters
    <3>3. ok \in BOOLEAN /\ failed \in BOOLEAN /\ phase # "crashed"
      BY <1>1
    <3>. QED
      BY <1>1, <2>2, <3>1, <3>2, <3>3 DEF Counted
  <2>. QED
    BY <2>2, <2>3
<1>7. HeardLately
  BY <1>1, SMT DEF HeardLately
<1>8. SampledInTime /\ MeasurementIsOver
  BY <1>1 DEF SampledInTime, MeasurementIsOver
<1>9. Guarded
  BY <1>1, <1>6, SMT DEF Guarded
<1>. QED
  BY <1>5, <1>6, <1>7, <1>8, <1>9 DEF SessionInv

LEMMA PauseKeeps == SessionInv /\ Pause => SessionInv'
<1>. SUFFICES ASSUME SessionInv, Pause PROVE SessionInv'
  OBVIOUS
<1>1. /\ phase = "ready" /\ Script[at].name = "delay" /\ phase' = "waiting" /\ ok' = TRUE
      /\ wait' = Ticks(Script[at].arg)
      /\ program' = program /\ at' = at /\ nth' = nth /\ failed' = failed
      /\ crashes' = crashes /\ restarts' = restarts /\ regs' = regs /\ sampling' = sampling
      /\ silence' = silence /\ lost' = lost
  BY DEF Pause, instrument
<1>2. SessionTypeOK /\ Counted /\ HeardLately /\ SampledInTime /\ MeasurementIsOver /\ Guarded
  BY DEF SessionInv
<1>3. /\ program \in {"full", "minimal"} /\ at \in Int /\ Script' = Script
      /\ at \in IF program = "full" THEN {2, 15, 18} ELSE {3}
  BY <1>1, LocatedHere DEF Placed, Script
<1>4. /\ program = "full" /\ at = 2 => wait' = 98
      /\ program = "full" /\ at = 15 => wait' = 7
      /\ program = "full" /\ at = 18 => wait' = 10
      /\ program = "minimal" => wait' = 10
  BY <1>1, <1>3, Steps, SMTT(30) DEF Script, Ticks
<1>5. SessionTypeOK'
  BY <1>1, <1>2, <1>3 DEF SessionTypeOK
<1>6. Counted'
  BY <1>1, <1>2, <1>3, <1>4, SMT DEF Counted, Closed
<1>7. wait' \in Int /\ 0 <= wait' /\ (at # 2 \/ program = "minimal" => wait' <= 10)
      /\ silence \in Int /\ 0 <= silence /\ sampling \in Int /\ sampling <= 7
  BY <1>2, <1>3, <1>4, SMT DEF SessionTypeOK, Ticks
<1>8. HeardLately'
  <2>1. lost = 0 => silence <= 2
    BY <1>1, <1>2, SMT DEF HeardLately
  <2>2. \A s, w \in Int : s <= 2 /\ w <= 10 => s + w <= 12
    BY SMT
  <2>3. ~Probing' => at # 2 \/ program = "minimal"
    BY <1>1, <1>3, SweepLength DEF Probing
  <2>4. lost = 0 /\ ~Probing' => silence + wait' <= 12
    BY <1>7, <2>1, <2>2, <2>3, Zenon
  <2>. QED
    BY <1>1, <1>3, <2>1, <2>4 DEF HeardLately
<1>9. SampledInTime' /\ MeasurementIsOver'
  BY <1>1, <1>3, <1>4, <1>7, SMT DEF SampledInTime, MeasurementIsOver
<1>10. Guarded'
  BY <1>1, <1>2, <1>3, SMT DEF Guarded, Closed
<1>. QED
  BY <1>5, <1>6, <1>8, <1>9, <1>10 DEF SessionInv

LEMMA CrashKeeps == SessionInv /\ Crash => SessionInv'
<1>. SUFFICES ASSUME SessionInv, Crash PROVE SessionInv'
  OBVIOUS
<1>1. /\ phase # "crashed" /\ phase' = "crashed" /\ crashes' = crashes + 1
      /\ program' = program /\ at' = at /\ nth' = nth /\ failed' = failed /\ wait' = wait
      /\ ok' = ok /\ restarts' = restarts /\ regs' = regs /\ sampling' = sampling
      /\ silence' = silence /\ lost' = lost
  BY DEF Crash, instrument
<1>2. SessionTypeOK /\ Counted /\ HeardLately /\ SampledInTime /\ MeasurementIsOver /\ Guarded
  BY DEF SessionInv
<1>3. Script' = Script
  BY <1>1 DEF Script
<1>4. crashes \in Nat /\ restarts \in Nat /\ restarts <= crashes
  BY <1>2 DEF SessionTypeOK, Counted
<1>5. crashes' \in Nat /\ restarts' <= crashes' /\ restarts' < crashes'
  BY <1>1, <1>4, SMT
<1>6. SessionTypeOK'
  BY <1>1, <1>2, <1>3, <1>5 DEF SessionTypeOK
<1>7. Counted'
  BY <1>1, <1>2, <1>5 DEF Counted, Closed
<1>8. HeardLately' /\ SampledInTime' /\ MeasurementIsOver'
  BY <1>1 DEF HeardLately, SampledInTime, MeasurementIsOver
<1>9. Guarded'
  BY <1>1, <1>2 DEF Guarded, Closed
<1>. QED
  BY <1>6, <1>7, <1>8, <1>9 DEF SessionInv

LEMMA RestartKeeps == SessionInv /\ Restart => SessionInv'
<1>. SUFFICES ASSUME SessionInv, Restart PROVE SessionInv'
  OBVIOUS
<1>1. /\ phase = "crashed" /\ phase' = "ready" /\ restarts' = restarts + 1
      /\ at' = 1 /\ nth' = 1 /\ wait' = 0 /\ ok' = TRUE
      /\ program' = program /\ failed' = failed /\ crashes' = crashes /\ regs' = regs
      /\ sampling' = sampling /\ silence' = silence /\ lost' = lost
  BY DEF Restart, instrument
<1>2. SessionTypeOK /\ Counted /\ Guarded
  BY DEF SessionInv
<1>3. /\ crashes \in Nat /\ restarts \in Nat /\ restarts < crashes
      /\ program \in {"full", "minimal"}
  BY <1>1, <1>2 DEF SessionTypeOK, Counted
<1>4. restarts' \in Nat /\ restarts' <= crashes'
  BY <1>1, <1>3, SMT
<1>5. /\ 1 \in 1..Len(Scripts[program])
  BY <1>3, Steps, SMT
<1>6. Placed(program, 1)
  BY <1>3, <1>5, Located, Zenon
<1>7. SessionTypeOK'
  BY <1>1, <1>2, <1>4, <1>5, <1>6, SMT DEF SessionTypeOK, Placed, Script
<1>8. Counted'
  BY <1>1, <1>2, <1>4, SMT DEF Counted, Closed
<1>9. HeardLately' /\ SampledInTime' /\ MeasurementIsOver'
  BY <1>1, <1>6, SMT DEF HeardLately, SampledInTime, MeasurementIsOver, Placed, Script
<1>10. Guarded'
  BY <1>1, <1>2, SMT DEF Guarded, Closed
<1>. QED
  BY <1>7, <1>8, <1>9, <1>10 DEF SessionInv

(* The step after this one is the next, or the first of the loop.          *)
LEMMA ProceedKeeps == SessionInv /\ Proceed => SessionInv'
<1>. SUFFICES ASSUME SessionInv, Proceed PROVE SessionInv'
  OBVIOUS
<1>1. /\ phase = "waiting" /\ wait = 0 /\ phase' = "ready" /\ failed' = (failed \/ ~ok)
      /\ program' = program /\ wait' = wait /\ ok' = ok /\ crashes' = crashes
      /\ restarts' = restarts /\ regs' = regs /\ sampling' = sampling /\ silence' = silence
      /\ lost' = lost
  BY DEF Proceed, instrument
<1>2. SessionTypeOK /\ Counted /\ HeardLately /\ SampledInTime /\ MeasurementIsOver /\ Guarded
  BY DEF SessionInv
<1>3. Placed(program, at) /\ Script' = Script
  BY <1>1, LocatedHere DEF Script
<1>4. \/ /\ at = IF program = "full" THEN 3 ELSE 1
         /\ nth' = nth + 1 /\ nth < 3 /\ at' = at
      \/ /\ nth' = 1
         /\ at' = IF program = "full" THEN (IF at = 18 THEN 17 ELSE at + 1)
                  ELSE (IF at = 3 THEN 2 ELSE at + 1)
  <2>1. Following = IF program = "full" THEN (IF at = 18 THEN 17 ELSE at + 1)
                    ELSE (IF at = 3 THEN 2 ELSE at + 1)
    BY <1>3, SMT DEF Following, LoopFrom, Placed, Script
  <2>2. CASE ok /\ nth < RequestCount(Script[at].name)
    <3>1. nth' = nth + 1 /\ at' = at
      BY <2>2 DEF Proceed
    <3>2. at = (IF program = "full" THEN 3 ELSE 1) /\ nth < 3
      BY <1>2, <1>3, <2>2, SMT DEF Placed, Script, SessionTypeOK
    <3>. QED
      BY <3>1, <3>2
  <2>3. CASE ~(ok /\ nth < RequestCount(Script[at].name))
    BY <2>1, <2>3, Zenon DEF Proceed
  <2>. QED
    BY <2>2, <2>3
<1>5. at' \in 1..Len(Scripts[program])
  BY <1>3, <1>4, SMT DEF Placed
<1>6. Placed(program, at')
  <2>1. program \in {"full", "minimal"}
    BY <1>2 DEF Counted
  <2>. QED
    BY <1>5, <2>1, Located, Zenon
<1>7. SessionTypeOK'
  <2>1. nth' \in 1..3 /\ nth' <= RequestCount(Script[at'].name)
    BY <1>2, <1>3, <1>4, <1>6, SMT DEF SessionTypeOK, Placed, Script
  <2>. QED
    BY <1>1, <1>2, <1>3, <1>5, <2>1 DEF SessionTypeOK, Script
<1>8. Counted'
  BY <1>1, <1>2 DEF Counted, Closed
<1>9. at' \in Int /\ at \in Int /\ silence \in Int /\ sampling \in Int /\ 0 <= sampling
  BY <1>2, <1>3, <1>6, SMT DEF Placed, SessionTypeOK, Ticks
<1>10. HeardLately'
  <2>1. lost = 0 => IF Script[at].name # "delay" THEN silence <= 2 ELSE silence <= 12
    BY <1>1, <1>2, <1>9, SMT DEF HeardLately
  <2>2. /\ Script[at].name = "delay" <=> at \in IF program = "full" THEN {2, 15, 18} ELSE {3}
        /\ Script[at'].name = "delay" <=> at' \in IF program = "full" THEN {2, 15, 18} ELSE {3}
    BY <1>3, <1>6, Zenon DEF Placed, Script
  <2>3. Script[at'].name = "delay" => Script[at].name # "delay"
    BY <1>4, <1>9, <2>2, SMT
  <2>. QED
    BY <1>1, <1>3, <1>9, <2>1, <2>3, SMT DEF HeardLately
<1>11. SampledInTime'
  BY <1>1 DEF SampledInTime
<1>12. MeasurementIsOver'
  <2>1. Script[at'].name = "ReadMeasurement" => program = "full" /\ at' = 16
    BY <1>6, Zenon DEF Placed, Script
  <2>2. program = "full" /\ at' = 16 => at = 15
    BY <1>4, <1>9, SMT
  <2>3. program = "full" /\ at = 15 => sampling = 0
    BY <1>1, <1>2, <1>9, SMT DEF SampledInTime
  <2>. QED
    BY <1>1, <1>3, <2>1, <2>2, <2>3 DEF MeasurementIsOver
<1>13. Guarded'
  <2>. SUFFICES ASSUME program' = "full", ~failed'
                PROVE  Guarded'
    BY Zenon DEF Guarded
  <2>8. program = "full" /\ ~failed /\ ok
    BY <1>1, Zenon
  <2>1. /\ at >= 8 => regs[CommWatchdogMs] = 2000
        /\ at >= 9 => regs[SetpointSource] = 2
        /\ Closed \/ (regs[CommWatchdogMs] = 2000 /\ regs[SetpointSource] = 2 /\ silence <= 20)
    BY <1>1, <1>2, <1>9, <2>8, SMT DEF Guarded
  <2>3. at' > 8 => at >= 8
    BY <1>4, <1>9, <2>8, SMT
  <2>4. at' > 9 => at >= 9
    BY <1>4, <1>9, <2>8, SMT
  <2>6. Closed' <=> Closed
    BY <1>1 DEF Closed
  <2>. QED
    BY <1>1, <1>9, <2>1, <2>3, <2>4, <2>6, SMT DEF Guarded
<1>. QED
  BY <1>7, <1>8, <1>10, <1>11, <1>12, <1>13 DEF SessionInv

LEMMA TickKeeps == SessionInv /\ Tick => SessionInv'
<1>. SUFFICES ASSUME SessionInv, Tick PROVE SessionInv'
  OBVIOUS
<1>1. /\ phase = "crashed" \/ (phase = "waiting" /\ wait > 0)
      /\ wait' = IF phase = "crashed" THEN wait ELSE wait - 1
      /\ sampling' = IF sampling > 0 THEN sampling - 1 ELSE 0
      /\ program' = program /\ at' = at /\ nth' = nth /\ phase' = phase /\ ok' = ok
      /\ failed' = failed /\ crashes' = crashes /\ restarts' = restarts
      /\ regs' = IF Expired
                 THEN [regs EXCEPT ![SetpointCommand] = 0, ![SetpointCommand + 1] = 0] ELSE regs
  BY DEF Tick
<1>0. PICK heard \in IF Probing THEN BOOLEAN ELSE {FALSE} :
        /\ silence' = IF heard THEN 0
                      ELSE IF silence < LongSilence THEN silence + 1 ELSE LongSilence
        /\ lost' = IF heard THEN 0 ELSE IF Probing THEN OneMore(lost) ELSE lost
  BY DEF Tick
<1>2. SessionTypeOK /\ Counted /\ HeardLately /\ SampledInTime /\ MeasurementIsOver /\ Guarded
  BY DEF SessionInv
<1>3. Script' = Script
  BY <1>1 DEF Script
<1>4. /\ wait \in Int /\ 0 <= wait /\ wait <= 98
      /\ silence \in Int /\ 0 <= silence /\ silence <= 25
      /\ sampling \in Int /\ 0 <= sampling /\ sampling <= 7
  BY <1>2, SMT DEF SessionTypeOK, Counted, Ticks, LongSilence
<1>5. /\ regs' \in [Kept -> Word]
      /\ regs'[CommWatchdogMs] = regs[CommWatchdogMs]
      /\ regs'[SetpointSource] = regs[SetpointSource]
      /\ Closed \/ Expired => Closed'
      /\ ~Expired => regs' = regs
  <2>1. regs \in [Kept -> Word] /\ 0 \in Word
    BY <1>2, IsWord, SMT DEF SessionTypeOK
  <2>2. /\ CommWatchdogMs \in Kept /\ SetpointSource \in Kept /\ SetpointCommand \in Kept
        /\ SetpointCommand + 1 \in Kept
    BY DEF Kept
  <2>3. /\ CommWatchdogMs # SetpointCommand /\ CommWatchdogMs # SetpointCommand + 1
        /\ SetpointSource # SetpointCommand /\ SetpointSource # SetpointCommand + 1
    BY KeptRegisters, SMT
  <2>. HIDE DEF Kept, Word
  <2>4. CASE Expired
    <3>1. regs' = [regs EXCEPT ![SetpointCommand] = 0, ![SetpointCommand + 1] = 0]
      BY <1>1, <2>4
    <3>2. /\ regs' \in [Kept -> Word]
          /\ regs'[CommWatchdogMs] = regs[CommWatchdogMs]
          /\ regs'[SetpointSource] = regs[SetpointSource]
          /\ regs'[SetpointCommand] = 0 /\ regs'[SetpointCommand + 1] = 0
      BY <2>1, <2>2, <2>3, <3>1
    <3>. QED
      BY <2>4, <3>2 DEF Closed
  <2>5. CASE ~Expired
    <3>1. regs' = regs
      BY <1>1, <2>5
    <3>. QED
      BY <2>1, <2>5, <3>1 DEF Closed
  <2>. QED
    BY <2>4, <2>5
<1>6. /\ wait' \in Int /\ 0 <= wait' /\ wait' <= wait
      /\ phase = "waiting" => wait' = wait - 1
      /\ silence' \in Int /\ 0 <= silence' /\ silence' <= 25 /\ silence' <= silence + 1
      /\ lost' \in 0..2
      /\ IF Probing THEN lost' = 0 => silence' = 0 ELSE lost' = lost
      /\ sampling' \in Int /\ 0 <= sampling' /\ sampling' <= sampling
      /\ sampling' > 0 => sampling' <= sampling - 1
      /\ sampling = 0 => sampling' = 0
  <2>1. lost \in 0..2
    BY <1>2 DEF SessionTypeOK
  <2>2. CASE heard
    <3>1. silence' = 0 /\ lost' = 0 /\ Probing
      BY <1>0, <2>2
    <3>. QED
      BY <1>1, <1>4, <3>1, SMT
  <2>3. CASE ~heard
    <3>1. /\ silence' = IF silence < 25 THEN silence + 1 ELSE 25
          /\ lost' = IF Probing THEN OneMore(lost) ELSE lost
      BY <1>0, <2>3 DEF LongSilence
    <3>2. OneMore(lost) \in 0..2 /\ OneMore(lost) # 0
      BY <2>1, SMT DEF OneMore
    <3>. QED
      BY <1>1, <1>4, <2>1, <3>1, <3>2, SMT
  <2>. QED
    BY <2>2, <2>3
<1>7. SessionTypeOK'
  <2>1. sampling' \in 0..Ticks(700) /\ silence' \in 0..LongSilence
    BY <1>4, <1>6, SMT DEF Ticks, LongSilence
  <2>. QED
    BY <1>1, <1>2, <1>3, <1>5, <1>6, <2>1 DEF SessionTypeOK
<1>8. Counted'
  <2>1. wait' \in 0..98
    BY <1>4, <1>6, SMT
  <2>. QED
    BY <1>1, <1>2, <1>5, <2>1 DEF Counted
<1>9. phase = "waiting" => silence' + wait' <= silence + wait
  <2>1. \A x, w, r, v \in Int : r <= x + 1 /\ v = w - 1 => r + v <= x + w
    BY SMT
  <2>. QED
    BY <1>4, <1>6, <2>1, Zenon
<1>10. HeardLately'
  <2>1. Probing' <=> Probing
    BY <1>1 DEF Probing
  <2>2. CASE Probing
    <3>1. Script[at].name = "delay"
      BY <2>2, LocatedHere, SweepLength, SMT DEF Probing, Placed, Script
    <3>2. lost' = 0 => silence' <= 2
      BY <1>6, <2>2, SMT
    <3>. QED
      BY <1>1, <1>3, <2>1, <2>2, <3>1, <3>2 DEF HeardLately
  <2>3. CASE ~Probing
    <3>1. phase = "waiting" /\ lost = 0 =>
            silence + wait <= IF Script[at].name # "delay" THEN 2 ELSE 12
      BY <1>2, <2>3 DEF HeardLately
    <3>2. \A s, w, r, v \in Int : \A n \in {2, 12} :
            r + v <= s + w /\ s + w <= n => r + v <= n
      BY SMT
    <3>3. phase = "waiting" /\ lost = 0 =>
            silence' + wait' <= IF Script[at].name # "delay" THEN 2 ELSE 12
      BY <1>4, <1>6, <1>9, <3>1, <3>2
    <3>4. phase' = "crashed" \/ phase' = "waiting"
      BY <1>1
    <3>5. lost' = lost
      BY <1>6, <2>3
    <3>. QED
      BY <1>1, <1>3, <2>1, <2>3, <3>3, <3>4, <3>5 DEF HeardLately
  <2>. QED
    BY <2>2, <2>3
<1>11. SampledInTime'
  BY <1>1, <1>2, <1>4, <1>6, SMT DEF SampledInTime
<1>12. MeasurementIsOver'
  BY <1>1 DEF MeasurementIsOver
<1>13. Guarded'
  <2>1. ~Closed' /\ regs[CommWatchdogMs] = 2000 /\ regs[SetpointSource] = 2 => silence < 20
    <3>1. Ticks(2000) = 20 /\ 2000 > 0
      BY SMT DEF Ticks
    <3>2. ~Closed' => ~Expired
      BY <1>5
    <3>. QED
      BY <1>4, <3>1, <3>2 DEF Expired, Armed
  <2>2. silence < 20 => silence' <= 20
    BY <1>4, <1>6, SMT
  <2>. SUFFICES ASSUME program = "full", ~failed PROVE Guarded'
    BY <1>1, Zenon DEF Guarded
  <2>5. /\ at > 8 \/ (at = 8 /\ phase = "waiting" /\ ok) => regs[CommWatchdogMs] = 2000
        /\ at > 9 \/ (at = 9 /\ phase = "waiting" /\ ok) => regs[SetpointSource] = 2
        /\ Closed \/ (regs[CommWatchdogMs] = 2000 /\ regs[SetpointSource] = 2 /\ silence <= 20)
    BY <1>2, Zenon DEF Guarded
  <2>9. Closed => Closed'
    BY <1>5
  <2>7. Closed' \/ (regs[CommWatchdogMs] = 2000 /\ regs[SetpointSource] = 2 /\ silence' <= 20)
    BY <2>1, <2>2, <2>5, <2>9
  <2>10. /\ program' = program /\ failed' = failed /\ at' = at /\ phase' = phase /\ ok' = ok
         /\ regs'[CommWatchdogMs] = regs[CommWatchdogMs]
         /\ regs'[SetpointSource] = regs[SetpointSource]
    BY <1>1, <1>5
  <2>. QED
    BY <2>5, <2>7, <2>10 DEF Guarded
<1>. QED
  BY <1>7, <1>8, <1>10, <1>11, <1>12, <1>13 DEF SessionInv

-----------------------------------------------------------------------------
(* The theorems.                                                           *)

LEMMA SessionInductive == SessionInv /\ [Next]_vars => SessionInv'
<1>1. ASSUME SessionInv, UNCHANGED vars
      PROVE  SessionInv'
  BY <1>1 DEF SessionInv, SessionTypeOK, Counted, HeardLately, SampledInTime, MeasurementIsOver,
              Guarded, Closed, Probing, Script, vars, host, instrument
<1>. QED
  BY <1>1, SendKeeps, PauseKeeps, ProceedKeeps, CrashKeeps, RestartKeeps, TickKeeps, Zenon
     DEF Next

(* The invariant of the examples: on top of the script, how long the       *)
(* instrument may have heard nothing at each step, how long the measurement *)
(* still takes, and that no setpoint is open without its watchdog.         *)
THEOREM SessionInvHolds == Spec => []SessionInv
BY InitKeeps, SessionInductive, PTL DEF Spec

(* The host stays within its script, and the instrument's registers hold   *)
(* words, whatever is lost, refused or crashes.                            *)
THEOREM SessionTypeCorrect == Spec => []SessionTypeOK
<1>1. SessionInv => SessionTypeOK
  BY DEF SessionInv
<1>. QED
  BY <1>1, SessionInvHolds, PTL

(* The measurement is over when its data are read, in every run of the     *)
(* examples.                                                               *)
THEOREM MeasurementIsOverHolds == Spec => []MeasurementIsOver
<1>1. SessionInv => MeasurementIsOver
  BY DEF SessionInv
<1>. QED
  BY <1>1, SessionInvHolds, PTL

(* Under a running host the watchdog does not expire unless requests are   *)
(* lost, even if every call is refused and takes its whole timeout.        *)
THEOREM WatchdogNeedsLossHolds == Spec => []WatchdogNeedsLoss
<1>1. SessionInv => WatchdogNeedsLoss
  <2>. SUFFICES ASSUME SessionInv, phase # "crashed", ~Silent, Expired, lost = 0
                PROVE  FALSE
    <3>1. SessionInv => lost \in 0..2
      BY DEF SessionInv, SessionTypeOK
    <3>. QED
      BY <3>1 DEF WatchdogNeedsLoss
  <2>1. SessionTypeOK /\ Counted /\ HeardLately
    BY DEF SessionInv
  <2>2. /\ silence \in Int /\ wait \in Int /\ 0 <= wait /\ at \in Int
        /\ phase \in {"ready", "waiting"}
    BY <2>1, LocatedHere, SMT DEF SessionTypeOK, Counted, Placed
  <2>3. regs[CommWatchdogMs] = 2000 /\ silence >= 20
    <3>1. Ticks(2000) = 20
      BY SMT DEF Ticks
    <3>. QED
      BY <2>1, <3>1 DEF Expired, Armed, Counted
  <2>4. phase = "ready" => at > 1
    <3>1. program = "full"
      BY <2>1, <2>3, SMT DEF Counted
    <3>2. phase = "ready" /\ at = 1 => nth = 1
      <4>1. at = 1 => RequestCount(Script[at].name) = 1
        BY <3>1, LocatedHere DEF Placed, Script
      <4>. QED
        BY <2>1, <4>1, SMT DEF SessionTypeOK
    <3>. QED
      BY <2>2, <3>2, LocatedHere, SMT DEF Silent, Placed
  <2>5. silence <= 12 \/ silence + wait <= 12
    BY <2>1, <2>2, <2>4, SMT DEF HeardLately
  <2>. QED
    BY <2>2, <2>3, <2>5, SMT
<1>. QED
  BY <1>1, SessionInvHolds, PTL

(* Within 2.1 s of the last request the instrument has heard, its setpoint *)
(* is zero unless a command has failed: the watchdog is set before any     *)
(* setpoint is, and nothing opens the valve but a request.                 *)
THEOREM SilenceClosesValveHolds == Spec => []SilenceClosesValve
<1>1. SessionInv => SilenceClosesValve
  <2>. SUFFICES ASSUME SessionInv, ~failed, silence > 20
                PROVE  Setpoint = 0
    BY DEF SilenceClosesValve
  <2>1. Counted /\ Guarded /\ silence \in Int
    BY SMT DEF SessionInv, SessionTypeOK
  <2>2. Closed
    <3>1. CASE program = "full"
      <4>1. ~(silence <= 20)
        BY <2>1, SMT
      <4>. QED
        BY <2>1, <3>1, <4>1 DEF Guarded
    <3>2. CASE program = "minimal"
      BY <2>1, <3>2 DEF Counted
    <3>. QED
      BY <2>1, <3>1, <3>2 DEF Counted
  <2>3. Join(0, 0) = 0
    BY SMT DEF Join, Signed
  <2>. QED
    BY <2>2, <2>3, Zenon DEF Setpoint, Closed
<1>. QED
  BY <1>1, SessionInvHolds, PTL
=============================================================================
