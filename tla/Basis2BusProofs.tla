-------------------------- MODULE Basis2BusProofs --------------------------
(***************************************************************************)
(* Theorems about Basis2Bus, for every number of drivers and instruments,  *)
(* every set of registers and calls, and every setting of the flags they   *)
(* do not assume.                                                          *)
(***************************************************************************)
EXTENDS Basis2Bus, SequenceTheorems, TLAPS

-----------------------------------------------------------------------------
(* The protocol layer.                                                     *)

(* The builders format requests.                                           *)
LEMMA RequestFrameType ==
  ASSUME NEW c \in Calls, NEW unit \in Nat
  PROVE  /\ RequestFrame(c, unit) \in RequestFrames
         /\ c.op = ReadOp <=> RequestFrame(c, unit).fn = ReadHolding
<1>1. /\ c \in Call
      /\ c.op \in {SingleOp, AddressOp} => c.count = 1
      /\ c.op # ReadOp => c.count = Len(c.words)
  BY CallAssumption
<1>2. c.op \in {SingleOp, AddressOp} => c.words[1] \in Word
  BY <1>1 DEF Call, ReadOp, SingleOp, AddressOp, MultiOp
<1>3. CASE c.op = ReadOp
  BY <1>1, <1>3 DEF RequestFrame, BuildReadHolding, RequestFrames, Frame, FunctionCodes,
     ReadHolding, WriteSingle, WriteMultiple, Call
<1>4. CASE c.op = MultiOp
  BY <1>1, <1>4 DEF RequestFrame, BuildWriteMultiple, RequestFrames, Frame, FunctionCodes,
     ReadHolding, WriteSingle, WriteMultiple, Call, ReadOp, MultiOp
<1>5. CASE c.op \in {SingleOp, AddressOp}
  <2>1. RequestFrame(c, unit) = BuildWriteSingle(unit, c.reg, c.words[1])
    BY <1>5 DEF RequestFrame, ReadOp, SingleOp, MultiOp, AddressOp
  <2>2. <<c.words[1]>> \in Seq(Word) /\ Len(<<c.words[1]>>) = 1
    BY <1>2, <1>5
  <2>. QED
    BY <1>1, <1>5, <2>1, <2>2 DEF BuildWriteSingle, RequestFrames, Frame, FunctionCodes,
       ReadHolding, WriteSingle, WriteMultiple, Call, ReadOp, SingleOp, AddressOp
<1>. QED
  BY <1>1, <1>3, <1>4, <1>5 DEF Call

(* An instrument's answer is a frame; it is an exception exactly when the  *)
(* request was refused; and the answer to a read carries what was read.    *)
LEMMA ReplyType ==
  ASSUME NEW v \in Service
  PROVE  /\ Reply(v) \in Frame
         /\ IsException(Reply(v)) <=> ~v.accepted
         /\ Reply(v).fn = ReadHolding => Reply(v).words = v.data
<1>1. /\ v.request \in RequestFrames /\ v.request \in Frame
      /\ v.accepted \in BOOLEAN /\ v.data \in Seq(Word)
  BY DEF Service, RequestFrames
<1>2. v.request.fn \in {ReadHolding, WriteSingle, WriteMultiple}
  BY <1>1 DEF RequestFrames, FunctionCodes
<1>3. <<>> \in Seq(Word) /\ Len(v.data) \in Nat
  BY <1>1
<1>4. CASE ~v.accepted
  BY <1>1, <1>2, <1>3, <1>4 DEF Reply, ExceptionReply, Frame, FunctionCodes, IsException,
     ExceptionMask, ReadHolding, WriteSingle, WriteMultiple
<1>5. CASE v.accepted /\ v.request.fn = ReadHolding
  BY <1>1, <1>3, <1>5 DEF Reply, ReadReply, Frame, FunctionCodes, IsException,
     ExceptionMask, ReadHolding, WriteSingle, WriteMultiple
<1>6. CASE v.accepted /\ v.request.fn = WriteMultiple
  <2>1. Reply(v) = [v.request EXCEPT !.words = <<>>]
    BY <1>6 DEF Reply, MultipleReply, ReadHolding, WriteMultiple
  <2>2. Reply(v) \in Frame
    BY <1>1, <1>3, <2>1 DEF Frame
  <2>3. Reply(v).fn = WriteMultiple
    BY <1>1, <1>6, <2>1 DEF Frame
  <2>. QED
    BY <1>6, <2>2, <2>3 DEF IsException, ExceptionMask, ReadHolding, WriteMultiple
<1>7. CASE v.accepted /\ v.request.fn = WriteSingle
  BY <1>1, <1>7 DEF Reply, IsException, ExceptionMask, ReadHolding, WriteSingle, WriteMultiple
<1>. QED
  BY <1>1, <1>2, <1>4, <1>5, <1>6, <1>7

(* The bytes of a frame on the wire.                                       *)
LEMMA BytesType ==
  ASSUME NEW f \in Frame, NEW intact \in BOOLEAN, NEW txn \in Nat
  PROVE  /\ Bytes(f, intact, txn) \in Seq(Byte)
         /\ \A i \in DOMAIN Bytes(f, intact, txn) :
              Bytes(f, intact, txn)[i].frame = f /\ Bytes(f, intact, txn)[i].txn = txn
<1>1. ReplyLength(f) \in Nat
  BY DEF ReplyLength, Frame
<1>2. \A i \in 1..ReplyLength(f) :
        [frame |-> f, at |-> i, intact |-> intact, txn |-> txn] \in Byte
  BY <1>1 DEF Byte
<1>. QED
  BY <1>1, <1>2 DEF Bytes

(* What a call can be told by its parser: an error code; success only by a *)
(* frame that is no exception, and to a read only by a read reply; and     *)
(* ModbusException only by an exception.                                   *)
LEMMA ParseSound ==
  ASSUME NEW c, NEW unit, NEW buf
  PROVE  /\ Parse(c, unit, buf) \in Errors
         /\ Parse(c, unit, buf) = "None" => ~IsException(buf[1].frame)
         /\ Parse(c, unit, buf) = "None" /\ c.op = ReadOp => buf[1].frame.fn = ReadHolding
         /\ Parse(c, unit, buf) = "ModbusException" => IsException(buf[1].frame)
<1>1. CASE c.op = ReadOp
  BY <1>1 DEF Parse, ParseReadHolding, Checked, FromUnit, Errors
<1>2. CASE c.op = MultiOp
  BY <1>2 DEF Parse, ParseWriteMultipleEcho, Checked, FromUnit, Errors, ReadOp, MultiOp
<1>3. CASE c.op \notin {ReadOp, MultiOp}
  BY <1>3 DEF Parse, ParseWriteSingleEcho, Checked, FromUnit, Errors
<1>. QED
  BY <1>1, <1>2, <1>3

-----------------------------------------------------------------------------
(* Type correctness.                                                       *)

(* A return leaves the driver's variables well typed.                      *)
LEMMA ReturnType ==
  ASSUME TypeOK, NEW d \in Drivers, NEW error \in Errors, NEW words \in Seq(Word),
         Return(d, error, words)
  PROVE  /\ address' \in [Drivers -> Nat]
         /\ pc' \in [Drivers -> {"idle", "write", "read"}]
         /\ call' \in [Drivers -> CallState]
         /\ \A e \in Drivers : call'[e].error = "pending" <=> pc'[e] # "idle"
<1>1. call[d] \in CallState /\ call[d].args \in Calls \cup {NoCall}
  BY DEF TypeOK, CallState
<1>2. call[d].args.op = AddressOp => call[d].args.words[1] \in Nat
  <2>1. SUFFICES ASSUME call[d].args.op = AddressOp PROVE call[d].args.words[1] \in Nat
    OBVIOUS
  <2>2. call[d].args \in Calls
    BY <1>1, <2>1 DEF NoCall, ReadOp, AddressOp
  <2>3. call[d].args.words \in Seq(Word) /\ Len(call[d].args.words) = 1
    BY <2>1, <2>2, CallAssumption DEF Call, ReadOp, AddressOp
  <2>4. call[d].args.words[1] \in Word
    BY <2>3, ElementOfSeq
  <2>5. \A w \in Word : w \in Nat
    BY DEF Word
  <2>. QED
    BY <2>4, <2>5, Zenon
<1>3. address' \in [Drivers -> Nat]
  BY <1>2 DEF Return, TargetAfter, TypeOK
<1>4. pc' \in [Drivers -> {"idle", "write", "read"}]
  BY DEF Return, TypeOK
<1>5. [call[d] EXCEPT !.error = error, !.words = words] \in CallState
  BY <1>1 DEF CallState
<1>6. call' \in [Drivers -> CallState]
  BY <1>5 DEF Return, TypeOK
<1>7. \A e \in Drivers : call'[e].error = "pending" <=> pc'[e] # "idle"
  <2>1. call'[d].error = error /\ pc'[d] = "idle" /\ error # "pending"
    BY <1>1 DEF Return, TypeOK, Errors, CallState
  <2>2. \A e \in Drivers \ {d} : call'[e] = call[e] /\ pc'[e] = pc[e]
    BY DEF Return, TypeOK
  <2>. QED
    BY <2>1, <2>2 DEF TypeOK
<1>. QED
  BY <1>3, <1>4, <1>6, <1>7

(* What UART read leaves behind is well typed, and so is what the call     *)
(* returns.                                                                *)
LEMMA ReceiveType ==
  ASSUME TypeOK, NEW d \in Drivers, pc[d] = "read", NEW n \in 0..Len(rx), Receive(d, n)
  PROVE  TypeOK'
<1>. DEFINE c == call[d].args
            buf == SubSeq(rx, 1, n)
            error == IF n = 0 THEN "Timeout"
                     ELSE IF c.op = ReadOp /\ n < 5 THEN "InvalidFrame"
                     ELSE Parse(c, call[d].unit, buf)
            words == IF c.op = ReadOp /\ error = "None" THEN buf[1].frame.words ELSE <<>>
<1>1. rx \in Seq(Byte) /\ Len(rx) \in Nat
  BY DEF TypeOK
<1>2. rx' \in Seq(Byte)
  BY <1>1, SubSeqProperties, \A i \in (n + 1)..Len(rx) : rx[i] \in Byte DEF Receive
<1>3. error \in Errors
  BY ParseSound DEF Errors
<1>4. words \in Seq(Word)
  <2>1. CASE n = 0
    BY <2>1
  <2>2. CASE n # 0
    <3>1. buf[1] = rx[1] /\ rx[1] \in Byte
      BY <1>1, <2>2
    <3>. QED
      BY <3>1 DEF Byte, Frame
  <2>. QED
    BY <2>1, <2>2
<1>5. Return(d, error, words)
  BY DEF Receive
<1>6. /\ address' \in [Drivers -> Nat]
      /\ pc' \in [Drivers -> {"idle", "write", "read"}]
      /\ call' \in [Drivers -> CallState]
      /\ \A e \in Drivers : call'[e].error = "pending" <=> pc'[e] # "idle"
  <2>. HIDE DEF error, words
  <2>. QED
    BY <1>3, <1>4, <1>5, ReturnType
<1>. QED
  BY <1>2, <1>6 DEF Receive, TypeOK

(* The steps of a call.                                                    *)
LEMMA TransmitType ==
  ASSUME TypeOK, NEW d \in Drivers, Transmit(d)
  PROVE  TypeOK'
<1>. DEFINE c == call[d].args
            request == [frame |-> RequestFrame(c, call[d].unit), txn |-> call[d].txn]
<1>1. c \in Calls \cup {NoCall} /\ call[d].unit \in Nat /\ call[d].txn \in Nat
  BY DEF TypeOK, CallState
<1>2. request \in Request
  <2>1. CASE c \in Calls
    BY <1>1, <2>1, RequestFrameType DEF Request
  <2>2. CASE c = NoCall
    <3>1. RequestFrame(c, call[d].unit) =
            [unit |-> call[d].unit, fn |-> ReadHolding, reg |-> 0, count |-> 0, words |-> <<>>]
      BY <2>2 DEF NoCall, RequestFrame, BuildReadHolding
    <3>2. RequestFrame(c, call[d].unit) \in RequestFrames
      BY <1>1, <3>1 DEF RequestFrames, Frame, FunctionCodes
    <3>. QED
      BY <1>1, <3>2 DEF Request
  <2>. QED
    BY <1>1, <2>1, <2>2
<1>3. inbox' \in [Slaves -> Seq(Request)]
  <2>1. \A s \in Slaves : inbox[s] \in Seq(Request) /\ Append(inbox[s], request) \in Seq(Request)
    BY <1>2, AppendProperties DEF TypeOK
  <2>2. PICK heard \in SUBSET Slaves :
          inbox' = [s \in Slaves |-> IF s \in heard THEN Append(inbox[s], request)
                                                     ELSE inbox[s]]
    BY DEF Transmit
  <2>. QED
    BY <2>1, <2>2
<1>4. /\ address' \in [Drivers -> Nat]
      /\ pc' \in [Drivers -> {"idle", "write", "read"}]
      /\ call' \in [Drivers -> CallState]
      /\ \A e \in Drivers : call'[e].error = "pending" <=> pc'[e] # "idle"
  <2>1. \/ Return(d, "BufferTooSmall", <<>>)
        \/ Return(d, "None", <<>>)
        \/ pc' = [pc EXCEPT ![d] = "read"] /\ UNCHANGED <<address, call>>
    BY DEF Transmit
  <2>2. "BufferTooSmall" \in Errors /\ "None" \in Errors /\ <<>> \in Seq(Word)
    BY DEF Errors
  <2>3. CASE pc' = [pc EXCEPT ![d] = "read"] /\ UNCHANGED <<address, call>>
    <3>1. pc[d] = "write"
      BY DEF Transmit
    <3>. QED
      BY <2>3, <3>1 DEF TypeOK
  <2>. QED
    BY <2>1, <2>2, <2>3, ReturnType
<1>. QED
  BY <1>3, <1>4 DEF Transmit, TypeOK

(* A call reads no more than the receive buffer holds.                     *)
LEMMA ReceiveAllType ==
  ASSUME TypeOK, NEW d \in Drivers, ReceiveAll(d) \/ GiveUp(d)
  PROVE  TypeOK'
<1>1. pc[d] = "read" /\ Len(rx) \in Nat
  BY DEF ReceiveAll, GiveUp, TypeOK
<1>2. call[d].args.count \in Nat
  BY CallAssumption DEF TypeOK, CallState, Call, NoCall
<1>3. CASE ReceiveAll(d)
  BY <1>1, <1>2, <1>3, ReceiveType, Need(call[d].args) \in 0..Len(rx) DEF ReceiveAll, Need
<1>4. CASE GiveUp(d)
  BY <1>1, <1>4, ReceiveType DEF GiveUp
<1>. QED
  BY <1>3, <1>4

(* The instruments.                                                        *)
LEMMA AppliedType ==
  ASSUME TypeOK, NEW s \in Slaves, NEW f \in RequestFrames, Cells(f) \subseteq Registers
  PROVE  /\ DataOf(s, f) \in Seq(Word)
         /\ AppliedTo(s, f) \in [Registers -> Word]
<1>1. f.reg \in Nat /\ f.count \in Nat /\ f.words \in Seq(Word)
  BY DEF RequestFrames, Frame
<1>2. regs[s] \in [Registers -> Word]
  BY DEF TypeOK
<1>3. DataOf(s, f) \in Seq(Word)
  <2>1. \A i \in 1..f.count : regs[s][f.reg + i - 1] \in Word
    BY <1>1, <1>2, \A i \in 1..f.count : f.reg + i - 1 \in Cells(f) DEF Cells
  <2>. QED
    BY <1>1, <2>1 DEF DataOf
<1>4. AppliedTo(s, f) \in [Registers -> Word]
  <2>1. CASE f.fn = ReadHolding
    BY <1>2, <2>1 DEF AppliedTo
  <2>2. CASE f.fn # ReadHolding
    <3>1. Len(f.words) = f.count
      BY <2>2 DEF RequestFrames
    <3>2. \A r \in Cells(f) : r - f.reg + 1 \in 1..Len(f.words)
      BY <1>1, <3>1 DEF Cells
    <3>3. \A r \in Cells(f) : f.words[r - f.reg + 1] \in Word
      BY <1>1, <3>2, ElementOfSeq
    <3>. QED
      BY <1>2, <2>2, <3>3 DEF AppliedTo
  <2>. QED
    BY <2>1, <2>2
<1>. QED
  BY <1>3, <1>4

(* What instrument s records when it accepts, or refuses, the request at   *)
(* the head of its inbox ...                                               *)
Outcome(s, accepted) ==
  [slave |-> s, txn |-> Head(inbox[s]).txn, request |-> Head(inbox[s]).frame,
   accepted |-> accepted,
   data |-> IF accepted THEN DataOf(s, Head(inbox[s]).frame) ELSE <<>>]

(* ... is a well typed service.                                            *)
LEMMA OutcomeType ==
  ASSUME TypeOK, NEW s \in Slaves, inbox[s] # <<>>, NEW accepted \in BOOLEAN,
         accepted => Cells(Head(inbox[s]).frame) \subseteq Registers
  PROVE  Outcome(s, accepted) \in Service
<1>1. Head(inbox[s]) \in Request
  BY HeadTailProperties DEF TypeOK
<1>2. /\ Head(inbox[s]).frame \in RequestFrames
      /\ Head(inbox[s]).txn \in Nat
  BY <1>1 DEF Request
<1>3. accepted => DataOf(s, Head(inbox[s]).frame) \in Seq(Word)
  BY <1>2, AppliedType
<1>4. /\ <<>> \in Seq(Word)
      /\ Head(inbox[s]).frame.fn = ReadHolding =>
           Len(DataOf(s, Head(inbox[s]).frame)) = Head(inbox[s]).frame.count
  BY <1>2 DEF DataOf, RequestFrames, Frame
<1>. QED
  BY <1>2, <1>3, <1>4 DEF Outcome, Service

(* An instrument serves its next request.                                  *)
LEMMA ServeType ==
  ASSUME TypeOK, NEW s \in Slaves, Serve(s)
  PROVE  TypeOK'
<1>. DEFINE f == Head(inbox[s]).frame
            txn == Head(inbox[s]).txn
<1>1. inbox[s] # <<>> /\ inbox[s] \in Seq(Request)
  BY DEF Serve, TypeOK
<1>2. Head(inbox[s]) \in Request /\ Tail(inbox[s]) \in Seq(Request)
  BY <1>1, HeadTailProperties
<1>3. f \in RequestFrames /\ txn \in Nat
  BY <1>2 DEF Request
<1>4. inbox' \in [Slaves -> Seq(Request)]
  BY <1>2 DEF Serve, TypeOK
<1>5. regs' \in [Slaves -> [Registers -> Word]] /\ served' \subseteq Service /\ line' \in Seq(Byte)
  <2>1. CASE ~IsFor(s, f)
    BY <2>1 DEF Serve, TypeOK
  <2>2. CASE IsFor(s, f)
    <3>1. PICK accepted \in BOOLEAN, answered \in BOOLEAN, intact \in BOOLEAN :
            /\ accepted => Cells(f) \subseteq Registers
            /\ served' = served \cup {Outcome(s, accepted)}
            /\ regs' = IF accepted THEN [regs EXCEPT ![s] = AppliedTo(s, f)] ELSE regs
            /\ line' = IF answered /\ f.unit # Broadcast
                       THEN line \o Bytes(Reply(Outcome(s, accepted)), intact, txn)
                       ELSE line
      BY <2>2, ZenonT(40) DEF Serve, Outcome
    <3>2. Outcome(s, accepted) \in Service
      BY <1>1, <3>1, OutcomeType
    <3>3. served' \subseteq Service
      BY <3>1, <3>2 DEF TypeOK
    <3>4. regs' \in [Slaves -> [Registers -> Word]]
      BY <1>3, <3>1, AppliedType DEF TypeOK
    <3>5. Bytes(Reply(Outcome(s, accepted)), intact, txn) \in Seq(Byte)
      BY <1>3, <3>2, ReplyType, BytesType
    <3>6. line' \in Seq(Byte)
      BY <3>1, <3>5, ConcatProperties DEF TypeOK
    <3>. QED
      BY <3>3, <3>4, <3>6
  <2>. QED
    BY <2>1, <2>2
<1>. QED
  BY <1>4, <1>5 DEF Serve, TypeOK

(* Every step keeps the variables well typed.                              *)
LEMMA NextType ==
  ASSUME TypeOK, [Next]_vars
  PROVE  TypeOK'
<1>1. ASSUME NEW d \in Drivers, Step(d) PROVE TypeOK'
  BY <1>1, TransmitType, ReceiveAllType DEF Step
<1>2. ASSUME NEW d \in Drivers, NEW c \in Calls, Refuse(d, c) PROVE TypeOK'
  <2>1. ParameterError(c) \in Errors /\ c \in Call
    BY CallAssumption DEF ParameterError, Errors
  <2>2. [args |-> c, unit |-> address[d], txn |-> 0, error |-> ParameterError(c),
         words |-> <<>>] \in CallState
    BY <2>1 DEF CallState, TypeOK
  <2>3. ParameterError(c) # "pending"
    BY DEF ParameterError
  <2>. QED
    BY <1>2, <2>2, <2>3 DEF Refuse, TypeOK
<1>3. ASSUME NEW d \in Drivers, NEW c \in Calls, Begin(d, c) PROVE TypeOK'
  <2>1. [args |-> c, unit |-> address[d], txn |-> sent + 1, error |-> "pending",
         words |-> <<>>] \in CallState
    BY DEF CallState, TypeOK
  <2>2. sent' \in Nat /\ rx' \in Seq(Byte)
    BY <1>3 DEF Begin, Flushed, TypeOK
  <2>. QED
    BY <1>3, <2>1, <2>2 DEF Begin, Flushed, TypeOK
<1>4. ASSUME NEW d \in Drivers, NEW a \in HostAddresses, SetAddress(d, a) PROVE TypeOK'
  BY <1>4, BusAssumption DEF SetAddress, TypeOK
<1>5. ASSUME NEW d \in Drivers, NEW ms \in Timeouts, SetTimeoutMs(d, ms) PROVE TypeOK'
  BY <1>5, BusAssumption DEF SetTimeoutMs, TypeOK
<1>6. ASSUME NEW s \in Slaves, Serve(s) PROVE TypeOK'
  BY <1>6, ServeType
<1>7. ASSUME Arrive PROVE TypeOK'
  <2>1. Head(line) \in Byte /\ line' \in Seq(Byte)
    BY <1>7, HeadTailProperties DEF Arrive, TypeOK
  <2>2. rx' \in Seq(Byte)
    BY <1>7, <2>1, AppendProperties DEF Arrive, TypeOK
  <2>. QED
    BY <1>7, <2>1, <2>2 DEF Arrive, TypeOK
<1>8. CASE UNCHANGED vars
  BY <1>8 DEF vars, TypeOK
<1>. QED
  BY <1>1, <1>2, <1>3, <1>4, <1>5, <1>6, <1>7, <1>8 DEF Next

(* The drivers and the bus start well typed.                               *)
LEMMA InitType == Init => TypeOK
<1>. SUFFICES ASSUME Init PROVE TypeOK
  OBVIOUS
<1>1. [args |-> NoCall, unit |-> Broadcast, txn |-> 0, error |-> "None", words |-> <<>>]
        \in CallState
  BY DEF CallState, Errors, Broadcast
<1>2. timeout \in [Drivers -> Nat]
  BY BusAssumption DEF Init
<1>. QED
  BY <1>1, <1>2, BusAssumption DEF Init, TypeOK

(* The driver's and the bus's variables stay well typed, and a driver has  *)
(* an outcome to report exactly when it is not in a call, whatever the     *)
(* host, the line and the instruments do.                                  *)
THEOREM TypeCorrect == Spec => []TypeOK
<1>1. Init => TypeOK
  BY InitType
<1>2. TypeOK /\ [Next]_vars => TypeOK'
  BY NextType
<1>. QED
  BY <1>1, <1>2, PTL DEF Spec

-----------------------------------------------------------------------------
(* Success means done.                                                     *)

(* A service once given stays on record, and so does what it backs.        *)
LEMMA ServedGrows ==
  ASSUME [Next]_vars
  PROVE  served \subseteq served'
<1>1. ASSUME NEW d \in Drivers, Step(d) PROVE served' = served
  BY <1>1 DEF Step, Transmit, ReceiveAll, GiveUp, Receive
<1>2. ASSUME NEW s \in Slaves, Serve(s) PROVE served \subseteq served'
  BY <1>2 DEF Serve
<1>. QED
  BY <1>1, <1>2 DEF Next, Refuse, Begin, Flushed, SetAddress, SetTimeoutMs, Arrive, vars

(* What an instrument puts on the line is its reply, on the record, to the *)
(* request it took.                                                        *)
LEMMA ServeLine ==
  ASSUME TypeOK, NEW s \in Slaves, Serve(s)
  PROVE  \/ line' = line
         \/ \E r \in Seq(Byte) :
              /\ line' = line \o r
              /\ \A i \in DOMAIN r :
                   /\ r[i].txn = Head(inbox[s]).txn
                   /\ \E v \in served' : v.txn = r[i].txn /\ r[i].frame = Reply(v)
<1>. DEFINE f == Head(inbox[s]).frame
            txn == Head(inbox[s]).txn
<1>1. inbox[s] # <<>> /\ inbox[s] \in Seq(Request)
  BY DEF Serve, TypeOK
<1>2. txn \in Nat
  <2>1. Head(inbox[s]) \in Request
    BY <1>1, HeadTailProperties
  <2>. QED
    BY <2>1 DEF Request
<1>3. CASE ~IsFor(s, f)
  BY <1>3 DEF Serve
<1>4. CASE IsFor(s, f)
  <2>1. PICK accepted \in BOOLEAN, answered \in BOOLEAN, intact \in BOOLEAN :
          /\ accepted => Cells(f) \subseteq Registers
          /\ served' = served \cup {Outcome(s, accepted)}
          /\ line' = IF answered /\ f.unit # Broadcast
                     THEN line \o Bytes(Reply(Outcome(s, accepted)), intact, txn)
                     ELSE line
    BY <1>4 DEF Serve, Outcome
  <2>2. Outcome(s, accepted) \in Service /\ Outcome(s, accepted).txn = txn
    BY <1>1, <2>1, OutcomeType DEF Outcome
  <2>. DEFINE r == Bytes(Reply(Outcome(s, accepted)), intact, txn)
  <2>3. /\ r \in Seq(Byte)
        /\ \A i \in DOMAIN r : r[i].frame = Reply(Outcome(s, accepted)) /\ r[i].txn = txn
    BY <1>2, <2>2, ReplyType, BytesType
  <2>. HIDE DEF r
  <2>4. line' = line \/ line' = line \o r
    BY <2>1 DEF r
  <2>5. Outcome(s, accepted) \in served'
    BY <2>1
  <2>. QED
    BY <2>2, <2>3, <2>4, <2>5
<1>. QED
  BY <1>3, <1>4

(* Whatever the host, the line and the instruments do, every reply on the  *)
(* line or in the receive buffer was given by an instrument.               *)
LEMMA NextBacked ==
  ASSUME TypeOK, Backed, [Next]_vars
  PROVE  Backed'
<1>1. rx \in Seq(Byte) /\ line \in Seq(Byte) /\ Len(rx) \in Nat /\ served \subseteq served'
  BY ServedGrows DEF TypeOK
<1>2. ASSUME rx' = rx, line' = line PROVE Backed'
  BY <1>1, <1>2 DEF Backed, Given
<1>3. ASSUME rx' = <<>>, line' = line PROVE Backed'
  BY <1>1, <1>3 DEF Backed, Given
<1>4. ASSUME NEW d \in Drivers, NEW n \in 0..Len(rx), Receive(d, n) PROVE Backed'
  <2>1. rx' = SubSeq(rx, n + 1, Len(rx)) /\ line' = line
    BY <1>4 DEF Receive
  <2>2. \A i \in DOMAIN rx' : n + i \in DOMAIN rx /\ rx'[i] = rx[n + i]
    BY <1>1, <2>1
  <2>. QED
    BY <1>1, <2>1, <2>2 DEF Backed, Given
<1>5. ASSUME NEW s \in Slaves, Serve(s) PROVE Backed'
  <2>1. rx' = rx
    BY <1>5 DEF Serve
  <2>2. CASE line' = line
    BY <1>2, <2>1, <2>2
  <2>3. ASSUME NEW r \in Seq(Byte), line' = line \o r,
               \A j \in DOMAIN r : \E v \in served' : v.txn = r[j].txn /\ r[j].frame = Reply(v)
        PROVE  Backed'
    <3>1. \A i \in DOMAIN line' : \/ i \in DOMAIN line /\ line'[i] = line[i]
                                  \/ i - Len(line) \in DOMAIN r /\ line'[i] = r[i - Len(line)]
      BY <1>1, <2>3
    <3>. QED
      BY <1>1, <2>1, <2>3, <3>1, ZenonT(40) DEF Backed, Given
  <2>. QED
    BY <1>5, <2>2, <2>3, ServeLine
<1>6. ASSUME Arrive PROVE Backed'
  <2>1. /\ line # <<>> /\ rx' = Append(rx, Head(line)) /\ line' = Tail(line)
    BY <1>6 DEF Arrive
  <2>2. /\ 1 \in DOMAIN line /\ Head(line) = line[1]
        /\ \A i \in DOMAIN line' : i + 1 \in DOMAIN line /\ line'[i] = line[i + 1]
        /\ \A i \in DOMAIN rx' : (i \in DOMAIN rx /\ rx'[i] = rx[i]) \/ rx'[i] = line[1]
    BY <1>1, <2>1
  <2>. QED
    BY <1>1, <2>2 DEF Backed, Given
<1>7. ASSUME NEW d \in Drivers, Step(d) PROVE Backed'
  <2>1. CASE Transmit(d)
    BY <1>2, <2>1 DEF Transmit
  <2>2. CASE ReceiveAll(d)
    <3>1. call[d].args.count \in Nat
      BY CallAssumption DEF TypeOK, CallState, Call, NoCall
    <3>2. Need(call[d].args) \in 0..Len(rx)
      BY <1>1, <2>2, <3>1 DEF ReceiveAll, Need
    <3>. QED
      BY <1>4, <2>2, <3>2 DEF ReceiveAll
  <2>3. CASE GiveUp(d)
    BY <1>1, <1>4, <2>3, Len(rx) \in 0..Len(rx) DEF GiveUp
  <2>. QED
    BY <1>7, <2>1, <2>2, <2>3 DEF Step
<1>8. ASSUME NEW d \in Drivers, NEW c \in Calls, Refuse(d, c) \/ Begin(d, c) PROVE Backed'
  BY <1>2, <1>3, <1>8 DEF Refuse, Begin, Flushed
<1>. QED
  BY <1>2, <1>5, <1>6, <1>7, <1>8 DEF Next, SetAddress, SetTimeoutMs, vars

(* What the host does between its calls, and the start of a call.          *)
LEMMA BeginAcked ==
  ASSUME AckedInv, Serialised, Settled, NEW d \in Drivers, NEW c \in Calls, Begin(d, c)
  PROVE  OneCall' /\ Fresh' /\ AckedMeansDone' /\ ExceptionIsOwn'
<1>1. /\ \A e \in Drivers \ {d} : pc'[e] = "idle" /\ call'[e] = call[e]
      /\ pc'[d] = "write" /\ rx' = <<>> /\ Quiet
      /\ line' = line /\ inbox' = inbox /\ served' = served
      /\ \A e \in Drivers : pc[e] = "idle"
  BY DEF Begin, Flushed, AllIdle, AckedInv, TypeOK
<1>2. OneCall'
  BY <1>1 DEF OneCall
<1>3. Fresh'
  BY <1>1 DEF Fresh, Quiet
<1>5. AckedMeansDone'
  BY <1>1 DEF AckedMeansDone, AckedInv, Returned, Unicast
<1>6. ExceptionIsOwn'
  BY <1>1 DEF ExceptionIsOwn, AckedInv, Returned
<1>. QED
  BY <1>2, <1>3, <1>5, <1>6

(* A call that its parameters end reports no outcome of a transaction.     *)
LEMMA RefuseAcked ==
  ASSUME AckedInv, NEW d \in Drivers, NEW c \in Calls, Refuse(d, c)
  PROVE  OneCall' /\ Fresh' /\ AckedMeansDone' /\ ExceptionIsOwn'
<1>1. /\ \A e \in Drivers \ {d} : call'[e] = call[e]
      /\ pc' = pc /\ pc[d] = "idle" /\ call'[d].txn = 0
      /\ rx' = rx /\ line' = line /\ inbox' = inbox /\ served' = served
  BY DEF Refuse, AckedInv, TypeOK
<1>2. OneCall'
  BY <1>1 DEF OneCall, AckedInv
<1>3. Fresh'
  BY <1>1 DEF Fresh, Quiet, AckedInv
<1>5. AckedMeansDone'
  BY <1>1 DEF AckedMeansDone, AckedInv, Returned, Unicast
<1>6. ExceptionIsOwn'
  BY <1>1 DEF ExceptionIsOwn, AckedInv, Returned
<1>. QED
  BY <1>2, <1>3, <1>5, <1>6

(* The request goes out on a silent line: what comes of it is its own.     *)
LEMMA TransmitAcked ==
  ASSUME AckedInv, NEW d \in Drivers, Transmit(d)
  PROVE  OneCall' /\ Fresh' /\ AckedMeansDone' /\ ExceptionIsOwn'
<1>. DEFINE c == call[d].args
            request == [frame |-> RequestFrame(c, call[d].unit), txn |-> call[d].txn]
<1>1. /\ pc[d] = "write" /\ rx = <<>> /\ line = <<>> /\ \A s \in Slaves : inbox[s] = <<>>
      /\ rx' = rx /\ line' = line /\ served' = served
      /\ \A e \in Drivers \ {d} : pc[e] = "idle"
  BY DEF Transmit, AckedInv, Fresh, OneCall, Quiet
<1>2. /\ \A e \in Drivers \ {d} : pc'[e] = "idle" /\ call'[e] = call[e]
      /\ \/ /\ pc'[d] = "read" /\ call' = call
         \/ /\ pc'[d] = "idle" /\ call'[d].error = "BufferTooSmall"
         \/ /\ pc'[d] = "idle" /\ call'[d].error = "None"
            /\ call'[d].unit = call[d].unit /\ call[d].unit = Broadcast
  <2>1. call \in [Drivers -> CallState] /\ pc \in [Drivers -> {"idle", "write", "read"}]
    BY DEF AckedInv, TypeOK
  <2>2. CASE Return(d, "BufferTooSmall", <<>>)
    BY <1>1, <2>1, <2>2 DEF Return, CallState
  <2>3. CASE Return(d, "None", <<>>) /\ call[d].unit = Broadcast
    BY <1>1, <2>1, <2>3 DEF Return, CallState
  <2>4. CASE pc' = [pc EXCEPT ![d] = "read"] /\ UNCHANGED <<address, call>>
    BY <1>1, <2>1, <2>4
  <2>. QED
    BY <2>2, <2>3, <2>4 DEF Transmit
<1>3. OneCall'
  BY <1>2 DEF OneCall
<1>4. Fresh'
  <2>1. ASSUME pc'[d] = "read", NEW s \in Slaves, NEW i \in DOMAIN inbox'[s]
        PROVE  inbox'[s][i].txn = call'[d].txn
    <3>1. inbox'[s] \in {<<>>, Append(<<>>, request)}
      BY <1>1 DEF Transmit
    <3>2. Append(<<>>, request) = <<request>>
      OBVIOUS
    <3>3. inbox'[s] = <<request>> /\ i = 1
      BY <2>1, <3>1, <3>2
    <3>. QED
      BY <1>2, <2>1, <3>3
  <2>2. DOMAIN rx' = {} /\ DOMAIN line' = {}
    BY <1>1
  <2>. QED
    BY <1>2, <2>1, <2>2 DEF Fresh
<1>6. AckedMeansDone'
  BY <1>1, <1>2 DEF AckedMeansDone, AckedInv, Returned, Unicast
<1>7. ExceptionIsOwn'
  BY <1>1, <1>2 DEF ExceptionIsOwn, AckedInv, Returned
<1>. QED
  BY <1>3, <1>4, <1>6, <1>7

(* What a call that waits for its reply may return with: a reply that      *)
(* parses was given to this transaction.                                   *)
LEMMA ReceiveOutcome ==
  ASSUME AckedInv, NEW d \in Drivers, pc[d] = "read", NEW n \in 0..Len(rx), Receive(d, n)
  PROVE  \E error, words :
           /\ error \in Errors
           /\ Return(d, error, words)
           /\ error = "None" =>
                \E v \in served : /\ v.txn = call[d].txn /\ v.accepted
                                  /\ call[d].args.op = ReadOp => words = v.data
           /\ error = "ModbusException" =>
                \E v \in served : v.txn = call[d].txn /\ ~v.accepted
           /\ ~(error = "None" /\ call[d].args.op = ReadOp) => words = <<>>
<1>. DEFINE c == call[d].args
            buf == SubSeq(rx, 1, n)
            error == IF n = 0 THEN "Timeout"
                     ELSE IF c.op = ReadOp /\ n < 5 THEN "InvalidFrame"
                     ELSE Parse(c, call[d].unit, buf)
            words == IF c.op = ReadOp /\ error = "None" THEN buf[1].frame.words ELSE <<>>
<1>1. Return(d, error, words) /\ rx \in Seq(Byte) /\ Len(rx) \in Nat
  BY DEF Receive, AckedInv, TypeOK
<1>2. error \in Errors
  <2>1. Parse(c, call[d].unit, buf) \in Errors
    <3>. HIDE DEF c, buf
    <3>. QED
      BY ParseSound
  <2>. QED
    BY <2>1 DEF Errors
<1>3. n # 0 => \E v \in served : v.txn = call[d].txn /\ buf[1].frame = Reply(v)
  <2>1. SUFFICES ASSUME n # 0
                 PROVE  \E v \in served : v.txn = call[d].txn /\ buf[1].frame = Reply(v)
    OBVIOUS
  <2>2. buf[1] = rx[1] /\ 1 \in DOMAIN rx
    BY <1>1, <2>1
  <2>. QED
    BY <2>2 DEF AckedInv, Backed, Given, Fresh
<1>4. \A v \in served : v \in Service /\ v.accepted \in BOOLEAN
  BY DEF AckedInv, TypeOK, Service
<1>5. error = "None" =>
        \E v \in served : v.txn = call[d].txn /\ v.accepted /\ (c.op = ReadOp => words = v.data)
  <2>1. SUFFICES ASSUME error = "None"
                 PROVE  \E v \in served :
                          v.txn = call[d].txn /\ v.accepted /\ (c.op = ReadOp => words = v.data)
    OBVIOUS
  <2>2. n # 0 /\ Parse(c, call[d].unit, buf) = "None"
    BY <2>1
  <2>3. PICK v \in served : v.txn = call[d].txn /\ buf[1].frame = Reply(v)
    BY <1>3, <2>2
  <2>4. ~IsException(buf[1].frame) /\ (c.op = ReadOp => buf[1].frame.fn = ReadHolding)
    <3>. HIDE DEF c, buf
    <3>. QED
      BY <2>2, ParseSound
  <2>5. v.accepted /\ (c.op = ReadOp => buf[1].frame.words = v.data)
    <3>. HIDE DEF c, buf
    <3>. QED
      BY <1>4, <2>3, <2>4, ReplyType
  <2>. QED
    BY <2>1, <2>3, <2>5
<1>6. error = "ModbusException" => \E v \in served : v.txn = call[d].txn /\ ~v.accepted
  <2>1. SUFFICES ASSUME error = "ModbusException"
                 PROVE  \E v \in served : v.txn = call[d].txn /\ ~v.accepted
    OBVIOUS
  <2>2. n # 0 /\ Parse(c, call[d].unit, buf) = "ModbusException"
    BY <2>1
  <2>3. PICK v \in served : v.txn = call[d].txn /\ buf[1].frame = Reply(v)
    BY <1>3, <2>2
  <2>4. IsException(buf[1].frame)
    <3>. HIDE DEF c, buf
    <3>. QED
      BY <2>2, ParseSound
  <2>. QED
    BY <1>4, <2>3, <2>4, ReplyType
<1>7. ~(error = "None" /\ c.op = ReadOp) => words = <<>>
  OBVIOUS
<1>. HIDE DEF error, words
<1>. QED
  BY <1>1, <1>2, <1>5, <1>6, <1>7

(* It returns, and leaves nothing else of its own.                         *)
LEMMA ReceiveAcked ==
  ASSUME AckedInv, NEW d \in Drivers, pc[d] = "read", NEW n \in 0..Len(rx), Receive(d, n)
  PROVE  OneCall' /\ Fresh' /\ AckedMeansDone' /\ ExceptionIsOwn'
<1>1. PICK error, words :
        /\ error \in Errors
        /\ Return(d, error, words)
        /\ error = "None" =>
             \E v \in served : /\ v.txn = call[d].txn /\ v.accepted
                               /\ call[d].args.op = ReadOp => words = v.data
        /\ error = "ModbusException" =>
             \E v \in served : v.txn = call[d].txn /\ ~v.accepted
  BY ReceiveOutcome
<1>2. /\ \A e \in Drivers : pc'[e] = "idle"
      /\ \A e \in Drivers \ {d} : pc[e] = "idle" /\ call'[e] = call[e]
      /\ call'[d].error = error /\ call'[d].words = words
      /\ call'[d].args = call[d].args /\ call'[d].txn = call[d].txn
  <2>1. call[d] \in CallState /\ call \in [Drivers -> CallState]
        /\ pc \in [Drivers -> {"idle", "write", "read"}]
    BY DEF AckedInv, TypeOK
  <2>2. call'[d] = [call[d] EXCEPT !.error = error, !.words = words]
    BY <1>1, <2>1 DEF Return
  <2>3. /\ call'[d].error = error /\ call'[d].words = words
        /\ call'[d].args = call[d].args /\ call'[d].txn = call[d].txn
    BY <2>1, <2>2 DEF CallState
  <2>4. \A e \in Drivers \ {d} : pc[e] = "idle"
    BY DEF AckedInv, OneCall
  <2>. QED
    BY <1>1, <2>1, <2>3, <2>4 DEF Return
<1>3. served' = served
  BY DEF Receive
<1>4. OneCall' /\ Fresh'
  BY <1>2 DEF OneCall, Fresh
<1>5. AckedMeansDone'
  BY <1>1, <1>2, <1>3 DEF AckedMeansDone, AckedInv, Returned, Unicast
<1>6. ExceptionIsOwn'
  BY <1>1, <1>2, <1>3 DEF ExceptionIsOwn, AckedInv, Returned
<1>. QED
  BY <1>4, <1>5, <1>6

(* An instrument answers the request it was sent, on the record.           *)
LEMMA ServeAcked ==
  ASSUME AckedInv, NEW s \in Slaves, Serve(s)
  PROVE  Fresh' /\ AckedMeansDone' /\ ExceptionIsOwn'
<1>. DEFINE f == Head(inbox[s]).frame
            txn == Head(inbox[s]).txn
<1>1. /\ inbox[s] # <<>> /\ inbox[s] \in Seq(Request) /\ line \in Seq(Byte)
      /\ pc' = pc /\ call' = call /\ rx' = rx
      /\ inbox' = [inbox EXCEPT ![s] = Tail(inbox[s])] /\ inbox \in [Slaves -> Seq(Request)]
      /\ served \subseteq served'
  BY DEF Serve, AckedInv, TypeOK
<1>2. /\ txn \in Nat /\ txn = inbox[s][1].txn /\ 1 \in DOMAIN inbox[s]
      /\ \A i \in DOMAIN Tail(inbox[s]) :
           Tail(inbox[s])[i] = inbox[s][i + 1] /\ i + 1 \in DOMAIN inbox[s]
  <2>1. Head(inbox[s]) = inbox[s][1] /\ 1 \in DOMAIN inbox[s]
    BY <1>1
  <2>2. Head(inbox[s]) \in Request
    BY <1>1, HeadTailProperties
  <2>3. \A i \in DOMAIN Tail(inbox[s]) :
          Tail(inbox[s])[i] = inbox[s][i + 1] /\ i + 1 \in DOMAIN inbox[s]
    BY <1>1
  <2>. QED
    BY <2>1, <2>2, <2>3 DEF Request
<1>3. \/ line' = line
      \/ \E r \in Seq(Byte) :
           /\ line' = line \o r
           /\ \A i \in DOMAIN r : r[i].txn = txn
  BY ServeLine DEF AckedInv
<1>4. Fresh'
  <2>1. SUFFICES ASSUME NEW d \in Drivers, pc[d] \in {"write", "read"}
                 PROVE  /\ pc[d] = "read"
                        /\ \A i \in DOMAIN rx' : rx'[i].txn = call[d].txn
                        /\ \A i \in DOMAIN line' : line'[i].txn = call[d].txn
                        /\ \A t \in Slaves : \A i \in DOMAIN inbox'[t] :
                             inbox'[t][i].txn = call[d].txn
    BY <1>1 DEF Fresh
  <2>2. pc[d] = "read"
    BY <1>1, <2>1 DEF AckedInv, Fresh, Quiet
  <2>3. /\ \A i \in DOMAIN rx : rx[i].txn = call[d].txn
        /\ \A i \in DOMAIN line : line[i].txn = call[d].txn
        /\ \A t \in Slaves : \A i \in DOMAIN inbox[t] : inbox[t][i].txn = call[d].txn
    BY <2>2 DEF AckedInv, Fresh
  <2>4. txn = call[d].txn
    BY <1>2, <2>3
  <2>5. \A i \in DOMAIN line' : line'[i].txn = call[d].txn
    <3>1. CASE line' = line
      BY <2>3, <3>1
    <3>2. ASSUME NEW r \in Seq(Byte), line' = line \o r, \A i \in DOMAIN r : r[i].txn = txn
          PROVE  \A i \in DOMAIN line' : line'[i].txn = call[d].txn
      BY <1>1, <2>3, <2>4, <3>2
    <3>. QED
      BY <1>3, <3>1, <3>2
  <2>6. \A t \in Slaves : \A i \in DOMAIN inbox'[t] : inbox'[t][i].txn = call[d].txn
    BY <1>1, <1>2, <2>3
  <2>. QED
    BY <1>1, <2>2, <2>3, <2>5, <2>6
<1>6. AckedMeansDone'
  BY <1>1 DEF AckedMeansDone, AckedInv, Returned, Unicast
<1>7. ExceptionIsOwn'
  BY <1>1 DEF ExceptionIsOwn, AckedInv, Returned
<1>. QED
  BY <1>4, <1>6, <1>7

(* A byte that arrives belongs to what it belonged to on the line.         *)
LEMMA ArriveAcked ==
  ASSUME AckedInv, Arrive
  PROVE  Fresh' /\ AckedMeansDone' /\ ExceptionIsOwn'
<1>1. /\ line # <<>> /\ line \in Seq(Byte) /\ rx \in Seq(Byte)
      /\ rx' = Append(rx, Head(line)) /\ line' = Tail(line)
      /\ pc' = pc /\ call' = call /\ inbox' = inbox /\ served' = served
  BY DEF Arrive, AckedInv, TypeOK
<1>2. /\ 1 \in DOMAIN line /\ Head(line) = line[1]
      /\ \A i \in DOMAIN line' : i + 1 \in DOMAIN line /\ line'[i] = line[i + 1]
      /\ \A i \in DOMAIN rx' : \/ i \in DOMAIN rx /\ rx'[i] = rx[i]
                              \/ rx'[i] = line[1]
  BY <1>1
<1>3. Fresh'
  BY <1>1, <1>2 DEF AckedInv, Fresh, Quiet
<1>5. AckedMeansDone'
  BY <1>1 DEF AckedMeansDone, AckedInv, Returned, Unicast
<1>6. ExceptionIsOwn'
  BY <1>1 DEF ExceptionIsOwn, AckedInv, Returned
<1>. QED
  BY <1>3, <1>5, <1>6

(* A request goes out only to instruments that have none to take.          *)
LEMMA NextAtMostOne ==
  ASSUME AckedInv, [Next]_vars
  PROVE  AtMostOne'
<1>1. inbox \in [Slaves -> Seq(Request)]
  BY DEF AckedInv, TypeOK
<1>2. ASSUME NEW d \in Drivers, Transmit(d) PROVE AtMostOne'
  <2>. DEFINE request == [frame |-> RequestFrame(call[d].args, call[d].unit),
                          txn |-> call[d].txn]
  <2>1. \A s \in Slaves : inbox'[s] \in {<<>>, Append(<<>>, request)}
    BY <1>2 DEF Transmit, AckedInv, Fresh, Quiet
  <2>. HIDE DEF request
  <2>2. Append(<<>>, request) = <<request>>
    OBVIOUS
  <2>3. ASSUME NEW s \in Slaves PROVE Len(inbox'[s]) <= 1
    <3>1. CASE inbox'[s] = <<>>
      BY <3>1
    <3>2. CASE inbox'[s] = <<request>>
      BY <3>2
    <3>. QED
      BY <2>1, <2>2, <3>1, <3>2
  <2>. QED
    BY <2>3 DEF AtMostOne
<1>3. ASSUME NEW s \in Slaves, Serve(s) PROVE AtMostOne'
  <2>1. inbox[s] # <<>> /\ inbox[s] \in Seq(Request) /\ Len(inbox[s]) <= 1
        /\ inbox' = [inbox EXCEPT ![s] = Tail(@)]
    BY <1>1, <1>3 DEF Serve, AckedInv, AtMostOne
  <2>2. Len(Tail(inbox[s])) = Len(inbox[s]) - 1 /\ Len(inbox[s]) \in Nat
    BY <2>1, HeadTailProperties
  <2>. QED
    BY <1>1, <2>1, <2>2 DEF AckedInv, AtMostOne
<1>4. ASSUME inbox' = inbox PROVE AtMostOne'
  BY <1>4 DEF AckedInv, AtMostOne
<1>. QED
  BY <1>2, <1>3, <1>4 DEF Next, Step, ReceiveAll, GiveUp, Receive, Refuse, Begin, SetAddress,
     SetTimeoutMs, Arrive, vars

(* The inductive step.                                                     *)
LEMMA NextAcked ==
  ASSUME AckedInv, Serialised, Settled, [Next]_vars
  PROVE  AckedInv'
<1>. USE DEF AckedInv
<1>1. TypeOK' /\ Backed' /\ AtMostOne'
  BY NextType, NextBacked, NextAtMostOne
<1>2. ASSUME NEW d \in Drivers, Step(d)
      PROVE  OneCall' /\ Fresh' /\ AckedMeansDone' /\ ExceptionIsOwn'
  <2>1. CASE Transmit(d)
    BY <2>1, TransmitAcked
  <2>2. CASE ReceiveAll(d)
    <3>1. call[d].args.count \in Nat
      BY CallAssumption DEF TypeOK, CallState, Call, NoCall
    <3>2. Need(call[d].args) \in 0..Len(rx)
      BY <2>2, <3>1 DEF ReceiveAll, Need, TypeOK
    <3>. QED
      BY <2>2, <3>2, ReceiveAcked DEF ReceiveAll
  <2>3. CASE GiveUp(d)
    BY <2>3, ReceiveAcked, Len(rx) \in 0..Len(rx) DEF GiveUp, TypeOK
  <2>. QED
    BY <1>2, <2>1, <2>2, <2>3 DEF Step
<1>3. ASSUME NEW d \in Drivers, NEW c \in Calls, Refuse(d, c) \/ Begin(d, c)
      PROVE  OneCall' /\ Fresh' /\ AckedMeansDone' /\ ExceptionIsOwn'
  BY <1>3, RefuseAcked, BeginAcked
<1>4. ASSUME NEW s \in Slaves, Serve(s)
      PROVE  OneCall' /\ Fresh' /\ AckedMeansDone' /\ ExceptionIsOwn'
  BY <1>4, ServeAcked DEF Serve, OneCall
<1>5. ASSUME Arrive
      PROVE  OneCall' /\ Fresh' /\ AckedMeansDone' /\ ExceptionIsOwn'
  BY <1>5, ArriveAcked DEF Arrive, OneCall
<1>6. ASSUME UNCHANGED <<pc, call, rx, line, inbox, served>>
      PROVE  OneCall' /\ Fresh' /\ AckedMeansDone' /\ ExceptionIsOwn'
  BY <1>6 DEF OneCall, Fresh, Quiet, AckedMeansDone, ExceptionIsOwn,
     Returned, Unicast
<1>. QED
  BY <1>1, <1>2, <1>3, <1>4, <1>5, <1>6 DEF Next, SetAddress, SetTimeoutMs, vars

(* For a host that makes one call at a time, and each only once the line   *)
(* is silent, the invariant holds ...                                      *)
THEOREM AckedInvHolds ==
  ASSUME Serialised, Settled
  PROVE  Spec => []AckedInv
<1>1. Init => AckedInv
  <2>. QED
    BY InitType DEF Init, AckedInv, OneCall, Fresh, Backed, AtMostOne, AckedMeansDone,
       ExceptionIsOwn, Returned, Errors
<1>2. AckedInv /\ [Next]_vars => AckedInv'
  BY NextAcked
<1>. QED
  BY <1>1, <1>2, PTL DEF Spec

(* ... so a unicast call of its drivers that reports success was carried   *)
(* out by an instrument, and a read returned what that instrument          *)
(* answered to it, however late, damaged or lost earlier replies were.     *)
THEOREM SuccessMeansDone ==
  ASSUME Serialised, Settled
  PROVE  Spec => []AckedMeansDone
<1>1. AckedInv => AckedMeansDone
  BY DEF AckedInv
<1>. QED
  BY <1>1, AckedInvHolds, PTL

(* Likewise a ModbusException is the refusal of the call that reports it.  *)
THEOREM ExceptionMeansRefused ==
  ASSUME Serialised, Settled
  PROVE  Spec => []ExceptionIsOwn
<1>1. AckedInv => ExceptionIsOwn
  BY DEF AckedInv
<1>. QED
  BY <1>1, AckedInvHolds, PTL

-----------------------------------------------------------------------------
(* What success means with no discipline of the host at all.               *)

(* An instrument's answer to a request it accepted has the request's       *)
(* fields, but for the register of a read and the values of a multiple     *)
(* write.                                                                  *)
LEMMA ReplyMatches ==
  ASSUME NEW v \in Service, v.accepted
  PROVE  /\ Reply(v).unit = v.request.unit
         /\ Reply(v).fn = v.request.fn
         /\ Reply(v).count = v.request.count
         /\ v.request.fn = ReadHolding => Reply(v).words = v.data
         /\ v.request.fn = WriteMultiple => Reply(v).reg = v.request.reg
         /\ v.request.fn = WriteSingle => Reply(v) = v.request
<1>1. /\ v.request \in Frame
      /\ v.request.fn \in {ReadHolding, WriteSingle, WriteMultiple}
      /\ v.request.fn = ReadHolding => Len(v.data) = v.request.count
  BY DEF Service, RequestFrames, FunctionCodes
<1>2. CASE v.request.fn = ReadHolding
  BY <1>1, <1>2 DEF Reply, ReadReply, ReadHolding, WriteSingle, WriteMultiple
<1>3. CASE v.request.fn = WriteMultiple
  <2>1. Reply(v) = [v.request EXCEPT !.words = <<>>]
    BY <1>3 DEF Reply, MultipleReply, ReadHolding, WriteMultiple
  <2>. QED
    BY <1>1, <1>3, <2>1 DEF Frame, ReadHolding, WriteSingle, WriteMultiple
<1>4. CASE v.request.fn = WriteSingle
  BY <1>4 DEF Reply, ReadHolding, WriteSingle, WriteMultiple
<1>. QED
  BY <1>1, <1>2, <1>3, <1>4

(* A frame that the call's parser takes for success has the fields of the  *)
(* call's request, with the same exceptions.                               *)
LEMMA ParseMatches ==
  ASSUME NEW c \in Calls \cup {NoCall}, NEW unit, NEW buf, Parse(c, unit, buf) = "None"
  PROVE  LET f == buf[1].frame
             asked == RequestFrame(c, unit)
         IN  /\ ~IsException(f)
             /\ f.unit = asked.unit
             /\ f.fn = asked.fn
             /\ f.count = asked.count
             /\ asked.fn = WriteMultiple => f.reg = asked.reg
             /\ asked.fn = WriteSingle => f = asked
<1>. DEFINE f == buf[1].frame
            asked == RequestFrame(c, unit)
<1>1. CASE c.op = ReadOp
  <2>1. asked = [unit |-> unit, fn |-> ReadHolding, reg |-> c.reg, count |-> c.count,
                 words |-> <<>>]
    BY <1>1 DEF RequestFrame, BuildReadHolding
  <2>2. ~IsException(f) /\ f.unit = unit /\ f.fn = ReadHolding /\ f.count = c.count
    BY <1>1 DEF Parse, ParseReadHolding, Checked, FromUnit
  <2>. QED
    BY <2>1, <2>2 DEF ReadHolding, WriteSingle, WriteMultiple
<1>2. CASE c.op = MultiOp
  <2>1. asked = [unit |-> unit, fn |-> WriteMultiple, reg |-> c.reg, count |-> Len(c.words),
                 words |-> c.words]
    BY <1>2 DEF RequestFrame, BuildWriteMultiple, ReadOp, MultiOp
  <2>2. c.count = Len(c.words)
    BY <1>2, CallAssumption DEF NoCall, ReadOp, MultiOp
  <2>3. ~IsException(f) /\ f.unit = unit /\ f.fn = WriteMultiple /\ f.reg = c.reg
        /\ f.count = c.count
    BY <1>2 DEF Parse, ParseWriteMultipleEcho, Checked, FromUnit, ReadOp, MultiOp
  <2>. QED
    BY <2>1, <2>2, <2>3 DEF WriteSingle, WriteMultiple
<1>3. CASE c.op \notin {ReadOp, MultiOp}
  <2>1. asked.fn = WriteSingle
    BY <1>3 DEF RequestFrame, BuildWriteSingle
  <2>2. ~IsException(f) /\ f = asked
    BY <1>3 DEF Parse, ParseWriteSingleEcho, Checked, FromUnit
  <2>. QED
    BY <2>1, <2>2 DEF WriteSingle, WriteMultiple
<1>. QED
  BY <1>1, <1>2, <1>3

(* So the service behind such a frame is one the call's success may rest   *)
(* on.                                                                     *)
LEMMA ServiceBacks ==
  ASSUME NEW c \in Calls \cup {NoCall}, NEW unit \in Nat, NEW buf,
         Parse(c, unit, buf) = "None",
         NEW v \in Service, buf[1].frame = Reply(v),
         NEW words, c.op = ReadOp => words = buf[1].frame.words
  PROVE  Backs(v, RequestFrame(c, unit), words)
<1>. DEFINE f == buf[1].frame
            asked == RequestFrame(c, unit)
<1>1. /\ ~IsException(f) /\ f.unit = asked.unit /\ f.fn = asked.fn /\ f.count = asked.count
      /\ asked.fn = WriteMultiple => f.reg = asked.reg
      /\ asked.fn = WriteSingle => f = asked
  BY ParseMatches
<1>2. asked.fn = ReadHolding => c.op = ReadOp
  BY DEF RequestFrame, BuildReadHolding, BuildWriteSingle, BuildWriteMultiple, ReadHolding,
     WriteSingle, WriteMultiple
<1>3. asked.fn \in {ReadHolding, WriteSingle, WriteMultiple}
  BY DEF RequestFrame, BuildReadHolding, BuildWriteSingle, BuildWriteMultiple
<1>. HIDE DEF f, asked
<1>4. f = Reply(v) /\ (c.op = ReadOp => words = f.words)
  BY DEF f
<1>5. v.accepted
  <2>1. v.accepted \in BOOLEAN
    BY DEF Service
  <2>. QED
    BY <1>1, <1>4, <2>1, ReplyType
<1>6. /\ f.unit = v.request.unit /\ f.fn = v.request.fn /\ f.count = v.request.count
      /\ v.request.fn = ReadHolding => f.words = v.data
      /\ v.request.fn = WriteMultiple => f.reg = v.request.reg
      /\ v.request.fn = WriteSingle => f = v.request
  BY <1>4, <1>5, ReplyMatches
<1>7. Backs(v, asked, words)
  BY <1>1, <1>2, <1>3, <1>4, <1>5, <1>6 DEF Backs, ReadHolding, WriteSingle, WriteMultiple
<1>. QED
  BY <1>7 DEF asked

(* A call returns success only on a reply that an instrument gave.         *)
LEMMA ReceiveBacked ==
  ASSUME BackedInv, NEW d \in Drivers, NEW n \in 0..Len(rx), Receive(d, n)
  PROVE  AckedIsBacked'
<1>. DEFINE c == call[d].args
            buf == SubSeq(rx, 1, n)
            error == IF n = 0 THEN "Timeout"
                     ELSE IF c.op = ReadOp /\ n < 5 THEN "InvalidFrame"
                     ELSE Parse(c, call[d].unit, buf)
            words == IF c.op = ReadOp /\ error = "None" THEN buf[1].frame.words ELSE <<>>
<1>1. /\ served' = served /\ rx \in Seq(Byte) /\ Len(rx) \in Nat
      /\ Return(d, error, words)
      /\ c \in Calls \cup {NoCall} /\ call[d].unit \in Nat /\ call[d] \in CallState
      /\ call \in [Drivers -> CallState] /\ served \subseteq Service
  BY DEF Receive, BackedInv, TypeOK, CallState
<1>2. error = "None" => \E v \in served : Backs(v, RequestFrame(c, call[d].unit), words)
  <2>1. SUFFICES ASSUME error = "None"
                 PROVE  \E v \in served : Backs(v, RequestFrame(c, call[d].unit), words)
    OBVIOUS
  <2>2. /\ n # 0 /\ Parse(c, call[d].unit, buf) = "None"
        /\ c.op = ReadOp => words = buf[1].frame.words
    BY <2>1
  <2>3. buf[1] = rx[1] /\ 1 \in DOMAIN rx
    BY <1>1, <2>2
  <2>4. PICK v \in served : buf[1].frame = Reply(v)
    BY <2>3 DEF BackedInv, Backed, Given
  <2>. HIDE DEF c, buf, error, words
  <2>. QED
    BY <1>1, <2>2, <2>4, ServiceBacks
<1>. HIDE DEF error, words
<1>3. call'[d] = [call[d] EXCEPT !.error = error, !.words = words]
      /\ \A e \in Drivers \ {d} : call'[e] = call[e] /\ pc'[e] = pc[e]
  BY <1>1 DEF Return, BackedInv, TypeOK
<1>4. /\ call'[d].error = error /\ call'[d].words = words
      /\ call'[d].args = c /\ call'[d].unit = call[d].unit
  BY <1>1, <1>3 DEF CallState
<1>. HIDE DEF c
<1>5. SUFFICES ASSUME NEW e \in Drivers, (Returned(e) /\ Awaited(e) /\ call[e].error = "None")'
               PROVE  (\E v \in served : Backs(v, RequestFrame(call[e].args, call[e].unit),
                                             call[e].words))'
  BY DEF AckedIsBacked
<1>6. CASE e = d
  BY <1>1, <1>2, <1>4, <1>5, <1>6
<1>7. CASE e # d
  <2>1. call'[e] = call[e] /\ pc'[e] = pc[e]
    BY <1>3, <1>7
  <2>. QED
    BY <1>1, <1>5, <2>1 DEF BackedInv, AckedIsBacked, Returned, Awaited, Unicast
<1>. QED
  BY <1>6, <1>7

(* The inductive step.                                                     *)
LEMMA NextBackedInv ==
  ASSUME BackedInv, [Next]_vars
  PROVE  BackedInv'
<1>1. TypeOK' /\ Backed' /\ served \subseteq served'
  BY NextType, NextBacked, ServedGrows DEF BackedInv
<1>2. ASSUME \A e \in Drivers :
               \/ call'[e] = call[e] /\ pc'[e] = pc[e]
               \/ pc'[e] # "idle" \/ call'[e].txn = 0 \/ call'[e].error # "None"
               \/ call'[e].unit = Broadcast /\ call'[e].args.op # ReadOp
      PROVE  AckedIsBacked'
  BY <1>1, <1>2 DEF BackedInv, AckedIsBacked, Returned, Awaited, Unicast
<1>3. /\ call \in [Drivers -> CallState] /\ pc \in [Drivers -> {"idle", "write", "read"}]
      /\ Len(rx) \in Nat
  BY DEF BackedInv, TypeOK
<1>4. ASSUME NEW d \in Drivers, Step(d) PROVE AckedIsBacked'
  <2>1. CASE Transmit(d)
    <3>1. /\ \A e \in Drivers \ {d} : call'[e] = call[e] /\ pc'[e] = pc[e]
          /\ \/ pc'[d] # "idle" \/ call'[d].error # "None"
             \/ call'[d].unit = Broadcast /\ call'[d].args.op # ReadOp
      <4>1. CASE Return(d, "BufferTooSmall", <<>>)
        BY <1>3, <4>1 DEF Return, CallState
      <4>2. CASE /\ Return(d, "None", <<>>)
                /\ call[d].unit = Broadcast /\ call[d].args.op # ReadOp
        BY <1>3, <4>2 DEF Return, CallState
      <4>3. CASE pc' = [pc EXCEPT ![d] = "read"] /\ UNCHANGED <<address, call>>
        BY <1>3, <4>3
      <4>. QED
        BY <2>1, <4>1, <4>2, <4>3 DEF Transmit
    <3>. QED
      BY <1>2, <3>1
  <2>2. CASE ReceiveAll(d)
    <3>1. call[d].args.count \in Nat
      BY CallAssumption DEF BackedInv, TypeOK, CallState, Call, NoCall
    <3>2. Need(call[d].args) \in 0..Len(rx)
      BY <1>3, <2>2, <3>1 DEF ReceiveAll, Need
    <3>. QED
      BY <2>2, <3>2, ReceiveBacked DEF ReceiveAll
  <2>3. CASE GiveUp(d)
    BY <1>3, <2>3, ReceiveBacked, Len(rx) \in 0..Len(rx) DEF GiveUp
  <2>. QED
    BY <1>4, <2>1, <2>2, <2>3 DEF Step
<1>5. ASSUME NEW d \in Drivers, NEW c \in Calls, Refuse(d, c) \/ Begin(d, c)
      PROVE  AckedIsBacked'
  <2>1. /\ \A e \in Drivers \ {d} : call'[e] = call[e] /\ pc'[e] = pc[e]
        /\ call'[d].txn = 0 \/ pc'[d] # "idle"
    BY <1>3, <1>5 DEF Refuse, Begin
  <2>. QED
    BY <1>2, <2>1
<1>6. ASSUME UNCHANGED <<pc, call>> PROVE AckedIsBacked'
  BY <1>2, <1>6
<1>. QED
  BY <1>1, <1>4, <1>5, <1>6 DEF BackedInv, Next, SetAddress, SetTimeoutMs, Serve, Arrive, vars

(* Whatever the host does, every reply under way was given by an           *)
(* instrument ...                                                          *)
THEOREM BackedInvHolds == Spec => []BackedInv
<1>1. Init => BackedInv
  <2>1. Init => AckedIsBacked
    BY DEF Init, AckedIsBacked, Returned
  <2>2. Init => Backed
    BY DEF Init, Backed
  <2>. QED
    BY <2>1, <2>2, InitType DEF BackedInv
<1>2. BackedInv /\ [Next]_vars => BackedInv'
  BY NextBackedInv
<1>. QED
  BY <1>1, <1>2, PTL DEF Spec

(* ... and whatever the line and the instruments do, a call that waits for *)
(* a reply and reports success rests on an instrument's acceptance of a    *)
(* request of the same shape: the same single write, a multiple write of   *)
(* the same registers, a read of as many registers, whose data it returns. *)
THEOREM SuccessIsBacked == Spec => []AckedIsBacked
<1>1. BackedInv => AckedIsBacked
  BY DEF BackedInv
<1>. QED
  BY <1>1, BackedInvHolds, PTL

-----------------------------------------------------------------------------
(* What an exception means with no discipline of the host at all.          *)

(* A parser reports an exception only of the unit it expects, and those of *)
(* writes never do: an exception is shorter than the least they look at.   *)
LEMMA ParseException ==
  ASSUME NEW c, NEW unit, NEW buf, Parse(c, unit, buf) = "ModbusException"
  PROVE  c.op = ReadOp /\ buf[1].frame.unit = unit /\ IsException(buf[1].frame)
<1>. DEFINE f == buf[1].frame
<1>1. IsException(f)
  BY ParseSound
<1>2. IsException(f) => ReplyLength(f) = 5
  BY DEF IsException, ReplyLength, FunctionCodes, ExceptionMask, ReadHolding, WriteSingle,
         WriteMultiple
<1>3. ASSUME NEW u, NEW verdict, verdict # "ModbusException",
             Checked(buf, 8, u, verdict) = "ModbusException"
      PROVE  FALSE
  <2>1. ~(Len(buf) < 8) /\ Len(buf) = ReplyLength(f)
    BY <1>3, Zenon DEF Checked, CheckCrc
  <2>. QED
    BY <1>1, <1>2, <2>1, SMT
<1>4. CASE c.op = ReadOp
  BY <1>1, <1>4 DEF Parse, ParseReadHolding, Checked, FromUnit
<1>5. CASE c.op = MultiOp
  BY <1>3, <1>5 DEF Parse, ParseWriteMultipleEcho, ReadOp, MultiOp
<1>6. CASE c.op \notin {ReadOp, MultiOp}
  BY <1>3, <1>6 DEF Parse, ParseWriteSingleEcho
<1>. QED
  BY <1>4, <1>5, <1>6

(* A call reports an exception only on one that an instrument gave.        *)
LEMMA ReceiveExcepted ==
  ASSUME BackedInv, ExceptionIsBacked, NEW d \in Drivers, NEW n \in 0..Len(rx), Receive(d, n)
  PROVE  ExceptionIsBacked'
<1>. DEFINE c == call[d].args
            buf == SubSeq(rx, 1, n)
            error == IF n = 0 THEN "Timeout"
                     ELSE IF c.op = ReadOp /\ n < 5 THEN "InvalidFrame"
                     ELSE Parse(c, call[d].unit, buf)
            words == IF c.op = ReadOp /\ error = "None" THEN buf[1].frame.words ELSE <<>>
<1>1. /\ served' = served /\ rx \in Seq(Byte) /\ Len(rx) \in Nat
      /\ Return(d, error, words)
      /\ call[d] \in CallState /\ call \in [Drivers -> CallState] /\ served \subseteq Service
  BY DEF Receive, BackedInv, TypeOK
<1>2. error = "ModbusException" =>
        c.op = ReadOp /\ \E v \in served : ~v.accepted /\ v.request.unit = call[d].unit
  <2>1. SUFFICES ASSUME error = "ModbusException"
                 PROVE  /\ c.op = ReadOp
                        /\ \E v \in served : ~v.accepted /\ v.request.unit = call[d].unit
    OBVIOUS
  <2>2. n # 0 /\ Parse(c, call[d].unit, buf) = "ModbusException"
    BY <2>1
  <2>3. buf[1] = rx[1] /\ 1 \in DOMAIN rx
    BY <1>1, <2>2
  <2>4. PICK v \in served : buf[1].frame = Reply(v)
    BY <2>3 DEF BackedInv, Backed, Given
  <2>5. v \in Service /\ v.accepted \in BOOLEAN
    BY <1>1 DEF Service
  <2>. HIDE DEF c, buf, error, words
  <2>6. c.op = ReadOp /\ buf[1].frame.unit = call[d].unit /\ IsException(buf[1].frame)
    BY <2>2, ParseException
  <2>7. ~v.accepted
    BY <2>4, <2>5, <2>6, ReplyType
  <2>8. Reply(v).unit = v.request.unit
    BY <2>7 DEF Reply, ExceptionReply
  <2>. QED
    BY <2>4, <2>6, <2>7, <2>8
<1>. HIDE DEF error, words
<1>3. call'[d] = [call[d] EXCEPT !.error = error, !.words = words]
      /\ \A e \in Drivers \ {d} : call'[e] = call[e] /\ pc'[e] = pc[e]
  BY <1>1 DEF Return, BackedInv, TypeOK
<1>4. /\ call'[d].error = error /\ call'[d].args = c /\ call'[d].unit = call[d].unit
  BY <1>1, <1>3 DEF CallState
<1>. HIDE DEF c
<1>5. SUFFICES ASSUME NEW e \in Drivers, (Returned(e) /\ call[e].error = "ModbusException")'
               PROVE  (/\ call[e].args.op = ReadOp
                       /\ \E v \in served : ~v.accepted /\ v.request.unit = call[e].unit)'
  BY DEF ExceptionIsBacked
<1>6. CASE e = d
  BY <1>1, <1>2, <1>4, <1>5, <1>6
<1>7. CASE e # d
  <2>1. call'[e] = call[e] /\ pc'[e] = pc[e]
    BY <1>3, <1>7
  <2>. QED
    BY <1>1, <1>5, <2>1 DEF ExceptionIsBacked, Returned
<1>. QED
  BY <1>6, <1>7

(* Other steps return with another error, or leave the outcomes alone.     *)
LEMMA NextExcepted ==
  ASSUME BackedInv, ExceptionIsBacked, [Next]_vars
  PROVE  ExceptionIsBacked'
<1>1. served \subseteq served'
  BY ServedGrows
<1>2. ASSUME \A e \in Drivers :
               \/ call'[e] = call[e] /\ pc'[e] = pc[e]
               \/ pc'[e] # "idle" \/ call'[e].txn = 0 \/ call'[e].error # "ModbusException"
      PROVE  ExceptionIsBacked'
  BY <1>1, <1>2 DEF ExceptionIsBacked, Returned
<1>3. /\ call \in [Drivers -> CallState] /\ pc \in [Drivers -> {"idle", "write", "read"}]
      /\ Len(rx) \in Nat
  BY DEF BackedInv, TypeOK
<1>4. ASSUME NEW d \in Drivers, Step(d) PROVE ExceptionIsBacked'
  <2>1. CASE Transmit(d)
    <3>1. /\ \A e \in Drivers \ {d} : call'[e] = call[e] /\ pc'[e] = pc[e]
          /\ pc'[d] # "idle" \/ call'[d].error # "ModbusException"
      <4>1. CASE Return(d, "BufferTooSmall", <<>>) \/ Return(d, "None", <<>>)
        BY <1>3, <4>1 DEF Return, CallState
      <4>2. CASE pc' = [pc EXCEPT ![d] = "read"] /\ UNCHANGED <<address, call>>
        BY <1>3, <4>2
      <4>. QED
        BY <2>1, <4>1, <4>2 DEF Transmit
    <3>. QED
      BY <1>2, <3>1
  <2>2. CASE ReceiveAll(d)
    <3>1. call[d].args.count \in Nat
      BY CallAssumption DEF BackedInv, TypeOK, CallState, Call, NoCall
    <3>2. Need(call[d].args) \in 0..Len(rx)
      BY <1>3, <2>2, <3>1 DEF ReceiveAll, Need
    <3>. QED
      BY <2>2, <3>2, ReceiveExcepted DEF ReceiveAll
  <2>3. CASE GiveUp(d)
    BY <1>3, <2>3, ReceiveExcepted, Len(rx) \in 0..Len(rx) DEF GiveUp
  <2>. QED
    BY <1>4, <2>1, <2>2, <2>3 DEF Step
<1>5. ASSUME NEW d \in Drivers, NEW c \in Calls, Refuse(d, c) \/ Begin(d, c)
      PROVE  ExceptionIsBacked'
  <2>1. /\ \A e \in Drivers \ {d} : call'[e] = call[e] /\ pc'[e] = pc[e]
        /\ call'[d].txn = 0 \/ pc'[d] # "idle"
    BY <1>3, <1>5 DEF Refuse, Begin
  <2>. QED
    BY <1>2, <2>1
<1>6. ASSUME UNCHANGED <<pc, call>> PROVE ExceptionIsBacked'
  BY <1>2, <1>6
<1>. QED
  BY <1>4, <1>5, <1>6 DEF Next, SetAddress, SetTimeoutMs, Serve, Arrive, vars

(* Whatever the host, the line and the instruments do, ModbusException     *)
(* means that an instrument at the target address has refused a request,   *)
(* and no write ever reports it, whatever instruments refuse.              *)
THEOREM ExceptionIsBackedHolds == Spec => []ExceptionIsBacked
<1>1. Init => ExceptionIsBacked
  BY DEF Init, ExceptionIsBacked, Returned
<1>2. BackedInv /\ ExceptionIsBacked /\ [Next]_vars => ExceptionIsBacked'
  BY NextExcepted
<1>. QED
  BY <1>1, <1>2, BackedInvHolds, PTL DEF Spec
=============================================================================
