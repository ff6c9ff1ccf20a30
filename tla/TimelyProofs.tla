---------------------------- MODULE TimelyProofs ----------------------------
(***************************************************************************)
(* Theorems about Basis2Bus on a timely line, where a call at a time and   *)
(* timeouts longer than any reply take the place of waiting for silence:   *)
(* for every number of drivers, instruments, registers and calls.          *)
(***************************************************************************)
EXTENDS Basis2BusProofs

-----------------------------------------------------------------------------
(* A reply and its parser.                                                 *)

(* An undamaged frame passes the CRC check.                                *)
LEMMA BytesCheck ==
  ASSUME NEW f \in Frame, NEW txn \in Nat
  PROVE  /\ Bytes(f, TRUE, txn) \in Seq(Byte)
         /\ Len(Bytes(f, TRUE, txn)) = ReplyLength(f) /\ ReplyLength(f) >= 5
         /\ CheckCrc(Bytes(f, TRUE, txn))
         /\ Bytes(f, TRUE, txn)[1].frame = f
<1>1. ReplyLength(f) \in Nat /\ ReplyLength(f) >= 5
  BY DEF ReplyLength, Frame
<1>2. Bytes(f, TRUE, txn) \in Seq(Byte)
  BY BytesType
<1>. DEFINE buf == Bytes(f, TRUE, txn)
<1>3. /\ Len(buf) = ReplyLength(f)
      /\ \A i \in 1..ReplyLength(f) : buf[i].frame = f /\ buf[i].at = i /\ buf[i].intact
  BY <1>1 DEF Bytes
<1>4. 1 \in 1..ReplyLength(f)
  BY <1>1
<1>. HIDE DEF buf
<1>5. CheckCrc(buf) /\ buf[1].frame = f
  BY <1>1, <1>3, <1>4 DEF CheckCrc
<1>. QED
  BY <1>1, <1>2, <1>3, <1>5 DEF buf

(* The parser of a call makes of the answer to the call's own request what *)
(* the instrument made of the request: an acceptance, as long as the call  *)
(* waits for, is success; a refusal, shorter than that, is ModbusException *)
(* to a read and InvalidFrame to a write.                                  *)
LEMMA ReplyParses ==
  ASSUME NEW c \in Calls, c.op = ReadOp => c.count # 0, NEW unit \in Nat,
         NEW v \in Service, v.request = RequestFrame(c, unit), NEW txn \in Nat
  PROVE  LET buf == Bytes(Reply(v), TRUE, txn)
         IN  /\ Need(c) > 5
             /\ Len(buf) = IF v.accepted THEN Need(c) ELSE 5
             /\ v.accepted => Parse(c, unit, buf) = "None"
             /\ v.accepted /\ c.op = ReadOp => buf[1].frame.words = v.data
             /\ ~v.accepted =>
                  Parse(c, unit, buf) = IF c.op = ReadOp THEN "ModbusException"
                                                          ELSE "InvalidFrame"
<1>. DEFINE f == Reply(v)
            buf == Bytes(f, TRUE, txn)
<1>1. /\ c \in Call /\ c.count \in Nat /\ (c.op = ReadOp => c.count # 0)
      /\ c.op # ReadOp => c.count = Len(c.words)
      /\ c.op \in {ReadOp, SingleOp, MultiOp, AddressOp}
  BY CallAssumption DEF Call
<1>2. Need(c) > 5
  BY <1>1 DEF Need
<1>3. f \in Frame /\ v.accepted \in BOOLEAN
  BY ReplyType DEF Service
<1>4. /\ Len(buf) = ReplyLength(f) /\ ReplyLength(f) >= 5 /\ CheckCrc(buf) /\ buf[1].frame = f
  BY <1>3, BytesCheck
<1>5. /\ v.request.unit = unit /\ v.request.fn \in {ReadHolding, WriteSingle, WriteMultiple}
      /\ c.op = ReadOp <=> v.request.fn = ReadHolding
      /\ c.op = MultiOp <=> v.request.fn = WriteMultiple
      /\ c.op \in {ReadOp, MultiOp} => v.request.count = c.count
      /\ c.op = MultiOp => v.request.reg = c.reg
  BY <1>1 DEF RequestFrame, BuildReadHolding, BuildWriteMultiple, BuildWriteSingle, ReadHolding,
     WriteSingle, WriteMultiple, ReadOp, MultiOp, SingleOp, AddressOp
<1>. HIDE DEF buf, f
<1>6. CASE v.accepted
  <2>1. /\ f.unit = unit /\ f.fn = v.request.fn /\ f.count = v.request.count
        /\ v.request.fn = ReadHolding => f.words = v.data
        /\ v.request.fn = WriteMultiple => f.reg = v.request.reg
        /\ v.request.fn = WriteSingle => f = v.request
    BY <1>5, <1>6, ReplyMatches DEF f
  <2>2. ~IsException(f) /\ FromUnit(f, unit)
    BY <1>3, <1>6, <2>1, ReplyType DEF f, FromUnit
  <2>3. ReplyLength(f) = Need(c)
    BY <1>5, <2>1 DEF ReplyLength, FunctionCodes, Need
  <2>4. Parse(c, unit, buf) = "None"
    <3>1. CASE c.op = ReadOp
      BY <1>1, <1>4, <1>5, <2>1, <2>2, <2>3, <3>1 DEF Parse, ParseReadHolding, Checked, Need
    <3>2. CASE c.op = MultiOp
      BY <1>1, <1>4, <1>5, <2>1, <2>2, <2>3, <3>2 DEF Parse, ParseWriteMultipleEcho, Checked,
         Need, ReadOp, MultiOp
    <3>3. CASE c.op \notin {ReadOp, MultiOp}
      BY <1>4, <1>5, <2>1, <2>2, <2>3, <3>3 DEF Parse, ParseWriteSingleEcho, Checked, Need
    <3>. QED
      BY <3>1, <3>2, <3>3
  <2>. QED
    BY <1>2, <1>4, <1>5, <1>6, <2>1, <2>3, <2>4 DEF f, buf
<1>7. CASE ~v.accepted
  <2>1. f.unit = unit /\ f.fn = ExceptionMask + v.request.fn
    BY <1>5, <1>7 DEF f, Reply, ExceptionReply
  <2>2. IsException(f) /\ FromUnit(f, unit) /\ f.fn \notin FunctionCodes
    BY <1>5, <2>1 DEF IsException, FromUnit, ExceptionMask, FunctionCodes, ReadHolding,
       WriteSingle, WriteMultiple
  <2>3. Len(buf) = 5
    BY <1>4, <2>2 DEF ReplyLength
  <2>4. Parse(c, unit, buf) = IF c.op = ReadOp THEN "ModbusException" ELSE "InvalidFrame"
    BY <1>4, <2>2, <2>3 DEF Parse, ParseReadHolding, ParseWriteMultipleEcho,
       ParseWriteSingleEcho, Checked
  <2>. QED
    BY <1>2, <1>7, <2>3, <2>4 DEF f, buf
<1>. QED
  BY <1>3, <1>6, <1>7
-----------------------------------------------------------------------------
(* Requests and those they are for.                                        *)

(* A request of a call allowed on a timely line has the call's target, and *)
(* changes the address of the instrument that accepts it exactly when the  *)
(* call is a change of address.                                            *)
LEMMA OwnRequest ==
  ASSUME Timely, TypeOK, NEW c \in Calls, NEW unit \in Nat, NEW s \in Slaves
  PROVE  /\ RequestFrame(c, unit) \in RequestFrames
         /\ RequestFrame(c, unit).unit = unit
         /\ AppliedTo(s, RequestFrame(c, unit))[AddressReg]
              = IF c.op = AddressOp THEN c.words[1] ELSE regs[s][AddressReg]
<1>. DEFINE f == RequestFrame(c, unit)
<1>1. /\ c \in Call /\ c.op \in {ReadOp, SingleOp, MultiOp, AddressOp}
      /\ c.op \in {SingleOp, AddressOp} => c.count = 1
      /\ c.op # ReadOp => c.count = Len(c.words)
      /\ c.op = AddressOp => c.reg = AddressReg
      /\ c.op \in {SingleOp, MultiOp} => AddressReg \notin c.reg .. (c.reg + c.count - 1)
      /\ AddressReg \in Registers /\ AddressReg \in Nat
  BY CallAssumption, BusAssumption DEF Call, Timely
<1>2. f \in RequestFrames
  BY RequestFrameType
<1>3. /\ f.unit = unit /\ f.reg = c.reg
      /\ c.op = ReadOp <=> f.fn = ReadHolding
      /\ c.op # ReadOp => f.count = c.count /\ f.words[1] = c.words[1]
  BY <1>1 DEF RequestFrame, BuildReadHolding, BuildWriteMultiple, BuildWriteSingle, ReadHolding,
     WriteSingle, WriteMultiple, ReadOp, MultiOp, SingleOp, AddressOp
<1>. HIDE DEF f
<1>4. AppliedTo(s, f)[AddressReg] = IF c.op = AddressOp THEN c.words[1] ELSE regs[s][AddressReg]
  <2>1. CASE c.op = ReadOp
    BY <1>3, <2>1 DEF AppliedTo, ReadOp, AddressOp
  <2>2. CASE c.op \in {SingleOp, MultiOp}
    <3>1. AddressReg \notin Cells(f) /\ f.fn # ReadHolding /\ c.op # AddressOp
      BY <1>1, <1>3, <2>2 DEF Cells, ReadOp, SingleOp, MultiOp, AddressOp
    <3>. QED
      BY <1>1, <3>1 DEF AppliedTo
  <2>3. CASE c.op = AddressOp
    <3>1. f.reg = AddressReg /\ f.count = 1 /\ c.op # ReadOp
      BY <1>1, <1>3, <2>3 DEF ReadOp, AddressOp
    <3>2. /\ Cells(f) = {AddressReg} /\ f.fn # ReadHolding
          /\ AddressReg - f.reg + 1 = 1
      BY <1>1, <1>3, <3>1 DEF Cells
    <3>. QED
      BY <1>1, <1>3, <2>3, <3>2 DEF AppliedTo, AddressOp
  <2>. QED
    BY <1>1, <2>1, <2>2, <2>3
<1>. QED
  BY <1>2, <1>3, <1>4 DEF f

(* A step that begins and ends no call's outcome, and puts on record only  *)
(* what is no returned call's, keeps what is known of the returned calls.  *)
LEMMA OutcomesStay ==
  ASSUME TimelyInv, served \subseteq served',
         \A d \in Drivers : pc'[d] = "idle" /\ call'[d].txn # 0 =>
           pc[d] = "idle" /\ call'[d] = call[d],
         \A v \in served' \ served : \A d \in Drivers : pc[d] = "idle" => v.txn # call[d].txn
  PROVE  AckedMeansDone' /\ ErrorIsRefusal' /\ RefusalReported'
<1>1. AckedMeansDone'
  BY DEF TimelyInv, AckedMeansDone, Returned, Unicast
<1>2. ErrorIsRefusal'
  BY DEF TimelyInv, ErrorIsRefusal, Returned, Unicast
<1>3. RefusalReported'
  BY DEF TimelyInv, RefusalReported, Returned, Unicast, Refused
<1>. QED
  BY <1>1, <1>2, <1>3

(* A call begins on a silent line.                                         *)
LEMMA BeginTimely ==
  ASSUME Timely, TimelyInv, NEW d \in Drivers, NEW c \in Calls, Begin(d, c)
  PROVE  TimelyInv'
<1>1. /\ pc \in [Drivers -> {"idle", "write", "read"}] /\ call \in [Drivers -> CallState]
      /\ address \in [Drivers -> Nat] /\ sent \in Nat
      /\ \A v \in served : v.txn \in Nat
      /\ \A s \in Slaves : inbox[s] \in Seq(Request)
  BY DEF TimelyInv, TypeOK, Service
<1>2. /\ \A e \in Drivers : pc[e] = "idle"
      /\ \A e \in Drivers \ {d} : pc'[e] = "idle" /\ call'[e] = call[e]
      /\ pc'[d] = "write"
      /\ call'[d] = [args |-> c, unit |-> address[d], txn |-> sent + 1, error |-> "pending",
                     words |-> <<>>]
      /\ sent' = sent + 1 /\ rx' = <<>> /\ ParameterError(c) = "None"
      /\ UNCHANGED <<address, timeout, line, inbox, regs, served>>
      /\ c.op = AddressOp => \A s \in Slaves : regs[s][AddressReg] # c.words[1]
  BY <1>1 DEF Begin, Flushed, Timely, AllIdle
<1>3. Silent /\ AllIgnored
  BY <1>2 DEF TimelyInv, Phases, AllIdle
<1>4. OneCall'
  BY <1>2 DEF OneCall
<1>5. Numbered'
  <2>1. /\ \A v \in served : v.txn <= sent'
        /\ \A s \in Slaves : \A i \in DOMAIN inbox[s] : inbox[s][i].txn <= sent'
    <3>1. ASSUME NEW s \in Slaves, NEW i \in DOMAIN inbox[s] PROVE inbox[s][i].txn \in Nat
      <4>1. inbox[s][i] \in Request
        BY <1>1, ElementOfSeq
      <4>. QED
        BY <4>1 DEF Request
    <3>. QED
      BY <1>1, <1>2, <3>1 DEF TimelyInv, Numbered
  <2>2. /\ \A e \in Drivers : call[e].txn \in Nat /\ call[e].txn <= sent
        /\ call'[d].txn = sent + 1
    BY <1>1, <1>2 DEF CallState, TimelyInv, Numbered
  <2>3. \A e \in Drivers : call'[e].txn <= sent'
    BY <1>1, <1>2, <2>2
  <2>4. \A e, g \in Drivers : call'[e].txn = call'[g].txn => e = g \/ call'[e].txn = 0
    BY <1>1, <1>2, <2>2 DEF TimelyInv, Numbered
  <2>. QED
    BY <1>2, <2>1, <2>3, <2>4 DEF Numbered
<1>6. Allowed'
  BY <1>1, <1>2 DEF TimelyInv, Allowed
<1>7. Phases'
  <2>1. \A v \in served : v.txn # sent + 1
    BY <1>1 DEF TimelyInv, Numbered
  <2>2. Unanswered(d)' /\ AllIgnored'
    BY <1>2, <1>3, <2>1 DEF Unanswered, Silent, AllIgnored, Ignored, IsFor
  <2>. QED
    BY <1>2, <2>2 DEF Phases, AllIdle
<1>8. AddressesDistinct'
  BY <1>2 DEF TimelyInv, AddressesDistinct
<1>9. AckedMeansDone' /\ ErrorIsRefusal' /\ RefusalReported'
  BY <1>2, OutcomesStay
<1>10. TypeOK'
  BY NextType DEF TimelyInv, Next
<1>. QED
  BY <1>4, <1>5, <1>6, <1>7, <1>8, <1>9, <1>10 DEF TimelyInv

(* What the host does between its calls.                                   *)
LEMMA HostTimely ==
  ASSUME Timely, TimelyInv, NEW d \in Drivers,
         \/ \E c \in Calls : Refuse(d, c)
         \/ \E a \in HostAddresses : SetAddress(d, a)
         \/ \E ms \in Timeouts : SetTimeoutMs(d, ms)
  PROVE  TimelyInv'
<1>1. /\ pc \in [Drivers -> {"idle", "write", "read"}] /\ call \in [Drivers -> CallState]
      /\ address \in [Drivers -> Nat] /\ timeout \in [Drivers -> Nat]
  BY DEF TimelyInv, TypeOK
<1>2. /\ pc[d] = "idle" /\ UNCHANGED <<pc, rx, line, inbox, regs, served, sent>>
      /\ \A e \in Drivers \ {d} : call'[e] = call[e]
      /\ call'[d] = call[d] \/ call'[d].txn = 0
      /\ \A e \in Drivers : address'[e] = address[e] \/ (e = d /\ address'[e] \in HostAddresses)
      /\ \A e \in Drivers : timeout'[e] = timeout[e] \/ timeout'[e] \in Timeouts
  BY <1>1 DEF Refuse, SetAddress, SetTimeoutMs
<1>3. OneCall' /\ AddressesDistinct'
  BY <1>2 DEF TimelyInv, OneCall, AddressesDistinct
<1>4. Numbered'
  <2>1. sent \in Nat
    BY DEF TimelyInv, TypeOK
  <2>. QED
    BY <1>2, <2>1 DEF TimelyInv, Numbered
<1>5. Allowed'
  BY <1>2 DEF TimelyInv, Allowed, Timely
<1>6. Phases'
  <2>1. ASSUME NEW e \in Drivers, pc[e] # "idle"
        PROVE  /\ call'[e] = call[e] /\ Own(e)' = Own(e)
               /\ Unanswered(e)' <=> Unanswered(e)
               /\ Answered(e)' <=> Answered(e)
    <3>1. call'[e] = call[e]
      BY <1>2, <2>1
    <3>. QED
      BY <1>2, <3>1 DEF Own, Unanswered, Answered, Silent, AllIgnored, Ignored, IsFor
  <2>2. (AllIgnored' <=> AllIgnored) /\ (Silent' <=> Silent) /\ (AllIdle' <=> AllIdle)
    BY <1>2 DEF AllIgnored, Ignored, IsFor, Silent, AllIdle
  <2>3. \A t \in Slaves : \A i \in DOMAIN inbox'[t] : Ignored(t, i)' <=> Ignored(t, i)
    BY <1>2 DEF Ignored, IsFor
  <2>. QED
    BY <1>2, <2>1, <2>2, <2>3 DEF TimelyInv, Phases
<1>7. AckedMeansDone' /\ ErrorIsRefusal' /\ RefusalReported'
  BY <1>2, OutcomesStay
<1>8. TypeOK'
  BY NextType DEF TimelyInv, Next
<1>. QED
  BY <1>3, <1>4, <1>5, <1>6, <1>7, <1>8 DEF TimelyInv

(* Every instrument hears the request, last; the call waits.               *)
LEMMA TransmitWaits ==
  ASSUME Timely, TimelyInv, NEW d \in Drivers, Transmit(d)
  PROVE  /\ pc[d] = "write" /\ Unanswered(d) /\ AllIgnored
         /\ \A e \in Drivers \ {d} : pc[e] = "idle"
         /\ \A s \in Slaves : inbox'[s] = Append(inbox[s], Own(d))
         /\ pc' = [pc EXCEPT ![d] = "read"]
         /\ UNCHANGED <<address, timeout, call, rx, line, regs, served, sent>>
<1>1. /\ pc[d] = "write" /\ Unanswered(d) /\ AllIgnored
      /\ \A e \in Drivers \ {d} : pc[e] = "idle"
      /\ call[d].args \in Calls /\ ParameterError(call[d].args) = "None"
      /\ call[d].unit # Broadcast
      /\ call[d].args.op = ReadOp => call[d].args.count <= MaxRxRegs
  <2>1. pc[d] = "write"
    BY DEF Transmit
  <2>. QED
    BY <2>1 DEF TimelyInv, Phases, OneCall, Allowed, Timely
<1>2. call[d].args.op = ReadOp => ~(call[d].args.count > MaxRxRegs)
  BY <1>1, CallAssumption, BoundAssumption DEF Call
<1>. QED
  BY <1>1, <1>2 DEF Transmit, Own, Timely

LEMMA TransmitTimely ==
  ASSUME Timely, TimelyInv, NEW d \in Drivers, Transmit(d)
  PROVE  TimelyInv'
<1>1. /\ pc \in [Drivers -> {"idle", "write", "read"}] /\ call \in [Drivers -> CallState]
      /\ \A s \in Slaves : inbox[s] \in Seq(Request) /\ Len(inbox[s]) \in Nat
      /\ call[d].unit \in Nat /\ call[d].txn \in Nat
  BY DEF TimelyInv, TypeOK, CallState
<1>2. /\ pc[d] = "write" /\ Unanswered(d) /\ AllIgnored
      /\ \A e \in Drivers \ {d} : pc[e] = "idle"
  BY TransmitWaits
<1>3. /\ \A s \in Slaves : inbox'[s] = Append(inbox[s], Own(d))
      /\ pc' = [pc EXCEPT ![d] = "read"]
      /\ UNCHANGED <<address, timeout, call, rx, line, regs, served, sent>>
  BY TransmitWaits
<1>4. \A s \in Slaves : \A i \in DOMAIN inbox'[s] :
        \/ i \in DOMAIN inbox[s] /\ inbox'[s][i] = inbox[s][i]
        \/ i = Len(inbox'[s]) /\ inbox'[s][i] = Own(d)
  BY <1>1, <1>3
<1>5. \A e \in Drivers : pc'[e] = IF e = d THEN "read" ELSE "idle"
  BY <1>1, <1>2, <1>3
<1>6. OneCall' /\ Allowed' /\ AddressesDistinct'
  BY <1>2, <1>3, <1>5 DEF TimelyInv, OneCall, Allowed, AddressesDistinct
<1>7. Numbered'
  <2>1. Own(d).txn = call[d].txn
    BY DEF Own
  <2>. QED
    BY <1>3, <1>4, <2>1 DEF TimelyInv, Numbered
<1>8. Phases'
  <2>1. Own(d)' = Own(d) /\ (Unanswered(d)' <=> Unanswered(d))
    BY <1>3 DEF Own, Unanswered, Silent
  <2>2. \A s \in Slaves : \A i \in DOMAIN inbox'[s] :
          Ignored(s, i)' \/ (i = Len(inbox'[s]) /\ inbox'[s][i] = Own(d))
    BY <1>2, <1>3, <1>4 DEF AllIgnored, Ignored, IsFor
  <2>. QED
    BY <1>2, <1>5, <2>1, <2>2 DEF Phases, AllIdle
<1>9. AckedMeansDone' /\ ErrorIsRefusal' /\ RefusalReported'
  BY <1>2, <1>3, <1>5, OutcomesStay
<1>10. TypeOK'
  BY NextType DEF TimelyInv, Next, Step
<1>. QED
  BY <1>6, <1>7, <1>8, <1>9, <1>10 DEF TimelyInv

(* A byte moves from the line to the receive buffer; the answer they make  *)
(* up together stays what it is.                                           *)
LEMMA ArriveTimely ==
  ASSUME Timely, TimelyInv, Arrive
  PROVE  TimelyInv'
<1>1. /\ line # <<>> /\ rx' = Append(rx, Head(line)) /\ line' = Tail(line)
      /\ UNCHANGED <<address, timeout, pc, call, inbox, regs, served, sent>>
      /\ rx \in Seq(Byte) /\ line \in Seq(Byte)
  BY DEF Arrive, TimelyInv, TypeOK
<1>2. rx' \o line' = rx \o line
  BY <1>1
<1>3. ~Silent
  BY <1>1 DEF Silent
<1>4. \A d \in Drivers : Answered(d)' <=> Answered(d)
  BY <1>1, <1>2 DEF Answered, AllIgnored, Ignored, IsFor, Own
<1>5. Phases'
  BY <1>1, <1>3, <1>4 DEF TimelyInv, Phases, Unanswered, AllIdle
<1>6. OneCall' /\ Numbered' /\ Allowed' /\ AddressesDistinct'
  BY <1>1 DEF TimelyInv, OneCall, Numbered, Allowed, AddressesDistinct
<1>7. AckedMeansDone' /\ ErrorIsRefusal' /\ RefusalReported'
  BY <1>1, OutcomesStay
<1>8. TypeOK'
  BY NextType DEF TimelyInv, Next
<1>. QED
  BY <1>5, <1>6, <1>7, <1>8 DEF TimelyInv

(* Instrument s's request is the call's own, and for s alone; or s drops   *)
(* it.                                                                     *)
LEMMA ServeOwn ==
  ASSUME Timely, TimelyInv, NEW s \in Slaves, inbox[s] # <<>>, IsFor(s, Head(inbox[s]).frame)
  PROVE  \E d \in Drivers :
           /\ pc[d] = "read" /\ Unanswered(d) /\ Head(inbox[s]) = Own(d)
           /\ Tail(inbox[s]) = <<>>
           /\ call[d].args \in Calls /\ call[d].unit \in Nat
           /\ call[d].unit # Broadcast /\ regs[s][AddressReg] = call[d].unit
           /\ \A t \in Slaves \ {s} : \A i \in DOMAIN inbox[t] : Ignored(t, i)
<1>1. inbox[s] \in Seq(Request) /\ Head(inbox[s]) = inbox[s][1] /\ 1 \in DOMAIN inbox[s]
  BY DEF TimelyInv, TypeOK
<1>2. ~Ignored(s, 1)
  BY <1>1 DEF Ignored
<1>3. PICK d \in Drivers : pc[d] = "read" /\ ~Answered(d)
  <2>1. ~AllIgnored
    BY <1>1, <1>2 DEF AllIgnored
  <2>2. ~AllIdle /\ \A d \in Drivers : pc[d] # "write"
    BY <2>1 DEF TimelyInv, Phases
  <2>3. \A d \in Drivers : ~Answered(d)
    BY <2>1 DEF Answered
  <2>. QED
    BY <2>2, <2>3 DEF AllIdle, TimelyInv, TypeOK
<1>4. /\ Unanswered(d)
      /\ \A t \in Slaves : \A i \in DOMAIN inbox[t] :
           Ignored(t, i) \/ (i = Len(inbox[t]) /\ inbox[t][i] = Own(d))
  BY <1>3 DEF TimelyInv, Phases
<1>5. 1 = Len(inbox[s]) /\ Head(inbox[s]) = Own(d)
  BY <1>1, <1>2, <1>4
<1>6. Tail(inbox[s]) = <<>>
  <2>1. Tail(inbox[s]) \in Seq(Request) /\ Len(Tail(inbox[s])) = 0
    BY <1>1, <1>5
  <2>. QED
    BY <2>1, EmptySeq
<1>7. call[d].args \in Calls /\ call[d].unit \in Nat /\ call[d].unit # Broadcast
  BY <1>3 DEF TimelyInv, Allowed, TypeOK, CallState
<1>8. Own(d).frame.unit = call[d].unit
  BY <1>7, OwnRequest DEF Own, TimelyInv
<1>9. regs[s][AddressReg] = call[d].unit
  BY <1>5, <1>7, <1>8 DEF IsFor
<1>10. ASSUME NEW t \in Slaves \ {s}, NEW i \in DOMAIN inbox[t] PROVE Ignored(t, i)
  <2>1. regs[t][AddressReg] # call[d].unit
    BY <1>9 DEF TimelyInv, AddressesDistinct
  <2>. QED
    BY <1>4, <1>7, <1>8, <2>1 DEF Ignored, IsFor
<1>. QED
  BY <1>3, <1>4, <1>5, <1>6, <1>7, <1>9, <1>10

(* An instrument drops what is not for it; its other requests stay as they *)
(* are, the last one the last.                                             *)
LEMMA DropsHead ==
  ASSUME TypeOK, NEW s \in Slaves, Serve(s), ~IsFor(s, Head(inbox[s]).frame)
  PROVE  /\ inbox' = [inbox EXCEPT ![s] = Tail(inbox[s])]
         /\ UNCHANGED <<address, timeout, pc, call, rx, line, regs, served, sent>>
         /\ \A t \in Slaves : \A i \in DOMAIN inbox'[t] :
              \E j \in DOMAIN inbox[t] : /\ inbox'[t][i] = inbox[t][j]
                                         /\ j = Len(inbox[t]) => i = Len(inbox'[t])
<1>1. /\ inbox \in [Slaves -> Seq(Request)] /\ inbox[s] # <<>>
      /\ inbox' = [inbox EXCEPT ![s] = Tail(inbox[s])]
      /\ UNCHANGED <<address, timeout, pc, call, rx, line, regs, served, sent>>
  BY DEF Serve, TypeOK
<1>2. ASSUME NEW i \in DOMAIN Tail(inbox[s])
      PROVE  /\ i + 1 \in DOMAIN inbox[s] /\ Tail(inbox[s])[i] = inbox[s][i + 1]
             /\ i + 1 = Len(inbox[s]) => i = Len(Tail(inbox[s]))
  BY <1>1
<1>3. inbox'[s] = Tail(inbox[s]) /\ \A t \in Slaves \ {s} : inbox'[t] = inbox[t]
  BY <1>1
<1>4. ASSUME NEW i \in DOMAIN inbox'[s]
      PROVE  \E j \in DOMAIN inbox[s] : /\ inbox'[s][i] = inbox[s][j]
                                        /\ j = Len(inbox[s]) => i = Len(inbox'[s])
  BY <1>2, <1>3
<1>5. ASSUME NEW t \in Slaves \ {s}, NEW i \in DOMAIN inbox'[t]
      PROVE  \E j \in DOMAIN inbox[t] : /\ inbox'[t][i] = inbox[t][j]
                                        /\ j = Len(inbox[t]) => i = Len(inbox'[t])
  <2>. i \in DOMAIN inbox[t] /\ inbox'[t] = inbox[t]
    BY <1>3
  <2>. WITNESS i \in DOMAIN inbox[t]
  <2>. QED
    OBVIOUS
<1>. QED
  BY <1>1, <1>4, <1>5

LEMMA DropTimely ==
  ASSUME Timely, TimelyInv, NEW s \in Slaves, Serve(s), ~IsFor(s, Head(inbox[s]).frame)
  PROVE  TimelyInv'
<1>1. UNCHANGED <<address, timeout, pc, call, rx, line, regs, served, sent>>
  BY DropsHead DEF TimelyInv
<1>2. \A t \in Slaves : \A i \in DOMAIN inbox'[t] :
        \E j \in DOMAIN inbox[t] : /\ inbox'[t][i] = inbox[t][j]
                                   /\ j = Len(inbox[t]) => i = Len(inbox'[t])
  BY DropsHead DEF TimelyInv
<1>3. OneCall' /\ Allowed' /\ AddressesDistinct'
  BY <1>1 DEF TimelyInv, OneCall, Allowed, AddressesDistinct
<1>4. Numbered'
  BY <1>1, <1>2 DEF TimelyInv, Numbered
<1>5. Phases'
  <2>1. AllIgnored => AllIgnored'
    BY <1>1, <1>2 DEF AllIgnored, Ignored, IsFor
  <2>2. \A d \in Drivers : /\ Own(d)' = Own(d) /\ (Unanswered(d) => Unanswered(d)')
                           /\ (Answered(d) => Answered(d)')
    BY <1>1, <2>1 DEF Own, Unanswered, Answered, Silent
  <2>3. ASSUME NEW d \in Drivers,
               \A t \in Slaves : \A i \in DOMAIN inbox[t] :
                 Ignored(t, i) \/ (i = Len(inbox[t]) /\ inbox[t][i] = Own(d))
        PROVE  \A t \in Slaves : \A i \in DOMAIN inbox'[t] :
                 Ignored(t, i)' \/ (i = Len(inbox'[t]) /\ inbox'[t][i] = Own(d)')
    BY <1>1, <1>2, <2>2, <2>3 DEF Ignored, IsFor
  <2>4. (AllIdle' <=> AllIdle) /\ (Silent' <=> Silent) /\ pc' = pc
    BY <1>1 DEF AllIdle, Silent
  <2>. QED
    BY <2>1, <2>2, <2>3, <2>4 DEF TimelyInv, Phases
<1>6. AckedMeansDone' /\ ErrorIsRefusal' /\ RefusalReported'
  BY <1>1, OutcomesStay
<1>7. TypeOK'
  BY NextType DEF TimelyInv, Next
<1>. QED
  BY <1>3, <1>4, <1>5, <1>6, <1>7 DEF TimelyInv

(* What an instrument does with the request of d's call: it answers it     *)
(* whole, it alone has done so, and a change of address has its effect.    *)
AnswersOwn(s, d, accepted) ==
  LET v == Outcome(s, accepted)
  IN  /\ pc[d] = "read" /\ Unanswered(d)
      /\ Tail(inbox[s]) = <<>>
      /\ \A t \in Slaves \ {s} : \A i \in DOMAIN inbox[t] : Ignored(t, i)
      /\ call[d].unit # Broadcast /\ regs[s][AddressReg] = call[d].unit
      /\ v \in Service /\ v.txn = call[d].txn /\ v.request = Own(d).frame
      /\ v.accepted = accepted
      /\ served' = served \cup {v}
      /\ line' = line \o Bytes(Reply(v), TRUE, call[d].txn)
      /\ \A t \in Slaves \ {s} : regs'[t] = regs[t]
      /\ regs'[s][AddressReg] = IF accepted /\ call[d].args.op = AddressOp
                               THEN call[d].args.words[1] ELSE regs[s][AddressReg]

LEMMA ServeAnswers ==
  ASSUME Timely, TimelyInv, NEW s \in Slaves, Serve(s), IsFor(s, Head(inbox[s]).frame)
  PROVE  \E d \in Drivers, accepted \in BOOLEAN : AnswersOwn(s, d, accepted)
<1>1. PICK d \in Drivers :
        /\ pc[d] = "read" /\ Unanswered(d) /\ Head(inbox[s]) = Own(d)
        /\ Tail(inbox[s]) = <<>>
        /\ call[d].args \in Calls /\ call[d].unit \in Nat
        /\ call[d].unit # Broadcast /\ regs[s][AddressReg] = call[d].unit
        /\ \A t \in Slaves \ {s} : \A i \in DOMAIN inbox[t] : Ignored(t, i)
  BY ServeOwn DEF Serve
<1>. DEFINE f == Own(d).frame
            txn == call[d].txn
<1>2. /\ f \in RequestFrames /\ f.unit = call[d].unit
      /\ AppliedTo(s, f)[AddressReg]
           = IF call[d].args.op = AddressOp THEN call[d].args.words[1] ELSE regs[s][AddressReg]
      /\ Head(inbox[s]).frame = f /\ Head(inbox[s]).txn = txn
  BY <1>1, OwnRequest DEF Own, TimelyInv
<1>3. PICK accepted \in BOOLEAN :
        /\ accepted => Cells(f) \subseteq Registers
        /\ served' = served \cup {Outcome(s, accepted)}
        /\ regs' = IF accepted THEN [regs EXCEPT ![s] = AppliedTo(s, f)] ELSE regs
        /\ line' = line \o Bytes(Reply(Outcome(s, accepted)), TRUE, txn)
  <2>. HIDE DEF f, txn
  <2>1. ~Lossy /\ f.unit # Broadcast
    BY <1>1, <1>2 DEF Timely
  <2>2. PICK accepted \in BOOLEAN, answered \in BOOLEAN, intact \in BOOLEAN :
          /\ accepted => Cells(f) \subseteq Registers
          /\ Lossy \/ (answered /\ intact)
          /\ served' = served \cup {Outcome(s, accepted)}
          /\ regs' = IF accepted THEN [regs EXCEPT ![s] = AppliedTo(s, f)] ELSE regs
          /\ line' = IF answered /\ f.unit # Broadcast
                     THEN line \o Bytes(Reply(Outcome(s, accepted)), intact, txn)
                     ELSE line
    BY <1>2, ZenonT(40) DEF Serve, Outcome
  <2>3. intact = TRUE /\ answered
    BY <2>1, <2>2
  <2>. QED
    BY <2>1, <2>2, <2>3
<1>. DEFINE v == Outcome(s, accepted)
<1>4. /\ v \in Service /\ v.txn = txn /\ v.request = f /\ v.accepted = accepted
  <2>1. v \in Service
    BY <1>2, <1>3, OutcomeType DEF Serve, TimelyInv
  <2>. QED
    BY <1>2, <2>1 DEF Outcome
<1>5. /\ \A t \in Slaves \ {s} : regs'[t] = regs[t]
      /\ regs'[s][AddressReg] = IF accepted /\ call[d].args.op = AddressOp
                               THEN call[d].args.words[1] ELSE regs[s][AddressReg]
  <2>1. regs \in [Slaves -> [Registers -> Word]]
    BY DEF TimelyInv, TypeOK
  <2>. HIDE DEF f
  <2>. QED
    BY <1>2, <1>3, <2>1
<1>6. AnswersOwn(s, d, accepted)
  BY <1>1, <1>3, <1>4, <1>5 DEF AnswersOwn
<1>. QED
  BY <1>6

LEMMA AnswerTimely ==
  ASSUME Timely, TimelyInv, NEW s \in Slaves, Serve(s), IsFor(s, Head(inbox[s]).frame)
  PROVE  TimelyInv'
<1>1. PICK d \in Drivers, accepted \in BOOLEAN : AnswersOwn(s, d, accepted)
  BY ServeAnswers
<1>. DEFINE v == Outcome(s, accepted)
<1>2. /\ pc[d] = "read" /\ Unanswered(d) /\ Tail(inbox[s]) = <<>>
      /\ \A t \in Slaves \ {s} : \A i \in DOMAIN inbox[t] : Ignored(t, i)
      /\ call[d].unit # Broadcast /\ regs[s][AddressReg] = call[d].unit
  BY <1>1 DEF AnswersOwn
<1>3. /\ v \in Service /\ v.txn = call[d].txn /\ v.request = Own(d).frame
      /\ v.accepted = accepted
      /\ served' = served \cup {v} /\ line' = line \o Bytes(Reply(v), TRUE, call[d].txn)
  BY <1>1 DEF AnswersOwn
<1>4. /\ \A w \in served : w.txn # call[d].txn
      /\ call[d].txn \in Nat /\ v.txn # 0
  BY <1>2, <1>3 DEF Unanswered, TimelyInv, TypeOK, CallState, Allowed
<1>. HIDE DEF v
<1>5. /\ UNCHANGED <<address, timeout, pc, call, rx, sent>>
      /\ inbox'[s] = <<>> /\ \A t \in Slaves \ {s} : inbox'[t] = inbox[t]
      /\ \A e \in Drivers \ {d} : pc[e] = "idle"
  BY <1>2 DEF Serve, TimelyInv, TypeOK, OneCall
<1>6. /\ \A t \in Slaves \ {s} : regs'[t] = regs[t]
      /\ regs'[s][AddressReg] = IF accepted /\ call[d].args.op = AddressOp
                               THEN call[d].args.words[1] ELSE regs[s][AddressReg]
  BY <1>1 DEF AnswersOwn
<1>7. AddressesDistinct'
  <2>1. call[d].args.op = AddressOp =>
          \A t \in Slaves : regs[t][AddressReg] # call[d].args.words[1]
    BY <1>2 DEF Unanswered
  <2>2. \A t, u \in Slaves : t # u => regs[t][AddressReg] # regs[u][AddressReg]
    BY DEF TimelyInv, AddressesDistinct
  <2>3. ASSUME NEW t \in Slaves, NEW u \in Slaves, t # u
        PROVE  regs'[t][AddressReg] # regs'[u][AddressReg]
    BY <1>6, <2>1, <2>2, <2>3
  <2>. QED
    BY <2>3 DEF AddressesDistinct
<1>8. Phases'
  <2>1. AllIgnored'
    BY <1>2, <1>5, <1>6 DEF AllIgnored, Ignored, IsFor
  <2>2. rx' \o line' = Bytes(Reply(v), TRUE, v.txn)
    <3>1. Bytes(Reply(v), TRUE, v.txn) \in Seq(Byte)
      BY <1>3, <1>4, ReplyType, BytesType
    <3>2. rx = <<>> /\ line = <<>>
      BY <1>2 DEF Unanswered, Silent
    <3>. QED
      BY <1>3, <1>5, <3>1, <3>2
  <2>3. \A w \in served' : w.txn = v.txn => w = v
    BY <1>3, <1>4
  <2>4. v \in served' /\ v.request = Own(d)'.frame /\ v.txn = call'[d].txn
    BY <1>3, <1>5 DEF Own
  <2>5. Answered(d)'
    BY <2>1, <2>2, <2>3, <2>4 DEF Answered
  <2>. QED
    BY <1>2, <1>5, <2>5 DEF Phases, AllIdle
<1>9. Numbered'
  <2>1. \A t \in Slaves : \A i \in DOMAIN inbox'[t] :
          i \in DOMAIN inbox[t] /\ inbox'[t][i] = inbox[t][i]
    BY <1>5
  <2>2. \A w \in served' : w.txn <= sent
    BY <1>3 DEF TimelyInv, Numbered
  <2>. QED
    BY <1>5, <2>1, <2>2 DEF TimelyInv, Numbered
<1>10. OneCall' /\ Allowed'
  BY <1>5 DEF TimelyInv, OneCall, Allowed
<1>11. AckedMeansDone' /\ ErrorIsRefusal' /\ RefusalReported'
  <2>1. ASSUME NEW w \in served' \ served, NEW e \in Drivers, pc[e] = "idle"
        PROVE  w.txn # call[e].txn
    BY <1>2, <1>3, <1>4, <2>1 DEF TimelyInv, Numbered
  <2>. QED
    BY <1>3, <1>5, <2>1, OutcomesStay
<1>12. TypeOK'
  BY NextType DEF TimelyInv, Next
<1>. QED
  BY <1>7, <1>8, <1>9, <1>10, <1>11, <1>12 DEF TimelyInv

(* A call that outlasts every reply, on a silent line, can only give up,   *)
(* and does so once nothing is under way.                                  *)
LEMMA SilenceReturns ==
  ASSUME TypeOK, NEW d \in Drivers, ReceiveAll(d) \/ GiveUp(d), Silent,
         call[d].args \in Calls, timeout[d] \in LongTimeouts
  PROVE  rx' = <<>> /\ Quiet /\ Return(d, "Timeout", <<>>)
<1>1. Need(call[d].args) \in Nat /\ Need(call[d].args) > 0
  BY CallAssumption DEF Call, Need
<1>2. Len(rx) = 0 /\ rx = <<>>
  BY DEF Silent
<1>3. GiveUp(d)
  BY <1>1, <1>2 DEF ReceiveAll
<1>4. Quiet /\ Receive(d, 0)
  BY <1>2, <1>3 DEF GiveUp, TimeUp
<1>5. SubSeq(rx, 1, Len(rx)) = <<>>
  BY <1>2
<1>. QED
  BY <1>2, <1>4, <1>5 DEF Receive

(* One whose answer is all that the line and the receive buffer hold       *)
(* returns when it has all of it, and reports what the instrument has made *)
(* of the request.                                                         *)
LEMMA ReplyReturns ==
  ASSUME TypeOK, NEW d \in Drivers, ReceiveAll(d) \/ GiveUp(d),
         call[d].args \in Calls, timeout[d] \in LongTimeouts,
         call[d].args.op = ReadOp => call[d].args.count # 0,
         NEW v \in Service, v.request = Own(d).frame,
         rx \o line = Bytes(Reply(v), TRUE, call[d].txn)
  PROVE  \E error, words :
           /\ Return(d, error, words)
           /\ rx' = <<>> /\ line = <<>>
           /\ v.accepted <=> error = "None"
           /\ call[d].args.op = ReadOp /\ v.accepted => words = v.data
           /\ ~v.accepted => error = RefusalError(call[d].args)
<1>. DEFINE c == call[d].args
            unit == call[d].unit
            txn == call[d].txn
            Verdict(n, buf) == IF n = 0 THEN "Timeout"
                               ELSE IF c.op = ReadOp /\ n < 5 THEN "InvalidFrame"
                               ELSE Parse(c, unit, buf)
            Words(n, buf) == IF c.op = ReadOp /\ Verdict(n, buf) = "None"
                             THEN buf[1].frame.words ELSE <<>>
            buf == Bytes(Reply(v), TRUE, txn)
<1>1. /\ rx \in Seq(Byte) /\ line \in Seq(Byte) /\ Len(rx) \in Nat
      /\ unit \in Nat /\ txn \in Nat /\ v.accepted \in BOOLEAN
  BY DEF TypeOK, CallState, Service
<1>2. /\ Need(c) \in Nat /\ Need(c) > 5
      /\ Len(buf) = IF v.accepted THEN Need(c) ELSE 5
      /\ v.accepted => Parse(c, unit, buf) = "None"
      /\ v.accepted /\ c.op = ReadOp => buf[1].frame.words = v.data
      /\ ~v.accepted => Parse(c, unit, buf) = IF c.op = ReadOp THEN "ModbusException"
                                                             ELSE "InvalidFrame"
  <2>1. /\ c \in Calls /\ (c.op = ReadOp => c.count # 0) /\ unit \in Nat /\ txn \in Nat
        /\ v \in Service /\ v.request = RequestFrame(c, unit)
    BY <1>1 DEF Own
  <2>2. Need(c) \in Nat
    BY CallAssumption DEF Call, Need
  <2>. HIDE DEF c, unit, txn, Verdict, Words
  <2>3. LET reply == Bytes(Reply(v), TRUE, txn)
        IN  /\ Need(c) > 5
            /\ Len(reply) = IF v.accepted THEN Need(c) ELSE 5
            /\ v.accepted => Parse(c, unit, reply) = "None"
            /\ v.accepted /\ c.op = ReadOp => reply[1].frame.words = v.data
            /\ ~v.accepted => Parse(c, unit, reply) = IF c.op = ReadOp THEN "ModbusException"
                                                                     ELSE "InvalidFrame"
    BY ONLY <2>1, ReplyParses, Zenon
  <2>. QED
    BY <2>2, <2>3
<1>. HIDE DEF buf
<1>3. rx \o line = buf /\ Len(rx) + Len(line) = Len(buf) /\ Len(line) \in Nat
  <2>1. rx \o line = buf
    BY DEF buf
  <2>2. Len(rx \o line) = Len(rx) + Len(line) /\ Len(line) \in Nat
    BY ONLY <1>1, ConcatProperties
  <2>. QED
    BY <2>1, <2>2
<1>4. line = <<>> /\ Receive(d, Len(rx))
  <2>1. CASE ReceiveAll(d)
    <3>1. Len(rx) >= Need(c) /\ Receive(d, Need(c))
      BY <2>1 DEF ReceiveAll
    <3>2. Len(rx) = Need(c) /\ Len(line) = 0
      BY <1>1, <1>2, <1>3, <3>1
    <3>. QED
      BY <1>1, <3>1, <3>2
  <2>2. CASE GiveUp(d)
    BY <2>2 DEF GiveUp, TimeUp, Quiet
  <2>. QED
    BY <2>1, <2>2
<1>5. rx = buf
  <2>1. rx \o <<>> = rx
    BY <1>1
  <2>. QED
    BY <1>3, <1>4, <2>1
<1>6. SubSeq(rx, 1, Len(rx)) = rx /\ SubSeq(rx, Len(rx) + 1, Len(rx)) = <<>>
  BY <1>1
<1>7. rx' = <<>> /\ Return(d, Verdict(Len(buf), buf), Words(Len(buf), buf))
  BY <1>4, <1>5, <1>6 DEF Receive
<1>8. Verdict(Len(buf), buf) = Parse(c, unit, buf)
  BY <1>2
<1>9. /\ v.accepted <=> Verdict(Len(buf), buf) = "None"
      /\ c.op = ReadOp /\ v.accepted => Words(Len(buf), buf) = v.data
      /\ ~v.accepted => Verdict(Len(buf), buf) = RefusalError(c)
  BY <1>1, <1>2, <1>8 DEF RefusalError
<1>. HIDE DEF Verdict, Words
<1>. QED
  BY <1>4, <1>7, <1>9

(* So on a timely line a call that waits for its reply returns on a line   *)
(* that is silent again, and reports what the instrument has made of it,   *)
(* if one has.                                                             *)
LEMMA OutcomeTimely ==
  ASSUME Timely, TimelyInv, NEW d \in Drivers, ReceiveAll(d) \/ GiveUp(d)
  PROVE  \E error, words :
           /\ Return(d, error, words)
           /\ rx' = <<>> /\ line = <<>> /\ AllIgnored
           /\ \/ error # "None" /\ \A v \in served : v.txn # call[d].txn
              \/ \E v \in served :
                   /\ v.txn = call[d].txn
                   /\ \A w \in served : w.txn = call[d].txn => w = v
                   /\ v.accepted <=> error = "None"
                   /\ call[d].args.op = ReadOp /\ v.accepted => words = v.data
                   /\ ~v.accepted => error = RefusalError(call[d].args)
<1>1. /\ TypeOK /\ pc[d] = "read" /\ call[d].args \in Calls /\ timeout[d] \in LongTimeouts
      /\ call[d].args.op = ReadOp => call[d].args.count # 0
  BY DEF ReceiveAll, GiveUp, TimelyInv, Allowed, Timely, ParameterError, BadRead, BadMultiple
<1>2. CASE Unanswered(d)
  <2>1. Silent /\ line = <<>> /\ \A v \in served : v.txn # call[d].txn
    BY <1>2 DEF Unanswered, Silent
  <2>2. rx' = <<>> /\ Quiet /\ Return(d, "Timeout", <<>>)
    BY <1>1, <2>1, SilenceReturns
  <2>3. AllIgnored
    <3>1. \A s \in Slaves : DOMAIN inbox[s] = {}
      BY <2>2 DEF Quiet
    <3>. QED
      BY <3>1 DEF AllIgnored
  <2>. QED
    BY <2>1, <2>2, <2>3
<1>3. CASE Answered(d)
  <2>1. PICK v \in served :
          /\ v.txn = call[d].txn /\ v.request = Own(d).frame
          /\ \A w \in served : w.txn = call[d].txn => w = v
          /\ rx \o line = Bytes(Reply(v), TRUE, call[d].txn)
    BY <1>3 DEF Answered
  <2>2. v \in Service
    BY <1>1 DEF TypeOK
  <2>3. PICK error, words :
          /\ Return(d, error, words)
          /\ rx' = <<>> /\ line = <<>>
          /\ v.accepted <=> error = "None"
          /\ call[d].args.op = ReadOp /\ v.accepted => words = v.data
          /\ ~v.accepted => error = RefusalError(call[d].args)
    BY <1>1, <2>1, <2>2, ReplyReturns
  <2>4. AllIgnored
    BY <1>3 DEF Answered
  <2>. QED
    BY <2>1, <2>3, <2>4
<1>. QED
  BY <1>1, <1>2, <1>3 DEF TimelyInv, Phases

LEMMA ReceiveTimely ==
  ASSUME Timely, TimelyInv, NEW d \in Drivers, ReceiveAll(d) \/ GiveUp(d)
  PROVE  TimelyInv'
<1>1. PICK error, words :
        /\ Return(d, error, words)
        /\ rx' = <<>> /\ line = <<>> /\ AllIgnored
        /\ \/ error # "None" /\ \A v \in served : v.txn # call[d].txn
           \/ \E v \in served :
                /\ v.txn = call[d].txn
                /\ \A w \in served : w.txn = call[d].txn => w = v
                /\ v.accepted <=> error = "None"
                /\ call[d].args.op = ReadOp /\ v.accepted => words = v.data
                /\ ~v.accepted => error = RefusalError(call[d].args)
  BY OutcomeTimely
<1>2. /\ call \in [Drivers -> CallState] /\ address \in [Drivers -> Nat]
      /\ pc \in [Drivers -> {"idle", "write", "read"}] /\ call[d] \in CallState
  BY DEF TimelyInv, TypeOK
<1>3. /\ pc[d] = "read" /\ UNCHANGED <<timeout, line, inbox, regs, served, sent>>
  BY DEF ReceiveAll, GiveUp, Receive
<1>4. /\ call[d].args \in Calls /\ ParameterError(call[d].args) = "None"
      /\ \A e \in Drivers \ {d} : pc[e] = "idle"
  BY <1>3 DEF TimelyInv, Allowed, OneCall
<1>5. /\ \A e \in Drivers : pc'[e] = "idle"
      /\ \A e \in Drivers \ {d} : call'[e] = call[e] /\ address'[e] = address[e]
      /\ call'[d].error = error /\ call'[d].words = words /\ call'[d].args = call[d].args
      /\ call'[d].txn = call[d].txn /\ call'[d].unit = call[d].unit
      /\ address'[d] = TargetAfter(d, error)
  <2>1. call'[d] = [call[d] EXCEPT !.error = error, !.words = words]
    BY <1>1, <1>2 DEF Return
  <2>2. /\ call'[d].error = error /\ call'[d].words = words /\ call'[d].args = call[d].args
        /\ call'[d].txn = call[d].txn /\ call'[d].unit = call[d].unit
    BY <1>2, <2>1 DEF CallState
  <2>. QED
    BY <1>1, <1>2, <1>4, <2>2 DEF Return
<1>6. OneCall' /\ AddressesDistinct' /\ Numbered'
  BY <1>3, <1>5 DEF TimelyInv, OneCall, AddressesDistinct, Numbered
<1>7. Allowed'
  <2>1. address'[d] # Broadcast
    <3>1. CASE call[d].args.op = AddressOp /\ error = "None"
      <4>1. /\ call[d].args.words \in Seq(Word) /\ Len(call[d].args.words) = 1
            /\ ~(call[d].args.words[1] < 1)
        BY <1>4, <3>1, CallAssumption DEF ParameterError, BadAddress, Call, AddressOp, ReadOp, MultiOp
      <4>. QED
        BY <1>5, <3>1, <4>1 DEF TargetAfter, Broadcast
    <3>2. CASE ~(call[d].args.op = AddressOp /\ error = "None")
      BY <1>5, <3>2 DEF TargetAfter, TimelyInv, Allowed
    <3>. QED
      BY <3>1, <3>2
  <2>. QED
    BY <1>3, <1>5, <2>1 DEF TimelyInv, Allowed
<1>8. Phases'
  BY <1>1, <1>3, <1>5 DEF Phases, AllIdle, Silent, AllIgnored, Ignored, IsFor
<1>9. AckedMeansDone'
  BY <1>1, <1>3, <1>4, <1>5 DEF TimelyInv, AckedMeansDone, Returned, Unicast
<1>10. ErrorIsRefusal'
  BY <1>1, <1>3, <1>4, <1>5 DEF TimelyInv, ErrorIsRefusal, Returned, Unicast
<1>11. RefusalReported'
  BY <1>1, <1>3, <1>4, <1>5 DEF TimelyInv, RefusalReported, Returned, Unicast, Refused
<1>12. TypeOK'
  BY NextType DEF TimelyInv, Next, Step
<1>. QED
  BY <1>6, <1>7, <1>8, <1>9, <1>10, <1>11, <1>12 DEF TimelyInv

(* The inductive step ...                                                  *)
LEMMA NextTimely ==
  ASSUME Timely, TimelyInv, [Next]_vars
  PROVE  TimelyInv'
<1>1. ASSUME NEW d \in Drivers, Step(d) PROVE TimelyInv'
  BY <1>1, TransmitTimely, ReceiveTimely DEF Step
<1>2. ASSUME NEW d \in Drivers, NEW c \in Calls, Refuse(d, c) \/ Begin(d, c) PROVE TimelyInv'
  BY <1>2, HostTimely, BeginTimely
<1>3. ASSUME NEW d \in Drivers, NEW a \in HostAddresses, SetAddress(d, a) PROVE TimelyInv'
  BY <1>3, HostTimely
<1>4. ASSUME NEW d \in Drivers, NEW ms \in Timeouts, SetTimeoutMs(d, ms) PROVE TimelyInv'
  BY <1>4, HostTimely
<1>5. ASSUME NEW s \in Slaves, Serve(s) PROVE TimelyInv'
  BY <1>5, DropTimely, AnswerTimely
<1>6. CASE UNCHANGED vars
  <2>1. UNCHANGED <<address, timeout, pc, call, rx, line, inbox, regs, served, sent>>
    BY <1>6 DEF vars
  <2>2. OneCall' /\ Numbered' /\ Allowed' /\ AddressesDistinct'
    BY <2>1 DEF TimelyInv, OneCall, Numbered, Allowed, AddressesDistinct
  <2>3. Phases'
    <3>1. \A d \in Drivers : /\ Own(d)' = Own(d) /\ (Unanswered(d)' <=> Unanswered(d))
                             /\ (Answered(d)' <=> Answered(d))
      BY <2>1 DEF Own, Unanswered, Answered, Silent, AllIgnored, Ignored, IsFor
    <3>2. \A s \in Slaves : \A i \in DOMAIN inbox[s] : Ignored(s, i)' <=> Ignored(s, i)
      BY <2>1 DEF Ignored, IsFor
    <3>. QED
      BY <2>1, <3>1, <3>2 DEF TimelyInv, Phases, AllIdle, AllIgnored, Silent
  <2>4. AckedMeansDone' /\ ErrorIsRefusal' /\ RefusalReported'
    BY <2>1, OutcomesStay
  <2>5. TypeOK'
    BY <1>6, NextType DEF TimelyInv
  <2>. QED
    BY <2>2, <2>3, <2>4, <2>5 DEF TimelyInv
<1>. QED
  BY <1>1, <1>2, <1>3, <1>4, <1>5, <1>6, ArriveTimely DEF Next

(* ... and the beginning.                                                  *)
LEMMA InitTimely ==
  ASSUME Timely, Init
  PROVE  TimelyInv
<1>1. TypeOK
  BY InitType
<1>2. Numbered /\ Allowed
  BY DEF Init, Numbered, Allowed, Timely
<1>3. Phases
  BY DEF Init, Phases, Silent, AllIgnored, AllIdle
<1>4. OneCall /\ AddressesDistinct
  BY DEF Init, OneCall, AddressesDistinct, Timely
<1>5. AckedMeansDone /\ ErrorIsRefusal /\ RefusalReported
  BY DEF Init, AckedMeansDone, ErrorIsRefusal, RefusalReported, Returned
<1>. QED
  BY <1>1, <1>2, <1>3, <1>4, <1>5 DEF TimelyInv

(* Every reachable state of a timely line has the invariant.               *)
THEOREM TimelyInvHolds ==
  ASSUME Timely
  PROVE  Spec => []TimelyInv
<1>1. Init => TimelyInv
  BY InitTimely
<1>2. TimelyInv /\ [Next]_vars => TimelyInv'
  BY NextTimely
<1>. QED
  BY <1>1, <1>2, PTL DEF Spec

(* So a call that reports success was carried out, though the host does    *)
(* not wait for silence before it.                                         *)
THEOREM TimelySuccessMeansDone ==
  ASSUME Timely
  PROVE  Spec => []AckedMeansDone
<1>1. TimelyInv => AckedMeansDone
  BY DEF TimelyInv
<1>. QED
  BY <1>1, TimelyInvHolds, PTL

(* An error is final: the instruments have not done what the call asked,   *)
(* and none that still has the request will.                               *)
THEOREM ErrorIsFinalHolds ==
  ASSUME Timely
  PROVE  Spec => []ErrorIsFinal
<1>1. TimelyInv => ErrorIsFinal
  <2>1. SUFFICES ASSUME TimelyInv, NEW d \in Drivers,
                        Returned(d) /\ Unicast(d) /\ call[d].error # "None"
                 PROVE  /\ \A v \in served : v.txn = call[d].txn => ~v.accepted
                        /\ \A s \in Slaves, i \in 1..sent :
                             i \in DOMAIN inbox[s] /\ inbox[s][i].txn = call[d].txn
                               => ~IsFor(s, inbox[s][i].frame)
    BY DEF ErrorIsFinal
  <2>2. \A v \in served : v.txn = call[d].txn => ~v.accepted
    BY <2>1 DEF TimelyInv, ErrorIsRefusal
  <2>3. ASSUME NEW s \in Slaves, NEW i \in DOMAIN inbox[s], inbox[s][i].txn = call[d].txn
        PROVE  Ignored(s, i)
    <3>1. CASE AllIgnored
      BY <2>3, <3>1 DEF AllIgnored
    <3>2. CASE ~AllIgnored
      <4>1. PICK e \in Drivers : pc[e] = "read" /\ ~Answered(e)
        <5>1. pc \in [Drivers -> {"idle", "write", "read"}] /\ Phases
          BY <2>1 DEF TimelyInv, TypeOK
        <5>2. ~AllIdle /\ \A e \in Drivers : pc[e] # "write"
          BY <3>2, <5>1 DEF Phases
        <5>3. \A e \in Drivers : ~Answered(e)
          BY <3>2 DEF Answered
        <5>. QED
          BY <5>1, <5>2, <5>3 DEF AllIdle
      <4>2. Ignored(s, i) \/ inbox[s][i] = Own(e)
        BY <2>1, <2>3, <4>1 DEF TimelyInv, Phases
      <4>3. inbox[s][i] = Own(e) => d = e
        BY <2>1, <2>3 DEF Own, TimelyInv, Numbered, Returned
      <4>. QED
        BY <2>1, <4>1, <4>2, <4>3 DEF Returned
    <3>. QED
      BY <3>1, <3>2
  <2>. QED
    BY <2>2, <2>3 DEF Ignored
<1>. QED
  BY <1>1, TimelyInvHolds, PTL

(* Between calls nothing is on the line or in the receive buffer, and no   *)
(* instrument has a request to answer.                                     *)
THEOREM SilentBetweenCallsHolds ==
  ASSUME Timely
  PROVE  Spec => []SilentBetweenCalls
<1>1. TimelyInv => SilentBetweenCalls
  BY DEF TimelyInv, Phases, Silent, AllIgnored, Ignored, SilentBetweenCalls
<1>. QED
  BY <1>1, TimelyInvHolds, PTL

(* A read the instrument refuses is reported as ModbusException, a write   *)
(* as InvalidFrame.                                                        *)
THEOREM RefusalReportedHolds ==
  ASSUME Timely
  PROVE  Spec => []RefusalReported
<1>1. TimelyInv => RefusalReported
  BY DEF TimelyInv
<1>. QED
  BY <1>1, TimelyInvHolds, PTL

(* Changes of address never give two instruments the same.                 *)
THEOREM AddressesDistinctHolds ==
  ASSUME Timely
  PROVE  Spec => []AddressesDistinct
<1>1. TimelyInv => AddressesDistinct
  BY DEF TimelyInv
<1>. QED
  BY <1>1, TimelyInvHolds, PTL

-----------------------------------------------------------------------------
(* Targets.                                                                *)

(* A step that changes no instrument's address and leaves every driver     *)
(* heading for where it was keeps the targets' invariant.                  *)
LEMMA HeadingsStay ==
  ASSUME OnTargetInv, regs' = regs, \A d \in Drivers : Heading(d)' = Heading(d)
  PROVE  OnTargetInv'
<1>. DEFINE H(d) == Heading(d)
<1>1. /\ \A d \in Drivers : \E s \in Slaves : regs[s][AddressReg] = H(d)
      /\ \A d, e \in Drivers : H(d) = H(e) => d = e
      /\ \A d \in Drivers : H(d)' = H(d)
  BY DEF OnTargetInv
<1>. HIDE DEF H
<1>2. /\ \A d \in Drivers : \E s \in Slaves : regs'[s][AddressReg] = H(d)'
      /\ \A d, e \in Drivers : H(d)' = H(e)' => d = e
  BY <1>1
<1>. QED
  BY <1>2 DEF OnTargetInv, H

(* A return takes the driver where it was heading.                         *)
LEMMA ReceiveOnTarget ==
  ASSUME Timely, TimelyInv, OnTargetInv, NEW d \in Drivers, ReceiveAll(d) \/ GiveUp(d)
  PROVE  OnTargetInv'
<1>1. PICK error, words :
        /\ Return(d, error, words)
        /\ \/ error # "None" /\ \A v \in served : v.txn # call[d].txn
           \/ \E v \in served :
                /\ v.txn = call[d].txn
                /\ \A w \in served : w.txn = call[d].txn => w = v
                /\ v.accepted <=> error = "None"
  BY OutcomeTimely
<1>2. /\ call \in [Drivers -> CallState] /\ address \in [Drivers -> Nat]
      /\ pc \in [Drivers -> {"idle", "write", "read"}]
      /\ pc[d] = "read" /\ UNCHANGED <<regs, served>>
  BY DEF TimelyInv, TypeOK, ReceiveAll, GiveUp, Receive
<1>3. /\ pc'[d] = "idle" /\ address'[d] = TargetAfter(d, error)
      /\ \A e \in Drivers \ {d} :
           pc'[e] = pc[e] /\ call'[e] = call[e] /\ address'[e] = address[e]
  BY <1>1, <1>2 DEF Return
<1>4. Heading(d)' = address'[d]
  BY <1>3 DEF Heading
<1>5. error = "None" <=> \E v \in served : v.txn = call[d].txn /\ v.accepted
  BY <1>1
<1>6. TargetAfter(d, error) = Heading(d)
  BY <1>2, <1>5 DEF TargetAfter, Heading
<1>7. \A e \in Drivers \ {d} : Heading(e)' = Heading(e)
  BY <1>2, <1>3 DEF Heading
<1>. QED
  BY <1>2, <1>3, <1>4, <1>6, <1>7, HeadingsStay

(* An instrument that accepts its new address has no other driver heading  *)
(* for the old one or the new one.                                         *)
LEMMA AnswerOnTarget ==
  ASSUME Timely, TimelyInv, OnTargetInv, NEW s \in Slaves, Serve(s),
         IsFor(s, Head(inbox[s]).frame)
  PROVE  OnTargetInv'
<1>1. PICK d \in Drivers, accepted \in BOOLEAN : AnswersOwn(s, d, accepted)
  BY ServeAnswers
<1>2. PICK v : /\ served' = served \cup {v} /\ v.txn = call[d].txn
               /\ v.accepted <=> accepted
  BY <1>1 DEF AnswersOwn
<1>3. /\ pc[d] = "read" /\ \A w \in served : w.txn # call[d].txn
      /\ regs[s][AddressReg] = address[d]
      /\ \A t \in Slaves \ {s} : regs'[t] = regs[t]
      /\ regs'[s][AddressReg] = IF accepted /\ call[d].args.op = AddressOp
                               THEN call[d].args.words[1] ELSE regs[s][AddressReg]
      /\ call[d].args.op = AddressOp =>
           \A t \in Slaves : regs[t][AddressReg] # call[d].args.words[1]
  BY <1>1 DEF AnswersOwn, Unanswered, TimelyInv, Allowed
<1>4. /\ UNCHANGED <<address, pc, call>> /\ \A e \in Drivers \ {d} : pc[e] = "idle"
  BY <1>3 DEF Serve, TimelyInv, OneCall
<1>. DEFINE H(e) == Heading(e)
            moved == accepted /\ call[d].args.op = AddressOp
<1>5. /\ H(d) = address[d]
      /\ H(d)' = IF moved THEN call[d].args.words[1] ELSE address[d]
  <2>1. (\E w \in served' : w.txn = call[d].txn /\ w.accepted) <=> accepted
    BY <1>2, <1>3
  <2>. QED
    BY <1>3, <1>4, <2>1 DEF Heading
<1>6. \A e \in Drivers \ {d} : H(e) = address[e] /\ H(e)' = address[e]
  BY <1>4 DEF Heading
<1>7. /\ \A e \in Drivers : \E t \in Slaves : regs[t][AddressReg] = H(e)
      /\ \A e, g \in Drivers : H(e) = H(g) => e = g
  BY DEF OnTargetInv
<1>. HIDE DEF H
<1>8. ASSUME NEW e \in Drivers PROVE \E t \in Slaves : regs'[t][AddressReg] = H(e)'
  <2>1. CASE e = d
    BY <1>3, <1>5, <2>1
  <2>2. CASE e # d
    <3>1. H(e) # H(d) /\ H(e)' = H(e)
      BY <1>6, <1>7, <2>2
    <3>2. PICK t \in Slaves : regs[t][AddressReg] = H(e)
      BY <1>7
    <3>3. t # s
      BY <1>3, <1>5, <3>1, <3>2
    <3>. QED
      BY <1>3, <3>1, <3>2, <3>3
  <2>. QED
    BY <2>1, <2>2
<1>9. ASSUME NEW e \in Drivers, e # d PROVE H(e)' # H(d)'
  <2>1. H(e)' = H(e) /\ H(e) # H(d)
    BY <1>6, <1>7, <1>9
  <2>2. moved => H(e) # call[d].args.words[1]
    BY <1>3, <1>7
  <2>. QED
    BY <1>5, <2>1, <2>2
<1>10. ASSUME NEW e \in Drivers, NEW g \in Drivers, H(e)' = H(g)' PROVE e = g
  BY <1>6, <1>7, <1>9, <1>10
<1>. QED
  BY <1>8, <1>10 DEF OnTargetInv, H

LEMMA NextOnTarget ==
  ASSUME Timely, OwnTargets, TimelyInv, OnTargetInv, [Next]_vars
  PROVE  OnTargetInv'
<1>1. /\ call \in [Drivers -> CallState] /\ pc \in [Drivers -> {"idle", "write", "read"}]
  BY DEF TimelyInv, TypeOK
<1>2. ASSUME NEW d \in Drivers, Transmit(d) PROVE OnTargetInv'
  <2>1. /\ pc[d] = "write" /\ pc' = [pc EXCEPT ![d] = "read"]
        /\ UNCHANGED <<address, call, regs, served>>
    BY <1>2, TransmitWaits
  <2>2. \A e \in Drivers : Heading(e)' = Heading(e)
    BY <1>1, <2>1 DEF Heading
  <2>. QED
    BY <2>1, <2>2, HeadingsStay
<1>3. ASSUME NEW d \in Drivers, NEW c \in Calls, Refuse(d, c) \/ Begin(d, c) PROVE OnTargetInv'
  <2>1. /\ pc[d] = "idle" /\ UNCHANGED <<address, regs, served>>
        /\ \A e \in Drivers \ {d} : pc'[e] = pc[e] /\ call'[e] = call[e]
        /\ pc'[d] = "idle" \/ call'[d].txn = sent + 1
    BY <1>1, <1>3 DEF Refuse, Begin
  <2>2. \A v \in served : v.txn # sent + 1
    BY DEF TimelyInv, TypeOK, Numbered, Service
  <2>3. Heading(d)' = Heading(d)
    BY <2>1, <2>2 DEF Heading
  <2>4. \A e \in Drivers \ {d} : Heading(e)' = Heading(e)
    BY <2>1 DEF Heading
  <2>. QED
    BY <2>1, <2>3, <2>4, HeadingsStay
<1>4. ASSUME UNCHANGED <<address, pc, call, regs, served>> PROVE OnTargetInv'
  BY <1>4, HeadingsStay DEF Heading
<1>5. ASSUME NEW s \in Slaves, Serve(s) PROVE OnTargetInv'
  <2>1. CASE IsFor(s, Head(inbox[s]).frame)
    BY <1>5, <2>1, AnswerOnTarget
  <2>2. CASE ~IsFor(s, Head(inbox[s]).frame)
    BY <1>4, <1>5, <2>2 DEF Serve
  <2>. QED
    BY <2>1, <2>2
<1>. QED
  BY <1>2, <1>3, <1>4, <1>5, ReceiveOnTarget
     DEF Next, Step, SetAddress, SetTimeoutMs, Arrive, vars, OwnTargets

(* A driver that starts on an instrument of its own stays on it across     *)
(* every change of address it makes, reported and refused ones included.   *)
THEOREM OnTargetHolds ==
  ASSUME Timely, OwnTargets
  PROVE  Spec => []OnTarget
<1>1. Init => OnTargetInv
  BY DEF Init, OnTargetInv, Heading, OwnTargets
<1>2. TimelyInv /\ OnTargetInv /\ [Next]_vars => OnTargetInv'
  BY NextOnTarget
<1>3. OnTargetInv => OnTarget
  BY DEF OnTargetInv, OnTarget, Heading
<1>. QED
  BY <1>1, <1>2, <1>3, TimelyInvHolds, PTL DEF Spec

=============================================================================
