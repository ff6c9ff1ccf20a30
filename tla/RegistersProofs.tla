-------------------------- MODULE RegistersProofs --------------------------
(***************************************************************************)
(* Basis2Bus implements RemoteRegisters, for any drivers, instruments,     *)
(* registers and calls, under a host that makes one call at a time and     *)
(* each only once the line is silent.                                      *)
(***************************************************************************)
EXTENDS RegistersRefinement, Basis2BusProofs

(* What is due is unchanged when no request moves and no call gets to, or  *)
(* from, where its request is still to be transmitted.                     *)
LEMMA DueStays ==
  ASSUME inbox' = inbox,
         \A d \in Drivers : pc[d] = "write" <=> pc'[d] = "write",
         \A d \in Drivers : pc[d] = "write" => call'[d] = call[d]
  PROVE  Due' = Due
<1>1. {d \in Drivers : pc'[d] = "write"} = {d \in Drivers : pc[d] = "write"}
  OBVIOUS
<1>. QED
  BY <1>1 DEF Due, OnTheWay, ToTransmit

(* At the start nothing was called, and nothing is due.                    *)
LEMMA InitMaps ==
  ASSUME Init
  PROVE  Remote!Init
<1>1. Due = {}
  BY DEF Init, Due, OnTheWay, ToTransmit
<1>. QED
  BY <1>1 DEF Init, Remote!Init, Remote!Everybody, Broadcast

(* A request is one to read exactly if its call is.                        *)
LEMMA RequestFrameIs ==
  ASSUME TypeOK, NEW d \in Drivers
  PROVE  RequestFrame(call[d].args, call[d].unit).fn = ReadHolding <=> call[d].args.op = ReadOp
<1>1. call[d].args \in Calls \cup {NoCall} /\ call[d].unit \in Nat
  BY DEF TypeOK, CallState
<1>2. CASE call[d].args \in Calls
  BY <1>1, <1>2, RequestFrameType
<1>3. CASE call[d].args = NoCall
  BY <1>3 DEF RequestFrame, NoCall, BuildReadHolding
<1>. QED
  BY <1>1, <1>2, <1>3

(* A call under way is a call that has not returned.                       *)
LEMMA BusyIs ==
  ASSUME TypeOK
  PROVE  \A d \in Drivers : Remote!Busy(d) <=> pc[d] # "idle"
BY DEF TypeOK, Remote!Busy

-----------------------------------------------------------------------------
(* The host.                                                               *)

(* To turn to another address, or to change the timeout.                   *)
LEMMA SetAddressMaps ==
  ASSUME TypeOK, NEW d \in Drivers, NEW a \in HostAddresses, SetAddress(d, a)
  PROVE  Remote!Retarget(d, a)
<1>1. Due' = Due
  BY DueStays DEF SetAddress
<1>. QED
  BY <1>1, BusyIs DEF SetAddress, Remote!Retarget

LEMMA SetTimeoutMaps ==
  ASSUME NEW d \in Drivers, NEW ms \in Timeouts, SetTimeoutMs(d, ms)
  PROVE  UNCHANGED Remote!vars
<1>1. Due' = Due
  BY DueStays DEF SetTimeoutMs
<1>. QED
  BY <1>1 DEF SetTimeoutMs, Remote!vars

(* A call its parameters end declines.                                     *)
LEMMA RefuseMaps ==
  ASSUME TypeOK, NEW d \in Drivers, NEW c \in Calls, Refuse(d, c)
  PROVE  Remote!Decline(d, c)
<1>1. Due' = Due
  <2>1. \A e \in Drivers \ {d} : call'[e] = call[e]
    BY DEF Refuse, TypeOK
  <2>. QED
    BY <2>1, DueStays DEF Refuse
<1>2. ParameterError(c) \in {"InvalidParameter", "InvalidAddress"}
  BY DEF Refuse, ParameterError, BadRead, BadMultiple, BadAddress
<1>. QED
  BY <1>1, <1>2, BusyIs DEF Refuse, Remote!Decline

(* A call that begins makes its request due, of everybody and alone.       *)
LEMMA BeginMaps ==
  ASSUME AckedInv, Serialised, Settled, NEW d \in Drivers, NEW c \in Calls, Begin(d, c)
  PROVE  Remote!Invoke(d, c)
<1>1. /\ \A e \in Drivers : pc[e] = "idle"
      /\ \A s \in Slaves : inbox[s] = <<>> /\ inbox'[s] = <<>>
      /\ {e \in Drivers : pc'[e] = "write"} = {d}
      /\ call'[d] = [args |-> c, unit |-> address[d], txn |-> sent + 1,
                     error |-> "pending", words |-> <<>>]
  BY DEF Begin, AllIdle, Quiet, AckedInv, TypeOK
<1>2. Due = {}
  BY <1>1 DEF Due, OnTheWay, ToTransmit
<1>3. OnTheWay' = {}
  BY <1>1 DEF OnTheWay
<1>4. ToTransmit' = {[slave |-> s, txn |-> sent + 1, request |-> RequestFrame(c, address[d])] :
                       s \in Slaves}
  BY <1>1 DEF ToTransmit
<1>5. \A e \in Drivers : ~Remote!Busy(e)
  BY <1>1, BusyIs DEF AckedInv
<1>. QED
  BY <1>2, <1>3, <1>4, <1>5 DEF Begin, Due, Remote!Invoke

-----------------------------------------------------------------------------
(* A call under way.                                                       *)

(* What a driver returns, a client may return, if it may report it.        *)
LEMMA ReturnMaps ==
  ASSUME TypeOK, NEW d \in Drivers, pc[d] # "idle", NEW error \in Errors, NEW words,
         words = <<>> \/ \E v \in served : words = v.data,
         Return(d, error, words), Remote!MayReport(d, error, words),
         Due' \subseteq Due, UNCHANGED <<served, regs, sent>>
  PROVE  Remote!Return(d)
<1>1. Remote!Busy(d)
  BY BusyIs
<1>2. words \in {<<>>} \cup {v.data : v \in served}
  OBVIOUS
<1>3. address' = IF Readdresses(call[d].args) /\ error = "None"
                 THEN [address EXCEPT ![d] = call[d].args.words[1]] ELSE address
  <2>1. address \in [Drivers -> Nat]
    BY DEF TypeOK
  <2>2. [address EXCEPT ![d] = address[d]] = address
    BY <2>1
  <2>. QED
    BY <2>2 DEF Return, TargetAfter, Readdresses
<1>4. call' = [call EXCEPT ![d] = [@ EXCEPT !.error = error, !.words = words]]
  BY DEF Return
<1>. QED
  BY <1>1, <1>2, <1>3, <1>4 DEF Remote!Return, Errors, Remote!Errors

(* What the request goes out to is due of whom it reaches; a call that     *)
(* ends with it, for want of room or of a reply to wait for, returns.      *)
LEMMA TransmitMaps ==
  ASSUME AckedInv, NEW d \in Drivers, Transmit(d)
  PROVE  Remote!Next
<1>. DEFINE request == [frame |-> RequestFrame(call[d].args, call[d].unit),
                        txn |-> call[d].txn]
<1>1. /\ call \in [Drivers -> CallState] /\ pc \in [Drivers -> {"idle", "write", "read"}]
      /\ TypeOK
  BY DEF AckedInv, TypeOK
<1>2. /\ pc[d] = "write" /\ pc'[d] # "write"
      /\ \A e \in Drivers \ {d} : pc[e] = "idle" /\ pc'[e] = "idle"
      /\ \A s \in Slaves : inbox[s] = <<>> /\ inbox'[s] \in {<<>>, Append(<<>>, request)}
      /\ UNCHANGED <<served, regs, sent>>
  <2>1. /\ pc[d] = "write" /\ pc' \in {[pc EXCEPT ![d] = "idle"], [pc EXCEPT ![d] = "read"]}
        /\ UNCHANGED <<served, regs, sent>>
    BY DEF Transmit, Return
  <2>2. /\ \A e \in Drivers \ {d} : pc[e] = "idle"
        /\ \A s \in Slaves : inbox[s] = <<>>
    BY <2>1 DEF AckedInv, OneCall, Fresh, Quiet
  <2>3. \A s \in Slaves : inbox'[s] \in {<<>>, Append(<<>>, request)}
    BY <2>2 DEF Transmit
  <2>. QED
    BY <1>1, <2>1, <2>2, <2>3
<1>3. Due' \subseteq Due
  <2>1. ToTransmit' = {}
    BY <1>2 DEF ToTransmit
  <2>2. \A s \in Slaves : [slave |-> s, txn |-> request.txn, request |-> request.frame] \in Due
    BY <1>2 DEF Due, ToTransmit
  <2>. HIDE DEF request
  <2>3. Append(<<>>, request) = <<request>>
    OBVIOUS
  <2>4. ASSUME NEW e \in OnTheWay' PROVE e \in Due
    <3>1. PICK s \in Slaves : \E i \in DOMAIN inbox'[s] :
            e = [slave |-> s, txn |-> inbox'[s][i].txn, request |-> inbox'[s][i].frame]
      BY <2>4 DEF OnTheWay
    <3>2. PICK i \in DOMAIN inbox'[s] :
            e = [slave |-> s, txn |-> inbox'[s][i].txn, request |-> inbox'[s][i].frame]
      BY <3>1
    <3>3. inbox'[s][i] = request
      BY <1>2, <2>3, <3>2
    <3>. QED
      BY <2>2, <3>2, <3>3
  <2>. QED
    BY <2>1, <2>4 DEF Due
<1>4. CASE UNCHANGED <<address, call>>
  BY <1>2, <1>3, <1>4 DEF Remote!Next, Remote!Lose
<1>5. ASSUME NEW error \in {"BufferTooSmall", "None"}, Return(d, error, <<>>),
             error = "None" => call[d].args.op # ReadOp /\ call[d].unit = Broadcast
      PROVE  Remote!Return(d)
  <2>1. error \in Errors
    BY DEF Errors
  <2>2. Remote!MayReport(d, error, <<>>)
    <3>1. CASE error = "BufferTooSmall"
      BY <3>1 DEF Remote!MayReport
    <3>2. CASE error = "None"
      <4>1. ~Remote!Answered(d)
        BY RequestFrameIs, <1>1, <1>5, <3>2 DEF Remote!Answered, Remote!FrameBy, Broadcast,
           Remote!Everybody, ReadHolding, Remote!ReadHolding
      <4>. QED
        BY <3>2, <4>1 DEF Remote!MayReport
    <3>. QED
      BY <1>5, <3>1, <3>2
  <2>. QED
    BY <1>1, <1>2, <1>3, <1>5, <2>1, <2>2, ReturnMaps
<1>. QED
  BY <1>4, <1>5 DEF Transmit, Remote!Next

(* A call that receives a reply, or gives up, returns what it may.         *)
LEMMA ReceiveMaps ==
  ASSUME AckedInv, NEW d \in Drivers, pc[d] = "read", NEW n \in 0..Len(rx), Receive(d, n)
  PROVE  Remote!Return(d)
<1>1. TypeOK /\ pc \in [Drivers -> {"idle", "write", "read"}] /\ call \in [Drivers -> CallState]
  BY DEF AckedInv, TypeOK
<1>2. PICK error, words :
        /\ error \in Errors
        /\ Return(d, error, words)
        /\ error = "None" =>
             \E v \in served : /\ v.txn = call[d].txn /\ v.accepted
                               /\ call[d].args.op = ReadOp => words = v.data
        /\ error = "ModbusException" =>
             \E v \in served : v.txn = call[d].txn /\ ~v.accepted
        /\ ~(error = "None" /\ call[d].args.op = ReadOp) => words = <<>>
  BY ReceiveOutcome
<1>3. Due' = Due
  <2>1. \A e \in Drivers \ {d} : pc'[e] = pc[e] /\ call'[e] = call[e]
    BY <1>1, <1>2 DEF Return
  <2>2. pc'[d] = "idle"
    BY <1>1, <1>2 DEF Return
  <2>. QED
    BY <2>1, <2>2, DueStays DEF Receive
<1>4. Remote!FrameBy(d).fn = Remote!ReadHolding <=> call[d].args.op = ReadOp
  BY <1>1, RequestFrameIs DEF Remote!FrameBy, ReadHolding, Remote!ReadHolding
<1>5. \A v \in served : v.accepted \in BOOLEAN
  BY <1>1 DEF TypeOK, Service
<1>6. Remote!MayReport(d, error, words)
  BY <1>2, <1>4, <1>5 DEF Remote!MayReport, Remote!Own
<1>7. words = <<>> \/ \E v \in served : words = v.data
  BY <1>2
<1>. QED
  BY <1>1, <1>2, <1>3, <1>6, <1>7, ReturnMaps DEF Receive

-----------------------------------------------------------------------------
(* The instruments.                                                        *)

(* What an instrument takes was due, and is not any more; one it is not    *)
(* for, it has lost.                                                       *)
LEMMA ServeMaps ==
  ASSUME AckedInv, NEW s \in Slaves, Serve(s)
  PROVE  Remote!Next
<1>. DEFINE f == Head(inbox[s]).frame
            e == [slave |-> s, txn |-> Head(inbox[s]).txn, request |-> f]
<1>1. /\ inbox[s] # <<>> /\ inbox \in [Slaves -> Seq(Request)]
      /\ inbox' = [inbox EXCEPT ![s] = Tail(@)]
      /\ Len(inbox[s]) <= 1
      /\ UNCHANGED <<address, pc, call, sent>>
  BY DEF Serve, AckedInv, TypeOK, AtMostOne
<1>2. inbox[s] = <<Head(inbox[s])>> /\ Tail(inbox[s]) = <<>>
  BY <1>1
<1>3. inbox' = [inbox EXCEPT ![s] = <<>>]
  BY <1>1, <1>2
<1>4. ToTransmit = {} /\ ToTransmit' = {}
  BY <1>1 DEF ToTransmit, AckedInv, Fresh, Quiet
<1>5. e \in Due /\ Due' = Due \ {e}
  <2>1. ASSUME NEW t \in Slaves \ {s}, NEW i \in DOMAIN inbox[t]
        PROVE  [slave |-> t, txn |-> inbox[t][i].txn, request |-> inbox[t][i].frame] # e
    OBVIOUS
  <2>2. {[slave |-> s, txn |-> inbox[s][i].txn, request |-> inbox[s][i].frame] :
           i \in DOMAIN inbox[s]} = {e}
    BY <1>2
  <2>. HIDE DEF e
  <2>3. OnTheWay' = OnTheWay \ {e}
    BY <1>1, <1>3, <2>1, <2>2 DEF OnTheWay
  <2>4. e \in OnTheWay
    BY <2>2 DEF OnTheWay
  <2>. QED
    BY <1>4, <2>3, <2>4 DEF Due
<1>6. CASE ~IsFor(s, f)
  <2>1. UNCHANGED <<served, regs>>
    BY <1>6 DEF Serve
  <2>. QED
    BY <1>1, <1>5, <2>1 DEF Remote!Next, Remote!Lose
<1>7. CASE IsFor(s, f)
  <2>1. PICK accepted \in BOOLEAN :
          /\ accepted => Cells(f) \subseteq Registers
          /\ served' = served \cup {Outcome(s, accepted)}
          /\ regs' = IF accepted THEN [regs EXCEPT ![s] = AppliedTo(s, f)] ELSE regs
    BY <1>7 DEF Serve, Outcome
  <2>2. e.slave = s /\ e.txn = Head(inbox[s]).txn /\ e.request = f
    OBVIOUS
  <2>. DEFINE record(data) ==
         [slave |-> s, txn |-> Head(inbox[s]).txn, request |-> f, accepted |-> accepted,
          data |-> data]
  <2>3. f.unit = regs[s][AddressReg] \/ (f.unit = Remote!Everybody /\ f.fn # Remote!ReadHolding)
    BY <1>7 DEF IsFor, Broadcast, Remote!Everybody, ReadHolding, Remote!ReadHolding
  <2>4. ASSUME accepted = FALSE PROVE Remote!CarryOut(e)
    <3>1. served' = served \cup {record(<<>>)} /\ regs' = regs
      BY <2>1, <2>4 DEF Outcome
    <3>. HIDE DEF e, f
    <3>. QED
      BY <1>1, <1>5, <2>2, <2>3, <2>4, <3>1 DEF Remote!CarryOut
  <2>5. ASSUME accepted = TRUE /\ f.fn = ReadHolding PROVE Remote!CarryOut(e)
    <3>1. served' = served \cup {record(Remote!Holding(s, f))} /\ regs' = regs
      BY <2>1, <2>5 DEF Outcome, DataOf, AppliedTo, Remote!Holding, AckedInv, TypeOK
    <3>2. Remote!Named(f) \subseteq Registers /\ f.fn = Remote!ReadHolding
      BY <2>1, <2>5 DEF Cells, Remote!Named, ReadHolding, Remote!ReadHolding
    <3>. HIDE DEF e, f
    <3>. QED
      BY <1>1, <1>5, <2>2, <2>3, <2>5, <3>1, <3>2 DEF Remote!CarryOut
  <2>6. ASSUME accepted = TRUE /\ f.fn # ReadHolding PROVE Remote!CarryOut(e)
    <3>1. /\ served' = served \cup {record(<<>>)}
          /\ regs' = [regs EXCEPT ![s] = Remote!Overwritten(s, f)]
      BY <2>1, <2>6 DEF Outcome, DataOf, AppliedTo, Cells, Remote!Overwritten, Remote!Named
    <3>2. Remote!Named(f) \subseteq Registers /\ f.fn # Remote!ReadHolding
      BY <2>1, <2>6 DEF Cells, Remote!Named, ReadHolding, Remote!ReadHolding
    <3>. HIDE DEF e, f
    <3>. QED
      BY <1>1, <1>5, <2>2, <2>3, <2>6, <3>1, <3>2 DEF Remote!CarryOut
  <2>. HIDE DEF e, f
  <2>7. Remote!CarryOut(e)
    BY <2>4, <2>5, <2>6
  <2>. QED
    BY <1>5, <2>7 DEF Remote!Next
<1>. QED
  BY <1>6, <1>7

(* A byte that arrives changes nothing that is promised.                   *)
LEMMA ArriveMaps ==
  ASSUME Arrive
  PROVE  UNCHANGED Remote!vars
<1>1. Due' = Due
  BY DueStays DEF Arrive
<1>. QED
  BY <1>1 DEF Arrive, Remote!vars

-----------------------------------------------------------------------------
(* Every step of the bus is a step of the registers, or none.              *)
LEMMA NextMaps ==
  ASSUME AckedInv, Serialised, Settled, [Next]_vars
  PROVE  [Remote!Next]_(Remote!vars)
<1>1. TypeOK
  BY DEF AckedInv
<1>2. ASSUME NEW d \in Drivers, Step(d) PROVE Remote!Next
  <2>1. CASE Transmit(d)
    BY <2>1, TransmitMaps
  <2>2. CASE ReceiveAll(d)
    <3>1. call[d].args.count \in Nat
      BY CallAssumption, <1>1 DEF TypeOK, CallState, Call, NoCall
    <3>2. Need(call[d].args) \in 0..Len(rx)
      BY <1>1, <2>2, <3>1 DEF ReceiveAll, Need, TypeOK
    <3>. QED
      BY <2>2, <3>2, ReceiveMaps DEF ReceiveAll, Remote!Next
  <2>3. CASE GiveUp(d)
    BY <1>1, <2>3, ReceiveMaps, Len(rx) \in 0..Len(rx) DEF GiveUp, Remote!Next, TypeOK
  <2>. QED
    BY <1>2, <2>1, <2>2, <2>3 DEF Step
<1>3. ASSUME NEW d \in Drivers, NEW c \in Calls, Refuse(d, c) \/ Begin(d, c) PROVE Remote!Next
  BY <1>1, <1>3, RefuseMaps, BeginMaps DEF Remote!Next
<1>4. ASSUME NEW d \in Drivers, NEW a \in HostAddresses, SetAddress(d, a) PROVE Remote!Next
  BY <1>1, <1>4, SetAddressMaps DEF Remote!Next
<1>5. ASSUME NEW s \in Slaves, Serve(s) PROVE Remote!Next
  BY <1>5, ServeMaps
<1>6. CASE UNCHANGED vars
  <2>1. Due' = Due
    BY <1>6, DueStays DEF vars
  <2>. QED
    BY <1>6, <2>1 DEF vars, Remote!vars
<1>. QED
  BY <1>2, <1>3, <1>4, <1>5, <1>6, SetTimeoutMaps, ArriveMaps DEF Next

(* Under a host that makes one call at a time, each once the line is       *)
(* silent, the drivers and all that is behind them are registers held      *)
(* elsewhere: whatever the line loses, damages or delays, an instrument    *)
(* carries each call out at most once, in one step and before, after or    *)
(* without its return, and a call reports no more than was done.           *)
THEOREM BusImplementsRegisters ==
  ASSUME Serialised, Settled
  PROVE  Spec => ImplementsRegisters
<1>1. Init => Remote!Init
  BY InitMaps
<1>2. AckedInv /\ [Next]_vars => [Remote!Next]_(Remote!vars)
  BY NextMaps
<1>. QED
  BY <1>1, <1>2, AckedInvHolds, PTL DEF Spec, ImplementsRegisters, Remote!Spec
=============================================================================
