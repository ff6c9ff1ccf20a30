----------------------------- MODULE Basis2Bus -----------------------------
(***************************************************************************)
(* Drivers (inc/alicat_basis2.hpp) sharing one UART, the RS-485 line       *)
(* behind it and the instruments on the line.                              *)
(*                                                                         *)
(* Each driver runs in one host thread.  A call of a driver's raw          *)
(* primitives, or of SetModbusAddress on top of them, goes through the     *)
(* steps at which the other parties can interleave: it flushes the         *)
(* receive buffer, transmits its request, and waits for the reply, until   *)
(* enough bytes are there or the timeout expires.  Instruments and line    *)
(* are not in the repository: they lose, damage, delay and refuse as the   *)
(* driver's error codes say they may.                                      *)
(***************************************************************************)
EXTENDS Modbus, FiniteSets

CONSTANTS
  Drivers,         \* Driver<UartT> objects on the one UART
  Slaves,          \* instruments on the line
  Registers,       \* the registers the instruments hold
  AddressReg,      \* reg::ModbusAddress, the one that holds the slave's address
  Calls,           \* the calls the host makes
  HostAddresses,   \* the addresses it hands to SetAddress
  Timeouts,        \* the timeouts it hands to the constructor and SetTimeoutMs
  LongTimeouts,    \* those of them that outlast every reply still to come
  Target,          \* [Drivers -> address]: the constructor's argument
  PowerOn,         \* [Slaves -> [Registers -> Word]]: registers at the start
  MaxReadCount,    \* the limit ReadHoldingRegisters checks (125)
  MaxRxRegs,       \* the registers its receive array can hold (32)
  MaxWriteRegs,    \* the limit WriteMultipleRegisters checks (32)
  MaxAddress,      \* kMaxModbusAddress
  MaxCalls,        \* bound on the number of transactions
  Serialised,      \* the host holds a lock on the bus for the whole of a call
  Settled,         \* it begins a call only once the line is silent
  Careful,         \* it gives no instrument an address that another one has
  Lossy            \* requests and replies may be lost or damaged

Broadcast == 0     \* kBroadcastAddress

ReadOp    == "ReadHoldingRegisters"
SingleOp  == "WriteSingleRegister"
MultiOp   == "WriteMultipleRegisters"
AddressOp == "SetModbusAddress"

Call == [op : {ReadOp, SingleOp, MultiOp, AddressOp},
         reg : Nat, count : Nat, words : Seq(Word)]

ASSUME FlagAssumption ==
  {Serialised, Settled, Careful, Lossy} \subseteq BOOLEAN

ASSUME BoundAssumption ==
  {MaxReadCount, MaxRxRegs, MaxWriteRegs, MaxAddress, MaxCalls} \subseteq Nat

ASSUME CallAssumption ==
  /\ Calls \subseteq Call
  /\ \A c \in Calls :
       /\ c.op \in {SingleOp, AddressOp} => c.count = 1
       /\ c.op # ReadOp => c.count = Len(c.words)
       /\ c.op = AddressOp => c.reg = AddressReg

ASSUME BusAssumption ==
  /\ AddressReg \in Registers
  /\ Registers \subseteq Nat
  /\ HostAddresses \subseteq Nat
  /\ Timeouts \subseteq Nat
  /\ LongTimeouts \subseteq Timeouts
  /\ Target \in [Drivers -> Nat]
  /\ PowerOn \in [Slaves -> [Registers -> Word]]

VARIABLES
  address,   \* [Drivers -> Nat]: Driver::address_
  timeout,   \* [Drivers -> Nat]: Driver::timeout_ms_
  pc,        \* where each driver is in its call
  call,      \* the current or the last call of each driver, with its outcome
  rx,        \* the UART's receive buffer
  line,      \* bytes on their way to the host
  inbox,     \* [Slaves -> Seq]: requests on their way to, or in, an instrument
  regs,      \* the instruments' registers
  served,    \* what the instruments did with the requests they received
  sent       \* how many transactions were begun

vars == <<address, timeout, pc, call, rx, line, inbox, regs, served, sent>>

NoCall == [op |-> ReadOp, reg |-> 0, count |-> 0, words |-> <<>>]

Request == [frame : RequestFrames, txn : Nat]
Service ==
  {v \in [slave : Slaves, txn : Nat, request : RequestFrames, accepted : BOOLEAN,
          data : Seq(Word)] :
     v.accepted /\ v.request.fn = ReadHolding => Len(v.data) = v.request.count}
CallState == [args : Calls \cup {NoCall}, unit : Nat, txn : Nat, error : Errors \cup {"pending"},
              words : Seq(Word)]

TypeOK ==
  /\ address \in [Drivers -> Nat]
  /\ timeout \in [Drivers -> Nat]
  /\ pc \in [Drivers -> {"idle", "write", "read"}]
  /\ call \in [Drivers -> CallState]
  /\ rx \in Seq(Byte)
  /\ line \in Seq(Byte)
  /\ inbox \in [Slaves -> Seq(Request)]
  /\ regs \in [Slaves -> [Registers -> Word]]
  /\ served \subseteq Service
  /\ sent \in Nat
  /\ \A d \in Drivers : call[d].error = "pending" <=> pc[d] # "idle"

Init ==
  /\ address = Target
  /\ timeout \in [Drivers -> Timeouts]
  /\ pc = [d \in Drivers |-> "idle"]
  /\ call = [d \in Drivers |-> [args |-> NoCall, unit |-> Broadcast, txn |-> 0,
                                error |-> "None", words |-> <<>>]]
  /\ rx = <<>>
  /\ line = <<>>
  /\ inbox = [s \in Slaves |-> <<>>]
  /\ regs = PowerOn
  /\ served = {}
  /\ sent = 0

-----------------------------------------------------------------------------
AllIdle == \A d \in Drivers : pc[d] = "idle"

(* Nothing is under way between the instruments and the host.              *)
Quiet == line = <<>> /\ \A s \in Slaves : inbox[s] = <<>>

(* The checks a call makes before it touches the bus.                      *)
BadRead(c)     == c.op = ReadOp /\ (c.count = 0 \/ c.count > MaxReadCount)
BadMultiple(c) == c.op = MultiOp /\ (c.count = 0 \/ c.count > MaxWriteRegs)
BadAddress(c)  == c.op = AddressOp /\ (c.words[1] < 1 \/ c.words[1] > MaxAddress)

ParameterError(c) ==
  IF BadRead(c) \/ BadMultiple(c) THEN "InvalidParameter"
  ELSE IF BadAddress(c) THEN "InvalidAddress" ELSE "None"

RequestFrame(c, unit) ==
  IF c.op = ReadOp THEN BuildReadHolding(unit, c.reg, c.count)
  ELSE IF c.op = MultiOp THEN BuildWriteMultiple(unit, c.reg, c.words)
  ELSE BuildWriteSingle(unit, c.reg, c.words[1])

FaultyNeed(c) ==   \* one byte short
  IF c.op = ReadOp THEN 4 + 2 * c.count ELSE 8

(* The bytes the call waits for.                                           *)
Need(c) == IF c.op = ReadOp THEN 5 + 2 * c.count ELSE 8

Parse(c, unit, buf) ==
  IF c.op = ReadOp THEN ParseReadHolding(buf, unit, c.count)
  ELSE IF c.op = MultiOp THEN ParseWriteMultipleEcho(buf, unit, c.reg, c.count)
  ELSE ParseWriteSingleEcho(buf, RequestFrame(c, unit))

FaultyTargetAfter(d, error) ==   \* takes up the address whatever the outcome
  IF call[d].args.op = AddressOp THEN call[d].args.words[1] ELSE address[d]

(* SetModbusAddress takes up the new address when the write it made        *)
(* reports success.                                                        *)
TargetAfter(d, error) ==
  IF call[d].args.op = AddressOp /\ error = "None" THEN call[d].args.words[1] ELSE address[d]

Return(d, error, words) ==
  /\ pc' = [pc EXCEPT ![d] = "idle"]
  /\ call' = [call EXCEPT ![d] = [@ EXCEPT !.error = error, !.words = words]]
  /\ address' = [address EXCEPT ![d] = TargetAfter(d, error)]

-----------------------------------------------------------------------------
(* The host sets the driver's target by hand.                              *)
SetAddress(d, a) ==
  /\ pc[d] = "idle"
  /\ address' = [address EXCEPT ![d] = a]
  /\ UNCHANGED <<timeout, pc, call, rx, line, inbox, regs, served, sent>>

(* The host sets the driver's timeout.                                     *)
SetTimeoutMs(d, ms) ==
  /\ pc[d] = "idle"
  /\ timeout' = [timeout EXCEPT ![d] = ms]
  /\ UNCHANGED <<address, pc, call, rx, line, inbox, regs, served, sent>>

(* A call that its parameters end.                                         *)
Refuse(d, c) ==
  /\ pc[d] = "idle"
  /\ ParameterError(c) # "None"
  /\ call' = [call EXCEPT ![d] = [args |-> c, unit |-> address[d], txn |-> 0,
                                  error |-> ParameterError(c), words |-> <<>>]]
  /\ UNCHANGED <<address, timeout, pc, rx, line, inbox, regs, served, sent>>

FaultyFlushed == rx   \* no flush
Flushed == <<>>

(* The request is built and the receive buffer flushed: what has arrived   *)
(* by now is dropped, what is still on the line is not.                    *)
Begin(d, c) ==
  /\ pc[d] = "idle"
  /\ ParameterError(c) = "None"
  /\ sent < MaxCalls
  /\ Serialised => AllIdle
  /\ Settled => Quiet
  /\ Careful /\ c.op = AddressOp => \A s \in Slaves : regs[s][AddressReg] # c.words[1]
  /\ sent' = sent + 1
  /\ call' = [call EXCEPT ![d] = [args |-> c, unit |-> address[d], txn |-> sent + 1,
                                  error |-> "pending", words |-> <<>>]]
  /\ rx' = Flushed
  /\ pc' = [pc EXCEPT ![d] = "write"]
  /\ UNCHANGED <<address, timeout, line, inbox, regs, served>>

(* The request goes out to the instruments that hear it.  A read of more   *)
(* registers than the receive array holds is given up only now; a write to *)
(* the broadcast address has no reply to wait for.                         *)
Transmit(d) ==
  LET c == call[d].args
      request == [frame |-> RequestFrame(c, call[d].unit), txn |-> call[d].txn]
  IN  /\ pc[d] = "write"
      /\ \E heard \in SUBSET Slaves :
           /\ Lossy \/ heard = Slaves
           /\ inbox' = [s \in Slaves |-> IF s \in heard THEN Append(inbox[s], request)
                                                        ELSE inbox[s]]
      /\ IF c.op = ReadOp /\ c.count > MaxRxRegs
         THEN Return(d, "BufferTooSmall", <<>>)
         ELSE IF c.op # ReadOp /\ call[d].unit = Broadcast
         THEN Return(d, "None", <<>>)
         ELSE pc' = [pc EXCEPT ![d] = "read"] /\ UNCHANGED <<address, call>>
      /\ UNCHANGED <<timeout, rx, line, regs, served, sent>>

(* UART read delivers n bytes, and the call returns what they parse to.    *)
Receive(d, n) ==
  LET c == call[d].args
      buf == SubSeq(rx, 1, n)
      error == IF n = 0 THEN "Timeout"
               ELSE IF c.op = ReadOp /\ n < 5 THEN "InvalidFrame"
               ELSE Parse(c, call[d].unit, buf)
  IN  /\ rx' = SubSeq(rx, n + 1, Len(rx))
      /\ Return(d, error, IF c.op = ReadOp /\ error = "None"
                          THEN buf[1].frame.words ELSE <<>>)
      /\ UNCHANGED <<timeout, line, inbox, regs, served, sent>>

(* All the bytes the call asked for are there ...                          *)
ReceiveAll(d) ==
  /\ pc[d] = "read"
  /\ Len(rx) >= Need(call[d].args)
  /\ Receive(d, Need(call[d].args))

FaultyTimeUp(d) == TRUE               \* does not wait for the timeout
BlockingTimeUp(d) == Len(rx) = 0      \* waits for the rest of a frame that has begun

(* A timeout that outlasts every reply expires only when none is under way.*)
TimeUp(d) == timeout[d] \in LongTimeouts => Quiet

(* ... or the timeout expires on fewer, or none.                           *)
GiveUp(d) ==
  /\ pc[d] = "read"
  /\ Len(rx) < Need(call[d].args)
  /\ TimeUp(d)
  /\ Receive(d, Len(rx))

-----------------------------------------------------------------------------
(* The rest of the bus.                                                    *)

(* A byte reaches the receive buffer.                                      *)
Arrive ==
  /\ line # <<>>
  /\ rx' = Append(rx, Head(line))
  /\ line' = Tail(line)
  /\ UNCHANGED <<address, timeout, pc, call, inbox, regs, served, sent>>

Cells(f) == f.reg .. (f.reg + f.count - 1)

(* Broadcast requests are for every instrument, but only to write.         *)
IsFor(s, f) ==
  \/ f.unit = regs[s][AddressReg]
  \/ f.unit = Broadcast /\ f.fn # ReadHolding

(* What instrument s answers with, and what its registers hold, once it    *)
(* has carried out request f.                                              *)
DataOf(s, f) ==
  IF f.fn = ReadHolding THEN [i \in 1..f.count |-> regs[s][f.reg + i - 1]] ELSE <<>>

AppliedTo(s, f) ==
  IF f.fn = ReadHolding THEN regs[s]
  ELSE [r \in Registers |-> IF r \in Cells(f) THEN f.words[r - f.reg + 1] ELSE regs[s][r]]

Reply(v) ==
  IF ~v.accepted THEN ExceptionReply(v.request)
  ELSE IF v.request.fn = ReadHolding THEN ReadReply(v.request, v.data)
  ELSE IF v.request.fn = WriteMultiple THEN MultipleReply(v.request)
  ELSE v.request

(* Instrument s takes its next request.  One for another unit it drops.    *)
(* Its own it carries out if the registers exist, or refuses; it answers   *)
(* unless the request was broadcast.                                       *)
Serve(s) ==
  LET f == Head(inbox[s]).frame
      Outcome(accepted) ==
        [slave |-> s, txn |-> Head(inbox[s]).txn, request |-> f, accepted |-> accepted,
         data |-> IF accepted THEN DataOf(s, f) ELSE <<>>]
  IN  /\ inbox[s] # <<>>
      /\ inbox' = [inbox EXCEPT ![s] = Tail(@)]
      /\ IF ~IsFor(s, f)
         THEN UNCHANGED <<regs, served, line>>
         ELSE \E accepted \in BOOLEAN, answered \in BOOLEAN, intact \in BOOLEAN :
                /\ accepted => Cells(f) \subseteq Registers
                /\ Lossy \/ (answered /\ intact)
                /\ served' = served \cup {Outcome(accepted)}
                /\ regs' = IF accepted THEN [regs EXCEPT ![s] = AppliedTo(s, f)] ELSE regs
                /\ line' = IF answered /\ f.unit # Broadcast
                           THEN line \o Bytes(Reply(Outcome(accepted)), intact,
                                              Head(inbox[s]).txn)
                           ELSE line
      /\ UNCHANGED <<address, timeout, pc, call, rx, sent>>

-----------------------------------------------------------------------------
Step(d) == Transmit(d) \/ ReceiveAll(d) \/ GiveUp(d)

Next ==
  \/ \E d \in Drivers : Step(d)
  \/ \E d \in Drivers, c \in Calls : Refuse(d, c) \/ Begin(d, c)
  \/ \E d \in Drivers, a \in HostAddresses : SetAddress(d, a)
  \/ \E d \in Drivers, ms \in Timeouts : SetTimeoutMs(d, ms)
  \/ \E s \in Slaves : Serve(s)
  \/ Arrive

Spec == Init /\ [][Next]_vars

(* A thread in a call runs on: UART read returns once it has the bytes or  *)
(* its time is up.  The line delivers what is on it, and an instrument     *)
(* gets round to what it has received.  The host need not call.            *)
FairSpec ==
  /\ Spec
  /\ \A d \in Drivers : WF_vars(Step(d))
  /\ \A s \in Slaves : WF_vars(Serve(s))
  /\ WF_vars(Arrive)

-----------------------------------------------------------------------------
(* Safety.                                                                 *)

(* The outcome d's caller sees is that of a transaction with an addressed  *)
(* instrument.                                                             *)
Returned(d) == call[d].txn # 0 /\ pc[d] = "idle"
Unicast(d)  == call[d].unit # Broadcast
Awaited(d)  == Unicast(d) \/ call[d].args.op = ReadOp   \* it waits for a reply

(* A call that reports success was carried out, itself and by an           *)
(* instrument, before it returned; and what a read hands to the caller is  *)
(* what the instrument answered to that read.  Replies carry no            *)
(* transaction number: only the flush and the host's discipline keep an    *)
(* older call's reply from passing for this one's.                         *)
AckedMeansDone ==
  \A d \in Drivers :
    Returned(d) /\ Unicast(d) /\ call[d].error = "None" =>
      \E v \in served :
        /\ v.txn = call[d].txn
        /\ v.accepted
        /\ call[d].args.op = ReadOp => call[d].words = v.data

(* DriverError::ModbusException is the instrument's refusal of this very   *)
(* call, not of an earlier one.                                            *)
ExceptionIsOwn ==
  \A d \in Drivers :
    Returned(d) /\ call[d].error = "ModbusException" =>
      \E v \in served : v.txn = call[d].txn /\ ~v.accepted

(* The inductive form of AckedMeansDone, for a host that serialises its    *)
(* calls and lets the line settle: one call at a time; whatever is under   *)
(* way during it belongs to it; every reply under way was given by an      *)
(* instrument that served its transaction; and, for the refinement of      *)
(* RemoteRegisters, no instrument has two requests to take.                *)
OneCall == \A d, e \in Drivers : pc[d] # "idle" /\ pc[e] # "idle" => d = e

Fresh ==
  \A d \in Drivers :
    /\ pc[d] = "write" => rx = <<>> /\ Quiet
    /\ pc[d] = "read" =>
         /\ \A i \in DOMAIN rx : rx[i].txn = call[d].txn
         /\ \A i \in DOMAIN line : line[i].txn = call[d].txn
         /\ \A s \in Slaves : \A i \in DOMAIN inbox[s] : inbox[s][i].txn = call[d].txn

Given(b) == \E v \in served : v.txn = b.txn /\ b.frame = Reply(v)

Backed ==
  /\ \A i \in DOMAIN rx : Given(rx[i])
  /\ \A i \in DOMAIN line : Given(line[i])

AtMostOne == \A s \in Slaves : Len(inbox[s]) <= 1

AckedInv ==
  TypeOK /\ OneCall /\ Fresh /\ Backed /\ AtMostOne /\ AckedMeansDone /\ ExceptionIsOwn

(* What instrument's service v a call's success may rest on, if it asked   *)
(* this and returned these words: for a single write the same write, for a *)
(* multiple write one of the same registers, for a read one of as many     *)
(* registers, whose data they are.                                         *)
Backs(v, asked, words) ==
  /\ v.accepted
  /\ v.request.unit = asked.unit
  /\ v.request.fn = asked.fn
  /\ v.request.count = asked.count
  /\ asked.fn = ReadHolding => v.data = words
  /\ asked.fn # ReadHolding => v.request.reg = asked.reg
  /\ asked.fn = WriteSingle => v.request = asked

(* Without any discipline of the host, late replies and the replies to     *)
(* other drivers' calls included, success still means that some            *)
(* instrument at the target address accepted a request of this shape.      *)
AckedIsBacked ==
  \A d \in Drivers :
    Returned(d) /\ Awaited(d) /\ call[d].error = "None" =>
      \E v \in served : Backs(v, RequestFrame(call[d].args, call[d].unit), call[d].words)

(* Nor does ModbusException come from nowhere: some instrument at the      *)
(* target address has refused a request, though perhaps another driver's,  *)
(* an earlier one, or a write: an exception says no more than its unit.    *)
(* And only reads report it at all.                                        *)
ExceptionIsBacked ==
  \A d \in Drivers :
    Returned(d) /\ call[d].error = "ModbusException" =>
      /\ call[d].args.op = ReadOp
      /\ \E v \in served : ~v.accepted /\ v.request.unit = call[d].unit

(* Their inductive form: every reply under way was given by an instrument. *)
BackedInv == TypeOK /\ Backed /\ AckedIsBacked

(* When every timeout outlasts the reply, nothing is lost and only calls   *)
(* the receive array has room for are made, an error is final: the         *)
(* instruments have not done what the call asked, and will not.            *)
ErrorIsFinal ==
  \A d \in Drivers :
    Returned(d) /\ Unicast(d) /\ call[d].error # "None" =>
      /\ \A v \in served : v.txn = call[d].txn => ~v.accepted
      /\ \A s \in Slaves, i \in 1..sent :
           i \in DOMAIN inbox[s] /\ inbox[s][i].txn = call[d].txn
             => ~IsFor(s, inbox[s][i].frame)

(* Under the same conditions each call leaves the line to the next one:    *)
(* between calls no reply is on the line, in the receive buffer or due.    *)
(* It is what lets a host that keeps to them do without waiting for        *)
(* silence.                                                                *)
SilentBetweenCalls ==
  AllIdle =>
    /\ line = <<>> /\ rx = <<>>
    /\ \A s \in Slaves, i \in 1..sent :
         i \in DOMAIN inbox[s] /\ inbox[s][i].frame.unit # Broadcast
           => ~IsFor(s, inbox[s][i].frame)

Refused(d) == \E v \in served : v.txn = call[d].txn /\ ~v.accepted

(* What the caller learns of a refusal: only a read waits for as little as *)
(* an exception is long; a write takes it for a frame cut short.           *)
RefusalError(c) == IF c.op = ReadOp THEN "ModbusException" ELSE "InvalidFrame"

(* Under the same conditions a call the instrument refuses is reported as  *)
(* refused if it is a read, and as InvalidFrame, once its timeout is over, *)
(* if it is a write; never as success or as silence.                       *)
RefusalReported ==
  \A d \in Drivers :
    Returned(d) /\ Unicast(d) /\ Refused(d) => call[d].error = RefusalError(call[d].args)

(* A driver whose target was an instrument's address keeps targeting an    *)
(* instrument, across every change of address it makes.                    *)
OnTarget ==
  \A d \in Drivers :
    pc[d] = "idle" => \E s \in Slaves : regs[s][AddressReg] = address[d]

(* Under the same conditions a host that gives an instrument no address    *)
(* another one has at the moment never gives two the same: no change of    *)
(* address is still to come when the next one is checked.                  *)
AddressesDistinct ==
  \A s, t \in Slaves : s # t => regs[s][AddressReg] # regs[t][AddressReg]

(* The conditions of a timely line: one call at a time, nothing lost, no   *)
(* timeout shorter than a reply, no broadcasts, no read the receive array  *)
(* has no room for, and no two instruments with one address at the start,  *)
(* nor made so by a careless change of address or a raw write.             *)
Timely ==
  /\ Serialised /\ Careful /\ ~Lossy
  /\ Timeouts \subseteq LongTimeouts
  /\ Broadcast \notin HostAddresses /\ \A d \in Drivers : Target[d] # Broadcast
  /\ \A c \in Calls :
       /\ c.op = ReadOp /\ ParameterError(c) = "None" => c.count <= MaxRxRegs
       /\ c.op \in {SingleOp, MultiOp} => AddressReg \notin c.reg .. (c.reg + c.count - 1)
  /\ \A s, t \in Slaves : s # t => PowerOn[s][AddressReg] # PowerOn[t][AddressReg]

(* The inductive form of what holds on it.  Transactions are told apart by *)
(* their numbers; a call under way is one its parameters allow, to the     *)
(* driver's target; a request that is nobody's call is for nobody that has *)
(* it; and the call under way is unanswered, on a silent line, or answered *)
(* once, by the bytes that are in the receive buffer and on the line.      *)
Numbered ==
  /\ \A v \in served : v.txn <= sent
  /\ \A s \in Slaves : \A i \in DOMAIN inbox[s] : inbox[s][i].txn <= sent
  /\ \A d \in Drivers : call[d].txn <= sent
  /\ \A d, e \in Drivers : call[d].txn = call[e].txn => d = e \/ call[d].txn = 0

Allowed ==
  \A d \in Drivers :
    /\ address[d] # Broadcast /\ timeout[d] \in Timeouts
    /\ pc[d] # "idle" =>
         /\ call[d].args \in Calls /\ ParameterError(call[d].args) = "None"
         /\ call[d].unit = address[d] /\ call[d].txn # 0

Silent == line = <<>> /\ rx = <<>>

Ignored(s, i) == ~IsFor(s, inbox[s][i].frame)

AllIgnored == \A s \in Slaves : \A i \in DOMAIN inbox[s] : Ignored(s, i)

Own(d) == [frame |-> RequestFrame(call[d].args, call[d].unit), txn |-> call[d].txn]

Unanswered(d) ==
  /\ Silent
  /\ \A v \in served : v.txn # call[d].txn
  /\ call[d].args.op = AddressOp =>
       \A s \in Slaves : regs[s][AddressReg] # call[d].args.words[1]

Answered(d) ==
  /\ AllIgnored
  /\ \E v \in served :
       /\ v.txn = call[d].txn /\ v.request = Own(d).frame
       /\ \A w \in served : w.txn = v.txn => w = v
       /\ rx \o line = Bytes(Reply(v), TRUE, v.txn)

Phases ==
  /\ AllIdle => Silent /\ AllIgnored
  /\ \A d \in Drivers :
       /\ pc[d] = "write" => Unanswered(d) /\ AllIgnored
       /\ pc[d] = "read" =>
            \/ /\ Unanswered(d)
               /\ \A s \in Slaves : \A i \in DOMAIN inbox[s] :
                    Ignored(s, i) \/ (i = Len(inbox[s]) /\ inbox[s][i] = Own(d))
            \/ Answered(d)

ErrorIsRefusal ==
  \A d \in Drivers :
    Returned(d) /\ Unicast(d) /\ call[d].error # "None" =>
      \A v \in served : v.txn = call[d].txn => ~v.accepted

TimelyInv ==
  /\ TypeOK /\ OneCall /\ Numbered /\ Allowed /\ Phases /\ AddressesDistinct
  /\ AckedMeansDone /\ ErrorIsRefusal /\ RefusalReported

(* And for drivers that start each on an instrument of its own and change  *)
(* their targets only with the instruments' addresses: the target a driver *)
(* is heading for, that of its call once an instrument has accepted it, is *)
(* an instrument's address, and no other driver's.                         *)
OwnTargets ==
  /\ HostAddresses = {}
  /\ \A d \in Drivers : \E s \in Slaves : PowerOn[s][AddressReg] = Target[d]
  /\ \A d, e \in Drivers : Target[d] = Target[e] => d = e

Heading(d) ==
  IF /\ pc[d] # "idle" /\ call[d].args.op = AddressOp
     /\ \E v \in served : v.txn = call[d].txn /\ v.accepted
  THEN call[d].args.words[1] ELSE address[d]

OnTargetInv ==
  /\ \A d \in Drivers : \E s \in Slaves : regs[s][AddressReg] = Heading(d)
  /\ \A d, e \in Drivers : Heading(d) = Heading(e) => d = e

(* docs/modbus_protocol.md: when an instrument rejects a write, the driver *)
(* reports ModbusException.                                                *)
RefusedWriteReported ==
  \A d \in Drivers :
    Returned(d) /\ Unicast(d) /\ call[d].args.op # ReadOp /\ Refused(d)
      => call[d].error = "ModbusException"

(* Liveness: a call returns, whether it is answered, refused, cut short,   *)
(* damaged or met with silence.                                            *)
CallsReturn == \A d \in Drivers : pc[d] # "idle" ~> pc[d] = "idle"
=============================================================================
