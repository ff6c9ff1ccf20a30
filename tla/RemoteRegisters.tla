-------------------------- MODULE RemoteRegisters --------------------------
(***************************************************************************)
(* What the raw primitives and SetModbusAddress of the driver promise to a *)
(* host that makes one call at a time on a line it lets settle, with no    *)
(* word of buffers, bytes, replies or timeouts: registers held elsewhere,  *)
(* on which each instrument carries a call out at most once, before it     *)
(* returns, after it, or never.  A call that waits for an answer reports   *)
(* success only once it has been carried out, and with what was read then, *)
(* and an exception only once it has been refused.  A client's target      *)
(* follows an address it has successfully set, and nothing else a call     *)
(* does.                                                                   *)
(***************************************************************************)
EXTENDS Modbus

CONSTANTS
  Clients,         \* the drivers
  Servers,         \* the instruments
  Registers,       \* the registers an instrument holds
  AddressReg,      \* the one that holds its address
  Arguments,       \* the calls clients make
  Addresses,       \* the addresses they turn to by hand
  FrameOf(_, _),   \* the request a call makes of an address
  Readdresses(_),  \* whether a call is to change an instrument's address
  Target,          \* [Clients -> address]: at the start
  NoArguments,     \* the arguments of no call
  Initial          \* [Servers -> [Registers -> Word]]: at the start

VARIABLES
  target,   \* [Clients -> address]
  calls,    \* [Clients -> the current or last call and its outcome]
  due,      \* what may yet be carried out, by which instrument
  done,     \* what was carried out or refused, and by which
  store,    \* [Servers -> [Registers -> Word]]
  issued    \* the number of transactions

vars == <<target, calls, due, done, store, issued>>

Everybody == 0   \* the address that is every instrument's, for writes

Busy(c)     == calls[c].error = "pending"
FrameBy(c)  == FrameOf(calls[c].args, calls[c].unit)
Answered(c) == FrameBy(c).fn = ReadHolding \/ calls[c].unit # Everybody

Own(c, accepted) == {v \in done : v.txn = calls[c].txn /\ v.accepted = accepted}

Init ==
  /\ target = Target
  /\ calls = [c \in Clients |-> [args |-> NoArguments, unit |-> Everybody, txn |-> 0,
                                 error |-> "None", words |-> <<>>]]
  /\ due = {} /\ done = {}
  /\ store = Initial
  /\ issued = 0

-----------------------------------------------------------------------------
(* A client turns to another address.                                      *)
Retarget(c, a) ==
  /\ ~Busy(c)
  /\ target' = [target EXCEPT ![c] = a]
  /\ UNCHANGED <<calls, due, done, store, issued>>

(* A call is refused for its arguments, and nobody hears of it.            *)
Decline(c, args) ==
  /\ ~Busy(c)
  /\ \E error \in {"InvalidParameter", "InvalidAddress"} :
       calls' = [calls EXCEPT ![c] = [args |-> args, unit |-> target[c], txn |-> 0,
                                      error |-> error, words |-> <<>>]]
  /\ UNCHANGED <<target, due, done, store, issued>>

(* A call begins while no other is under way and nothing is due: now it    *)
(* is, of every instrument.                                                *)
Invoke(c, args) ==
  /\ \A e \in Clients : ~Busy(e)
  /\ due = {}
  /\ issued' = issued + 1
  /\ calls' = [calls EXCEPT ![c] = [args |-> args, unit |-> target[c], txn |-> issued + 1,
                                    error |-> "pending", words |-> <<>>]]
  /\ due' = {[slave |-> s, txn |-> issued + 1, request |-> FrameOf(args, target[c])] :
               s \in Servers}
  /\ UNCHANGED <<target, done, store>>

Named(f) == f.reg .. (f.reg + f.count - 1)

Holding(s, f) == [i \in 1..f.count |-> store[s][f.reg + i - 1]]

Overwritten(s, f) ==
  [r \in Registers |-> IF r \in Named(f) THEN f.words[r - f.reg + 1] ELSE store[s][r]]

(* An instrument at the request's address, or any if it is a write to      *)
(* everybody, carries out what is due, all of it at once, or refuses it,   *)
(* as it must if it has no such registers.                                 *)
CarryOut(e) ==
  LET s == e.slave
      f == e.request
      Record(accepted, data) ==
        [slave |-> s, txn |-> e.txn, request |-> f, accepted |-> accepted, data |-> data]
  IN  /\ f.unit = store[s][AddressReg] \/ (f.unit = Everybody /\ f.fn # ReadHolding)
      /\ due' = due \ {e}
      /\ \/ /\ f.fn = ReadHolding /\ Named(f) \subseteq Registers
            /\ done' = done \cup {Record(TRUE, Holding(s, f))}
            /\ UNCHANGED store
         \/ /\ f.fn # ReadHolding /\ Named(f) \subseteq Registers
            /\ done' = done \cup {Record(TRUE, <<>>)}
            /\ store' = [store EXCEPT ![s] = Overwritten(s, f)]
         \/ /\ done' = done \cup {Record(FALSE, <<>>)}
            /\ UNCHANGED store
      /\ UNCHANGED <<target, calls, issued>>

(* Some of what is due never will be carried out.                          *)
Lose ==
  /\ due' \subseteq due
  /\ UNCHANGED <<target, calls, done, store, issued>>

(* What a call may report, and hand over with it.                          *)
MayReport(c, error, words) ==
  /\ error = "None" /\ Answered(c) =>
       \E v \in Own(c, TRUE) : FrameBy(c).fn = ReadHolding => words = v.data
  /\ error = "ModbusException" => Own(c, FALSE) # {}
  /\ ~(error = "None" /\ FrameBy(c).fn = ReadHolding) => words = <<>>

(* A call returns; what is still due of it may still be carried out, or    *)
(* not.                                                                    *)
Return(c) ==
  /\ Busy(c)
  /\ \E error \in Errors, words \in {<<>>} \cup {v.data : v \in done} :
       /\ MayReport(c, error, words)
       /\ calls' = [calls EXCEPT ![c] = [@ EXCEPT !.error = error, !.words = words]]
       /\ target' = IF Readdresses(calls[c].args) /\ error = "None"
                    THEN [target EXCEPT ![c] = calls[c].args.words[1]] ELSE target
  /\ due' \subseteq due
  /\ UNCHANGED <<done, store, issued>>

Next ==
  \/ \E c \in Clients : Return(c) \/ \E a \in Addresses : Retarget(c, a)
  \/ \E c \in Clients, args \in Arguments : Decline(c, args) \/ Invoke(c, args)
  \/ \E e \in due : CarryOut(e)
  \/ Lose

Spec == Init /\ [][Next]_vars
=============================================================================
