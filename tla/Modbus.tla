------------------------------- MODULE Modbus -------------------------------
(***************************************************************************)
(* The Modbus-RTU protocol layer of the driver                             *)
(* (inc/alicat_basis2_modbus.hpp): the request builders, the CRC check and *)
(* the response parsers, as operators.                                     *)
(*                                                                         *)
(* A frame is a record of the fields its bytes encode.  What travels on    *)
(* the wire is a sequence of byte records, each saying of which frame it   *)
(* is, at which position, whether noise has damaged its frame, and (for    *)
(* the properties only) which transaction the frame answers.  The CRC is   *)
(* taken as perfect: a buffer passes exactly when it holds the bytes of    *)
(* one undamaged frame, all of them, in order, and nothing else.           *)
(***************************************************************************)
EXTENDS Naturals, Sequences

MaxWord == 65535
Word == 0..MaxWord

(* Function codes: the three the driver uses.  An exception answers with   *)
(* the request's code and the top bit set.                                 *)
ReadHolding   == 3
WriteSingle   == 6
WriteMultiple == 16
ExceptionMask == 128

FunctionCodes == {ReadHolding, WriteSingle, WriteMultiple}

Frame == [unit : Nat, fn : FunctionCodes \cup {ExceptionMask + c : c \in FunctionCodes},
          reg : Nat, count : Nat, words : Seq(Word)]

(* The frames that are requests.                                           *)
RequestFrames ==
  {f \in Frame : /\ f.fn \in FunctionCodes
                 /\ f.fn # ReadHolding => f.count = Len(f.words)}

Errors == {"None", "Timeout", "BadCrc", "ModbusException", "ResponseMismatch",
           "InvalidFrame", "InvalidParameter", "InvalidAddress", "BufferTooSmall"}

-----------------------------------------------------------------------------
(* Requests, as the builders format them.  The definitions named Faulty... *)
(* here and in the other modules are mistakes the properties are tried     *)
(* against; nothing uses them.                                             *)

BuildReadHolding(unit, reg, count) ==
  [unit |-> unit, fn |-> ReadHolding, reg |-> reg, count |-> count, words |-> <<>>]

BuildWriteSingle(unit, reg, value) ==
  [unit |-> unit, fn |-> WriteSingle, reg |-> reg, count |-> 1, words |-> <<value>>]

FaultyBuildWriteMultiple(unit, reg, words) ==   \* counts one register too few
  [unit |-> unit, fn |-> WriteMultiple, reg |-> reg, count |-> Len(words) - 1, words |-> words]

BuildWriteMultiple(unit, reg, words) ==
  [unit |-> unit, fn |-> WriteMultiple, reg |-> reg, count |-> Len(words), words |-> words]

(* Replies, as the parsers expect an instrument to format them.  A read    *)
(* reply has no register field, a multiple-write reply no values.          *)

ReadReply(request, data) ==
  [unit |-> request.unit, fn |-> ReadHolding, reg |-> 0, count |-> Len(data), words |-> data]

MultipleReply(request) == [request EXCEPT !.words = <<>>]

ExceptionReply(request) ==
  [unit |-> request.unit, fn |-> ExceptionMask + request.fn, reg |-> 0, count |-> 0,
   words |-> <<>>]

(* The length of a reply, CRC included.                                    *)
ReplyLength(f) ==
  IF f.fn \notin FunctionCodes THEN 5
  ELSE IF f.fn = ReadHolding THEN 5 + 2 * f.count
  ELSE 8

-----------------------------------------------------------------------------
(* Bytes on the wire.                                                      *)

Byte == [frame : Frame, at : Nat, intact : BOOLEAN, txn : Nat]

Bytes(f, intact, txn) ==
  [i \in 1..ReplyLength(f) |-> [frame |-> f, at |-> i, intact |-> intact, txn |-> txn]]

CheckCrc(buf) ==
  /\ Len(buf) >= 4
  /\ Len(buf) = ReplyLength(buf[1].frame)
  /\ \A i \in 1..Len(buf) :
       buf[i].intact /\ buf[i].frame = buf[1].frame /\ buf[i].at = i

-----------------------------------------------------------------------------
(* Parsers.  The checks are made in the order of the code: the first that  *)
(* fails names the error.                                                  *)

FaultyIsException(f) == f.fn = ExceptionMask   \* compares instead of masking
IsException(f) == f.fn >= ExceptionMask

FaultyFromUnit(f, unit) == TRUE   \* takes any unit's reply
FromUnit(f, unit) == f.unit = unit

(* The checks all three have in common; then the parser's own verdict.     *)
Checked(buf, least, unit, verdict) ==
  LET f == buf[1].frame
  IN  IF Len(buf) < least         THEN "InvalidFrame"
      ELSE IF ~CheckCrc(buf)      THEN "BadCrc"
      ELSE IF ~FromUnit(f, unit)  THEN "ResponseMismatch"
      ELSE IF IsException(f)      THEN "ModbusException"
      ELSE verdict

ParseReadHolding(buf, unit, count) ==
  LET f == buf[1].frame
  IN  Checked(buf, 5, unit,
        IF f.fn # ReadHolding THEN "ResponseMismatch"
        ELSE IF f.count # count \/ Len(buf) < 5 + 2 * f.count THEN "InvalidFrame"
        ELSE "None")

ParseWriteSingleEcho(buf, request) ==
  Checked(buf, 8, request.unit,
    IF buf[1].frame # request THEN "ResponseMismatch" ELSE "None")

ParseWriteMultipleEcho(buf, unit, reg, count) ==
  LET f == buf[1].frame
  IN  Checked(buf, 8, unit,
        IF f.fn # WriteMultiple \/ f.reg # reg \/ f.count # count
        THEN "ResponseMismatch" ELSE "None")
=============================================================================
