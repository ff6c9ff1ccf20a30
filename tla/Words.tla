-------------------------------- MODULE Words --------------------------------
(***************************************************************************)
(* How the driver packs numbers into 16-bit registers and unpacks them     *)
(* (the casts, shifts and masks of inc/alicat_basis2.hpp).                 *)
(***************************************************************************)
EXTENDS Integers

MaxInt16 == 32767
MaxInt32 == 2147483647
Int16 == (-MaxInt16 - 1) .. MaxInt16
Int32 == (-MaxInt32 - 1) .. MaxInt32

(* static_cast<int16_t> of a register.                                     *)
Signed(w) == IF w < 32768 THEN w ELSE w - 65536

FaultyHigh(n) == n \div 65536   \* shifted but not masked

(* The halves of an int32_t or uint32_t, as written to two registers.      *)
High(n) == (n \div 65536) % 65536
Low(n)  == n % 65536

(* static_cast<int32_t> of (hi << 16) | lo, and the same left unsigned.    *)
Join(hi, lo) == Signed(hi) * 65536 + lo
JoinUnsigned(hi, lo) == 65536 * hi + lo

(* Bit k of a register; its high byte, and the parts of the firmware's     *)
(* version.                                                                *)
IsSet(w, k) == (w \div 2^k) % 2 = 1
HighByte(w) == (w \div 256) % 256
LowByte(w)  == w % 256
Nibble(w)   == (w \div 16) % 16

(* The cast of a float to an integer drops the fraction.  Floats are given *)
(* in tenths of a register's unit.                                         *)
Truncated(tenths) == IF tenths >= 0 THEN tenths \div 10 ELSE -((-tenths) \div 10)
=============================================================================
