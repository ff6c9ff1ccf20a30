-------------------------- MODULE DiscoveryProofs --------------------------
(***************************************************************************)
(* Theorems about Discovery, for any windows and bitmaps, with any         *)
(* drivers, instruments and calls between the sweeps.                      *)
(***************************************************************************)
EXTENDS Discovery, TimelyProofs, FiniteSetTheorems

(* A step of a sweep, or between sweeps, is a step of the bus, but for the *)
(* addresses and timeouts it hands to SetAddress and SetTimeoutMs.         *)
LEMMA SweepIsBus ==
  ASSUME SweepTypeOK, [SweepNext]_sweepVars
  PROVE  \/ [Next]_vars
         \/ \E d \in Drivers, a \in Nat : SetAddress(d, a)
         \/ \E d \in Drivers, ms \in Nat : SetTimeoutMs(d, ms)
<1>1. \A d \in Drivers : sweep[d].a \in Nat /\ sweep[d].savedAddr \in Nat
                          /\ sweep[d].savedTimeout \in Nat
  BY DEF SweepTypeOK, SweepState
<1>2. ASSUME NEW d \in Drivers, SweepStep(d)
      PROVE  \/ [Next]_vars
             \/ \E a \in Nat : SetAddress(d, a)
             \/ \E ms \in Nat : SetTimeoutMs(d, ms)
  <2>1. CASE NextAddress(d)
    BY <1>1, <2>1 DEF NextAddress
  <2>2. CASE Ask(d)
    BY <2>2, ProbeAssumption DEF Ask, Next
  <2>3. CASE Record(d)
    BY <2>3 DEF Record
  <2>4. CASE EndLoop(d)
    BY <1>1, <2>4 DEF EndLoop, Restored
  <2>5. CASE EndSweep(d)
    BY <1>1, <2>5 DEF EndSweep, RestoredTimeout
  <2>. QED
    BY <1>2, <2>1, <2>2, <2>3, <2>4, <2>5 DEF SweepStep
<1>3. ASSUME NEW d \in Drivers, NEW bytes \in BitmapSizes, RefuseSweep(d, bytes)
      PROVE  [Next]_vars
  BY <1>3 DEF RefuseSweep
<1>4. ASSUME NEW d \in Drivers, NEW bytes \in BitmapSizes, NEW w \in Windows,
             NEW ms \in Timeouts, BeginSweep(d, w, ms, bytes)
      PROVE  [Next]_vars
  BY <1>4 DEF BeginSweep, ProbeTimeout, Next
<1>5. ASSUME NEW d \in Drivers, NEW c \in Calls, OtherCall(d, c)
      PROVE  [Next]_vars
  BY <1>5 DEF OtherCall, Next
<1>6. ASSUME BusStep
      PROVE  [Next]_vars
  BY <1>6 DEF BusStep, Next
<1>. QED
  BY <1>2, <1>3, <1>4, <1>5, <1>6 DEF SweepNext, sweepVars

(* Every step keeps what the bus has proved of itself.                     *)
LEMMA SweepBackedInv ==
  ASSUME SweepTypeOK, BackedInv, [SweepNext]_sweepVars
  PROVE  BackedInv'
<1>1. CASE [Next]_vars
  BY <1>1, NextBackedInv
<1>2. ASSUME NEW d \in Drivers, NEW a \in Nat, SetAddress(d, a)
      PROVE  BackedInv'
  BY <1>2 DEF SetAddress, BackedInv, TypeOK, Backed, Given, AckedIsBacked, Returned, Awaited,
     Unicast
<1>3. ASSUME NEW d \in Drivers, NEW ms \in Nat, SetTimeoutMs(d, ms)
      PROVE  BackedInv'
  BY <1>3 DEF SetTimeoutMs, BackedInv, TypeOK, Backed, Given, AckedIsBacked, Returned, Awaited,
     Unicast
<1>. QED
  BY <1>1, <1>2, <1>3, SweepIsBus

(* The 16-bit loop variable never wraps: it passes 255 and stops.          *)
LEMMA NextOfIs ==
  ASSUME NEW a \in 0..255
  PROVE  NextOf(a) = a + 1 /\ NextOf(a) \in 0..256
BY DEF NextOf

(* Each address has a bit of its own in the bitmap's 32 bytes.             *)
LEMMA BitType ==
  ASSUME NEW a \in 0..255
  PROVE  Bit(a) \in (0..31) \X (0..7)
<1>1. a \div 8 \in 0..31 /\ a % 8 \in 0..7
  OBVIOUS
<1>. QED
  BY <1>1 DEF Bit

LEMMA BitOwn ==
  ASSUME NEW a \in 0..255, NEW b \in 0..255, Bit(a) = Bit(b)
  PROVE  a = b
<1>1. ASSUME NEW n \in 0..255 PROVE n = 8 * (n \div 8) + (n % 8)
  OBVIOUS
<1>2. a \div 8 = b \div 8 /\ a % 8 = b % 8
  BY DEF Bit
<1>. QED
  BY <1>1, <1>2

-----------------------------------------------------------------------------
(* The sweep's own variable.                                               *)

LEMMA BeginSweepType ==
  ASSUME SweepTypeOK, NEW d \in Drivers, NEW w \in Windows, NEW ms \in Timeouts,
         NEW bytes \in BitmapSizes, BeginSweep(d, w, ms, bytes)
  PROVE  sweep'[d] \in SweepState /\ sweep'[d].at = "next" /\ sweep'[d].present = {}
<1>1. /\ w[1] \in 0..255 /\ w[2] \in 0..255 /\ w[1] \in 0..256
      /\ address[d] \in Nat /\ timeout[d] \in Nat /\ sent \in Nat
      /\ sweep \in [Drivers -> SweepState]
  BY WindowAssumption, SMTT(30) DEF SweepTypeOK, TypeOK
<1>2. (Quiet /\ ms \in LongTimeouts) \in BOOLEAN
  OBVIOUS
<1>. QED
  BY <1>1, <1>2 DEF BeginSweep, SweepState

LEMMA RecordType ==
  ASSUME SweepTypeOK, NEW d \in Drivers, Record(d)
  PROVE  /\ sweep'[d] \in SweepState /\ sweep'[d].at = "next"
         /\ sweep'[d].savedAddr = sweep[d].savedAddr
         /\ sweep'[d].present = IF Present(d) THEN sweep[d].present \cup {Bit(sweep[d].a)}
                                              ELSE sweep[d].present
         /\ sweep'[d].found = IF Present(d) THEN (sweep[d].found + 1) % 256 ELSE sweep[d].found
         /\ sweep'[d].a = NextOf(sweep[d].a)
         /\ sweep'[d].first = sweep[d].first /\ sweep'[d].last = sweep[d].last
         /\ sweep'[d].since = sweep[d].since /\ sweep'[d].unhurried = sweep[d].unhurried
<1>1. /\ sweep \in [Drivers -> SweepState] /\ sweep[d] \in SweepState
      /\ sweep[d].at = "asked" /\ sweep[d].a <= sweep[d].last
  BY DEF SweepTypeOK, Record
<1>2. /\ sweep[d].last \in 0..255 /\ sweep[d].a \in 0..255 /\ sweep[d].found \in 0..255
      /\ sweep[d].present \in SUBSET ((0..31) \X (0..7))
  BY <1>1, SMTT(30) DEF SweepState
<1>3. NextOf(sweep[d].a) \in 0..256 /\ Bit(sweep[d].a) \in (0..31) \X (0..7)
  BY <1>2, NextOfIs, BitType
<1>4. (sweep[d].found + 1) % 256 \in 0..255
  BY <1>2
<1>. DEFINE next == NextOf(sweep[d].a)
            bits == IF Present(d) THEN sweep[d].present \cup {Bit(sweep[d].a)}
                                  ELSE sweep[d].present
            count == IF Present(d) THEN (sweep[d].found + 1) % 256 ELSE sweep[d].found
<1>. DEFINE Ats   == {"none", "BufferTooSmall", "next", "ask", "asked", "restored", "done"}
            Byte8 == 0..255
            Loop  == 0..256
            Flag  == BOOLEAN
            Maps  == SUBSET ((0..31) \X (0..7))
            State == [at : Ats, first : Byte8, last : Byte8, a : Loop, savedAddr : Nat,
                      savedTimeout : Nat, since : Nat, unhurried : Flag, present : Maps,
                      found : Byte8]
<1>5. next \in Loop /\ count \in Byte8 /\ bits \in Maps /\ "next" \in Ats
  BY <1>2, <1>3, <1>4
<1>6. sweep'[d] = [sweep[d] EXCEPT !.at = "next", !.a = next, !.present = bits, !.found = count]
  BY <1>1 DEF Record
<1>7. SweepState = State
  BY DEF SweepState
<1>. HIDE DEF next, bits, count, Ats, Byte8, Loop, Flag, Maps
<1>8. /\ sweep'[d] \in SweepState /\ sweep'[d].at = "next" /\ sweep'[d].present = bits
      /\ sweep'[d].savedAddr = sweep[d].savedAddr
      /\ sweep'[d].found = count /\ sweep'[d].a = next
      /\ sweep'[d].first = sweep[d].first /\ sweep'[d].last = sweep[d].last
      /\ sweep'[d].since = sweep[d].since /\ sweep'[d].unhurried = sweep[d].unhurried
  BY <1>1, <1>5, <1>6, <1>7
<1>. QED
  BY <1>8 DEF bits, count, next

LEMMA AtType ==
  ASSUME NEW r \in SweepState,
         NEW at \in {"BufferTooSmall", "next", "ask", "asked", "restored", "done"}
  PROVE  /\ [r EXCEPT !.at = at] \in SweepState
         /\ [r EXCEPT !.at = at].at = at
         /\ [r EXCEPT !.at = at].a = r.a
         /\ [r EXCEPT !.at = at].last = r.last
         /\ [r EXCEPT !.at = at].savedAddr = r.savedAddr
         /\ [r EXCEPT !.at = at].present = r.present
         /\ [r EXCEPT !.at = at].first = r.first
         /\ [r EXCEPT !.at = at].since = r.since
         /\ [r EXCEPT !.at = at].unhurried = r.unhurried
         /\ [r EXCEPT !.at = at].found = r.found
<1>. DEFINE Ats   == {"none", "BufferTooSmall", "next", "ask", "asked", "restored", "done"}
            Byte8 == 0..255
            Loop  == 0..256
            Flag  == BOOLEAN
            Maps  == SUBSET ((0..31) \X (0..7))
            State == [at : Ats, first : Byte8, last : Byte8, a : Loop, savedAddr : Nat,
                      savedTimeout : Nat, since : Nat, unhurried : Flag, present : Maps,
                      found : Byte8]
<1>1. SweepState = State /\ at \in Ats
  BY DEF SweepState
<1>. HIDE DEF Ats, Byte8, Loop, Flag, Maps
<1>. QED
  BY <1>1

LEMMA NoSweepType ==
  /\ NoSweep \in SweepState
  /\ [NoSweep EXCEPT !.at = "BufferTooSmall"] \in SweepState
  /\ [NoSweep EXCEPT !.at = "BufferTooSmall"].at = "BufferTooSmall"
  /\ [NoSweep EXCEPT !.at = "BufferTooSmall"].present = {}
<1>1. NoSweep \in SweepState /\ NoSweep.present = {}
  BY DEF NoSweep, SweepState
<1>. QED
  BY <1>1, AtType

(* While a driver is in its call, the call stays what it is, and leaves    *)
(* the other drivers alone.                                                *)
LEMMA StepFrame ==
  ASSUME TypeOK, NEW d \in Drivers, Step(d)
  PROVE  /\ pc[d] # "idle" /\ served' = served
         /\ call'[d].args = call[d].args
         /\ call'[d].unit = call[d].unit /\ call'[d].txn = call[d].txn
         /\ \A e \in Drivers \ {d} :
              pc'[e] = pc[e] /\ call'[e] = call[e] /\ address'[e] = address[e]
<1>1. /\ call \in [Drivers -> CallState] /\ pc \in [Drivers -> {"idle", "write", "read"}]
      /\ address \in [Drivers -> Nat]
  BY DEF TypeOK
<1>2. /\ pc[d] \in {"write", "read"} /\ served' = served
      /\ \/ \E error, words : Return(d, error, words)
         \/ pc' = [pc EXCEPT ![d] = "read"] /\ UNCHANGED <<address, call>>
  BY DEF Step, Transmit, ReceiveAll, GiveUp, Receive
<1>3. ASSUME NEW error, NEW words, Return(d, error, words)
      PROVE  /\ call'[d].args = call[d].args
             /\ call'[d].unit = call[d].unit /\ call'[d].txn = call[d].txn
             /\ \A e \in Drivers \ {d} :
                  pc'[e] = pc[e] /\ call'[e] = call[e] /\ address'[e] = address[e]
  BY <1>1, <1>3 DEF Return, CallState
<1>. QED
  BY <1>1, <1>2, <1>3

-----------------------------------------------------------------------------
(* The invariant's own parts.                                              *)

(* What a driver has recorded stays answered as long as it records nothing *)
(* more.                                                                   *)
LEMMA BitsStay ==
  ASSUME BitsBacked, served \subseteq served',
         \A d \in Drivers : sweep'[d].present \subseteq sweep[d].present
  PROVE  BitsBacked'
BY DEF BitsBacked

(* A step of d's sweep: what it makes of d's own state decides.            *)
LEMMA SweepStepKeeps ==
  ASSUME SweepInv, TypeOK', NEW d \in Drivers, NEW r \in SweepState,
         sweep' = [sweep EXCEPT ![d] = r],
         r.at \in {"ask", "asked"} => r.a <= r.last,
         UNCHANGED served,
         \A e \in Drivers \ {d} : pc'[e] = pc[e] /\ call'[e] = call[e] /\ address'[e] = address[e],
         r.at \in {"next", "ask", "restored"} => pc'[d] = "idle",
         r.at = "ask" => address'[d] = r.a,
         r.at = "asked" => call'[d].args = Probe /\ call'[d].unit = r.a /\ call'[d].txn # 0,
         \A a \in 0..255 : Bit(a) \in r.present =>
           \E v \in served : Backs(v, RequestFrame(Probe, a), v.data)
  PROVE  SweepTypeOK' /\ Asks' /\ BitsBacked'
<1>1. /\ sweep \in [Drivers -> SweepState] /\ sweep' \in [Drivers -> SweepState]
      /\ sweep'[d] = r /\ \A e \in Drivers \ {d} : sweep'[e] = sweep[e]
  BY DEF SweepInv, SweepTypeOK
<1>2. SweepTypeOK'
  BY <1>1 DEF SweepInv, SweepTypeOK
<1>3. Asks'
  BY <1>1 DEF SweepInv, Asks
<1>4. BitsBacked'
  BY <1>1 DEF SweepInv, BitsBacked
<1>. QED
  BY <1>2, <1>3, <1>4

LEMMA NextSweepInv ==
  ASSUME SweepInv, [SweepNext]_sweepVars
  PROVE  SweepInv'
<1>1. /\ BackedInv' /\ TypeOK' /\ TypeOK
      /\ sweep \in [Drivers -> SweepState] /\ \A d \in Drivers : sweep[d] \in SweepState
  BY SweepBackedInv DEF SweepInv, BackedInv, SweepTypeOK
<1>2. \A d \in Drivers, a \in 0..255 : Bit(a) \in sweep[d].present =>
        \E v \in served : Backs(v, RequestFrame(Probe, a), v.data)
  BY DEF SweepInv, BitsBacked
<1>3. ASSUME NEW d \in Drivers, NextAddress(d)
      PROVE  SweepTypeOK' /\ Asks' /\ BitsBacked'
  <2>. DEFINE r == [sweep[d] EXCEPT !.at = "ask"]
  <2>1. /\ sweep' = [sweep EXCEPT ![d] = r] /\ sweep[d].a <= sweep[d].last
        /\ address' = [address EXCEPT ![d] = sweep[d].a] /\ pc[d] = "idle"
        /\ UNCHANGED <<pc, call, served>>
    BY <1>3 DEF NextAddress, InWindow, SetAddress
  <2>2. /\ r \in SweepState /\ r.at = "ask" /\ r.a = sweep[d].a /\ r.last = sweep[d].last
        /\ r.present = sweep[d].present
    BY <1>1, AtType
  <2>. HIDE DEF r
  <2>. QED
    BY <1>1, <1>2, <2>1, <2>2, SweepStepKeeps DEF TypeOK
<1>4. ASSUME NEW d \in Drivers, Ask(d)
      PROVE  SweepTypeOK' /\ Asks' /\ BitsBacked'
  <2>. DEFINE r == [sweep[d] EXCEPT !.at = "asked"]
  <2>1. /\ sweep' = [sweep EXCEPT ![d] = r] /\ sweep[d].at = "ask"
        /\ call' = [call EXCEPT ![d] = [args |-> Probe, unit |-> address[d], txn |-> sent + 1,
                                       error |-> "pending", words |-> <<>>]]
        /\ pc' = [pc EXCEPT ![d] = "write"] /\ UNCHANGED <<address, served>>
    BY <1>4 DEF Ask, Begin
  <2>2. /\ r \in SweepState /\ r.at = "asked" /\ r.a = sweep[d].a /\ r.last = sweep[d].last
        /\ r.present = sweep[d].present
    BY <1>1, AtType
  <2>3. /\ sweep[d].a <= sweep[d].last /\ address[d] = sweep[d].a /\ sent + 1 # 0
    BY <2>1 DEF SweepInv, SweepTypeOK, Asks, TypeOK
  <2>4. /\ \A e \in Drivers \ {d} : pc'[e] = pc[e] /\ call'[e] = call[e]
        /\ call'[d].args = Probe /\ call'[d].unit = address[d] /\ call'[d].txn = sent + 1
    BY <1>1, <2>1 DEF TypeOK
  <2>. HIDE DEF r
  <2>. QED
    BY <1>1, <1>2, <2>1, <2>2, <2>3, <2>4, SweepStepKeeps
<1>5. ASSUME NEW d \in Drivers, Record(d)
      PROVE  SweepTypeOK' /\ Asks' /\ BitsBacked'
  <2>1. /\ sweep'[d] \in SweepState /\ sweep'[d].at = "next"
        /\ sweep'[d].present = IF Present(d) THEN sweep[d].present \cup {Bit(sweep[d].a)}
                                            ELSE sweep[d].present
        /\ sweep' = [sweep EXCEPT ![d] = sweep'[d]]
        /\ pc[d] = "idle" /\ sweep[d].at = "asked" /\ UNCHANGED vars
    BY <1>1, <1>5, RecordType DEF Record, SweepInv
  <2>2. /\ sweep[d].a \in 0..255 /\ call[d].args = Probe /\ call[d].unit = sweep[d].a
        /\ call[d].txn # 0
    <3>1. sweep[d].at = "asked"
      BY <2>1
    <3>2. call[d].args = Probe /\ call[d].unit = sweep[d].a /\ call[d].txn # 0
      BY <3>1 DEF SweepInv, Asks
    <3>3. sweep[d] \in SweepState /\ sweep[d].a <= sweep[d].last
      BY <3>1 DEF SweepInv, SweepTypeOK
    <3>4. sweep[d].a \in 0..255
      BY <3>3 DEF SweepState
    <3>. QED
      BY <3>2, <3>4
  <2>3. Present(d) => \E v \in served : Backs(v, RequestFrame(Probe, sweep[d].a), v.data)
    <3>1. SUFFICES ASSUME Present(d)
                   PROVE  \E v \in served : Backs(v, RequestFrame(Probe, sweep[d].a), v.data)
      OBVIOUS
    <3>2. PICK v \in served : Backs(v, RequestFrame(Probe, sweep[d].a), call[d].words)
      BY <2>1, <2>2, <3>1 DEF SweepInv, BackedInv, AckedIsBacked, Returned, Awaited, Present,
         Probe
    <3>. QED
      BY <3>2 DEF Backs
  <2>4. \A a \in 0..255 : Bit(a) \in sweep'[d].present =>
          \E v \in served : Backs(v, RequestFrame(Probe, a), v.data)
    <3>1. ASSUME NEW a \in 0..255, Bit(a) = Bit(sweep[d].a) PROVE a = sweep[d].a
      BY <2>2, <3>1, BitOwn
    <3>. QED
      BY <1>2, <2>1, <2>3, <3>1
  <2>. QED
    BY <1>1, <2>1, <2>4, SweepStepKeeps DEF vars
<1>6. ASSUME NEW d \in Drivers, EndLoop(d) \/ EndSweep(d)
      PROVE  SweepTypeOK' /\ Asks' /\ BitsBacked'
  <2>1. PICK at \in {"restored", "done"} :
          /\ sweep' = [sweep EXCEPT ![d] = [sweep[d] EXCEPT !.at = at]]
          /\ pc[d] = "idle" /\ UNCHANGED <<pc, call, served>>
          /\ \A e \in Drivers \ {d} : address'[e] = address[e]
    BY <1>1, <1>6 DEF EndLoop, EndSweep, SetAddress, SetTimeoutMs, TypeOK
  <2>. DEFINE r == [sweep[d] EXCEPT !.at = at]
  <2>2. /\ at \in {"BufferTooSmall", "next", "ask", "asked", "restored", "done"}
        /\ sweep[d] \in SweepState
    BY <1>1
  <2>3. r \in SweepState /\ r.at = at /\ r.present = sweep[d].present
    BY <2>2, AtType
  <2>4. sweep' = [sweep EXCEPT ![d] = r]
    BY <2>1
  <2>. HIDE DEF r
  <2>. QED
    BY <1>1, <1>2, <2>1, <2>3, <2>4, SweepStepKeeps
<1>7. ASSUME NEW d \in Drivers, NEW bytes \in BitmapSizes, RefuseSweep(d, bytes)
      PROVE  SweepTypeOK' /\ Asks' /\ BitsBacked'
  <2>. DEFINE r == [NoSweep EXCEPT !.at = "BufferTooSmall"]
  <2>1. r \in SweepState /\ r.at = "BufferTooSmall" /\ r.present = {}
    BY NoSweepType
  <2>2. sweep' = [sweep EXCEPT ![d] = r] /\ UNCHANGED vars
    BY <1>7 DEF RefuseSweep
  <2>. HIDE DEF r
  <2>. QED
    BY <1>1, <2>1, <2>2, SweepStepKeeps DEF vars
<1>8. ASSUME NEW d \in Drivers, NEW bytes \in BitmapSizes, NEW w \in Windows,
             NEW ms \in Timeouts, BeginSweep(d, w, ms, bytes)
      PROVE  SweepTypeOK' /\ Asks' /\ BitsBacked'
  <2>1. /\ sweep'[d] \in SweepState /\ sweep'[d].at = "next" /\ sweep'[d].present = {}
    BY <1>1, <1>8, BeginSweepType DEF SweepInv
  <2>2. /\ sweep' = [sweep EXCEPT ![d] = sweep'[d]]
        /\ pc[d] = "idle" /\ UNCHANGED <<address, pc, call, served>>
    BY <1>1, <1>8 DEF BeginSweep, SetTimeoutMs
  <2>. QED
    BY <1>1, <2>1, <2>2, SweepStepKeeps
<1>9. ASSUME NEW d \in Drivers, NEW c \in Calls, OtherCall(d, c)
      PROVE  SweepTypeOK' /\ Asks' /\ BitsBacked'
  <2>1. /\ sweep[d].at \notin {"next", "ask", "asked", "restored"} /\ sweep' = sweep
        /\ UNCHANGED <<address, served>>
        /\ \A e \in Drivers \ {d} : pc'[e] = pc[e] /\ call'[e] = call[e]
    BY <1>1, <1>9 DEF OtherCall, Sweeping, Begin, TypeOK
  <2>. QED
    BY <1>1, <2>1, BitsStay DEF SweepInv, SweepTypeOK, Asks
<1>10. ASSUME NEW d \in Drivers, Step(d), UNCHANGED sweep
       PROVE  SweepTypeOK' /\ Asks' /\ BitsBacked'
  <2>1. /\ pc[d] # "idle" /\ served' = served
        /\ call'[d].args = call[d].args
        /\ call'[d].unit = call[d].unit /\ call'[d].txn = call[d].txn
        /\ \A e \in Drivers \ {d} :
             pc'[e] = pc[e] /\ call'[e] = call[e] /\ address'[e] = address[e]
    BY <1>1, <1>10, StepFrame
  <2>. QED
    BY <1>1, <1>10, <2>1, BitsStay DEF SweepInv, SweepTypeOK, Asks
<1>11. ASSUME \/ \E s \in Slaves : Serve(s)
              \/ Arrive
              \/ UNCHANGED vars,
              UNCHANGED sweep
       PROVE  SweepTypeOK' /\ Asks' /\ BitsBacked'
  <2>1. UNCHANGED <<address, pc, call>> /\ served \subseteq served'
    BY <1>11 DEF Serve, Arrive, vars
  <2>. QED
    BY <1>1, <1>11, <2>1, BitsStay DEF SweepInv, SweepTypeOK, Asks
<1>12. SweepTypeOK' /\ Asks' /\ BitsBacked'
  BY <1>3, <1>4, <1>5, <1>6, <1>7, <1>8, <1>9, <1>10, <1>11
     DEF SweepNext, SweepStep, BusStep, sweepVars
<1>. QED
  BY <1>1, <1>12 DEF SweepInv

LEMMA SweepInitInv == SweepInit => SweepInv
<1>. SUFFICES ASSUME SweepInit PROVE SweepInv
  OBVIOUS
<1>1. BackedInv
  BY InitType DEF SweepInit, Init, BackedInv, Backed, AckedIsBacked, Returned
<1>2. sweep \in [Drivers -> SweepState] /\ \A d \in Drivers : sweep[d] = NoSweep
  BY NoSweepType DEF SweepInit
<1>. QED
  BY <1>1, <1>2 DEF SweepInv, SweepTypeOK, BackedInv, Asks, BitsBacked, NoSweep

(* Every reachable state has the sweep's inductive invariant.              *)
THEOREM SweepInvHolds == SweepSpec => []SweepInv
<1>. QED
  BY SweepInitInv, NextSweepInv, PTL DEF SweepSpec

(* Every reachable sweep has its type: its loop stays within the window    *)
(* whenever it asks, and the bitmap's bits within its 32 bytes.            *)
THEOREM SweepTypeCorrect == SweepSpec => []SweepTypeOK
<1>1. SweepInv => SweepTypeOK
  BY DEF SweepInv
<1>. QED
  BY <1>1, SweepInvHolds, PTL

(* An address is reported only if an instrument has answered at it.        *)
THEOREM ReportedAnsweredHolds == SweepSpec => []ReportedAnswered
<1>1. SweepInv => ReportedAnswered
  <2>1. SUFFICES ASSUME SweepInv, NEW d \in Drivers, NEW a \in Reported(d)
                 PROVE  \E v \in served : Backs(v, RequestFrame(Probe, a), v.data)
    BY DEF ReportedAnswered
  <2>2. sweep[d].first \in 0..255 /\ sweep[d].last \in 0..255
    BY <2>1 DEF SweepInv, SweepTypeOK, SweepState
  <2>3. a \in 0..255 /\ Bit(a) \in sweep[d].present
    BY <2>1, <2>2 DEF Reported
  <2>. QED
    BY <2>1, <2>3 DEF SweepInv, BitsBacked
<1>. QED
  BY <1>1, SweepInvHolds, PTL

-----------------------------------------------------------------------------
(* Progress.                                                               *)

(* A record with another stage has the same window and holds on to the     *)
(* same target and timeout.                                                *)
LEMMA AtKeeps ==
  ASSUME NEW r \in SweepState, NEW at
  PROVE  /\ [r EXCEPT !.at = at].at = at
         /\ [r EXCEPT !.at = at].a = r.a
         /\ [r EXCEPT !.at = at].present = r.present
         /\ [r EXCEPT !.at = at].first = r.first /\ [r EXCEPT !.at = at].last = r.last
         /\ [r EXCEPT !.at = at].savedAddr = r.savedAddr
         /\ [r EXCEPT !.at = at].savedTimeout = r.savedTimeout
BY DEF SweepState

LEMMA StepNearer ==
  ASSUME SweepTypeOK, NEW d \in Drivers, SweepStep(d)
  PROVE  NearerTheEnd(d)
<1>1. /\ sweep \in [Drivers -> SweepState] /\ sweep[d] \in SweepState
      /\ sweep[d].at \in {"ask", "asked"} => sweep[d].a <= sweep[d].last
  BY DEF SweepTypeOK
<1>2. sweep[d].last \in 0..255 /\ sweep[d].a \in 0..256
  BY <1>1 DEF SweepState
<1>3. sweep[d].last \in Int /\ sweep[d].a \in Int
  BY <1>2
<1>4. ASSUME NEW at \in {"ask", "asked", "restored", "done"}, sweep' = [sweep EXCEPT ![d].at = at],
             Ahead(d)' = Ahead(d) - 1
      PROVE  NearerTheEnd(d)
  <2>1. sweep'[d] = [sweep[d] EXCEPT !.at = at]
    BY <1>1, <1>4
  <2>. QED
    BY <1>1, <1>4, <2>1, AtKeeps DEF NearerTheEnd
<1>5. ASSUME NEW at \in {"ask", "asked", "restored", "done"}, sweep' = [sweep EXCEPT ![d].at = at]
      PROVE  sweep'[d].at = at /\ sweep'[d].a = sweep[d].a /\ sweep'[d].last = sweep[d].last
  <2>1. sweep'[d] = [sweep[d] EXCEPT !.at = at]
    BY <1>1, <1>5
  <2>. QED
    BY <1>1, <2>1, AtKeeps
<1>6. CASE NextAddress(d)
  <2>1. sweep[d].at = "next" /\ sweep[d].a <= sweep[d].last /\ sweep' = [sweep EXCEPT ![d].at = "ask"]
    BY <1>6 DEF NextAddress, InWindow
  <2>2. sweep'[d].at = "ask" /\ sweep'[d].a = sweep[d].a /\ sweep'[d].last = sweep[d].last
    BY <1>5, <2>1
  <2>3. Ahead(d)' = Ahead(d) - 1
    BY <1>3, <2>1, <2>2 DEF Ahead, InWindow
  <2>. QED
    BY <1>4, <2>1, <2>3
<1>7. CASE Ask(d)
  <2>1. sweep[d].at = "ask" /\ sweep[d].a <= sweep[d].last /\ sweep' = [sweep EXCEPT ![d].at = "asked"]
    BY <1>1, <1>7 DEF Ask
  <2>2. sweep'[d].at = "asked" /\ sweep'[d].a = sweep[d].a /\ sweep'[d].last = sweep[d].last
    BY <1>5, <2>1
  <2>3. Ahead(d)' = Ahead(d) - 1
    BY <1>3, <2>1, <2>2 DEF Ahead, InWindow
  <2>. QED
    BY <1>4, <2>1, <2>3
<1>8. CASE Record(d)
  <2>1. sweep[d].at = "asked" /\ sweep[d].a <= sweep[d].last
    BY <1>1, <1>8, SMTT(30) DEF Record
  <2>2. NextOf(sweep[d].a) = sweep[d].a + 1
    <3>1. sweep[d].a \in 0..255
      BY <1>2, <2>1
    <3>. QED
      BY <3>1, NextOfIs
  <2>3. /\ sweep'[d].at = "next" /\ sweep'[d].a = sweep[d].a + 1
        /\ sweep'[d].first = sweep[d].first /\ sweep'[d].last = sweep[d].last
        /\ sweep'[d].savedAddr = sweep[d].savedAddr
        /\ sweep[d].present \subseteq sweep'[d].present
    BY <1>8, <2>2, RecordType
  <2>4. sweep'[d].savedTimeout = sweep[d].savedTimeout
    BY <1>1, <1>8 DEF Record, SweepState
  <2>5. Ahead(d)' = Ahead(d) - 1
    BY <1>3, <2>1, <2>3 DEF Ahead, InWindow
  <2>. QED
    BY <2>3, <2>4, <2>5 DEF NearerTheEnd
<1>9. CASE EndLoop(d)
  <2>1. sweep[d].at = "next" /\ ~InWindow(d) /\ sweep' = [sweep EXCEPT ![d].at = "restored"]
    BY <1>9 DEF EndLoop
  <2>2. sweep'[d].at = "restored"
    BY <1>5, <2>1
  <2>3. Ahead(d)' = Ahead(d) - 1
    BY <2>1, <2>2 DEF Ahead
  <2>. QED
    BY <1>4, <2>1, <2>3
<1>10. CASE EndSweep(d)
  <2>1. sweep[d].at = "restored" /\ sweep' = [sweep EXCEPT ![d].at = "done"]
    BY <1>10 DEF EndSweep
  <2>2. sweep'[d].at = "done"
    BY <1>5, <2>1
  <2>3. Ahead(d)' = Ahead(d) - 1
    BY <2>1, <2>2 DEF Ahead
  <2>. QED
    BY <1>4, <2>1, <2>3
<1>. QED
  BY <1>6, <1>7, <1>8, <1>9, <1>10 DEF SweepStep

(* Every step of a sweep brings it one nearer to its end, and no other     *)
(* step moves it: the loop variable passes 255 instead of starting over.   *)
THEOREM SweepAdvancesHolds == SweepSpec => SweepAdvances
<1>1. ASSUME SweepTypeOK, SweepNext, NEW d \in Drivers, Sweeping(d)
      PROVE  sweep'[d] = sweep[d] \/ NearerTheEnd(d)
  <2>1. sweep \in [Drivers -> SweepState]
    BY <1>1 DEF SweepTypeOK
  <2>2. ASSUME NEW e \in Drivers, SweepStep(e) PROVE sweep'[d] = sweep[d] \/ NearerTheEnd(d)
    <3>1. CASE e = d
      BY <1>1, <2>2, <3>1, StepNearer
    <3>2. CASE e # d
      BY <2>1, <2>2, <3>2 DEF SweepStep, NextAddress, Ask, Record, EndLoop, EndSweep
    <3>. QED
      BY <3>1, <3>2
  <2>3. ASSUME NEW e \in Drivers, NEW bytes \in BitmapSizes, RefuseSweep(e, bytes)
        PROVE  sweep'[d] = sweep[d]
    BY <1>1, <2>1, <2>3 DEF RefuseSweep
  <2>4. ASSUME NEW e \in Drivers, NEW bytes \in BitmapSizes, NEW w \in Windows,
               NEW ms \in Timeouts, BeginSweep(e, w, ms, bytes)
        PROVE  sweep'[d] = sweep[d]
    BY <1>1, <2>1, <2>4 DEF BeginSweep
  <2>. QED
    BY <1>1, <2>2, <2>3, <2>4 DEF SweepNext, OtherCall, BusStep
<1>2. SweepTypeOK /\ [SweepNext]_sweepVars =>
        [\A d \in Drivers : Sweeping(d) => sweep'[d] = sweep[d] \/ NearerTheEnd(d)]_sweepVars
  BY <1>1
<1>. QED
  BY <1>2, SweepTypeCorrect, PTL DEF SweepSpec, SweepAdvances

-----------------------------------------------------------------------------
(* A sweep is made of the bus's own steps.                                 *)

(* What a step of a sweep leaves of its record.                            *)
LEMMA StepRecord ==
  ASSUME SweepTypeOK, NEW d \in Drivers, SweepStep(d)
  PROVE  /\ \A part \in {"first", "last", "savedAddr", "savedTimeout"} :
              sweep'[d][part] = sweep[d][part]
         /\ sweep'[d].a = sweep[d].a \/ sweep'[d].a = sweep[d].a + 1
         /\ \A e \in Drivers \ {d} : sweep'[e] = sweep[e]
<1>1. sweep \in [Drivers -> SweepState] /\ sweep[d] \in SweepState
  BY DEF SweepTypeOK
<1>2. NearerTheEnd(d)
  BY StepNearer
<1>3. \A e \in Drivers \ {d} : sweep'[e] = sweep[e]
  BY <1>1 DEF SweepStep, NextAddress, Ask, Record, EndLoop, EndSweep
<1>4. CASE Record(d)
  <2>1. sweep[d].a \in 0..255
    <3>1. sweep[d].a \in 0..256 /\ sweep[d].last \in 0..255
      BY <1>1 DEF SweepState
    <3>2. sweep[d].a <= sweep[d].last
      BY <1>4 DEF Record, SweepTypeOK
    <3>. QED
      BY <3>1, <3>2, SMTT(30)
  <2>2. sweep'[d].a = sweep[d].a + 1
    BY <1>4, <2>1, RecordType, NextOfIs
  <2>. QED
    BY <1>2, <1>3, <2>2 DEF NearerTheEnd
<1>5. CASE ~Record(d)
  <2>1. PICK at : sweep'[d] = [sweep[d] EXCEPT !.at = at]
    BY <1>1, <1>5 DEF SweepStep, NextAddress, Ask, EndLoop, EndSweep
  <2>2. sweep'[d].a = sweep[d].a
    BY <1>1, <2>1, AtKeeps
  <2>. QED
    BY <1>2, <1>3, <2>2 DEF NearerTheEnd
<1>. QED
  BY <1>4, <1>5

(* The addresses and timeouts that a sweep's steps set are a host's.       *)
LEMMA StepReach ==
  ASSUME ReachInv, NEW d \in Drivers, SweepStep(d)
  PROVE  /\ [Next]_vars
         /\ \A e \in Drivers : address'[e] \in HostAddresses /\ timeout'[e] \in Timeouts
<1>1. /\ address \in [Drivers -> Nat] /\ timeout \in [Drivers -> Nat]
      /\ \A e \in Drivers : address[e] \in HostAddresses /\ timeout[e] \in Timeouts
  BY DEF ReachInv, SweepTypeOK, TypeOK
<1>2. Sweeping(d)
  BY DEF SweepStep, NextAddress, Ask, Record, EndLoop, EndSweep, Sweeping
<1>3. sweep[d].savedAddr \in HostAddresses /\ sweep[d].savedTimeout \in Timeouts
  BY <1>2 DEF ReachInv
<1>4. ASSUME NEW a \in HostAddresses, SetAddress(d, a)
      PROVE  /\ [Next]_vars
             /\ \A e \in Drivers : address'[e] \in HostAddresses /\ timeout'[e] \in Timeouts
  BY <1>1, <1>4 DEF SetAddress, Next
<1>5. CASE NextAddress(d)
  <2>1. SetAddress(d, sweep[d].a) /\ sweep[d].a <= sweep[d].last
    BY <1>5 DEF NextAddress, InWindow
  <2>2. sweep[d].a \in 0..256 /\ sweep[d].first \in 0..255 /\ sweep[d].last \in 0..255
    BY DEF ReachInv, SweepTypeOK, SweepState
  <2>3. sweep[d].first <= sweep[d].a
    BY <1>2 DEF ReachInv
  <2>4. sweep[d].a \in sweep[d].first .. sweep[d].last
    BY <2>1, <2>2, <2>3
  <2>5. sweep[d].a \in HostAddresses
    BY <1>2, <2>4 DEF ReachInv
  <2>. QED
    BY <1>4, <2>1, <2>5
<1>6. CASE Ask(d)
  BY <1>1, <1>6, ProbeAssumption DEF Ask, Begin, Next
<1>7. CASE Record(d)
  BY <1>1, <1>7 DEF Record, vars
<1>8. CASE EndLoop(d)
  BY <1>3, <1>4, <1>8 DEF EndLoop, Restored
<1>9. CASE EndSweep(d)
  <2>1. SetTimeoutMs(d, sweep[d].savedTimeout)
    BY <1>9 DEF EndSweep, RestoredTimeout
  <2>. QED
    BY <1>1, <1>3, <2>1 DEF SetTimeoutMs, Next
<1>. QED
  BY <1>5, <1>6, <1>7, <1>8, <1>9 DEF SweepStep

(* So does no step between sweeps leave a host's addresses.                *)
LEMMA CallReach ==
  ASSUME WithinReach, ReachInv, NEW d \in Drivers, Step(d)
  PROVE  \A e \in Drivers : address'[e] \in HostAddresses /\ timeout'[e] \in Timeouts
<1>1. /\ address \in [Drivers -> Nat] /\ call[d] \in CallState /\ timeout' = timeout
      /\ \A e \in Drivers : address[e] \in HostAddresses /\ timeout[e] \in Timeouts
  BY DEF ReachInv, SweepTypeOK, TypeOK, Step, Transmit, ReceiveAll, GiveUp, Receive
<1>2. \/ \E error, words : Return(d, error, words)
      \/ UNCHANGED address
  BY DEF Step, Transmit, ReceiveAll, GiveUp, Receive
<1>3. call[d].args.op = AddressOp => call[d].args.words[1] \in HostAddresses
  BY <1>1 DEF CallState, NoCall, ReadOp, AddressOp, WithinReach
<1>4. ASSUME NEW error, NEW words, Return(d, error, words)
      PROVE  \A e \in Drivers : address'[e] \in HostAddresses
  <2>1. TargetAfter(d, error) \in HostAddresses
    BY <1>1, <1>3 DEF TargetAfter
  <2>. QED
    BY <1>1, <1>4, <2>1 DEF Return
<1>. QED
  BY <1>1, <1>2, <1>4

LEMMA NextReach ==
  ASSUME WithinReach, ReachInv, SweepTypeOK', [SweepNext]_sweepVars
  PROVE  ReachInv' /\ [Next]_vars
<1>. DEFINE Kept(d) ==
       /\ sweep[d].first <= sweep[d].a
       /\ sweep[d].first .. sweep[d].last \subseteq HostAddresses
       /\ sweep[d].savedAddr \in HostAddresses /\ sweep[d].savedTimeout \in Timeouts
<1>1. /\ sweep \in [Drivers -> SweepState] /\ sweep' \in [Drivers -> SweepState]
      /\ address \in [Drivers -> Nat] /\ timeout \in [Drivers -> Nat]
      /\ \A d \in Drivers : address[d] \in HostAddresses /\ timeout[d] \in Timeouts
      /\ \A d \in Drivers : Sweeping(d) => Kept(d)
      /\ TypeOK
  BY DEF ReachInv, SweepTypeOK, TypeOK
<1>2. ASSUME NEW d \in Drivers, SweepStep(d)
      PROVE  ReachInv' /\ [Next]_vars
  <2>1. /\ [Next]_vars
        /\ \A e \in Drivers : address'[e] \in HostAddresses /\ timeout'[e] \in Timeouts
    BY <1>2, StepReach
  <2>2. /\ \A part \in {"first", "last", "savedAddr", "savedTimeout"} :
             sweep'[d][part] = sweep[d][part]
        /\ sweep'[d].a = sweep[d].a \/ sweep'[d].a = sweep[d].a + 1
        /\ \A e \in Drivers \ {d} : sweep'[e] = sweep[e]
    BY <1>2, StepRecord DEF ReachInv
  <2>3. Kept(d)
    BY <1>1, <1>2 DEF SweepStep, NextAddress, Ask, Record, EndLoop, EndSweep, Sweeping
  <2>4. Kept(d)'
    <3>1. /\ sweep'[d].first = sweep[d].first /\ sweep'[d].last = sweep[d].last
          /\ sweep'[d].savedAddr = sweep[d].savedAddr
          /\ sweep'[d].savedTimeout = sweep[d].savedTimeout
      BY <2>2
    <3>2. sweep[d].a \in 0..256 /\ sweep[d].first \in 0..255
      BY <1>1 DEF SweepState
    <3>3. sweep[d].first <= sweep[d].a
      BY <2>3
    <3>4. sweep[d].first <= sweep[d].a + 1
      <4>1. ASSUME NEW from \in Int, NEW a \in Int, from <= a
            PROVE  from <= a + 1
        BY <4>1
      <4>2. sweep[d].first \in Int /\ sweep[d].a \in Int
        BY <3>2
      <4>. HIDE DEF Kept
      <4>. QED
        BY <3>3, <4>1, <4>2
    <3>5. sweep[d].first <= sweep'[d].a
      BY <2>2, <3>3, <3>4
    <3>6. sweep'[d].first <= sweep'[d].a
      BY <3>1, <3>5
    <3>. QED
      BY <2>3, <3>1, <3>6
  <2>5. \A e \in Drivers : Sweeping(e)' => Kept(e)'
    BY <1>1, <2>2, <2>4 DEF Sweeping
  <2>. QED
    BY <2>1, <2>5 DEF ReachInv
<1>3. ASSUME NEW d \in Drivers, NEW bytes \in BitmapSizes, RefuseSweep(d, bytes)
      PROVE  ReachInv' /\ [Next]_vars
  <2>1. /\ \A e \in Drivers \ {d} : sweep'[e] = sweep[e]
        /\ sweep'[d].at = "BufferTooSmall" /\ UNCHANGED vars
    BY <1>1, <1>3, NoSweepType DEF RefuseSweep
  <2>2. \A e \in Drivers : Sweeping(e)' => Kept(e)'
    BY <1>1, <2>1 DEF Sweeping
  <2>. QED
    BY <1>1, <2>1, <2>2 DEF ReachInv, vars
<1>4. ASSUME NEW d \in Drivers, NEW bytes \in BitmapSizes, NEW w \in Windows,
             NEW ms \in Timeouts, BeginSweep(d, w, ms, bytes)
      PROVE  ReachInv' /\ [Next]_vars
  <2>1. /\ \A e \in Drivers \ {d} : sweep'[e] = sweep[e]
        /\ sweep'[d].first = w[1] /\ sweep'[d].last = w[2] /\ sweep'[d].a = w[1]
        /\ sweep'[d].savedAddr = address[d] /\ sweep'[d].savedTimeout = timeout[d]
        /\ SetTimeoutMs(d, ms)
    BY <1>1, <1>4 DEF BeginSweep, ProbeTimeout
  <2>2. w[1] \in 0..255 /\ w[1]..w[2] \subseteq HostAddresses
    BY WindowAssumption DEF WithinReach
  <2>3. Kept(d)'
    BY <1>1, <2>1, <2>2
  <2>4. \A e \in Drivers : Sweeping(e)' => Kept(e)'
    BY <1>1, <2>1, <2>3 DEF Sweeping
  <2>5. \A e \in Drivers : address'[e] \in HostAddresses /\ timeout'[e] \in Timeouts
    BY <1>1, <2>1 DEF SetTimeoutMs
  <2>6. Next
    BY <2>1 DEF Next
  <2>. QED
    BY <2>4, <2>5, <2>6 DEF ReachInv
<1>5. ASSUME sweep' = sweep, [Next]_vars,
             \A e \in Drivers : address'[e] \in HostAddresses /\ timeout'[e] \in Timeouts
      PROVE  ReachInv' /\ [Next]_vars
  BY <1>1, <1>5 DEF ReachInv, Sweeping
<1>6. ASSUME NEW d \in Drivers, NEW c \in Calls, OtherCall(d, c)
      PROVE  ReachInv' /\ [Next]_vars
  BY <1>1, <1>5, <1>6 DEF OtherCall, Begin, Next
<1>7. ASSUME NEW d \in Drivers, Step(d), UNCHANGED sweep
      PROVE  ReachInv' /\ [Next]_vars
  BY <1>5, <1>7, CallReach DEF Next
<1>8. ASSUME \/ \E s \in Slaves : Serve(s)
             \/ Arrive
             \/ UNCHANGED vars,
             UNCHANGED sweep
      PROVE  ReachInv' /\ [Next]_vars
  <2>1. UNCHANGED <<address, timeout>>
    BY <1>8 DEF Serve, Arrive, vars
  <2>. QED
    BY <1>1, <1>5, <1>8, <2>1 DEF Next
<1>. QED
  BY <1>2, <1>3, <1>4, <1>6, <1>7, <1>8 DEF SweepNext, BusStep, sweepVars

(* Refinement: a host that sweeps is a host of Basis2Bus, whose every      *)
(* theorem therefore also holds of it.                                     *)
THEOREM SweepsRefineTheBus ==
  ASSUME WithinReach
  PROVE  SweepSpec => IsBus
<1>1. SweepInit => ReachInv /\ Init
  BY SweepInitInv DEF SweepInv, SweepInit, Init, NoSweep, ReachInv, Sweeping, WithinReach
<1>2. ReachInv /\ SweepTypeOK' /\ [SweepNext]_sweepVars => ReachInv' /\ [Next]_vars
  BY NextReach
<1>. QED
  BY <1>1, <1>2, SweepTypeCorrect, PTL DEF SweepSpec, Spec, IsBus

-----------------------------------------------------------------------------
(* The target.                                                             *)

(* A step of the bus leaves the targets alone when no call of the host is  *)
(* a change of address.                                                    *)
LEMMA StepKeepsTargets ==
  ASSUME TypeOK, \A c \in Calls : c.op # AddressOp, NEW d \in Drivers, Step(d)
  PROVE  address' = address
<1>1. call[d] \in CallState /\ address \in [Drivers -> Nat]
  BY DEF TypeOK
<1>2. call[d].args.op # AddressOp
  BY <1>1 DEF CallState, NoCall, ReadOp, AddressOp
<1>3. ASSUME NEW error, NEW words, Return(d, error, words)
      PROVE  address' = address
  BY <1>1, <1>2, <1>3 DEF Return, TargetAfter
<1>. QED
  BY <1>3 DEF Step, Transmit, ReceiveAll, GiveUp, Receive

(* Any step that leaves every sweep, every target and every idle driver's  *)
(* state as it is keeps the targets' invariant.                            *)
LEMMA TargetStays ==
  ASSUME TargetInv, SweepTypeOK', address' = address, sweep' = sweep,
         \A d \in Drivers : sweep[d].at = "restored" => pc'[d] = pc[d]
  PROVE  TargetInv'
BY DEF TargetInv, TargetKept, Sweeping

LEMMA NextTargetInv ==
  ASSUME \A c \in Calls : c.op # AddressOp, TargetInv, SweepTypeOK', [SweepNext]_sweepVars
  PROVE  TargetInv'
<1>1. /\ TypeOK /\ sweep \in [Drivers -> SweepState] /\ sweep' \in [Drivers -> SweepState]
      /\ address \in [Drivers -> Nat] /\ pc \in [Drivers -> {"idle", "write", "read"}]
      /\ \A d \in Drivers : sweep[d] \in SweepState
  BY DEF TargetInv, SweepTypeOK, TypeOK
<1>2. ASSUME NEW d \in Drivers,
             NextAddress(d) \/ Ask(d) \/ Record(d) \/ EndLoop(d) \/ EndSweep(d)
      PROVE  TargetInv'
  <2>1. /\ Sweeping(d) /\ \A e \in Drivers \ {d} : sweep'[e] = sweep[e]
        /\ sweep'[d].savedAddr = sweep[d].savedAddr
        /\ \A e \in Drivers \ {d} : address'[e] = address[e] /\ pc'[e] = pc[e]
        /\ sweep'[d].at \in {"ask", "asked", "next", "restored", "done"}
    <3>1. CASE Record(d)
      <4>1. sweep'[d].at = "next" /\ sweep'[d].savedAddr = sweep[d].savedAddr
        BY <3>1, RecordType DEF TargetInv
      <4>2. /\ sweep[d].at = "asked" /\ UNCHANGED <<address, pc>>
            /\ \A e \in Drivers \ {d} : sweep'[e] = sweep[e]
        BY <1>1, <3>1 DEF Record, vars
      <4>. QED
        BY <4>1, <4>2 DEF Sweeping
    <3>2. CASE ~Record(d)
      BY <1>1, <1>2, <3>2, SMTT(30) DEF NextAddress, Ask, EndLoop, EndSweep, SetAddress, SetTimeoutMs,
         Begin, Sweeping, SweepState
    <3>. QED
      BY <3>1, <3>2
  <2>2. sweep'[d].at \in {"restored", "done"} => address'[d] = Target[d] /\ pc'[d] = "idle"
    <3>1. CASE EndLoop(d)
      BY <1>1, <2>1, <3>1 DEF EndLoop, SetAddress, Restored, TargetInv
    <3>2. CASE EndSweep(d)
      BY <1>1, <3>2 DEF EndSweep, SetTimeoutMs, TargetInv
    <3>3. CASE NextAddress(d) \/ Ask(d) \/ Record(d)
      <4>1. CASE Record(d)
        BY <4>1, RecordType DEF TargetInv
      <4>2. CASE NextAddress(d) \/ Ask(d)
        <5>1. \/ sweep'[d] = [sweep[d] EXCEPT !.at = "ask"]
              \/ sweep'[d] = [sweep[d] EXCEPT !.at = "asked"]
          BY <1>1, <4>2 DEF NextAddress, Ask
        <5>2. sweep[d] \in SweepState
          BY <1>1
        <5>3. [sweep[d] EXCEPT !.at = "ask"].at = "ask"
          BY <5>2, AtType
        <5>4. [sweep[d] EXCEPT !.at = "asked"].at = "asked"
          BY <5>2, AtType
        <5>. QED
          BY <5>1, <5>3, <5>4
      <4>. QED
        BY <3>3, <4>1, <4>2
    <3>. QED
      BY <1>2, <3>1, <3>2, <3>3
  <2>. QED
    BY <1>1, <2>1, <2>2 DEF TargetInv, TargetKept, Sweeping
<1>3. ASSUME NEW d \in Drivers, NEW bytes \in BitmapSizes, RefuseSweep(d, bytes)
      PROVE  TargetInv'
  <2>1. /\ ~Sweeping(d) /\ \A e \in Drivers \ {d} : sweep'[e] = sweep[e]
        /\ sweep'[d].at = "BufferTooSmall" /\ UNCHANGED <<address, pc>>
    BY <1>1, <1>3, NoSweepType DEF RefuseSweep, vars
  <2>. QED
    BY <1>1, <2>1 DEF TargetInv, TargetKept, Sweeping
<1>4. ASSUME NEW d \in Drivers, NEW bytes \in BitmapSizes, NEW w \in Windows,
             NEW ms \in Timeouts, BeginSweep(d, w, ms, bytes)
      PROVE  TargetInv'
  <2>1. /\ ~Sweeping(d) /\ \A e \in Drivers \ {d} : sweep'[e] = sweep[e]
        /\ sweep'[d].at = "next" /\ sweep'[d].savedAddr = address[d]
        /\ UNCHANGED <<address, pc>>
    BY <1>1, <1>4 DEF BeginSweep, SetTimeoutMs
  <2>. QED
    BY <1>1, <2>1 DEF TargetInv, TargetKept, Sweeping
<1>5. ASSUME NEW d \in Drivers, NEW c \in Calls, OtherCall(d, c)
      PROVE  TargetInv'
  <2>1. /\ ~Sweeping(d) /\ sweep' = sweep /\ address' = address
        /\ \A e \in Drivers \ {d} : pc'[e] = pc[e]
    BY <1>1, <1>5 DEF OtherCall, Begin
  <2>. QED
    BY <2>1, TargetStays DEF Sweeping
<1>6. ASSUME NEW d \in Drivers, Step(d), UNCHANGED sweep
      PROVE  TargetInv'
  <2>1. /\ address' = address /\ pc[d] # "idle"
        /\ \A e \in Drivers \ {d} : pc'[e] = pc[e]
    BY <1>1, <1>6, StepKeepsTargets, StepFrame
  <2>. QED
    BY <1>6, <2>1, TargetStays DEF TargetInv
<1>7. ASSUME \/ \E s \in Slaves : Serve(s)
             \/ Arrive
             \/ UNCHANGED vars,
             UNCHANGED sweep
      PROVE  TargetInv'
  BY <1>7, TargetStays DEF Serve, Arrive, vars
<1>. QED
  BY <1>2, <1>3, <1>4, <1>5, <1>6, <1>7 DEF SweepNext, SweepStep, BusStep, sweepVars

(* For a host that changes no instrument's address, and sets the driver's  *)
(* only through its sweeps, the driver targets between sweeps what it was  *)
(* constructed for.                                                        *)
THEOREM TargetKeptHolds ==
  ASSUME \A c \in Calls : c.op # AddressOp
  PROVE  SweepSpec => []TargetKept
<1>1. SweepInit => TargetInv
  BY SweepInitInv DEF SweepInv, SweepInit, Init, NoSweep, TargetInv, TargetKept, Sweeping
<1>2. TargetInv /\ SweepTypeOK' /\ [SweepNext]_sweepVars => TargetInv'
  BY NextTargetInv
<1>3. TargetInv => TargetKept
  BY DEF TargetInv
<1>. QED
  BY <1>1, <1>2, <1>3, SweepTypeCorrect, PTL DEF SweepSpec

(* What a driver has of its timeout when it had ms at the start: a sweep   *)
(* holds on to it, and nothing else has touched it.                        *)
Held(d, ms) == IF Sweeping(d) THEN sweep[d].savedTimeout = ms ELSE timeout[d] = ms

LEMMA NextHeld ==
  ASSUME SweepTypeOK, NEW e \in Drivers, NEW ms, Held(e, ms), [SweepNext]_sweepVars
  PROVE  Held(e, ms)'
<1>1. /\ TypeOK /\ sweep \in [Drivers -> SweepState] /\ timeout \in [Drivers -> Nat]
      /\ \A d \in Drivers : sweep[d] \in SweepState
  BY DEF SweepTypeOK, TypeOK
<1>2. ASSUME UNCHANGED <<sweep, timeout>>
      PROVE  Held(e, ms)'
  BY <1>2 DEF Held, Sweeping
<1>3. ASSUME NEW d \in Drivers, SweepStep(d)
      PROVE  Held(e, ms)'
  <2>1. /\ sweep'[d].savedTimeout = sweep[d].savedTimeout
        /\ \A b \in Drivers \ {d} : sweep'[b] = sweep[b]
    BY <1>3, StepRecord
  <2>2. CASE EndSweep(d)
    <3>1. /\ Sweeping(d) /\ timeout' = [timeout EXCEPT ![d] = sweep[d].savedTimeout]
          /\ sweep'[d].at = "done"
      BY <1>1, <2>2 DEF EndSweep, SetTimeoutMs, RestoredTimeout, Sweeping
    <3>. QED
      BY <1>1, <2>1, <3>1 DEF Held, Sweeping
  <2>3. CASE ~EndSweep(d)
    <3>1. timeout' = timeout /\ Sweeping(d)
      BY <1>3, <2>3 DEF SweepStep, NextAddress, Ask, Record, EndLoop, Begin, SetAddress, vars,
         Sweeping
    <3>2. sweep'[d].at \in {"next", "ask", "asked", "restored"}
      <4>1. CASE Record(d)
        BY <4>1, RecordType
      <4>2. CASE ~Record(d)
        <5>1. \E at \in {"ask", "asked", "restored"} : sweep'[d] = [sweep[d] EXCEPT !.at = at]
          BY <1>1, <1>3, <2>3, <4>2 DEF SweepStep, NextAddress, Ask, EndLoop
        <5>. QED
          BY <1>1, <5>1, AtType
      <4>. QED
        BY <4>1, <4>2
    <3>. QED
      BY <2>1, <3>1, <3>2 DEF Held, Sweeping
  <2>. QED
    BY <2>2, <2>3
<1>4. ASSUME NEW d \in Drivers, NEW bytes \in BitmapSizes, RefuseSweep(d, bytes)
      PROVE  Held(e, ms)'
  <2>1. /\ ~Sweeping(d) /\ \A b \in Drivers \ {d} : sweep'[b] = sweep[b]
        /\ sweep'[d].at = "BufferTooSmall" /\ timeout' = timeout
    BY <1>1, <1>4, NoSweepType DEF RefuseSweep, vars
  <2>. QED
    BY <2>1 DEF Held, Sweeping
<1>5. ASSUME NEW d \in Drivers, NEW bytes \in BitmapSizes, NEW w \in Windows,
             NEW t \in Timeouts, BeginSweep(d, w, t, bytes)
      PROVE  Held(e, ms)'
  <2>1. /\ ~Sweeping(d) /\ \A b \in Drivers \ {d} : sweep'[b] = sweep[b]
        /\ sweep'[d].at = "next" /\ sweep'[d].savedTimeout = timeout[d]
        /\ \A b \in Drivers \ {d} : timeout'[b] = timeout[b]
    BY <1>1, <1>5 DEF BeginSweep, SetTimeoutMs
  <2>. QED
    BY <2>1 DEF Held, Sweeping
<1>6. ASSUME NEW d \in Drivers, NEW c \in Calls, OtherCall(d, c)
      PROVE  Held(e, ms)'
  BY <1>2, <1>6 DEF OtherCall, Begin
<1>7. ASSUME NEW d \in Drivers, Step(d), UNCHANGED sweep
      PROVE  Held(e, ms)'
  <2>1. UNCHANGED timeout
    BY <1>7 DEF Step, Transmit, ReceiveAll, GiveUp, Receive
  <2>. QED
    BY <1>2, <1>7, <2>1
<1>8. ASSUME \/ \E s \in Slaves : Serve(s)
             \/ Arrive
             \/ UNCHANGED vars,
             UNCHANGED sweep
      PROVE  Held(e, ms)'
  BY <1>2, <1>8 DEF Serve, Arrive, vars
<1>. QED
  BY <1>3, <1>4, <1>5, <1>6, <1>7, <1>8 DEF SweepNext, BusStep, sweepVars

(* Between its sweeps a driver has the timeout it was constructed with.    *)
(* The host of Discovery sets no other.                                    *)
THEOREM TimeoutKeptHolds == SweepSpec => TimeoutKept
<1>1. ASSUME NEW d \in Drivers, NEW ms \in Timeouts
      PROVE  SweepSpec => (timeout[d] = ms => [](~Sweeping(d) => timeout[d] = ms))
  <2>1. SweepInit /\ timeout[d] = ms => Held(d, ms)
    BY DEF SweepInit, NoSweep, Held, Sweeping
  <2>2. SweepTypeOK /\ Held(d, ms) /\ [SweepNext]_sweepVars => Held(d, ms)'
    BY NextHeld
  <2>3. Held(d, ms) => (~Sweeping(d) => timeout[d] = ms)
    BY DEF Held
  <2>. QED
    BY <2>1, <2>2, <2>3, SweepTypeCorrect, PTL DEF SweepSpec
<1>. QED
  BY <1>1 DEF TimeoutKept

-----------------------------------------------------------------------------
(* Completeness: the instruments keep their addresses.                     *)

(* No call of an undisturbed host writes an address.                       *)
LEMMA CallHarmless ==
  ASSUME Undisturbed, NEW c \in Calls \cup {NoCall}, NEW unit \in Nat
  PROVE  Harmless(RequestFrame(c, unit))
<1>1. CASE c.op = ReadOp
  BY <1>1 DEF RequestFrame, BuildReadHolding, Harmless
<1>2. CASE c.op # ReadOp
  <2>1. c \in Calls
    BY <1>2 DEF NoCall
  <2>2. /\ AddressReg \notin c.reg .. (c.reg + c.count - 1)
        /\ c.op # MultiOp => c.count = 1
        /\ c.op = MultiOp => c.count = Len(c.words)
    BY <1>2, <2>1, CallAssumption DEF Undisturbed, Call, MultiOp
  <2>3. /\ RequestFrame(c, unit).reg = c.reg
        /\ RequestFrame(c, unit).count = c.count
    BY <1>2, <2>2 DEF RequestFrame, BuildWriteMultiple, BuildWriteSingle
  <2>. QED
    BY <2>2, <2>3 DEF Harmless, Cells
<1>. QED
  BY <1>1, <1>2

(* So an instrument that serves a request keeps its address.               *)
LEMMA ServeLeavesAddress ==
  ASSUME TypeOK, LeftAlone, NEW s \in Slaves, Serve(s)
  PROVE  \A t \in Slaves : regs'[t][AddressReg] = regs[t][AddressReg]
<1>1. /\ regs \in [Slaves -> [Registers -> Word]] /\ inbox[s] \in Seq(Request)
      /\ inbox[s] # <<>> /\ AddressReg \in Registers
  BY BusAssumption DEF TypeOK, Serve
<1>. DEFINE f == Head(inbox[s]).frame
<1>2. Harmless(f)
  BY <1>1 DEF LeftAlone
<1>3. regs' = regs \/ regs' = [regs EXCEPT ![s] = AppliedTo(s, f)]
  BY DEF Serve
<1>4. AppliedTo(s, f)[AddressReg] = regs[s][AddressReg]
  BY <1>1, <1>2 DEF AppliedTo, Harmless
<1>. HIDE DEF f
<1>. QED
  BY <1>1, <1>3, <1>4

(* What an instrument puts on record is its next request, done or refused. *)
LEMMA ServeRecords ==
  ASSUME NEW s \in Slaves, Serve(s)
  PROVE  \/ /\ ~IsFor(s, Head(inbox[s]).frame)
            /\ UNCHANGED <<regs, served, line>>
         \/ /\ IsFor(s, Head(inbox[s]).frame)
            /\ \E accepted \in BOOLEAN : served' = served \cup {Outcome(s, accepted)}
BY DEF Serve, Outcome

LEMMA NextLeftAlone ==
  ASSUME Undisturbed, SweepTypeOK, LeftAlone, [SweepNext]_sweepVars
  PROVE  LeftAlone'
<1>1. /\ TypeOK /\ call \in [Drivers -> CallState]
      /\ \A s \in Slaves : inbox[s] \in Seq(Request)
  BY DEF SweepTypeOK, TypeOK
<1>2. ASSUME UNCHANGED <<regs, inbox, served>>
      PROVE  LeftAlone'
  BY <1>2 DEF LeftAlone
<1>3. ASSUME NEW d \in Drivers, Transmit(d)
      PROVE  LeftAlone'
  <2>. DEFINE request == [frame |-> RequestFrame(call[d].args, call[d].unit),
                          txn |-> call[d].txn]
  <2>1. /\ UNCHANGED <<regs, served>>
        /\ \A s \in Slaves : inbox'[s] = inbox[s] \/ inbox'[s] = Append(inbox[s], request)
    BY <1>3 DEF Transmit
  <2>2. Harmless(request.frame)
    BY <1>1, CallHarmless DEF CallState
  <2>. HIDE DEF request
  <2>3. ASSUME NEW s \in Slaves, NEW i \in DOMAIN inbox'[s]
        PROVE  Harmless(inbox'[s][i].frame)
    <3>1. \/ i \in DOMAIN inbox[s] /\ inbox'[s][i] = inbox[s][i]
          \/ inbox'[s][i] = request
      BY <1>1, <2>1, <2>3
    <3>. QED
      BY <2>2, <3>1 DEF LeftAlone
  <2>. QED
    BY <2>1, <2>3 DEF LeftAlone
<1>4. ASSUME NEW s \in Slaves, Serve(s)
      PROVE  LeftAlone'
  <2>1. \A t \in Slaves : regs'[t][AddressReg] = PowerOn[t][AddressReg]
    BY <1>1, <1>4, ServeLeavesAddress DEF LeftAlone
  <2>2. ASSUME NEW t \in Slaves, NEW i \in DOMAIN inbox'[t]
        PROVE  Harmless(inbox'[t][i].frame)
    <3>1. \/ inbox'[t] = inbox[t]
          \/ inbox[t] # <<>> /\ inbox'[t] = Tail(inbox[t])
      BY <1>1, <1>4 DEF Serve, TypeOK
    <3>2. \E j \in DOMAIN inbox[t] : inbox'[t][i] = inbox[t][j]
      <4>1. CASE inbox'[t] = inbox[t]
        BY <2>2, <4>1
      <4>2. CASE inbox[t] # <<>> /\ inbox'[t] = Tail(inbox[t])
        <5>1. i + 1 \in DOMAIN inbox[t] /\ inbox'[t][i] = inbox[t][i + 1]
          BY <1>1, <2>2, <4>2
        <5>. QED
          BY <5>1
      <4>. QED
        BY <3>1, <4>1, <4>2
    <3>. QED
      BY <3>2 DEF LeftAlone
  <2>3. ASSUME NEW v \in served', v.request.fn = ReadHolding
        PROVE  v.request.unit # Broadcast
    <3>1. CASE v \in served
      BY <2>3, <3>1 DEF LeftAlone
    <3>2. CASE v \notin served
      <4>1. IsFor(s, Head(inbox[s]).frame) /\ v.request = Head(inbox[s]).frame
        BY <1>4, <2>3, <3>2, ServeRecords DEF Outcome
      <4>. QED
        BY <2>3, <4>1 DEF IsFor, LeftAlone, Undisturbed
    <3>. QED
      BY <3>1, <3>2
  <2>. QED
    BY <2>1, <2>2, <2>3 DEF LeftAlone
<1>5. CASE [Next]_vars
  BY <1>2, <1>3, <1>4, <1>5 DEF Next, Step, Refuse, Begin, SetAddress, SetTimeoutMs, ReceiveAll,
     GiveUp, Receive, Arrive, vars
<1>. QED
  BY <1>2, <1>5, SweepIsBus DEF SetAddress, SetTimeoutMs

(* They are told apart by their addresses, and none has Broadcast's.       *)
LEMMA AddressesApart ==
  ASSUME Undisturbed, LeftAlone
  PROVE  /\ \A s, t \in Slaves : regs[s][AddressReg] = regs[t][AddressReg] => s = t
         /\ \A s \in Slaves : regs[s][AddressReg] # Broadcast
BY DEF Undisturbed, LeftAlone

-----------------------------------------------------------------------------
(* Completeness: the probe under way.                                      *)

(* A probe is a read, for the instrument at the address the sweep has got  *)
(* to.                                                                     *)
LEMMA ProbeRequest ==
  ASSUME Undisturbed, LeftAlone, NEW d \in Drivers, call[d].args = Probe,
         call[d].unit = sweep[d].a, sweep[d].a \in Nat
  PROVE  /\ Own(d).frame \in RequestFrames /\ Own(d).frame.fn = ReadHolding
         /\ Own(d).frame.unit = sweep[d].a /\ Own(d).txn = call[d].txn
         /\ \A s \in Slaves : IsFor(s, Own(d).frame) <=> s \in AtAddress(d)
         /\ \A s, t \in AtAddress(d) : s = t
<1>1. Own(d).frame \in RequestFrames
  BY ProbeAssumption, RequestFrameType DEF Own
<1>2. /\ Own(d).frame.fn = ReadHolding /\ Own(d).frame.unit = sweep[d].a
      /\ Own(d).txn = call[d].txn
  BY DEF Own, RequestFrame, BuildReadHolding, Probe
<1>. QED
  BY <1>1, <1>2, AddressesApart DEF IsFor, AtAddress

LEMMA ProbeTransmits ==
  ASSUME Undisturbed, TypeOK, LeftAlone, NEW d \in Drivers, Transmit(d), sweep' = sweep,
         call[d].args = Probe, Probing(d)
  PROVE  Probing(d)'
<1>1. /\ pc \in [Drivers -> {"idle", "write", "read"}]
      /\ \A s \in Slaves : inbox[s] \in Seq(Request) /\ Len(inbox[s]) \in Nat
  BY DEF TypeOK
<1>2. pc[d] = "write" /\ Silent /\ AllIgnored
  BY DEF Transmit, Probing
<1>3. Probe.op = ReadOp /\ ~(Probe.count > MaxRxRegs)
  BY BoundAssumption DEF Probe, Undisturbed
<1>4. /\ \A s \in Slaves : inbox'[s] = Append(inbox[s], Own(d))
      /\ pc'[d] = "read"
      /\ UNCHANGED <<call, rx, line, regs, served>>
  BY <1>1, <1>3 DEF Transmit, Own, Undisturbed
<1>5. ASSUME NEW s \in Slaves
      PROVE  /\ \A i \in DOMAIN inbox'[s] :
                  \/ i \in DOMAIN inbox[s] /\ inbox'[s][i] = inbox[s][i]
                  \/ i = Len(inbox'[s]) /\ inbox'[s][i] = Own(d)
             /\ inbox'[s] # <<>> /\ inbox'[s][Len(inbox'[s])] = Own(d)
  <2>. DEFINE request == Own(d)
              box == Append(inbox[s], request)
  <2>. HIDE DEF request
  <2>1. /\ Len(box) = Len(inbox[s]) + 1 /\ DOMAIN box = 1..Len(box)
        /\ DOMAIN inbox[s] = 1..Len(inbox[s])
        /\ box[Len(box)] = request /\ \A i \in 1..Len(inbox[s]) : box[i] = inbox[s][i]
    BY <1>1
  <2>2. inbox'[s] = box
    BY <1>4 DEF request
  <2>. HIDE DEF box
  <2>3. \A i \in 1..Len(box) : i \in 1..Len(inbox[s]) \/ i = Len(box)
    BY <1>1, <2>1
  <2>4. box # <<>>
    BY <1>1, <2>1
  <2>. QED
    BY <2>1, <2>2, <2>3, <2>4 DEF request
<1>6. Own(d)' = Own(d) /\ AtAddress(d)' = AtAddress(d)
  BY <1>4 DEF Own, AtAddress
<1>7. Waiting(d)'
  <2>1. ASSUME NEW s \in Slaves, NEW i \in DOMAIN inbox'[s]
        PROVE  Ignored(s, i)' \/ (i = Len(inbox'[s]) /\ inbox'[s][i] = Own(d))
    BY <1>2, <1>4, <1>5 DEF AllIgnored, Ignored, IsFor
  <2>. QED
    BY <1>2, <1>4, <1>5, <1>6, <2>1 DEF Waiting, Silent, AtAddress
<1>. QED
  BY <1>4, <1>7 DEF Probing

(* A byte moves from the line to the receive buffer.                       *)
LEMMA ProbeArrives ==
  ASSUME TypeOK, NEW d \in Drivers, Arrive, sweep' = sweep, Probing(d)
  PROVE  Probing(d)'
<1>1. /\ line # <<>> /\ rx' = Append(rx, Head(line)) /\ line' = Tail(line)
      /\ UNCHANGED <<pc, call, inbox, regs, served>>
      /\ rx \in Seq(Byte) /\ line \in Seq(Byte)
      /\ pc[d] \in {"idle", "write", "read"}
  BY DEF Arrive, TypeOK
<1>2. rx' \o line' = rx \o line
  BY <1>1
<1>3. pc[d] = "read" /\ Replied(d)
  BY <1>1 DEF Probing, Waiting, Silent
<1>4. Replied(d)'
  BY <1>1, <1>2, <1>3 DEF Replied, AllIgnored, Ignored, IsFor, Own, AtAddress
<1>. QED
  BY <1>1, <1>3, <1>4 DEF Probing

(* The probe returns what the instrument has made of it, or that there is  *)
(* none.                                                                   *)
LEMMA ProbeReturns ==
  ASSUME Undisturbed, TypeOK, LeftAlone, NEW d \in Drivers, ReceiveAll(d) \/ GiveUp(d),
         sweep' = sweep, call[d].args = Probe, timeout[d] \in LongTimeouts, Probing(d)
  PROVE  Probing(d)'
<1>1. /\ pc \in [Drivers -> {"idle", "write", "read"}] /\ call \in [Drivers -> CallState]
      /\ pc[d] = "read" /\ UNCHANGED <<line, inbox, regs, served>>
  BY DEF TypeOK, ReceiveAll, GiveUp, Receive
<1>2. Probe \in Calls /\ Probe.op = ReadOp /\ Probe.count # 0
  BY ProbeAssumption DEF Probe
<1>3. ASSUME NEW error, NEW words, Return(d, error, words)
      PROVE  /\ pc'[d] = "idle" /\ call'[d].txn = call[d].txn /\ call'[d].error = error
             /\ Present(d)' <=> error = "None"
             /\ AtAddress(d)' = AtAddress(d) /\ (AllIgnored' <=> AllIgnored)
  BY <1>1, <1>3 DEF Return, CallState, Present, AtAddress, AllIgnored, Ignored, IsFor
<1>4. CASE Waiting(d)
  <2>1. Quiet /\ Return(d, "Timeout", <<>>) /\ line = <<>>
    BY <1>2, <1>4, SilenceReturns DEF Waiting, Silent
  <2>2. \A s \in Slaves : inbox[s] = <<>> /\ DOMAIN inbox[s] = {}
    BY <2>1 DEF Quiet
  <2>3. AtAddress(d) = {} /\ AllIgnored
    BY <1>4, <2>2 DEF Waiting, AtAddress, AllIgnored
  <2>. QED
    BY <1>1, <1>3, <2>1, <2>3 DEF Probing
<1>5. CASE Replied(d)
  <2>1. PICK v \in served :
          /\ v.slave \in AtAddress(d) /\ v.txn = call[d].txn /\ v.request = Own(d).frame
          /\ rx \o line = Bytes(Reply(v), TRUE, call[d].txn)
    BY <1>5 DEF Replied
  <2>2. v \in Service
    BY DEF TypeOK
  <2>3. PICK error, words :
          /\ Return(d, error, words) /\ line = <<>>
          /\ v.accepted <=> error = "None"
    BY <1>2, <2>1, <2>2, ReplyReturns
  <2>4. \A s \in AtAddress(d) : s = v.slave
    BY <2>1, AddressesApart DEF AtAddress
  <2>5. v.txn > sweep[d].since /\ AllIgnored
    BY <1>5, <2>1 DEF Probing, Replied
  <2>6. /\ pc'[d] = "idle" /\ call'[d].txn = call[d].txn /\ (v.accepted => Present(d)')
        /\ AtAddress(d)' = AtAddress(d) /\ AllIgnored' /\ line' = <<>>
    <3>1. pc'[d] = "idle" /\ call'[d].txn = call[d].txn /\ call'[d].error = error
      BY <1>3, <2>3
    <3>2. v.accepted => Present(d)'
      BY <2>3, <3>1 DEF Present
    <3>3. AtAddress(d)' = AtAddress(d) /\ AllIgnored' /\ line' = <<>>
      BY <1>1, <2>3, <2>5 DEF AtAddress, AllIgnored, Ignored, IsFor
    <3>. QED
      BY <3>1, <3>2, <3>3
  <2>7. \A s \in AtAddress(d)' : \E w \in served' :
          w.slave = s /\ w.txn > sweep'[d].since /\ (w.accepted => Present(d)')
    BY <1>1, <2>4, <2>5, <2>6
  <2>8. call'[d].txn > sweep'[d].since
    BY <2>6 DEF Probing
  <2>. QED
    BY <2>6, <2>7, <2>8 DEF Probing
<1>. QED
  BY <1>1, <1>4, <1>5 DEF Probing

(* An instrument drops what is not for it ...                              *)
LEMMA ProbeDropped ==
  ASSUME TypeOK, NEW d \in Drivers, NEW s \in Slaves, Serve(s),
         ~IsFor(s, Head(inbox[s]).frame), sweep' = sweep, Probing(d),
         \A t \in AtAddress(d) : IsFor(t, Own(d).frame)
  PROVE  Probing(d)'
<1>1. /\ UNCHANGED <<pc, call, rx, line, regs, served, sent>>
      /\ inbox[s] \in Seq(Request) /\ inbox[s] # <<>> /\ inbox'[s] = Tail(inbox[s])
      /\ \A t \in Slaves \ {s} : inbox'[t] = inbox[t]
  BY DropsHead DEF Serve, TypeOK
<1>2. /\ Own(d)' = Own(d) /\ AtAddress(d)' = AtAddress(d)
      /\ \A t \in Slaves : \A f : IsFor(t, f)' <=> IsFor(t, f)
  BY <1>1 DEF Own, AtAddress, IsFor
<1>3. AllIgnored => AllIgnored'
  BY <1>1, DropsHead DEF AllIgnored, Ignored, IsFor
<1>4. Waiting(d) => Waiting(d)'
  <2>1. SUFFICES ASSUME Waiting(d) PROVE Waiting(d)'
    OBVIOUS
  <2>2. ASSUME NEW t \in Slaves, NEW i \in DOMAIN inbox'[t]
        PROVE  Ignored(t, i)' \/ (i = Len(inbox'[t]) /\ inbox'[t][i] = Own(d))
    <3>1. PICK j \in DOMAIN inbox[t] : /\ inbox'[t][i] = inbox[t][j]
                                       /\ j = Len(inbox[t]) => i = Len(inbox'[t])
      BY <2>2, DropsHead
    <3>. QED
      BY <1>1, <2>1, <3>1 DEF Waiting, Ignored, IsFor
  <2>3. ASSUME NEW t \in AtAddress(d)
        PROVE  inbox'[t] # <<>> /\ inbox'[t][Len(inbox'[t])] = Own(d)
    <3>1. t \in Slaves /\ inbox[t] # <<>> /\ inbox[t][Len(inbox[t])] = Own(d)
      BY <2>1, <2>3 DEF Waiting, AtAddress
    <3>2. CASE t = s
      <4>1. IsFor(s, inbox[s][Len(inbox[s])].frame) /\ Head(inbox[s]) = inbox[s][1]
        BY <1>1, <2>3, <3>1, <3>2
      <4>2. Len(inbox[s]) # 1
        BY <4>1
      <4>3. /\ Len(inbox[s]) \in Nat /\ Len(inbox[s]) >= 2
            /\ Len(Tail(inbox[s])) = Len(inbox[s]) - 1
        <5>1. Len(inbox[s]) \in Nat /\ Len(inbox[s]) # 0
          BY <1>1, EmptySeq
        <5>2. Len(Tail(inbox[s])) = Len(inbox[s]) - 1
          BY <1>1
        <5>3. \A n \in Nat : n # 0 /\ n # 1 => n >= 2
          OBVIOUS
        <5>. QED
          BY <4>2, <5>1, <5>2, <5>3, Zenon
      <4>4. Tail(inbox[s])[Len(inbox[s]) - 1] = inbox[s][Len(inbox[s])]
        BY <1>1, <4>3
      <4>5. Tail(inbox[s]) # <<>>
        <5>1. \A n \in Nat : n >= 2 => n - 1 # 0
          OBVIOUS
        <5>2. Len(Tail(inbox[s])) # 0
          BY <4>3, <5>1, Zenon
        <5>. QED
          BY <5>2, EmptySeq
      <4>. QED
        BY <1>1, <3>1, <3>2, <4>3, <4>4, <4>5
    <3>. QED
      BY <1>1, <3>1, <3>2
  <2>. QED
    BY <1>1, <1>2, <2>1, <2>2, <2>3 DEF Waiting, Silent
<1>5. Replied(d) => Replied(d)'
  BY <1>1, <1>2, <1>3 DEF Replied
<1>. QED
  BY <1>1, <1>2, <1>3, <1>4, <1>5 DEF Probing, Silent, Present

(* ... and answers the probe that is: it alone has it.                     *)
LEMMA ProbeServed ==
  ASSUME Undisturbed, TypeOK, LeftAlone, NEW d \in Drivers, NEW s \in Slaves, Serve(s),
         IsFor(s, Head(inbox[s]).frame), sweep' = sweep, sweep[d].a \in Nat,
         call[d].args = Probe, call[d].unit = sweep[d].a, Probing(d)
  PROVE  Probing(d)'
<1>1. /\ inbox \in [Slaves -> Seq(Request)] /\ inbox[s] # <<>>
      /\ Head(inbox[s]) = inbox[s][1] /\ 1 \in DOMAIN inbox[s]
      /\ regs \in [Slaves -> [Registers -> Word]]
      /\ pc[d] \in {"idle", "write", "read"} /\ call[d].txn \in Nat
  BY DEF TypeOK, CallState, Serve
<1>2. ~AllIgnored
  BY <1>1 DEF AllIgnored, Ignored
<1>3. pc[d] = "read" /\ Waiting(d) /\ Silent
  BY <1>1, <1>2 DEF Probing, Replied, Waiting
<1>4. 1 = Len(inbox[s]) /\ Head(inbox[s]) = Own(d)
  BY <1>1, <1>3 DEF Waiting, Ignored
<1>5. /\ Own(d).frame \in RequestFrames /\ Own(d).frame.fn = ReadHolding
      /\ Own(d).frame.unit = sweep[d].a /\ Own(d).txn = call[d].txn
      /\ \A t \in Slaves : IsFor(t, Own(d).frame) <=> t \in AtAddress(d)
      /\ \A t, u \in AtAddress(d) : t = u
  BY ProbeRequest
<1>6. s \in AtAddress(d) /\ Own(d).frame.unit # Broadcast
  BY <1>4, <1>5, AddressesApart DEF AtAddress
<1>7. UNCHANGED <<pc, call, rx, sent>> /\ inbox' = [inbox EXCEPT ![s] = Tail(inbox[s])]
  BY DEF Serve
<1>8. PICK accepted \in BOOLEAN :
        /\ accepted => Cells(Own(d).frame) \subseteq Registers
        /\ served' = served \cup {Outcome(s, accepted)}
        /\ regs' = IF accepted THEN [regs EXCEPT ![s] = AppliedTo(s, Own(d).frame)] ELSE regs
        /\ line' = line \o Bytes(Reply(Outcome(s, accepted)), TRUE, call[d].txn)
  <2>. DEFINE f == Own(d).frame
              txn == call[d].txn
  <2>1. ~Lossy /\ f.unit # Broadcast /\ Head(inbox[s]).frame = f /\ Head(inbox[s]).txn = txn
    BY <1>4, <1>5, <1>6 DEF Undisturbed
  <2>. HIDE DEF f, txn
  <2>2. PICK accepted \in BOOLEAN, answered \in BOOLEAN, intact \in BOOLEAN :
          /\ accepted => Cells(f) \subseteq Registers
          /\ Lossy \/ (answered /\ intact)
          /\ served' = served \cup {Outcome(s, accepted)}
          /\ regs' = IF accepted THEN [regs EXCEPT ![s] = AppliedTo(s, f)] ELSE regs
          /\ line' = IF answered /\ f.unit # Broadcast
                     THEN line \o Bytes(Reply(Outcome(s, accepted)), intact, txn)
                     ELSE line
    BY <2>1, ZenonT(40) DEF Serve, Outcome
  <2>3. intact = TRUE /\ answered
    BY <2>1, <2>2
  <2>. QED
    BY <2>1, <2>2, <2>3 DEF f, txn
<1>. DEFINE v == Outcome(s, accepted)
<1>9. v \in Service /\ v.slave = s /\ v.txn = call[d].txn /\ v.request = Own(d).frame
  BY <1>1, <1>4, <1>5, <1>8, OutcomeType DEF Outcome
<1>. HIDE DEF v
<1>10. regs' = regs
  BY <1>1, <1>5, <1>8 DEF AppliedTo
<1>11. inbox'[s] = <<>> /\ \A t \in Slaves \ {s} : inbox'[t] = inbox[t]
  <2>1. Tail(inbox[s]) \in Seq(Request) /\ Len(Tail(inbox[s])) = 0
    BY <1>1, <1>4
  <2>. QED
    BY <1>1, <1>7, <2>1, EmptySeq
<1>12. AllIgnored'
  <2>1. ASSUME NEW t \in Slaves \ {s}, NEW i \in DOMAIN inbox[t] PROVE Ignored(t, i)
    BY <1>3, <1>5, <1>6, <2>1 DEF Waiting, Ignored
  <2>. QED
    BY <1>10, <1>11, <2>1 DEF AllIgnored, Ignored, IsFor
<1>13. rx' \o line' = Bytes(Reply(v), TRUE, v.txn)
  <2>1. Bytes(Reply(v), TRUE, v.txn) \in Seq(Byte)
    BY <1>1, <1>9, ReplyType, BytesType
  <2>2. line' = line \o Bytes(Reply(v), TRUE, v.txn) /\ line = <<>> /\ rx = <<>>
    BY <1>3, <1>8, <1>9 DEF Silent, v
  <2>. QED
    BY <1>7, <2>1, <2>2
<1>14. Replied(d)'
  <2>1. v \in served' /\ v.slave \in AtAddress(d)' /\ Own(d)' = Own(d)
    BY <1>6, <1>7, <1>8, <1>9, <1>10 DEF AtAddress, Own, v
  <2>. QED
    BY <1>7, <1>9, <1>12, <1>13, <2>1 DEF Replied
<1>. QED
  BY <1>3, <1>7, <1>14 DEF Probing

-----------------------------------------------------------------------------
(* Completeness: the sweep so far.                                         *)

(* No instrument answers a read of Broadcast, so address 0 is never        *)
(* reported, and the 8-bit counter has room for the rest.                  *)
LEMMA ReportedCount ==
  ASSUME SweepInv, LeftAlone, NEW d \in Drivers
  PROVE  /\ Reported(d) \subseteq 1..255 /\ IsFiniteSet(Reported(d))
         /\ Cardinality(Reported(d)) \in Nat /\ Cardinality(Reported(d)) <= 255
<1>1. sweep[d].first \in 0..255 /\ sweep[d].last \in 0..255
  BY DEF SweepInv, SweepTypeOK, SweepState
<1>2. ASSUME NEW b \in Reported(d) PROVE b \in 1..255
  <2>1. b \in 0..255 /\ Bit(b) \in sweep[d].present
    BY <1>1, <1>2 DEF Reported
  <2>2. PICK v \in served : Backs(v, RequestFrame(Probe, b), v.data)
    BY <2>1 DEF SweepInv, BitsBacked
  <2>3. v.request.fn = ReadHolding /\ v.request.unit = b
    BY <2>2 DEF Backs, RequestFrame, BuildReadHolding, Probe
  <2>. QED
    BY <2>1, <2>3 DEF LeftAlone, Broadcast
<1>3. IsFiniteSet(1..255) /\ Cardinality(1..255) = 255
  <2>1. 1 \in Int /\ 255 \in Int /\ ~(1 > 255) /\ 255 - 1 + 1 = 255
    OBVIOUS
  <2>2. /\ IsFiniteSet(1..255)
        /\ Cardinality(1..255) = IF 1 > 255 THEN 0 ELSE 255 - 1 + 1
    BY <2>1, FS_Interval, Zenon
  <2>. QED
    BY <2>1, <2>2, Zenon
<1>4. Reported(d) \in SUBSET (1..255)
  BY <1>2
<1>5. IsFiniteSet(Reported(d)) /\ Cardinality(Reported(d)) <= 255
  BY <1>3, <1>4, FS_Subset
<1>6. Cardinality(Reported(d)) \in Nat
  BY <1>5, FS_CardinalityType
<1>. QED
  BY <1>4, <1>5, <1>6

LEMMA CountFits == SweepInv /\ LeftAlone =>
  \A d \in Drivers : Cardinality(Reported(d)) \in Nat /\ Cardinality(Reported(d)) <= 255
BY ReportedCount

LEMMA CountFitsNext == SweepInv' /\ LeftAlone' =>
  (\A d \in Drivers : Cardinality(Reported(d)) \in Nat /\ Cardinality(Reported(d)) <= 255)'
BY CountFits, PTL

(* What has been probed stays so.                                          *)
LEMMA ProbedStays ==
  ASSUME NEW d \in Drivers, NEW s \in Slaves, Probed(d, s), served \subseteq served',
         regs'[s][AddressReg] = regs[s][AddressReg], sweep'[d].since = sweep[d].since,
         Reported(d) \subseteq Reported(d)'
  PROVE  Probed(d, s)'
BY DEF Probed

(* A step that records nothing keeps a sweep as thorough as it is, if it   *)
(* keeps the line or the probe as they should be.                          *)
LEMMA ThoroughStays ==
  ASSUME NEW d \in Drivers, Thorough(d), TypeOK, sweep[d] \in SweepState,
         served \subseteq served', sent' = sent \/ sent' = sent + 1,
         \A s \in Slaves : regs'[s][AddressReg] = regs[s][AddressReg],
         timeout'[d] = timeout[d],
         sweep'[d].first = sweep[d].first, sweep'[d].last = sweep[d].last,
         sweep'[d].a = sweep[d].a, sweep'[d].since = sweep[d].since,
         sweep'[d].present = sweep[d].present, sweep'[d].found = sweep[d].found,
         sweep'[d].at = "asked" => Probing(d)',
         sweep'[d].at # "asked" => line' = <<>> /\ AllIgnored'
  PROVE  Thorough(d)'
<1>1. Reported(d)' = Reported(d)
  BY DEF Reported
<1>2. ASSUME NEW s \in Slaves, regs'[s][AddressReg] \in sweep'[d].first .. (sweep'[d].a - 1)
      PROVE  Probed(d, s)'
  BY <1>1, <1>2, ProbedStays DEF Thorough
<1>3. sweep'[d].since <= sent'
  BY DEF TypeOK, SweepState, Thorough
<1>. QED
  BY <1>1, <1>2, <1>3 DEF Thorough

(* The probe that returns settles its address: it is reported, and         *)
(* counted, or nobody there has accepted it.                               *)
LEMMA RecordThorough ==
  ASSUME SweepInv, LeftAlone, SweepInv', NEW d \in Drivers, Record(d), Thorough(d)
  PROVE  Thorough(d)'
<1>1. /\ sweep[d].at = "asked" /\ pc[d] = "idle" /\ UNCHANGED vars /\ Probing(d)
      /\ UNCHANGED <<timeout, line, inbox, regs, served, sent>>
  BY DEF Record, vars, Thorough
<1>2. /\ sweep[d].a \in 0..255 /\ sweep[d].a <= sweep[d].last /\ sweep[d].first <= sweep[d].a
      /\ sweep[d].first \in 0..255 /\ sweep[d].last \in 0..255 /\ sweep[d].found \in Nat
  <2>1. sweep[d] \in SweepState /\ sweep[d].a <= sweep[d].last
    BY <1>1 DEF SweepInv, SweepTypeOK
  <2>2. /\ sweep[d].first \in 0..255 /\ sweep[d].last \in 0..255 /\ sweep[d].found \in Nat
        /\ sweep[d].a \in Nat
    BY <2>1, SMTT(30) DEF SweepState
  <2>3. sweep[d].first <= sweep[d].a
    BY DEF Thorough
  <2>4. \A x \in Nat, y \in 0..255 : x <= y => x \in 0..255
    OBVIOUS
  <2>. QED
    BY <2>1, <2>2, <2>3, <2>4, Zenon
<1>3. /\ sweep'[d].at = "next" /\ sweep'[d].a = sweep[d].a + 1
      /\ sweep'[d].first = sweep[d].first /\ sweep'[d].last = sweep[d].last
      /\ sweep'[d].since = sweep[d].since
      /\ sweep'[d].present = IF Present(d) THEN sweep[d].present \cup {Bit(sweep[d].a)}
                                          ELSE sweep[d].present
      /\ sweep'[d].found = IF Present(d) THEN (sweep[d].found + 1) % 256 ELSE sweep[d].found
  <2>1. NextOf(sweep[d].a) = sweep[d].a + 1
    BY <1>2, NextOfIs
  <2>. QED
    BY <2>1, RecordType, ZenonT(30) DEF SweepInv
<1>. DEFINE old == Reported(d)
            new == Reported(d)'
            a == sweep[d].a
<1>4. new = IF Present(d) THEN old \cup {a} ELSE old
  <2>1. a \in sweep[d].first .. sweep[d].last
    BY <1>2, SMTT(30)
  <2>2. ASSUME NEW b \in sweep[d].first .. sweep[d].last, Bit(b) = Bit(a) PROVE b = a
    <3>1. \A x, y \in 0..255 : \A z \in x..y : z \in 0..255
      OBVIOUS
    <3>2. b \in 0..255
      BY <1>2, <2>2, <3>1, Zenon
    <3>. QED
      BY <1>2, <2>2, <3>2, BitOwn
  <2>. QED
    BY <1>3, <2>1, <2>2 DEF Reported
<1>5. /\ IsFiniteSet(old) /\ Cardinality(old) \in Nat
      /\ Cardinality(new) \in Nat /\ Cardinality(new) <= 255
      /\ sweep[d].found = Cardinality(old) /\ a \notin old
      /\ \A b \in old : b < a
  <2>1. LeftAlone'
    BY <1>1 DEF LeftAlone
  <2>2. a \notin old
    <3>1. \A b \in old : b < a
      BY DEF Thorough
    <3>2. ~(a < a)
      BY <1>2
    <3>. QED
      BY <3>1, <3>2, Zenon
  <2>3. IsFiniteSet(old) /\ Cardinality(old) \in Nat
    BY ReportedCount
  <2>4. Cardinality(new) \in Nat /\ Cardinality(new) <= 255
    BY <2>1, CountFitsNext
  <2>. QED
    BY <2>2, <2>3, <2>4 DEF Thorough
<1>. HIDE DEF old, new, a
<1>6. sweep'[d].found = Cardinality(new)
  <2>1. CASE Present(d)
    <3>1. Cardinality(new) = Cardinality(old) + 1
      BY <1>4, <1>5, <2>1, FS_AddElement
    <3>. QED
      BY <1>3, <1>5, <2>1, <3>1
  <2>2. CASE ~Present(d)
    BY <1>3, <1>4, <1>5, <2>2
  <2>. QED
    BY <2>1, <2>2
<1>7. ASSUME NEW b \in new PROVE b < sweep'[d].a
  <2>1. a \in Nat /\ b \in Nat /\ (b < a \/ b = a)
    <3>1. a \in Nat
      <4>1. sweep[d].a \in 0..255
        BY <1>2
      <4>. QED
        BY <4>1 DEF a
    <3>2. \A x \in old : x \in 1..255
      BY ReportedCount DEF old
    <3>. QED
      BY <1>4, <1>5, <1>7, <3>1, <3>2
  <2>2. sweep'[d].a = a + 1
    BY <1>3 DEF a
  <2>. QED
    BY <2>1, <2>2
<1>8. ASSUME NEW s \in Slaves, regs[s][AddressReg] \in sweep[d].first .. a
      PROVE  Probed(d, s)'
  <2>1. CASE regs[s][AddressReg] = a
    <3>1. PICK v \in served :
            v.slave = s /\ v.txn > sweep[d].since /\ (v.accepted => Present(d))
      BY <1>1, <2>1 DEF Probing, AtAddress, a
    <3>2. Present(d) => a \in new
      BY <1>4
    <3>3. v \in served' /\ v.txn > sweep'[d].since /\ regs'[s][AddressReg] = a
      BY <1>1, <1>3, <2>1, <3>1, Zenon
    <3>. QED
      BY <3>1, <3>2, <3>3, Zenon DEF Probed, new
  <2>2. CASE regs[s][AddressReg] # a
    <3>1. regs[s][AddressReg] \in sweep[d].first .. (sweep[d].a - 1)
      BY <1>2, <1>8, <2>2, SMTT(30) DEF a
    <3>2. Probed(d, s)
      BY <3>1 DEF Thorough
    <3>3. Reported(d) \subseteq Reported(d)'
      BY <1>4 DEF old, new
    <3>. QED
      BY <1>1, <1>3, <3>2, <3>3, ProbedStays
  <2>. QED
    BY <2>1, <2>2
<1>9. sweep'[d].first .. (sweep'[d].a - 1) = sweep[d].first .. a
  <2>1. sweep'[d].a = a + 1 /\ a \in Nat /\ sweep'[d].first = sweep[d].first
    BY <1>2, <1>3 DEF a
  <2>2. sweep'[d].a - 1 = a
    BY <2>1
  <2>. QED
    BY <2>1, <2>2, Zenon
<1>10. line' = <<>> /\ AllIgnored'
  BY <1>1 DEF Probing, AllIgnored, Ignored, IsFor
<1>11. /\ timeout'[d] \in LongTimeouts /\ sweep'[d].since <= sent'
       /\ sweep'[d].first <= sweep'[d].a
  <2>1. \A x, y \in Nat : x <= y => x <= y + 1
    OBVIOUS
  <2>2. sweep[d].first \in Nat /\ sweep[d].a \in Nat /\ sweep[d].first <= sweep[d].a
    <3>1. \A x \in 0..255 : x \in Nat
      OBVIOUS
    <3>. QED
      BY <1>2, <3>1, Zenon
  <2>3. timeout[d] \in LongTimeouts /\ sweep[d].since <= sent
    BY DEF Thorough
  <2>. QED
    BY <1>1, <1>3, <2>1, <2>2, <2>3, Zenon
<1>. QED
  BY <1>1, <1>3, <1>6, <1>7, <1>8, <1>9, <1>10, <1>11 DEF Thorough, new

-----------------------------------------------------------------------------
(* Completeness, step by step.                                             *)

(* A sweep that begins unhurried begins on a quiet bus.                    *)
LEMMA BeginThorough ==
  ASSUME SweepInv, NEW d \in Drivers, NEW w \in Windows, NEW ms \in Timeouts,
         NEW bytes \in BitmapSizes, BeginSweep(d, w, ms, bytes)
  PROVE  sweep'[d].at = "next" /\ (sweep'[d].unhurried => Thorough(d)')
<1>1. /\ sweep'[d] = [at |-> "next", first |-> w[1], last |-> w[2], a |-> w[1],
                      savedAddr |-> address[d], savedTimeout |-> timeout[d], since |-> sent,
                      unhurried |-> Quiet /\ ms \in LongTimeouts, present |-> {}, found |-> 0]
      /\ timeout' = [timeout EXCEPT ![d] = ms]
      /\ UNCHANGED <<line, inbox, regs, served, sent>>
  BY DEF BeginSweep, SetTimeoutMs, ProbeTimeout, SweepInv, SweepTypeOK
<1>2. /\ sweep'[d].at = "next" /\ sweep'[d].first = w[1] /\ sweep'[d].a = w[1]
      /\ sweep'[d].since = sent /\ sweep'[d].present = {} /\ sweep'[d].found = 0
      /\ sweep'[d].unhurried => Quiet /\ ms \in LongTimeouts
  <2>1. PICK flag \in BOOLEAN : flag = (Quiet /\ ms \in LongTimeouts)
    OBVIOUS
  <2>2. sweep'[d] = [at |-> "next", first |-> w[1], last |-> w[2], a |-> w[1],
                     savedAddr |-> address[d], savedTimeout |-> timeout[d], since |-> sent,
                     unhurried |-> flag, present |-> {}, found |-> 0]
    BY <1>1, <2>1, Zenon
  <2>3. sweep'[d].unhurried = flag
    BY <2>2
  <2>4. sweep'[d].unhurried => Quiet /\ ms \in LongTimeouts
    BY <2>1, <2>3, Zenon
  <2>. QED
    BY <2>2, <2>4
<1>3. w[1] \in Nat /\ sent \in Nat /\ timeout \in [Drivers -> Nat]
  <2>1. w \in (0..255) \X (0..255)
    BY WindowAssumption
  <2>2. w[1] \in Nat
    BY <2>1
  <2>. QED
    BY <2>2 DEF SweepInv, SweepTypeOK, TypeOK
<1>4. Reported(d)' = {}
  BY <1>2 DEF Reported
<1>5. sweep'[d].first .. (sweep'[d].a - 1) = {}
  BY <1>2, <1>3
<1>6. ASSUME Quiet PROVE line' = <<>> /\ AllIgnored'
  <2>1. line' = <<>> /\ \A s \in Slaves : inbox'[s] = <<>> /\ DOMAIN inbox'[s] = {}
    BY <1>1, <1>6 DEF Quiet
  <2>. QED
    BY <2>1 DEF AllIgnored
<1>7. timeout'[d] = ms /\ sweep'[d].since <= sent' /\ sweep'[d].first <= sweep'[d].a
  BY <1>1, <1>2, <1>3
<1>8. sweep'[d].found = Cardinality(Reported(d)')
  BY <1>2, <1>4, FS_EmptySet
<1>9. /\ \A b \in Reported(d)' : b < sweep'[d].a
      /\ \A s \in Slaves :
           regs'[s][AddressReg] \in sweep'[d].first .. (sweep'[d].a - 1) => Probed(d, s)'
  BY <1>4, <1>5
<1>. QED
  BY <1>2, <1>6, <1>7, <1>8, <1>9 DEF Thorough

(* The line stays as it should be between two probes, whatever the         *)
(* instruments still have to drop.                                         *)
LEMMA ServeBetweenProbes ==
  ASSUME TypeOK, NEW s \in Slaves, Serve(s), line = <<>>, AllIgnored
  PROVE  line' = <<>> /\ AllIgnored'
<1>1. inbox[s] \in Seq(Request) /\ inbox[s] # <<>>
  BY DEF TypeOK, Serve
<1>2. 1 \in DOMAIN inbox[s] /\ Head(inbox[s]) = inbox[s][1]
  BY <1>1
<1>3. ~IsFor(s, Head(inbox[s]).frame)
  BY <1>2 DEF AllIgnored, Ignored
<1>4. UNCHANGED <<line, regs>>
  BY <1>3, DropsHead
<1>. QED
  BY <1>3, <1>4, DropsHead DEF AllIgnored, Ignored, IsFor

(* Whatever goes on on the bus, the sweep's probe is as it should be.      *)
LEMMA BusThorough ==
  ASSUME Undisturbed, SweepInv, LeftAlone, NEW d \in Drivers, BusStep, Thorough(d),
         sweep[d].at \in {"next", "ask", "asked"}
  PROVE  Thorough(d)'
<1>1. /\ TypeOK /\ sweep[d] \in SweepState /\ sweep' = sweep /\ sweep[d].a \in Nat
      /\ \A e \in Drivers : e = d
  BY DEF SweepInv, SweepTypeOK, SweepState, BusStep, Undisturbed
<1>2. /\ timeout[d] \in LongTimeouts
      /\ sweep[d].at = "asked" =>
           Probing(d) /\ call[d].args = Probe /\ call[d].unit = sweep[d].a
      /\ sweep[d].at # "asked" => line = <<>> /\ AllIgnored /\ pc[d] = "idle"
  BY DEF Thorough, SweepInv, Asks
<1>3. CASE Step(d)
  <2>1. pc[d] # "idle" /\ UNCHANGED <<timeout, regs, served, sent>>
    BY <1>3 DEF Step, Transmit, ReceiveAll, GiveUp, Receive
  <2>2. sweep[d].at = "asked"
    BY <1>2, <2>1
  <2>3. Probing(d)'
    BY <1>1, <1>2, <1>3, <2>2, ProbeTransmits, ProbeReturns DEF Step
  <2>. QED
    BY <1>1, <2>1, <2>2, <2>3, ThoroughStays
<1>4. ASSUME NEW s \in Slaves, Serve(s) PROVE Thorough(d)'
  <2>1. UNCHANGED <<timeout, sent>> /\ served \subseteq served'
    BY <1>4 DEF Serve
  <2>2. \A t \in Slaves : regs'[t][AddressReg] = regs[t][AddressReg]
    BY <1>1, <1>4, ServeLeavesAddress
  <2>3. CASE sweep[d].at = "asked"
    <3>1. \A t \in AtAddress(d) : IsFor(t, Own(d).frame)
      BY <1>1, <1>2, <2>3, ProbeRequest DEF AtAddress
    <3>2. Probing(d)'
      BY <1>1, <1>2, <1>4, <2>3, <3>1, ProbeDropped, ProbeServed
    <3>. QED
      BY <1>1, <2>1, <2>2, <2>3, <3>2, ThoroughStays
  <2>4. CASE sweep[d].at # "asked"
    <3>1. line' = <<>> /\ AllIgnored'
      BY <1>1, <1>2, <1>4, <2>4, ServeBetweenProbes
    <3>. QED
      BY <1>1, <2>1, <2>2, <2>4, <3>1, ThoroughStays
  <2>. QED
    BY <2>3, <2>4
<1>5. CASE Arrive
  <2>1. line # <<>> /\ UNCHANGED <<timeout, regs, served, sent>>
    BY <1>5 DEF Arrive
  <2>2. sweep[d].at = "asked" /\ Probing(d)
    BY <1>2, <2>1
  <2>3. Probing(d)'
    BY <1>1, <1>5, <2>2, ProbeArrives
  <2>. QED
    BY <1>1, <2>1, <2>2, <2>3, ThoroughStays
<1>. QED
  BY <1>1, <1>3, <1>4, <1>5 DEF BusStep

(* A sweep that is over stays complete.                                    *)
LEMMA CompleteStays ==
  ASSUME NEW d \in Drivers, Complete(d), served \subseteq served',
         \A s \in Slaves : regs'[s][AddressReg] = regs[s][AddressReg],
         sweep'[d].first = sweep[d].first, sweep'[d].last = sweep[d].last,
         sweep'[d].since = sweep[d].since, sweep'[d].present = sweep[d].present,
         sweep'[d].found = sweep[d].found
  PROVE  Complete(d)'
<1>1. Reported(d)' = Reported(d)
  BY DEF Reported
<1>. QED
  BY <1>1, ProbedStays DEF Complete

(* The loop that has run out has been through the window.                  *)
LEMMA EndLoopComplete ==
  ASSUME SweepInv, NEW d \in Drivers, Thorough(d), ~InWindow(d)
  PROVE  Complete(d)
<1>1. /\ sweep[d].first \in Nat /\ sweep[d].last \in Nat /\ sweep[d].a \in Nat
  BY SMTT(30) DEF SweepInv, SweepTypeOK, SweepState
<1>2. \A b \in sweep[d].first .. sweep[d].last : b \in sweep[d].first .. (sweep[d].a - 1)
  BY <1>1 DEF InWindow
<1>. QED
  BY <1>2 DEF Thorough, Complete

(* What a step must leave behind for driver d.                             *)
Onward(d) ==
  /\ sweep[d].at \in {"restored", "done"} /\ sweep[d].unhurried => Complete(d)
  /\ sweep[d].at \in {"next", "ask", "asked"} /\ sweep[d].unhurried => Thorough(d)

LEMMA SweepStepOnward ==
  ASSUME SweepInv, SweepInv', LeftAlone, NEW d \in Drivers, Onward(d), SweepStep(d)
  PROVE  Onward(d)'
<1>1. /\ TypeOK /\ sweep \in [Drivers -> SweepState] /\ sweep[d] \in SweepState
      /\ timeout \in [Drivers -> Nat] /\ call \in [Drivers -> CallState] /\ sent \in Nat
      /\ pc \in [Drivers -> {"idle", "write", "read"}]
  BY DEF SweepInv, SweepTypeOK, TypeOK
<1>2. ASSUME NEW at \in {"ask", "asked", "restored", "done"},
             sweep' = [sweep EXCEPT ![d].at = at]
      PROVE  /\ sweep'[d].at = at /\ sweep'[d].a = sweep[d].a
             /\ sweep'[d].first = sweep[d].first /\ sweep'[d].last = sweep[d].last
             /\ sweep'[d].since = sweep[d].since /\ sweep'[d].unhurried = sweep[d].unhurried
             /\ sweep'[d].present = sweep[d].present /\ sweep'[d].found = sweep[d].found
  <2>1. sweep'[d] = [sweep[d] EXCEPT !.at = at]
    BY <1>1, <1>2
  <2>. QED
    BY <1>1, <2>1, AtType
<1>3. CASE NextAddress(d)
  <2>1. /\ sweep[d].at = "next" /\ sweep' = [sweep EXCEPT ![d].at = "ask"]
        /\ UNCHANGED <<timeout, line, inbox, regs, served, sent>>
    BY <1>3 DEF NextAddress, SetAddress
  <2>2. ASSUME sweep[d].unhurried PROVE Thorough(d)'
    <3>1. Thorough(d) /\ line' = <<>> /\ AllIgnored'
      BY <2>1, <2>2 DEF Onward, Thorough, AllIgnored, Ignored, IsFor
    <3>. QED
      BY <1>1, <1>2, <2>1, <3>1, ThoroughStays
  <2>. QED
    BY <1>2, <2>1, <2>2 DEF Onward
<1>4. CASE Ask(d)
  <2>1. /\ sweep[d].at = "ask" /\ sweep' = [sweep EXCEPT ![d].at = "asked"]
        /\ pc'[d] = "write" /\ call'[d].txn = sent + 1 /\ sent' = sent + 1 /\ rx' = <<>>
        /\ UNCHANGED <<timeout, line, inbox, regs, served>>
    BY <1>1, <1>4 DEF Ask, Begin, Flushed
  <2>2. ASSUME sweep[d].unhurried PROVE Thorough(d)'
    <3>1. Thorough(d) /\ line' = <<>> /\ AllIgnored'
      BY <2>1, <2>2 DEF Onward, Thorough, AllIgnored, Ignored, IsFor
    <3>2. call'[d].txn > sweep'[d].since
      <4>1. sweep[d].since \in Nat /\ sweep[d].since <= sent
        BY <1>1, <3>1 DEF SweepState, Thorough
      <4>. QED
        BY <1>1, <1>2, <2>1, <4>1
    <3>3. Probing(d)'
      BY <2>1, <3>1, <3>2 DEF Probing, Silent
    <3>. QED
      BY <1>1, <1>2, <2>1, <3>1, <3>3, ThoroughStays
  <2>. QED
    BY <1>2, <2>1, <2>2 DEF Onward
<1>5. CASE Record(d)
  <2>1. /\ sweep[d].at = "asked" /\ sweep'[d].at = "next"
        /\ sweep'[d].unhurried = sweep[d].unhurried
    BY <1>5, RecordType DEF Record, SweepInv
  <2>. QED
    BY <1>5, <2>1, RecordThorough DEF Onward
<1>6. CASE EndLoop(d)
  <2>1. /\ sweep[d].at = "next" /\ sweep' = [sweep EXCEPT ![d].at = "restored"]
        /\ ~InWindow(d) /\ UNCHANGED <<regs, served>>
    BY <1>6 DEF EndLoop, SetAddress
  <2>2. sweep[d].unhurried => Complete(d)
    BY <2>1, EndLoopComplete DEF Onward
  <2>. QED
    BY <1>2, <2>1, <2>2, CompleteStays DEF Onward
<1>7. CASE EndSweep(d)
  <2>1. /\ sweep[d].at = "restored" /\ sweep' = [sweep EXCEPT ![d].at = "done"]
        /\ UNCHANGED <<regs, served>>
    BY <1>7 DEF EndSweep, SetTimeoutMs
  <2>. QED
    BY <1>2, <2>1, CompleteStays DEF Onward
<1>. QED
  BY <1>3, <1>4, <1>5, <1>6, <1>7 DEF SweepStep

LEMMA NextOnward ==
  ASSUME Undisturbed, SweepInv, SweepInv', LeftAlone, NEW d \in Drivers, Onward(d),
         [SweepNext]_sweepVars
  PROVE  Onward(d)'
<1>1. TypeOK /\ sweep \in [Drivers -> SweepState] /\ \A e \in Drivers : e = d
  BY DEF SweepInv, SweepTypeOK, Undisturbed
<1>2. ASSUME NEW bytes \in BitmapSizes, RefuseSweep(d, bytes) PROVE Onward(d)'
  <2>1. sweep'[d].at = "BufferTooSmall"
    BY <1>1, <1>2, NoSweepType DEF RefuseSweep
  <2>. QED
    BY <2>1 DEF Onward
<1>3. ASSUME NEW bytes \in BitmapSizes, NEW w \in Windows, NEW ms \in Timeouts,
             BeginSweep(d, w, ms, bytes)
      PROVE  Onward(d)'
  BY <1>3, BeginThorough DEF Onward
<1>4. ASSUME NEW c \in Calls, OtherCall(d, c) PROVE Onward(d)'
  <2>1. /\ sweep[d].at \notin {"next", "ask", "asked", "restored"} /\ sweep' = sweep
        /\ UNCHANGED <<regs, served>>
    BY <1>4 DEF OtherCall, Sweeping, Begin
  <2>. QED
    BY <2>1, CompleteStays DEF Onward
<1>5. CASE BusStep
  <2>1. sweep' = sweep /\ served \subseteq served'
    BY <1>5 DEF BusStep, Step, Transmit, ReceiveAll, GiveUp, Receive, Serve, Arrive
  <2>2. \A s \in Slaves : regs'[s][AddressReg] = regs[s][AddressReg]
    <3>1. UNCHANGED regs \/ \E s \in Slaves : Serve(s)
      BY <1>5 DEF BusStep, Step, Transmit, ReceiveAll, GiveUp, Receive, Arrive
    <3>2. LeftAlone
      OBVIOUS
    <3>. QED
      BY <1>1, <3>1, <3>2, ServeLeavesAddress
  <2>3. sweep[d].at \in {"restored", "done"} /\ sweep[d].unhurried => Complete(d)'
    BY <2>1, <2>2, CompleteStays, SMTT(30) DEF Onward
  <2>. QED
    BY <1>5, <2>1, <2>3, BusThorough, SMTT(30) DEF Onward
<1>6. CASE UNCHANGED sweepVars
  <2>1. UNCHANGED <<address, timeout, pc, call, rx, line, inbox, regs, served, sent, sweep>>
    BY <1>6 DEF sweepVars, vars
  <2>2. sweep[d].at \in {"restored", "done"} /\ sweep[d].unhurried => Complete(d)'
    BY <2>1, CompleteStays DEF Onward
  <2>3. ASSUME Thorough(d) PROVE Thorough(d)'
    <3>1. sweep[d] \in SweepState /\ (AllIgnored => AllIgnored')
      BY <1>1, <2>1 DEF AllIgnored, Ignored, IsFor
    <3>2. Probing(d) => Probing(d)'
      <4>1. /\ AtAddress(d)' = AtAddress(d) /\ Own(d)' = Own(d)
            /\ Present(d)' <=> Present(d)
            /\ \A s \in Slaves : \A i \in DOMAIN inbox[s] : Ignored(s, i)' <=> Ignored(s, i)
        BY <2>1 DEF AtAddress, Own, Present, Ignored, IsFor
      <4>. QED
        BY <2>1, <3>1, <4>1 DEF Probing, Waiting, Replied, Silent
    <3>3. /\ sweep'[d].at = "asked" => Probing(d)'
          /\ sweep'[d].at # "asked" => line' = <<>> /\ AllIgnored'
      BY <2>1, <2>3, <3>1, <3>2 DEF Thorough
    <3>. QED
      BY <1>1, <2>1, <2>3, <3>1, <3>3, ThoroughStays
  <2>. QED
    BY <2>1, <2>2, <2>3 DEF Onward
<1>7. CASE SweepStep(d)
  BY <1>7, SweepStepOnward
<1>. QED
  BY <1>1, <1>2, <1>3, <1>4, <1>5, <1>6, <1>7 DEF SweepNext

LEMMA NextComplete ==
  ASSUME Undisturbed, CompleteInv, [SweepNext]_sweepVars
  PROVE  CompleteInv'
<1>1. /\ SweepInv /\ LeftAlone /\ SweepInv' /\ SweepTypeOK
      /\ \A d \in Drivers : Onward(d)
  BY NextSweepInv DEF CompleteInv, SweepComplete, Onward, SweepInv
<1>2. \A d \in Drivers : Onward(d)'
  BY <1>1, NextOnward
<1>3. LeftAlone'
  BY <1>1, NextLeftAlone
<1>. QED
  BY <1>1, <1>2, <1>3 DEF CompleteInv, SweepComplete, Onward

(* On an undisturbed line an unhurried sweep leaves nothing behind from    *)
(* one probe to the next, and is complete as far as it has got.            *)
THEOREM CompleteInvHolds ==
  ASSUME Undisturbed
  PROVE  SweepSpec => []CompleteInv
<1>1. SweepInit => CompleteInv
  <2>1. SUFFICES ASSUME SweepInit PROVE CompleteInv
    OBVIOUS
  <2>2. SweepInv /\ \A d \in Drivers : sweep[d].at = "none"
    BY <2>1, SweepInitInv DEF SweepInit, NoSweep
  <2>3. LeftAlone
    BY <2>1 DEF SweepInit, Init, LeftAlone
  <2>. QED
    BY <2>2, <2>3 DEF CompleteInv, SweepComplete
<1>2. CompleteInv /\ [SweepNext]_sweepVars => CompleteInv'
  BY NextComplete
<1>. QED
  BY <1>1, <1>2, PTL DEF SweepSpec

(* On an undisturbed line a sweep that nothing hurries asks every          *)
(* instrument in its window, reports all that answer, and counts what it   *)
(* reports.                                                                *)
THEOREM SweepCompleteHolds ==
  ASSUME Undisturbed
  PROVE  SweepSpec => []SweepComplete
<1>1. CompleteInv => SweepComplete
  BY DEF CompleteInv
<1>. QED
  BY <1>1, CompleteInvHolds, PTL

=============================================================================
