----------------------------- MODULE Discovery -----------------------------
(***************************************************************************)
(* DiscoverPresentAddresses (inc/alicat_basis2.hpp): a sweep of reads, one *)
(* per address, over the bus of Basis2Bus, with the driver's own target    *)
(* and timeout borrowed for its duration.  Every step of a sweep is a step *)
(* of the bus: the sweep changes the driver only by SetAddress,            *)
(* SetTimeoutMs and its reads.                                             *)
(***************************************************************************)
EXTENDS Basis2Bus, Integers

CONSTANTS
  ProbeReg,      \* reg::FirmwareVersion (25)
  Windows,       \* the <<first_addr, last_addr>> the host sweeps
  BitmapSizes,   \* the sizes of the bitmaps it hands over
  MinBitmap      \* the size a bitmap must have (32)

ASSUME WindowAssumption ==
  /\ Windows \subseteq (0..255) \X (0..255)
  /\ BitmapSizes \subseteq Nat
  /\ MinBitmap \in Nat

Probe == [op |-> ReadOp, reg |-> ProbeReg, count |-> 1, words |-> <<>>]

ASSUME ProbeAssumption == Probe \in Calls

VARIABLE sweep   \* [Drivers -> the sweep under way, or the last one]

sweepVars == <<vars, sweep>>

NoSweep == [at |-> "none", first |-> 0, last |-> 0, a |-> 0, savedAddr |-> 0,
            savedTimeout |-> 0, since |-> 0, unhurried |-> FALSE, present |-> {},
            found |-> 0]

Bit(a) == <<a \div 8, a % 8>>   \* byte and bit of the bitmap

(* The loop's condition and its increment: the loop variable is 16 bits    *)
(* wide, so that it can pass 255.                                          *)
FaultyInWindow(d) == sweep[d].a <= sweep[d].last + 1   \* one too many
InWindow(d) == sweep[d].a <= sweep[d].last

FaultyNext(a) == (a + 1) % 256   \* the loop variable is a uint8_t
NextOf(a) == (a + 1) % 65536

(* What a probe must return for its address to count as present.           *)
TrustingPresent(d) == call[d].error # "Timeout"   \* any answer is this address's
Present(d) == call[d].error = "None"

(* The timeout of the probes; the target and the timeout the driver gets   *)
(* back.                                                                   *)
FaultyProbeTimeout(d, ms) == timeout[d]   \* the timeout of other calls
ProbeTimeout(d, ms) == ms

FaultyRestored(d) ==   \* forgets to restore when nothing was found
  IF sweep[d].found = 0 THEN address[d] ELSE sweep[d].savedAddr
Restored(d) == sweep[d].savedAddr

FaultyRestoredTimeout(d) ==   \* and the same of the timeout
  IF sweep[d].found = 0 THEN timeout[d] ELSE sweep[d].savedTimeout
RestoredTimeout(d) == sweep[d].savedTimeout

Sweeping(d) == sweep[d].at \in {"next", "ask", "asked", "restored"}

SweepInit == Init /\ sweep = [d \in Drivers |-> NoSweep]

-----------------------------------------------------------------------------
(* A bitmap with no room for every address is refused.                     *)
RefuseSweep(d, bytes) ==
  /\ pc[d] = "idle" /\ ~Sweeping(d)
  /\ bytes < MinBitmap
  /\ sweep' = [sweep EXCEPT ![d] = [NoSweep EXCEPT !.at = "BufferTooSmall"]]
  /\ UNCHANGED vars

(* The bitmap is cleared, target and timeout are saved, and the probe      *)
(* timeout is taken up.  The second conjunct bounds the model; `since' and *)
(* `unhurried' are for the properties: which transactions are the sweep's, *)
(* and whether every reply will come within the probe timeout.             *)
BeginSweep(d, w, ms, bytes) ==
  /\ pc[d] = "idle" /\ ~Sweeping(d)
  /\ sent + Cardinality(w[1]..w[2]) <= MaxCalls
  /\ bytes >= MinBitmap
  /\ SetTimeoutMs(d, ProbeTimeout(d, ms))
  /\ sweep' = [sweep EXCEPT ![d] =
       [at |-> "next", first |-> w[1], last |-> w[2], a |-> w[1],
        savedAddr |-> address[d], savedTimeout |-> timeout[d],
        since |-> sent, unhurried |-> Quiet /\ ms \in LongTimeouts, present |-> {},
        found |-> 0]]

(* The head of the loop: the next address is targeted ...                  *)
NextAddress(d) ==
  /\ sweep[d].at = "next"
  /\ InWindow(d)
  /\ SetAddress(d, sweep[d].a)
  /\ sweep' = [sweep EXCEPT ![d].at = "ask"]

(* ... and asked ...                                                       *)
Ask(d) ==
  /\ sweep[d].at = "ask"
  /\ Begin(d, Probe)
  /\ sweep' = [sweep EXCEPT ![d].at = "asked"]

(* ... and what the read returned decides its bit.                         *)
Record(d) ==
  /\ sweep[d].at = "asked" /\ pc[d] = "idle"
  /\ sweep' = [sweep EXCEPT ![d] = [sweep[d] EXCEPT
       !.at = "next",
       !.a = NextOf(sweep[d].a),
       !.present = IF Present(d) THEN sweep[d].present \cup {Bit(sweep[d].a)}
                                 ELSE sweep[d].present,
       !.found = IF Present(d) THEN (sweep[d].found + 1) % 256 ELSE sweep[d].found]]
  /\ UNCHANGED vars

(* After the loop the driver's target is restored, and then its timeout.   *)
EndLoop(d) ==
  /\ sweep[d].at = "next"
  /\ ~InWindow(d)
  /\ SetAddress(d, Restored(d))
  /\ sweep' = [sweep EXCEPT ![d].at = "restored"]

EndSweep(d) ==
  /\ sweep[d].at = "restored"
  /\ SetTimeoutMs(d, RestoredTimeout(d))
  /\ sweep' = [sweep EXCEPT ![d].at = "done"]

-----------------------------------------------------------------------------
SweepStep(d) == NextAddress(d) \/ Ask(d) \/ Record(d) \/ EndLoop(d) \/ EndSweep(d)

(* What the host does between sweeps: any other call.                      *)
OtherCall(d, c) ==
  /\ ~Sweeping(d)
  /\ Begin(d, c)
  /\ UNCHANGED sweep

(* The rest of the bus goes on.                                            *)
BusStep ==
  /\ \/ \E d \in Drivers : Step(d)
     \/ \E s \in Slaves : Serve(s)
     \/ Arrive
  /\ UNCHANGED sweep

SweepNext ==
  \/ \E d \in Drivers : SweepStep(d)
  \/ \E d \in Drivers, bytes \in BitmapSizes :
       \/ RefuseSweep(d, bytes)
       \/ \E w \in Windows, ms \in Timeouts : BeginSweep(d, w, ms, bytes)
  \/ \E d \in Drivers, c \in Calls : OtherCall(d, c)
  \/ BusStep

(* The thread that sweeps runs on, and so does one that is in a call: UART *)
(* read returns once it has the bytes or its time is up.  The line         *)
(* delivers what is on it, and an instrument gets round to what it has     *)
(* received.  The host need not call.                                      *)
SweepSpec ==
  /\ SweepInit /\ [][SweepNext]_sweepVars
  /\ \A d \in Drivers : WF_sweepVars(SweepStep(d))
  /\ \A d \in Drivers : WF_sweepVars(Step(d) /\ UNCHANGED sweep)
  /\ \A s \in Slaves : WF_sweepVars(Serve(s) /\ UNCHANGED sweep)
  /\ WF_sweepVars(Arrive /\ UNCHANGED sweep)

-----------------------------------------------------------------------------
(* Properties.                                                             *)

Reported(d) == {a \in sweep[d].first .. sweep[d].last : Bit(a) \in sweep[d].present}

SweepState ==
  [at : {"none", "BufferTooSmall", "next", "ask", "asked", "restored", "done"},
   first : 0..255, last : 0..255, a : 0..256, savedAddr : Nat, savedTimeout : Nat,
   since : Nat, unhurried : BOOLEAN, present : SUBSET ((0..31) \X (0..7)), found : 0..255]

SweepTypeOK ==
  /\ TypeOK
  /\ sweep \in [Drivers -> SweepState]
  /\ \A d \in Drivers : sweep[d].at \in {"ask", "asked"} => sweep[d].a <= sweep[d].last

(* Whatever late replies earlier probes and calls have left behind, an     *)
(* address is reported only if an instrument has answered at it.           *)
ReportedAnswered ==
  \A d \in Drivers : \A a \in Reported(d) :
    \E v \in served : Backs(v, RequestFrame(Probe, a), v.data)

(* Its inductive form: the read under way when a sweep has asked is its    *)
(* probe of the address it has got to, and every bit it has set, of        *)
(* whatever address, has an answer at that address behind it.              *)
Asks ==
  \A d \in Drivers :
    /\ sweep[d].at \in {"next", "ask", "restored"} => pc[d] = "idle"
    /\ sweep[d].at = "ask" => address[d] = sweep[d].a
    /\ sweep[d].at = "asked" =>
         call[d].args = Probe /\ call[d].unit = sweep[d].a /\ call[d].txn # 0

BitsBacked ==
  \A d \in Drivers : \A a \in 0..255 :
    Bit(a) \in sweep[d].present =>
      \E v \in served : Backs(v, RequestFrame(Probe, a), v.data)

SweepInv == SweepTypeOK /\ BackedInv /\ Asks /\ BitsBacked

(* A sweep that nothing hurries, over a line that loses nothing, asks      *)
(* every instrument in its window, reports all that answer, and counts     *)
(* what it reports.                                                        *)
Probed(d, s) ==
  \E v \in served :
    /\ v.slave = s
    /\ v.txn > sweep[d].since
    /\ v.accepted => regs[s][AddressReg] \in Reported(d)

Complete(d) ==
  /\ sweep[d].found = Cardinality(Reported(d))
  /\ \A s \in Slaves :
       regs[s][AddressReg] \in sweep[d].first .. sweep[d].last => Probed(d, s)

SweepComplete ==
  \A d \in Drivers :
    sweep[d].at \in {"restored", "done"} /\ sweep[d].unhurried => Complete(d)

(* The conditions it needs: the line has one driver and loses nothing, the *)
(* receive array has room for a probe, no call writes an address, and the  *)
(* instruments have addresses of their own, none of them Broadcast.        *)
Undisturbed ==
  /\ \A d, e \in Drivers : d = e
  /\ ~Lossy
  /\ MaxRxRegs >= 1
  /\ \A c \in Calls :
       c.op # ReadOp => AddressReg \notin c.reg .. (c.reg + c.count - 1)
  /\ \A s \in Slaves : PowerOn[s][AddressReg] # Broadcast
  /\ \A s, t \in Slaves : s # t => PowerOn[s][AddressReg] # PowerOn[t][AddressReg]

(* The inductive form of it.  The instruments keep their addresses; ...    *)
Harmless(f) == f.fn # ReadHolding => AddressReg \notin Cells(f)

LeftAlone ==
  /\ \A s \in Slaves : regs[s][AddressReg] = PowerOn[s][AddressReg]
  /\ \A s \in Slaves : \A i \in DOMAIN inbox[s] : Harmless(inbox[s][i].frame)
  /\ \A v \in served : v.request.fn = ReadHolding => v.request.unit # Broadcast

(* ... the probe under way is not answered yet, and with the instrument it *)
(* is for; or answered, by the bytes in the receive buffer and on the      *)
(* line; or has returned what the instrument made of it; ...               *)
AtAddress(d) == {s \in Slaves : regs[s][AddressReg] = sweep[d].a}

Waiting(d) ==
  /\ Silent
  /\ \A s \in Slaves : \A i \in DOMAIN inbox[s] :
       Ignored(s, i) \/ (i = Len(inbox[s]) /\ inbox[s][i] = Own(d))
  /\ \A s \in AtAddress(d) :
       inbox[s] # <<>> /\ inbox[s][Len(inbox[s])] = Own(d)

Replied(d) ==
  /\ AllIgnored
  /\ \E v \in served :
       /\ v.slave \in AtAddress(d) /\ v.txn = call[d].txn /\ v.request = Own(d).frame
       /\ rx \o line = Bytes(Reply(v), TRUE, v.txn)

Probing(d) ==
  /\ call[d].txn > sweep[d].since
  /\ pc[d] = "write" => Silent /\ AllIgnored
  /\ pc[d] = "read" => Waiting(d) \/ Replied(d)
  /\ pc[d] = "idle" =>
       /\ line = <<>> /\ AllIgnored
       /\ \A s \in AtAddress(d) : \E v \in served :
            v.slave = s /\ v.txn > sweep[d].since /\ (v.accepted => Present(d))

(* ... and up to the address it has got to, the sweep is complete.         *)
Thorough(d) ==
  /\ timeout[d] \in LongTimeouts /\ sweep[d].since <= sent
  /\ sweep[d].first <= sweep[d].a
  /\ sweep[d].found = Cardinality(Reported(d))
  /\ \A b \in Reported(d) : b < sweep[d].a
  /\ \A s \in Slaves :
       regs[s][AddressReg] \in sweep[d].first .. (sweep[d].a - 1) => Probed(d, s)
  /\ IF sweep[d].at = "asked" THEN Probing(d) ELSE line = <<>> /\ AllIgnored

CompleteInv ==
  /\ SweepInv /\ LeftAlone /\ SweepComplete
  /\ \A d \in Drivers :
       sweep[d].at \in {"next", "ask", "asked"} /\ sweep[d].unhurried => Thorough(d)

(* For a host that neither retargets nor readdresses: outside a sweep the  *)
(* driver targets the instrument it was constructed for.                   *)
TargetKept == \A d \in Drivers : ~Sweeping(d) => address[d] = Target[d]

(* Its inductive form: a sweep holds on to the target, and gives it back   *)
(* before it gives back the timeout.                                       *)
TargetInv ==
  /\ SweepTypeOK /\ TargetKept
  /\ \A d \in Drivers :
       /\ Sweeping(d) => sweep[d].savedAddr = Target[d]
       /\ sweep[d].at = "restored" => address[d] = Target[d] /\ pc[d] = "idle"

(* And the timeout it waits for is the one it had at the start: none of    *)
(* its sweeps, whatever it finds, leaves the driver with the short timeout *)
(* of its probes, or with one that an earlier sweep had saved.             *)
TimeoutKept ==
  \A d \in Drivers, ms \in Timeouts :
    timeout[d] = ms => [](~Sweeping(d) => timeout[d] = ms)

(* A sweep never goes back: three steps for each address ahead of it and   *)
(* two to end it, each of which brings it one nearer to its end, takes     *)
(* back no bit and keeps the window, the target and the timeout it began   *)
(* with.  Nothing else the drivers, the line or the instruments do         *)
(* disturbs it.  The loop variable that would not pass 255 is what it      *)
(* guards against.                                                         *)
Ahead(d) ==
  LET left == IF InWindow(d) THEN sweep[d].last + 1 - sweep[d].a ELSE 0
  IN  CASE sweep[d].at = "next"     -> 3 * left + 2
        [] sweep[d].at = "ask"      -> 3 * left + 1
        [] sweep[d].at = "asked"    -> 3 * left
        [] sweep[d].at = "restored" -> 1
        [] OTHER                    -> 0

NearerTheEnd(d) ==
  /\ Ahead(d)' = Ahead(d) - 1
  /\ sweep[d].present \subseteq sweep'[d].present
  /\ \A part \in {"first", "last", "savedAddr", "savedTimeout"} :
       sweep'[d][part] = sweep[d][part]

SweepAdvances ==
  [][\A d \in Drivers : Sweeping(d) => sweep'[d] = sweep[d] \/ NearerTheEnd(d)]_sweepVars

(* A sweep is made of the driver's other operations: when its addresses    *)
(* are among those a host may give to SetAddress, whatever happens with    *)
(* sweeps is a behaviour of Basis2Bus, and has the properties of one.      *)
WithinReach ==
  /\ \A w \in Windows : w[1]..w[2] \subseteq HostAddresses
  /\ \A d \in Drivers : Target[d] \in HostAddresses
  /\ \A c \in Calls : c.op = AddressOp => c.words[1] \in HostAddresses

IsBus == Spec

ReachInv ==
  /\ SweepTypeOK
  /\ \A d \in Drivers : address[d] \in HostAddresses /\ timeout[d] \in Timeouts
  /\ \A d \in Drivers : Sweeping(d) =>
       /\ sweep[d].first <= sweep[d].a
       /\ sweep[d].first .. sweep[d].last \subseteq HostAddresses
       /\ sweep[d].savedAddr \in HostAddresses /\ sweep[d].savedTimeout \in Timeouts

(* A sweep ends, the window that reaches address 255 included.             *)
SweepEnds == \A d \in Drivers : Sweeping(d) ~> ~Sweeping(d)
=============================================================================
