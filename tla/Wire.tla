-------------------------------- MODULE Wire --------------------------------
(***************************************************************************)
(* The driver's calls in time: how long requests and replies take at each  *)
(* baud rate, against the timeouts of inc/alicat_basis2.hpp and the UART   *)
(* adapter of the examples (examples/esp32/main/).  One driver, one        *)
(* instrument, and a host that pauses after a broadcast and follows the    *)
(* steps documented with SetBaudRate.                                      *)
(*                                                                         *)
(* Times are microseconds still to go: Advance takes them all down by the  *)
(* least of them.  A byte is ten bits on the line.  Requests between which *)
(* there is no silence of 3.5 characters reach the instrument as one,      *)
(* which it drops.                                                         *)
(***************************************************************************)
EXTENDS Modbus

CONSTANTS
  Calls,         \* the calls the host makes
  ProbeRates,    \* the rates at which it probes
  HostPause,     \* microseconds it waits after a broadcast
  Turnarounds,   \* microseconds an instrument may take to begin its reply
  TickMs,        \* the tick of the host's operating system, in milliseconds
  FirstRates,    \* the rates host and instrument may start with
  Lossy          \* requests and replies may be lost or damaged

ReadOp  == "ReadHoldingRegisters"
MultiOp == "WriteMultipleRegisters"
WriteOp == "WriteSingleRegister"
BaudOp  == "SetBaudRate"

(* BaudRate: the codes of register 21 and what they stand for.             *)
BaudRateToBps(code) == <<4800, 9600, 19200, 38400, 57600, 115200>>[code + 1]
BaudRates == 0..5

HastyTimeoutMs    == 150   \* a timeout that suits the factory rate
kDefaultTimeoutMs == 200

(* A call; a probe is a read with a timeout of its own.                    *)
Call == [op : {ReadOp, MultiOp, WriteOp, BaudOp}, count : 1..32, broadcast : BOOLEAN,
         rate : BaudRates, timeout : Nat]

ASSUME WireAssumption ==
  /\ Calls \subseteq Call
  /\ \A c \in Calls : c.broadcast => c.op \in {MultiOp, WriteOp}
  /\ ProbeRates \subseteq BaudRates /\ FirstRates \subseteq BaudRates
  /\ HostPause \in Nat /\ Turnarounds \subseteq Nat /\ Turnarounds # {} /\ TickMs \in Nat \ {0}
  /\ Lossy \in BOOLEAN

NoCall == [op |-> ReadOp, count |-> 1, broadcast |-> FALSE, rate |-> 0, timeout |-> 0]

VARIABLES
  hostRate,   \* the rate of the host's UART
  host,       \* the driver's call, the current or the last
  burst,      \* what the host has sent since its side of the line was last silent
  instRate,   \* the rate of the instrument's UART
  reply       \* the reply the instrument is to send or is sending, or the
              \* silence that is to follow the last one

vars == <<hostRate, host, burst, instRate, reply>>

(* `disturbed': the call need not be answered, for reasons that are not    *)
(* its timing.                                                             *)
Host  == [call : Calls \cup {NoCall}, at : {"idle", "reading", "pausing"}, left : Nat,
          outcome : {"pending", "success", "failure"}, disturbed : BOOLEAN]
NoBurst == [calls |-> <<>>, rate |-> 0, left |-> 0]
NoReply == [call |-> NoCall, refused |-> FALSE, lost |-> FALSE, pending |-> FALSE, left |-> 0]

Init ==
  /\ hostRate \in FirstRates
  /\ instRate = hostRate
  /\ host = [call |-> NoCall, at |-> "idle", left |-> 0, outcome |-> "success",
             disturbed |-> FALSE]
  /\ burst = NoBurst
  /\ reply = NoReply

-----------------------------------------------------------------------------
(* How long things take.                                                   *)

ByteTime(rate) == (10000000 + BaudRateToBps(rate) - 1) \div BaudRateToBps(rate)
Gap(rate)      == (7 * ByteTime(rate) + 1) \div 2

RequestBytes(c) == IF c.op = MultiOp THEN 9 + 2 * c.count ELSE 8

ReplyBytes(c, refused) ==
  IF refused THEN 5 ELSE IF c.op = ReadOp THEN 5 + 2 * c.count ELSE 8

(* pdMS_TO_TICKS, and how long a wait of so many ticks may be: the first   *)
(* tick may come at once.                                                  *)
UnconvertedTicks(ms) == ms                                   \* milliseconds for ticks
FaultyTicks(ms) == (ms \div 1000) * (1000 \div TickMs)       \* whole seconds only
Ticks(ms) == ms \div TickMs

Waits(ms) == {1000 * TickMs * n : n \in {Ticks(ms), IF Ticks(ms) = 0 THEN 0 ELSE Ticks(ms) - 1}}

Timers ==
  (IF host.at = "idle" THEN {} ELSE {host.left})
    \cup (IF burst.calls = <<>> THEN {} ELSE {burst.left})
    \cup (IF reply.pending \/ reply.left > 0 THEN {reply.left} ELSE {})

-----------------------------------------------------------------------------
(* The driver and its host.                                                *)

IsProbe(c) == c.timeout # kDefaultTimeoutMs

FaultyAwaitsReply(c) == ~c.broadcast /\ c.op # BaudOp   \* lets SetBaudRate go unanswered
AwaitsReply(c) == ~c.broadcast

(* UART write returns once the UART has taken the bytes.  They go out      *)
(* after what it had to send before, and the line is silent 3.5 characters *)
(* after the last of them.                                                 *)
Written(c) ==
  LET before == IF burst.left > Gap(hostRate) THEN burst.left - Gap(hostRate) ELSE 0
  IN  [calls |-> Append(burst.calls, c),
       rate  |-> hostRate,
       left  |-> before + RequestBytes(c) * ByteTime(hostRate) + Gap(hostRate)]

(* The host is to follow a change of rate that was acknowledged.           *)
RetuneDue ==
  /\ host.at = "idle" /\ host.outcome = "success"
  /\ host.call.op = BaudOp /\ host.call.rate # hostRate

(* A call is made: what has arrived is flushed, the request written, and   *)
(* the call waits for the reply, unless it is a broadcast.  A reply still  *)
(* under way from an earlier call is damaged.                              *)
Start(c) ==
  /\ host.at = "idle" /\ 0 \notin Timers /\ ~RetuneDue
  /\ IsProbe(c) => hostRate \in ProbeRates
  /\ burst' = Written(c)
  /\ IF AwaitsReply(c)
     THEN \E wait \in Waits(c.timeout) :
            host' = [call |-> c, at |-> "reading", left |-> wait, outcome |-> "pending",
                     disturbed |-> hostRate # instRate]
     ELSE host' = [call |-> c, at |-> "pausing", left |-> IF c.broadcast THEN HostPause ELSE 0,
                   outcome |-> "success", disturbed |-> FALSE]
  /\ reply' = [reply EXCEPT !.lost = reply.pending]
  /\ UNCHANGED <<hostRate, instRate>>

(* UART read returns at its timeout, on too few bytes or none.             *)
Expire ==
  /\ host.at = "reading" /\ host.left = 0
  /\ host' = [host EXCEPT !.at = "idle", !.outcome = "failure"]
  /\ UNCHANGED <<hostRate, burst, instRate, reply>>

Resume ==
  /\ host.at = "pausing" /\ host.left = 0
  /\ host' = [host EXCEPT !.at = "idle"]
  /\ UNCHANGED <<hostRate, burst, instRate, reply>>

(* The host takes up the rate it has set: it must if that succeeded, and   *)
(* may try to if not.                                                      *)
Retune ==
  /\ host.at = "idle" /\ host.call.op = BaudOp /\ host.call.rate # hostRate
  /\ hostRate' = host.call.rate
  /\ UNCHANGED <<host, burst, instRate, reply>>

-----------------------------------------------------------------------------
(* The instrument.                                                         *)

(* What the host has sent is over.  The instrument takes a single frame at *)
(* its own rate, and begins to prepare a reply to one that was not         *)
(* broadcast.                                                              *)
Delimit ==
  LET c == burst.calls[1]
      audible == Len(burst.calls) = 1 /\ burst.rate = instRate /\ ~reply.pending
  IN  /\ burst.calls # <<>> /\ burst.left = 0
      /\ burst' = NoBurst
      /\ IF audible /\ ~c.broadcast
         THEN \E heard, refused, lost \in BOOLEAN, turnaround \in Turnarounds :
                /\ Lossy \/ (heard /\ ~lost)
                /\ reply' = IF heard
                            THEN [call |-> c, refused |-> refused, lost |-> lost, pending |-> TRUE,
                                  left |-> turnaround
                                           + ReplyBytes(c, refused) * ByteTime(instRate)]
                            ELSE reply
                /\ host' = [host EXCEPT !.disturbed = @ \/ ~heard \/ refused \/ lost]
         ELSE UNCHANGED <<reply, host>>
      /\ UNCHANGED <<hostRate, instRate>>

(* The reply is out, and 3.5 characters of silence are to follow it.  UART *)
(* read returns if it is all there, which a damaged one may be too; and    *)
(* the instrument switches to the rate it has acknowledged.                *)
Answer ==
  /\ reply.pending /\ reply.left = 0
  /\ reply' = [NoReply EXCEPT !.left = Gap(instRate)]
  /\ \/ /\ host.at = "reading" /\ hostRate = instRate /\ ~reply.refused
        /\ host' = [host EXCEPT !.at = "idle",
                               !.outcome = IF reply.lost THEN "failure" ELSE "success"]
     \/ /\ host.at # "reading" \/ hostRate # instRate \/ reply.refused \/ reply.lost
        /\ UNCHANGED host
  /\ instRate' = IF reply.call.op = BaudOp /\ ~reply.refused THEN reply.call.rate ELSE instRate
  /\ UNCHANGED <<hostRate, burst>>

(* Time passes, up to the next thing that is due.                          *)
Advance ==
  /\ Timers # {} /\ 0 \notin Timers
  /\ LET d == CHOOSE t \in Timers : \A u \in Timers : t <= u
         After(left) == IF left > d THEN left - d ELSE 0
     IN  /\ host' = [host EXCEPT !.left = After(@)]
         /\ burst' = [burst EXCEPT !.left = After(@)]
         /\ reply' = [reply EXCEPT !.left = After(@)]
  /\ UNCHANGED <<hostRate, instRate>>

Next ==
  \/ \E c \in Calls : Start(c)
  \/ Expire \/ Resume \/ Retune \/ Delimit \/ Answer \/ Advance

Spec == Init /\ [][Next]_vars

-----------------------------------------------------------------------------
(* Properties.                                                             *)

WireTypeOK ==
  /\ hostRate \in BaudRates /\ instRate \in BaudRates
  /\ host \in Host
  /\ burst \in [calls : Seq(Calls), rate : BaudRates, left : Nat]
  /\ reply \in [call : Calls \cup {NoCall}, refused : BOOLEAN, lost : BOOLEAN,
                pending : BOOLEAN, left : Nat]
  /\ host.at = "reading" => host.left <= 1000 * host.call.timeout

(* When a call that waits for a reply with the default timeout returns,    *)
(* whatever it returns, the line is free: neither its request nor a reply  *)
(* to it is still under way, at any rate and for the longest request and   *)
(* reply.  Hence a host that keeps the default timeout need not wait for   *)
(* silence, and a lost acknowledgement of SetBaudRate leaves the           *)
(* instrument at one rate for good.                                        *)
SettledAtReturn ==
  host.at = "idle" /\ host.call.timeout = kDefaultTimeoutMs /\ ~host.call.broadcast =>
    burst.calls = <<>> /\ ~reply.pending

(* A call the instrument hears and answers, on a line that does not lose   *)
(* the reply, succeeds: the timeout leaves time for request, turnaround    *)
(* and reply.                                                              *)
AnsweredInTime == host.at # "reading" /\ ~host.disturbed => host.outcome = "success"

(* When SetBaudRate reports success, the instrument has switched and its   *)
(* acknowledgement is off the line: the host may retune.                   *)
SwitchDrained ==
  host.at = "idle" /\ host.call.op = BaudOp /\ host.outcome = "success" =>
    /\ instRate = host.call.rate
    /\ burst.calls = <<>> /\ ~reply.pending

(* docs/quickstart.md: the driver sees to the silence of 3.5 characters    *)
(* between frames.  Then at least one of the two it is to see to is there, *)
(* whichever it is: that between a request and the next, or that between   *)
(* the last reply and a request.  No frame of its own lacks the silence on *)
(* both its sides.                                                         *)
ApartFromRequests == Len(burst.calls) <= 1
ApartFromReplies  == ~reply.pending /\ reply.left = 0

FramesApart == burst.calls # <<>> => ApartFromRequests \/ ApartFromReplies

(* DiscoverPresentAddresses: the sweep finds which addresses respond.  A   *)
(* probe with the default probe timeout finds an instrument that responds. *)
ProbeFinds ==
  IsProbe(host.call) /\ host.at = "idle" /\ ~host.disturbed => host.outcome = "success"

(* Why these hold.  How long a request takes until the instrument has      *)
(* noticed its end, and the instrument from there to the end of its reply: *)
(* every call made alone has time for both.                                *)
Takes(c, rate) == RequestBytes(c) * ByteTime(rate) + Gap(rate)

Answers(c, rate) ==
  {turnaround + ReplyBytes(c, refused) * ByteTime(rate) :
     turnaround \in Turnarounds, refused \in BOOLEAN}

Roomy ==
  \A c \in Calls, rate \in BaudRates : (IsProbe(c) => rate \in ProbeRates) =>
    IF c.broadcast
    THEN Takes(c, rate) <= HostPause
    ELSE \A wait \in Waits(c.timeout), answer \in Answers(c, rate) :
           Takes(c, rate) + answer < wait

(* The driver's default timeout for everything but the probes, those at    *)
(* their own default and at 19200 or more; the examples' tick; and an      *)
(* instrument and a host that are quick and patient enough.                *)
Prompt == Turnarounds \subseteq 0..10000

ExampleNumbers ==
  /\ TickMs = 10 /\ Prompt /\ ProbeRates \subseteq 2..5
  /\ \A c \in Calls :
       IF c.broadcast THEN \A rate \in BaudRates : Takes(c, rate) <= HostPause
       ELSE \/ c.timeout = kDefaultTimeoutMs
            \/ c.op = ReadOp /\ c.count = 1 /\ c.timeout = 30

(* A call that waits is on its way, being answered, or in vain.            *)
Sent ==
  /\ burst.calls = <<host.call>> /\ burst.rate = hostRate /\ ~reply.pending
  /\ \A answer \in Answers(host.call, hostRate) : burst.left + answer < host.left
  /\ host.disturbed \/ hostRate = instRate

Answering ==
  /\ burst.calls = <<>> /\ reply.pending /\ reply.call = host.call
  /\ reply.left < host.left
  /\ host.disturbed \/ (hostRate = instRate /\ ~reply.refused /\ ~reply.lost)

InVain == burst.calls = <<>> /\ ~reply.pending /\ host.disturbed

(* Otherwise the line is free, but for the end of a broadcast.             *)
Free ==
  /\ ~reply.pending
  /\ \/ burst.calls = <<>>
     \/ /\ burst.calls = <<host.call>> /\ host.call.broadcast
        /\ burst.left <= IF host.at = "pausing" THEN host.left ELSE 0

WireInv ==
  /\ WireTypeOK /\ SwitchDrained /\ AnsweredInTime
  /\ burst.calls = <<>> => burst.left = 0
  /\ IF host.at = "reading" THEN ~host.call.broadcast /\ (Sent \/ Answering \/ InVain)
     ELSE Free /\ (host.at = "pausing" => host.call.broadcast)

(* And the reverse: a call whose request and reply alone take longer than  *)
(* its timeout reports an error, whatever instruments, ticks, losses and   *)
(* earlier calls there are; late replies to those do not make it succeed.  *)
(* A probe with the driver's default probe timeout is such a call at 4800, *)
(* where DiscoverPresentAddresses therefore finds nobody.                  *)
Scarce(c, rate) ==
  1000 * c.timeout < Takes(c, rate) + ReplyBytes(c, FALSE) * ByteTime(rate)

Hurried ==
  /\ host.call # NoCall /\ host.call.op # BaudOp
  /\ AwaitsReply(host.call) /\ Scarce(host.call, hostRate)

ScarceFails == host.at = "idle" /\ Hurried => host.outcome = "failure"

DefaultProbes == {c \in Call : c.op = ReadOp /\ c.count = 1 /\ c.timeout = 30}

SlowProbesFail ==
  host.at = "idle" /\ hostRate = 0 /\ host.call \in DefaultProbes => host.outcome = "failure"

(* Its inductive form: while the call waits, its request, which is the     *)
(* last on the line, or its reply will take longer than the call.          *)
Late ==
  /\ burst.calls # <<>> =>
       /\ burst.rate = hostRate /\ burst.calls[Len(burst.calls)] = host.call
       /\ host.left < burst.left + ReplyBytes(host.call, FALSE) * ByteTime(hostRate)
  /\ reply.pending /\ ~reply.refused /\ ~reply.lost => host.left < reply.left

ScarceInv ==
  /\ WireTypeOK /\ ScarceFails
  /\ host.at = "reading" /\ Scarce(host.call, hostRate) => Late
  /\ host.at = "pausing" => ~AwaitsReply(host.call)
=============================================================================
