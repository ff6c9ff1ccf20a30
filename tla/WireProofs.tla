----------------------------- MODULE WireProofs -----------------------------
(***************************************************************************)
(* Theorems about Wire: for any calls, turnarounds and tick, wherever each *)
(* call made alone has time for its request and its reply (Roomy).         *)
(***************************************************************************)
EXTENDS Wire, SequenceTheorems, TLAPS

-----------------------------------------------------------------------------
(* Times.                                                                  *)

LEMMA Product ==
  ASSUME NEW m \in Nat, NEW n \in Nat
  PROVE  m * n \in Nat
BY SMT

LEMMA Multiple ==
  ASSUME NEW k \in Nat \ {0}, NEW ms \in Nat, NEW n \in Nat, n <= ms \div k
  PROVE  k * n <= ms
<1>1. k * (ms \div k) <= ms /\ ms \div k \in Nat
  BY SMT
<1>2. k * n <= k * (ms \div k)
  BY <1>1, SMT
<1>3. k * n \in Nat /\ k * (ms \div k) \in Nat
  BY <1>1, Product
<1>. QED
  BY <1>1, <1>2, <1>3, SMT

(* A byte takes between 87 and 2084 microseconds; from 9600 on 1042, from  *)
(* 19200 on 521.                                                           *)
LEMMA ByteTimes ==
  ASSUME NEW rate \in BaudRates
  PROVE  /\ ByteTime(rate) \in Nat /\ ByteTime(rate) >= 87 /\ ByteTime(rate) <= 2084
         /\ rate >= 1 => ByteTime(rate) <= 1042
         /\ rate >= 2 => ByteTime(rate) <= 521
<1>1. rate \in {0, 1, 2, 3, 4, 5}
  BY SMT DEF BaudRates
<1>2. /\ BaudRateToBps(0) = 4800 /\ BaudRateToBps(1) = 9600 /\ BaudRateToBps(2) = 19200
      /\ BaudRateToBps(3) = 38400 /\ BaudRateToBps(4) = 57600 /\ BaudRateToBps(5) = 115200
  BY SMT DEF BaudRateToBps
<1>3. CASE rate = 0
  BY <1>2, <1>3, SMT DEF ByteTime
<1>4. CASE rate = 1
  BY <1>2, <1>4, SMT DEF ByteTime
<1>5. CASE rate = 2
  BY <1>2, <1>5, SMT DEF ByteTime
<1>6. CASE rate = 3
  BY <1>2, <1>6, SMT DEF ByteTime
<1>7. CASE rate = 4
  BY <1>2, <1>7, SMT DEF ByteTime
<1>8. CASE rate = 5
  BY <1>2, <1>8, SMT DEF ByteTime
<1>. QED
  BY <1>1, <1>3, <1>4, <1>5, <1>6, <1>7, <1>8

LEMMA Durations ==
  ASSUME NEW c \in Call, NEW rate \in BaudRates
  PROVE  /\ Takes(c, rate) \in Nat /\ Takes(c, rate) > 0
         /\ Answers(c, rate) \subseteq Nat /\ Answers(c, rate) # {}
         /\ \A refused \in BOOLEAN : ReplyBytes(c, refused) * ByteTime(rate) \in Nat
<1>1. ByteTime(rate) \in Nat /\ ByteTime(rate) > 0
  BY ByteTimes, SMT
<1>2. Gap(rate) \in Nat /\ Gap(rate) > 0
  BY <1>1, SMT DEF Gap
<1>3. c.count \in Nat
  BY SMT DEF Call
<1>4. RequestBytes(c) \in Nat
  BY <1>3, SMT DEF RequestBytes
<1>5. \A refused \in BOOLEAN : ReplyBytes(c, refused) \in Nat
  BY <1>3, SMT DEF ReplyBytes
<1>6. RequestBytes(c) * ByteTime(rate) \in Nat
  BY <1>1, <1>4, Product
<1>7. \A refused \in BOOLEAN : ReplyBytes(c, refused) * ByteTime(rate) \in Nat
  BY <1>1, <1>5, Product
<1>8. Takes(c, rate) \in Nat /\ Takes(c, rate) > 0
  <2>1. \A p, g \in Nat : g > 0 => p + g \in Nat /\ p + g > 0
    BY SMT
  <2>. QED
    BY <1>2, <1>6, <2>1 DEF Takes
<1>9. Answers(c, rate) \subseteq Nat
  <2>1. \A t, p \in Nat : t + p \in Nat
    BY SMT
  <2>. QED
    BY <1>7, <2>1, WireAssumption DEF Answers
<1>10. Answers(c, rate) # {}
  <2>1. PICK turnaround \in Turnarounds, refused \in BOOLEAN : TRUE
    BY WireAssumption
  <2>2. turnaround + ReplyBytes(c, refused) * ByteTime(rate) \in Answers(c, rate)
    BY <2>1, SMT DEF Answers
  <2>. QED
    BY <2>2
<1>. QED
  BY <1>7, <1>8, <1>9, <1>10

(* A wait is no longer than was asked for.                                 *)
LEMMA WaitTimes ==
  ASSUME NEW ms \in Nat, NEW wait \in Waits(ms)
  PROVE  wait \in Nat /\ wait <= 1000 * ms
<1>1. TickMs \in Nat \ {0}
  BY WireAssumption
<1>2. ms \div TickMs \in Nat
  BY <1>1, SMT
<1>3. PICK n \in Nat : wait = 1000 * TickMs * n /\ n <= ms \div TickMs
  <2>1. PICK n : /\ n \in {Ticks(ms), IF Ticks(ms) = 0 THEN 0 ELSE Ticks(ms) - 1}
                 /\ wait = 1000 * TickMs * n
    BY DEF Waits
  <2>2. n \in Nat /\ n <= ms \div TickMs
    BY <1>2, <2>1, SMT DEF Ticks
  <2>. QED
    BY <2>1, <2>2
<1>4. TickMs * n <= ms
  BY <1>1, <1>3, Multiple
<1>5. TickMs * n \in Nat
  BY <1>1, <1>3, Product
<1>6. 1000 * TickMs * n = 1000 * (TickMs * n)
  BY <1>1, <1>3, SMT
<1>. QED
  BY <1>3, <1>4, <1>5, <1>6, SMT

-----------------------------------------------------------------------------
(* The invariant.                                                          *)

LEMMA InitHolds == Init => WireInv
<1>. SUFFICES ASSUME Init PROVE WireInv
  OBVIOUS
<1>1. /\ NoCall.op = ReadOp /\ NoCall.broadcast = FALSE
  BY DEF NoCall
<1>2. /\ host.call = NoCall /\ host.at = "idle" /\ host.left = 0
      /\ host.outcome = "success" /\ host.disturbed = FALSE /\ host \in Host
  BY SMT DEF Init, Host
<1>3. /\ burst.calls = <<>> /\ burst.left = 0 /\ reply.pending = FALSE
      /\ burst \in [calls : Seq(Calls), rate : BaudRates, left : Nat]
  BY SMT DEF Init, NoBurst, NoReply, BaudRates
<1>4. reply \in [call : Calls \cup {NoCall}, refused : BOOLEAN, lost : BOOLEAN,
                 pending : BOOLEAN, left : Nat]
  BY SMT DEF Init, NoReply
<1>5. hostRate \in BaudRates /\ instRate \in BaudRates
  BY WireAssumption DEF Init
<1>6. WireTypeOK
  BY <1>2, <1>3, <1>4, <1>5 DEF WireTypeOK
<1>7. SwitchDrained
  BY <1>1, <1>2 DEF SwitchDrained, ReadOp, BaudOp
<1>. QED
  BY <1>2, <1>3, <1>6, <1>7 DEF WireInv, AnsweredInTime, Free

(* What the driver and the line are like when a call may begin.            *)
LEMMA Silent ==
  ASSUME WireInv, host.at = "idle", 0 \notin Timers
  PROVE  burst.calls = <<>> /\ burst.left = 0 /\ ~reply.pending
<1>1. Free /\ burst.left \in Nat
  BY DEF WireInv, WireTypeOK
<1>2. burst.calls # <<>> => burst.left = 0
  BY <1>1, SMT DEF Free
<1>3. burst.calls = <<>>
  BY <1>2 DEF Timers
<1>. QED
  BY <1>1, <1>3 DEF Free, WireInv

LEMMA StartKeeps ==
  ASSUME Roomy, WireInv, NEW c \in Calls, Start(c)
  PROVE  WireInv'
<1>1. /\ burst.calls = <<>> /\ burst.left = 0 /\ ~reply.pending
  BY Silent DEF Start
<1>2. /\ c \in Call /\ hostRate \in BaudRates /\ c.timeout \in Nat /\ HostPause \in Nat
      /\ c.broadcast \in BOOLEAN
  BY WireAssumption DEF WireInv, WireTypeOK, Call
<1>3. /\ Takes(c, hostRate) \in Nat /\ Takes(c, hostRate) > 0
      /\ Answers(c, hostRate) \subseteq Nat /\ Answers(c, hostRate) # {}
  BY <1>2, Durations
<1>4. /\ burst'.calls = <<c>> /\ burst'.rate = hostRate /\ burst'.left = Takes(c, hostRate)
      /\ burst' \in [calls : Seq(Calls), rate : BaudRates, left : Nat]
  <2>1. Gap(hostRate) \in Nat
    BY <1>2, ByteTimes, SMT DEF Gap
  <2>2. (IF burst.left > Gap(hostRate) THEN burst.left - Gap(hostRate) ELSE 0) = 0
    BY <1>1, <2>1, SMT
  <2>3. Append(burst.calls, c) = <<c>> /\ <<c>> \in Seq(Calls)
    BY <1>1
  <2>4. 0 + RequestBytes(c) * ByteTime(hostRate) + Gap(hostRate) = Takes(c, hostRate)
    <3>1. RequestBytes(c) \in Nat /\ ByteTime(hostRate) \in Nat
      <4>1. ByteTime(hostRate) \in Nat
        BY <1>2, ByteTimes, SMT
      <4>. QED
        BY <1>2, <4>1, SMT DEF RequestBytes, Call
    <3>2. RequestBytes(c) * ByteTime(hostRate) \in Nat
      BY <3>1, Product
    <3>. QED
      BY <2>1, <3>2, SMT DEF Takes
  <2>5. burst' = [calls |-> <<c>>, rate |-> hostRate, left |-> Takes(c, hostRate)]
    BY <2>2, <2>3, <2>4 DEF Start, Written
  <2>. QED
    BY <1>2, <1>3, <2>3, <2>5
<1>5. /\ hostRate' = hostRate /\ instRate' = instRate /\ ~reply'.pending
      /\ reply' \in [call : Calls \cup {NoCall}, refused : BOOLEAN, lost : BOOLEAN,
                     pending : BOOLEAN, left : Nat]
  BY <1>1 DEF Start, WireInv, WireTypeOK
<1>6. IsProbe(c) => hostRate \in ProbeRates
  BY DEF Start
<1>7. CASE c.broadcast
  <2>1. host' = [call |-> c, at |-> "pausing", left |-> HostPause, outcome |-> "success",
                 disturbed |-> FALSE]
    BY <1>7 DEF Start, AwaitsReply
  <2>2. /\ host'.call = c /\ host'.at = "pausing" /\ host'.left = HostPause
        /\ host'.outcome = "success" /\ host' \in Host
    BY <1>2, <2>1, SMT DEF Host
  <2>3. Takes(c, hostRate) <= HostPause
    BY <1>2, <1>6, <1>7 DEF Roomy
  <2>4. WireTypeOK'
    BY <1>2, <1>4, <1>5, <2>2 DEF WireTypeOK, WireInv
  <2>5. Free'
    BY <1>4, <1>5, <1>7, <2>2, <2>3 DEF Free
  <2>. QED
    BY <1>4, <1>7, <2>2, <2>4, <2>5 DEF WireInv, SwitchDrained, AnsweredInTime
<1>8. CASE ~c.broadcast
  <2>1. PICK wait \in Waits(c.timeout) :
          host' = [call |-> c, at |-> "reading", left |-> wait, outcome |-> "pending",
                   disturbed |-> hostRate # instRate]
    BY <1>8 DEF Start, AwaitsReply
  <2>2. wait \in Nat /\ wait <= 1000 * c.timeout
    BY <1>2, WaitTimes
  <2>3. /\ host'.call = c /\ host'.at = "reading" /\ host'.left = wait
        /\ host'.disturbed = (hostRate # instRate) /\ host' \in Host
    BY <1>2, <2>1, <2>2, SMT DEF Host
  <2>4. \A answer \in Answers(c, hostRate) : Takes(c, hostRate) + answer < wait
    BY <1>2, <1>6, <1>8 DEF Roomy
  <2>5. WireTypeOK'
    BY <1>2, <1>4, <1>5, <2>2, <2>3 DEF WireTypeOK, WireInv
  <2>6. Sent'
    BY <1>4, <1>5, <2>3, <2>4 DEF Sent
  <2>. QED
    BY <1>4, <1>8, <2>3, <2>5, <2>6 DEF WireInv, SwitchDrained, AnsweredInTime
<1>. QED
  BY <1>2, <1>7, <1>8

(* A call that is still on its way or being answered has time left.        *)
LEMMA TimeLeft ==
  ASSUME WireInv, host.at = "reading", Sent \/ Answering
  PROVE  host.left > 0 /\ (Sent => burst.left < host.left)
<1>1. /\ host.call \in Call /\ hostRate \in BaudRates /\ host.left \in Nat /\ burst.left \in Nat
      /\ reply.left \in Nat
  <2>1. NoCall \in Call
    BY SMT DEF NoCall, Call, BaudRates, ReadOp, MultiOp, WriteOp, BaudOp
  <2>2. host.call \in Calls \cup {NoCall} /\ host.left \in Nat
    BY DEF WireInv, WireTypeOK, Host
  <2>3. hostRate \in BaudRates /\ burst.left \in Nat /\ reply.left \in Nat
    BY DEF WireInv, WireTypeOK
  <2>. QED
    BY <2>1, <2>2, <2>3, WireAssumption
<1>2. CASE Sent
  <2>1. Answers(host.call, hostRate) \subseteq Nat /\ Answers(host.call, hostRate) # {}
    BY <1>1, Durations
  <2>2. PICK answer \in Answers(host.call, hostRate) : answer \in Nat
    BY <2>1
  <2>3. burst.left + answer < host.left
    BY <1>2, <2>2 DEF Sent
  <2>. QED
    BY <1>1, <2>2, <2>3, SMT
<1>3. CASE Answering
  <2>1. burst.calls = <<>> /\ reply.left < host.left
    BY <1>3 DEF Answering
  <2>2. ~Sent
    BY <2>1 DEF Sent
  <2>. QED
    BY <1>1, <2>1, <2>2, SMT
<1>. QED
  BY <1>2, <1>3

LEMMA ExpireKeeps ==
  ASSUME WireInv, Expire
  PROVE  WireInv'
<1>1. /\ host.at = "reading" /\ host.left = 0 /\ ~host.call.broadcast
      /\ host' = [host EXCEPT !.at = "idle", !.outcome = "failure"] /\ host \in Host
      /\ UNCHANGED <<hostRate, burst, instRate, reply>>
  BY DEF Expire, WireInv, WireTypeOK
<1>2. InVain
  <2>1. ~(host.left > 0)
    BY <1>1, SMT
  <2>. QED
    BY <1>1, <2>1, TimeLeft DEF WireInv
<1>3. /\ host'.at = "idle" /\ host'.outcome = "failure" /\ host'.disturbed = host.disturbed
      /\ host' \in Host
  <2>1. [host EXCEPT !.at = "idle"] \in Host
    BY <1>1 DEF Host
  <2>2. host' = [[host EXCEPT !.at = "idle"] EXCEPT !.outcome = "failure"]
    BY <1>1 DEF Host
  <2>. QED
    BY <1>1, <2>1, <2>2 DEF Host
<1>4. WireTypeOK'
  BY <1>1, <1>3 DEF WireTypeOK, WireInv
<1>5. Free'
  BY <1>1, <1>2, <1>3 DEF Free, InVain
<1>. QED
  BY <1>1, <1>2, <1>3, <1>4, <1>5 DEF WireInv, SwitchDrained, AnsweredInTime, InVain

LEMMA ResumeKeeps ==
  ASSUME WireInv, Resume
  PROVE  WireInv'
<1>1. /\ host.at = "pausing" /\ host.left = 0 /\ host.call.broadcast /\ Free
      /\ host' = [host EXCEPT !.at = "idle"] /\ host \in Host
      /\ UNCHANGED <<hostRate, burst, instRate, reply>>
  BY DEF Resume, WireInv, WireTypeOK
<1>2. /\ host'.at = "idle" /\ host'.outcome = host.outcome /\ host'.disturbed = host.disturbed
      /\ host'.call = host.call /\ host' \in Host
  BY <1>1, SMT DEF Host
<1>3. WireTypeOK'
  BY <1>1, <1>2 DEF WireTypeOK, WireInv
<1>4. Free'
  BY <1>1, <1>2 DEF Free
<1>5. host.call.op # BaudOp
  <2>1. host.call \in Calls \/ host.call = NoCall
    BY <1>1 DEF Host
  <2>. QED
    BY <1>1, <2>1, WireAssumption DEF NoCall, MultiOp, WriteOp, BaudOp
<1>. QED
  BY <1>1, <1>2, <1>3, <1>4, <1>5 DEF WireInv, SwitchDrained, AnsweredInTime

LEMMA RetuneKeeps ==
  ASSUME WireInv, Retune
  PROVE  WireInv'
<1>1. /\ host.at = "idle" /\ hostRate' = host.call.rate
      /\ UNCHANGED <<host, burst, instRate, reply>>
  BY DEF Retune
<1>2. host.call.rate \in BaudRates
  <2>1. host.call \in Calls \/ host.call = NoCall
    BY DEF WireInv, WireTypeOK, Host
  <2>2. 0 \in BaudRates
    BY SMT DEF BaudRates
  <2>. QED
    BY <2>1, <2>2, WireAssumption DEF NoCall, Call
<1>. QED
  BY <1>1, <1>2 DEF WireInv, WireTypeOK, SwitchDrained, AnsweredInTime, Free

LEMMA DelimitKeeps ==
  ASSUME WireInv, Delimit
  PROVE  WireInv'
<1>. DEFINE c == burst.calls[1]
            audible == Len(burst.calls) = 1 /\ burst.rate = instRate /\ ~reply.pending
<1>1. /\ burst.calls # <<>> /\ burst.left = 0 /\ burst' = NoBurst
      /\ UNCHANGED <<hostRate, instRate>>
      /\ IF audible /\ ~c.broadcast
         THEN \E heard, refused, lost \in BOOLEAN, turnaround \in Turnarounds :
                /\ reply' = IF heard
                            THEN [call |-> c, refused |-> refused, lost |-> lost, pending |-> TRUE,
                                  left |-> turnaround
                                           + ReplyBytes(c, refused) * ByteTime(instRate)]
                            ELSE reply
                /\ host' = [host EXCEPT !.disturbed = @ \/ ~heard \/ refused \/ lost]
         ELSE UNCHANGED <<reply, host>>
  BY DEF Delimit
<1>2. /\ burst'.calls = <<>> /\ burst'.left = 0
      /\ burst' \in [calls : Seq(Calls), rate : BaudRates, left : Nat]
  BY <1>1, SMT DEF NoBurst, BaudRates
<1>3. /\ host \in Host /\ hostRate \in BaudRates /\ instRate \in BaudRates
      /\ reply \in [call : Calls \cup {NoCall}, refused : BOOLEAN, lost : BOOLEAN,
                    pending : BOOLEAN, left : Nat]
      /\ host.at = "reading" => host.left <= 1000 * host.call.timeout
  BY DEF WireInv, WireTypeOK
<1>4. burst.calls = <<host.call>> /\ c = host.call /\ ~reply.pending
  BY <1>1 DEF WireInv, Sent, Answering, InVain, Free
<1>5. c \in Calls
  <2>1. burst.calls \in Seq(Calls)
    BY DEF WireInv, WireTypeOK
  <2>2. Len(burst.calls) = 1
    BY <1>4
  <2>. QED
    BY <2>1, <2>2, ElementOfSeq
<1>6. CASE host.at # "reading"
  <2>1. c.broadcast
    BY <1>1, <1>4, <1>6 DEF WireInv, Free
  <2>2. reply' = reply /\ host' = host
    BY <1>1, <2>1
  <2>3. WireTypeOK'
    BY <1>1, <1>2, <1>3, <2>2 DEF WireTypeOK
  <2>4. Free' /\ ~reply'.pending
    BY <1>2, <1>4, <2>2 DEF Free
  <2>. QED
    BY <1>1, <1>2, <1>6, <2>2, <2>3, <2>4 DEF WireInv, SwitchDrained, AnsweredInTime
<1>7. CASE host.at = "reading"
  <2>1. Sent /\ ~c.broadcast
    BY <1>1, <1>4, <1>7 DEF WireInv, Answering, InVain
  <2>2. CASE ~audible
    <3>1. reply' = reply /\ host' = host
      BY <1>1, <2>2
    <3>2. host.disturbed
      <4>1. Len(burst.calls) = 1
        BY <1>4
      <4>. QED
        BY <1>4, <2>1, <2>2, <4>1 DEF Sent
    <3>3. WireTypeOK'
      BY <1>1, <1>2, <1>3, <3>1 DEF WireTypeOK
    <3>4. InVain'
      BY <1>2, <1>4, <3>1, <3>2 DEF InVain
    <3>. QED
      BY <1>1, <1>2, <1>4, <1>7, <2>1, <3>1, <3>3, <3>4
         DEF WireInv, SwitchDrained, AnsweredInTime
  <2>3. CASE audible
    <3>1. PICK heard \in BOOLEAN, refused \in BOOLEAN, lost \in BOOLEAN,
               turnaround \in Turnarounds :
            /\ reply' = IF heard
                        THEN [call |-> c, refused |-> refused, lost |-> lost, pending |-> TRUE,
                              left |-> turnaround + ReplyBytes(c, refused) * ByteTime(instRate)]
                        ELSE reply
            /\ host' = [host EXCEPT !.disturbed = @ \/ ~heard \/ refused \/ lost]
      BY <1>1, <2>1, <2>3
    <3>2. instRate = hostRate
      BY <2>1, <2>3 DEF Sent
    <3>. DEFINE answer == turnaround + ReplyBytes(c, refused) * ByteTime(instRate)
    <3>3. answer \in Answers(host.call, hostRate)
      BY <1>4, <3>2 DEF Answers
    <3>4. answer \in Nat
      BY <1>3, <1>4, <1>5, <3>3, Durations, WireAssumption
    <3>5. answer < host.left
      <4>1. burst.left + answer < host.left
        BY <2>1, <3>3 DEF Sent
      <4>2. host.left \in Nat
        BY <1>3 DEF Host
      <4>. HIDE DEF answer
      <4>. QED
        BY <1>1, <3>4, <4>1, <4>2, SMT
    <3>. HIDE DEF answer
    <3>6. /\ host'.at = "reading" /\ host'.call = host.call /\ host'.left = host.left
          /\ host'.disturbed = (host.disturbed \/ ~heard \/ refused \/ lost)
          /\ host' \in Host
      <4>1. PICK v : v = (host.disturbed \/ ~heard \/ refused \/ lost)
        OBVIOUS
      <4>2. v \in BOOLEAN
        BY <4>1
      <4>3. host' = [host EXCEPT !.disturbed = v]
        BY <3>1, <4>1, Zenon
      <4>4. /\ host'.at = "reading" /\ host'.call = host.call /\ host'.left = host.left
            /\ host'.disturbed = v /\ host' \in Host
        BY <1>3, <1>7, <4>2, <4>3 DEF Host
      <4>. QED
        BY <4>1, <4>4, Zenon
    <3>7. CASE heard
      <4>1. reply' = [call |-> c, refused |-> refused, lost |-> lost, pending |-> TRUE,
                      left |-> answer]
        BY <3>1, <3>7 DEF answer
      <4>2. WireTypeOK'
        <5>1. reply' \in [call : Calls \cup {NoCall}, refused : BOOLEAN, lost : BOOLEAN,
                          pending : BOOLEAN, left : Nat]
          BY <1>5, <3>4, <4>1
        <5>. QED
          BY <1>1, <1>2, <1>3, <1>7, <3>6, <5>1 DEF WireTypeOK
      <4>3. Answering'
        BY <1>1, <1>2, <1>4, <3>2, <3>5, <3>6, <4>1 DEF Answering
      <4>. QED
        BY <1>2, <1>4, <2>1, <3>6, <4>2, <4>3 DEF WireInv, SwitchDrained, AnsweredInTime
    <3>8. CASE ~heard
      <4>1. reply' = reply /\ host'.disturbed
        BY <3>1, <3>6, <3>8
      <4>2. WireTypeOK'
        BY <1>1, <1>2, <1>3, <1>7, <3>6, <4>1 DEF WireTypeOK
      <4>3. InVain'
        BY <1>2, <1>4, <4>1 DEF InVain
      <4>. QED
        BY <1>2, <1>4, <2>1, <3>6, <4>2, <4>3 DEF WireInv, SwitchDrained, AnsweredInTime
    <3>. QED
      BY <3>7, <3>8
  <2>. QED
    BY <2>2, <2>3
<1>. QED
  BY <1>6, <1>7

LEMMA AnswerKeeps ==
  ASSUME WireInv, Answer
  PROVE  WireInv'
<1>1. /\ reply.pending /\ reply' = [NoReply EXCEPT !.left = Gap(instRate)]
      /\ UNCHANGED <<hostRate, burst>>
      /\ instRate' = IF reply.call.op = BaudOp /\ ~reply.refused THEN reply.call.rate
                     ELSE instRate
      /\ \/ /\ host.at = "reading" /\ hostRate = instRate /\ ~reply.refused
            /\ host' = [host EXCEPT !.at = "idle",
                                   !.outcome = IF reply.lost THEN "failure" ELSE "success"]
         \/ /\ host.at # "reading" \/ hostRate # instRate \/ reply.refused \/ reply.lost
            /\ UNCHANGED host
  BY DEF Answer
<1>2. host.at = "reading" /\ Answering /\ ~host.call.broadcast
  BY <1>1 DEF WireInv, Sent, InVain, Free
<1>3. /\ ~reply'.pending
      /\ reply' \in [call : Calls \cup {NoCall}, refused : BOOLEAN, lost : BOOLEAN,
                     pending : BOOLEAN, left : Nat]
  <2>1. Gap(instRate) \in Nat
    <3>1. ByteTime(instRate) \in Nat
      BY ByteTimes DEF WireInv, WireTypeOK
    <3>. QED
      BY <3>1, SMT DEF Gap
  <2>2. /\ NoReply \in [call : Calls \cup {NoCall}, refused : BOOLEAN, lost : BOOLEAN,
                         pending : BOOLEAN, left : Nat]
        /\ ~NoReply.pending
    BY DEF NoReply
  <2>. QED
    BY <1>1, <2>1, <2>2
<1>4. instRate' \in BaudRates
  <2>1. reply.call \in Calls \/ reply.call = NoCall
    BY DEF WireInv, WireTypeOK
  <2>2. 0 \in BaudRates
    BY SMT DEF BaudRates
  <2>3. reply.call.rate \in BaudRates
    BY <2>1, <2>2, WireAssumption DEF NoCall, Call
  <2>. QED
    BY <1>1, <2>3 DEF WireInv, WireTypeOK
<1>5. host \in Host /\ burst.calls = <<>>
  BY <1>2 DEF WireInv, WireTypeOK, Answering
<1>6. CASE UNCHANGED host
  <2>1. host.disturbed
    <3>1. CASE host.at # "reading" \/ hostRate # instRate \/ reply.refused \/ reply.lost
      BY <1>2, <3>1 DEF Answering
    <3>2. CASE host' = [host EXCEPT !.at = "idle",
                                   !.outcome = IF reply.lost THEN "failure" ELSE "success"]
      <4>1. host'.at = "idle"
        BY <1>5, <3>2 DEF Host
      <4>. QED
        BY <1>2, <1>6, <4>1
    <3>. QED
      BY <1>1, <3>1, <3>2
  <2>2. WireTypeOK'
    BY <1>1, <1>3, <1>4, <1>6 DEF WireInv, WireTypeOK
  <2>3. InVain'
    BY <1>1, <1>3, <1>5, <1>6, <2>1 DEF InVain
  <2>. QED
    BY <1>1, <1>2, <1>6, <2>2, <2>3 DEF WireInv, SwitchDrained, AnsweredInTime
<1>7. CASE /\ ~reply.refused
           /\ host' = [host EXCEPT !.at = "idle",
                                  !.outcome = IF reply.lost THEN "failure" ELSE "success"]
  <2>1. /\ host'.at = "idle" /\ host'.call = host.call
        /\ host'.outcome = IF reply.lost THEN "failure" ELSE "success"
        /\ host'.disturbed = host.disturbed
    BY <1>5, <1>7 DEF Host
  <2>2. host' \in Host
    <3>1. PICK outcome \in {"success", "failure"} :
            outcome = IF reply.lost THEN "failure" ELSE "success"
      OBVIOUS
    <3>2. host' = [[host EXCEPT !.at = "idle"] EXCEPT !.outcome = outcome]
      BY <1>5, <1>7, <3>1 DEF Host
    <3>3. [host EXCEPT !.at = "idle"] \in Host
      BY <1>5 DEF Host
    <3>. QED
      BY <3>1, <3>2, <3>3 DEF Host
  <2>3. WireTypeOK'
    BY <1>1, <1>3, <1>4, <2>1, <2>2 DEF WireInv, WireTypeOK
  <2>4. Free'
    BY <1>1, <1>3, <1>5 DEF Free
  <2>5. AnsweredInTime'
    BY <1>2, <2>1 DEF AnsweredInTime, Answering
  <2>6. SwitchDrained'
    BY <1>1, <1>2, <1>3, <1>5, <1>7, <2>1 DEF SwitchDrained, Answering
  <2>. QED
    BY <1>1, <2>1, <2>3, <2>4, <2>5, <2>6 DEF WireInv
<1>. QED
  BY <1>1, <1>6, <1>7

(* Advance takes every time down by the least one that is running.         *)
LEMMA Least ==
  ASSUME NEW S, NEW x \in Nat, NEW y \in Nat, NEW z \in Nat,
         S \subseteq {x, y, z}, S # {}
  PROVE  \E t \in S : \A u \in S : t <= u
<1>1. ASSUME NEW a \in Nat, NEW b \in Nat, NEW c \in Nat, S \subseteq {a, b, c}, a <= b, b <= c
      PROVE  \E t \in S : \A u \in S : t <= u
  <2>1. CASE a \in S
    BY <1>1, <2>1
  <2>2. CASE a \notin S /\ b \in S
    BY <1>1, <2>2
  <2>3. CASE a \notin S /\ b \notin S
    <3>1. PICK e \in S : TRUE
      OBVIOUS
    <3>2. S = {c}
      BY <1>1, <2>3, <3>1
    <3>. QED
      BY <3>2
  <2>. QED
    BY <2>1, <2>2, <2>3
<1>2. \/ x <= y /\ y <= z
      \/ x <= z /\ z <= y
      \/ y <= x /\ x <= z
      \/ y <= z /\ z <= x
      \/ z <= x /\ x <= y
      \/ z <= y /\ y <= x
  BY SMT
<1>3. /\ S \subseteq {x, z, y} /\ S \subseteq {y, x, z} /\ S \subseteq {y, z, x}
      /\ S \subseteq {z, x, y} /\ S \subseteq {z, y, x}
  OBVIOUS
<1>. QED
  BY <1>1, <1>2, <1>3, Zenon

LEMMA Earliest ==
  ASSUME WireTypeOK, Advance
  PROVE  \E d \in Nat :
           /\ d > 0
           /\ host.at # "idle" => d <= host.left
           /\ burst.calls # <<>> => d <= burst.left
           /\ reply.pending => d <= reply.left
           /\ host' = [host EXCEPT !.left = IF @ > d THEN @ - d ELSE 0]
           /\ burst' = [burst EXCEPT !.left = IF @ > d THEN @ - d ELSE 0]
           /\ reply' = [reply EXCEPT !.left = IF @ > d THEN @ - d ELSE 0]
<1>. DEFINE d == CHOOSE t \in Timers : \A u \in Timers : t <= u
<1>1. host.left \in Nat /\ burst.left \in Nat /\ reply.left \in Nat
  BY DEF WireTypeOK, Host
<1>2. Timers \subseteq {host.left, burst.left, reply.left} /\ Timers # {} /\ 0 \notin Timers
  BY DEF Timers, Advance
<1>3. d \in Timers /\ \A u \in Timers : d <= u
  BY <1>1, <1>2, Least
<1>4. d \in Nat /\ d > 0
  BY <1>1, <1>2, <1>3
<1>5. /\ host' = [host EXCEPT !.left = IF @ > d THEN @ - d ELSE 0]
      /\ burst' = [burst EXCEPT !.left = IF @ > d THEN @ - d ELSE 0]
      /\ reply' = [reply EXCEPT !.left = IF @ > d THEN @ - d ELSE 0]
  BY DEF Advance
<1>. HIDE DEF d
<1>6. /\ host.at # "idle" => d <= host.left
      /\ burst.calls # <<>> => d <= burst.left
      /\ reply.pending => d <= reply.left
  BY <1>3 DEF Timers
<1>. QED
  BY <1>4, <1>5, <1>6

LEMMA AdvanceKeeps ==
  ASSUME WireInv, Advance
  PROVE  WireInv'
<1>1. /\ host \in Host /\ burst \in [calls : Seq(Calls), rate : BaudRates, left : Nat]
      /\ reply \in [call : Calls \cup {NoCall}, refused : BOOLEAN, lost : BOOLEAN,
                    pending : BOOLEAN, left : Nat]
      /\ host.left \in Nat /\ burst.left \in Nat /\ reply.left \in Nat
      /\ host.at = "reading" => host.left <= 1000 * host.call.timeout
      /\ WireTypeOK
  BY DEF WireInv, WireTypeOK, Host
<1>2. PICK d \in Nat :
        /\ d > 0
        /\ host.at # "idle" => d <= host.left
        /\ burst.calls # <<>> => d <= burst.left
        /\ reply.pending => d <= reply.left
        /\ host' = [host EXCEPT !.left = IF @ > d THEN @ - d ELSE 0]
        /\ burst' = [burst EXCEPT !.left = IF @ > d THEN @ - d ELSE 0]
        /\ reply' = [reply EXCEPT !.left = IF @ > d THEN @ - d ELSE 0]
  BY <1>1, Earliest
<1>3. UNCHANGED <<hostRate, instRate>>
  BY DEF Advance
<1>4. PICK h \in Nat, b \in Nat, r \in Nat :
        /\ h = IF host.left > d THEN host.left - d ELSE 0
        /\ b = IF burst.left > d THEN burst.left - d ELSE 0
        /\ r = IF reply.left > d THEN reply.left - d ELSE 0
  BY <1>1, <1>2, SMT
<1>5. /\ h <= host.left
      /\ host.at # "idle" => h = host.left - d
      /\ burst.left = 0 => b = 0
      /\ burst.calls # <<>> => b = burst.left - d
      /\ reply.pending => r = reply.left - d
  BY <1>1, <1>2, <1>4, SMT
<1>6. /\ host' = [host EXCEPT !.left = h] /\ burst' = [burst EXCEPT !.left = b]
      /\ reply' = [reply EXCEPT !.left = r]
  BY <1>2, <1>4, Zenon
<1>7. /\ host' \in Host /\ host'.left = h /\ host'.call = host.call /\ host'.at = host.at
      /\ host'.outcome = host.outcome /\ host'.disturbed = host.disturbed
  BY <1>1, <1>6, SMTT(30) DEF Host
<1>8. /\ burst' \in [calls : Seq(Calls), rate : BaudRates, left : Nat]
      /\ burst'.calls = burst.calls /\ burst'.rate = burst.rate /\ burst'.left = b
  BY <1>1, <1>6
<1>9. /\ reply' \in [call : Calls \cup {NoCall}, refused : BOOLEAN, lost : BOOLEAN,
                     pending : BOOLEAN, left : Nat]
      /\ reply'.pending = reply.pending /\ reply'.call = reply.call
      /\ reply'.refused = reply.refused /\ reply'.lost = reply.lost /\ reply'.left = r
  BY <1>1, <1>6
<1>10. WireTypeOK'
  <2>1. host'.at = "reading" => host'.left <= 1000 * host'.call.timeout
    <3>1. host.at = "reading" => 1000 * host.call.timeout \in Int
      <4>1. NoCall.timeout \in Nat /\ \A c \in Calls : c.timeout \in Nat
        BY WireAssumption DEF NoCall, Call
      <4>2. host.call.timeout \in Nat
        BY <1>1, <4>1 DEF Host
      <4>. QED
        BY <4>2
    <3>. QED
      BY <1>1, <1>5, <1>7, <3>1
  <2>. QED
    BY <1>1, <1>3, <1>7, <1>8, <1>9, <2>1 DEF WireTypeOK
<1>11. SwitchDrained' /\ AnsweredInTime'
  BY <1>3, <1>7, <1>8, <1>9 DEF WireInv, SwitchDrained, AnsweredInTime
<1>12. burst'.calls = <<>> => burst'.left = 0
  BY <1>5, <1>8 DEF WireInv
<1>13. ASSUME host.at = "reading", Sent PROVE Sent'
  <2>1. ASSUME NEW answer \in Answers(host.call, hostRate)
        PROVE  b + answer < h
    <3>1. burst.left + answer < host.left /\ burst.calls # <<>>
      BY <1>13, <2>1 DEF Sent
    <3>2. answer \in Nat
      <4>1. host.call \in Calls
        <5>1. Len(burst.calls) = 1 /\ burst.calls[1] = host.call
          BY <1>13 DEF Sent
        <5>. QED
          BY <1>1, <5>1, ElementOfSeq
      <4>2. host.call \in Call /\ hostRate \in BaudRates
        BY <1>1, <4>1, WireAssumption DEF WireTypeOK
      <4>. QED
        BY <2>1, <4>2, Durations
    <3>. QED
      BY <1>1, <1>2, <1>5, <1>13, <3>1, <3>2, SMT
  <2>. QED
    BY <1>3, <1>7, <1>8, <1>9, <1>13, <2>1 DEF Sent
<1>14. ASSUME host.at = "reading", Answering PROVE Answering'
  <2>1. reply.pending /\ reply.left < host.left
    BY <1>14 DEF Answering
  <2>2. r < h
    BY <1>1, <1>2, <1>5, <1>14, <2>1, SMT
  <2>. QED
    BY <1>3, <1>7, <1>8, <1>9, <1>14, <2>2 DEF Answering
<1>15. InVain => InVain'
  BY <1>7, <1>8, <1>9 DEF InVain
<1>16. Free => Free'
  <2>1. ASSUME burst.calls # <<>>, burst.left <= IF host.at = "pausing" THEN host.left ELSE 0
        PROVE  b <= IF host.at = "pausing" THEN h ELSE 0
    BY <1>1, <1>2, <1>5, <2>1, SMT
  <2>. QED
    BY <1>7, <1>8, <1>9, <2>1 DEF Free
<1>. QED
  BY <1>7, <1>10, <1>11, <1>12, <1>13, <1>14, <1>15, <1>16 DEF WireInv

LEMMA Inductive == Roomy /\ WireInv /\ [Next]_vars => WireInv'
<1>1. ASSUME WireInv, UNCHANGED vars PROVE WireInv'
  BY <1>1 DEF vars, WireInv, WireTypeOK, SwitchDrained, AnsweredInTime, Sent, Answering, InVain,
              Free
<1>. QED
  BY <1>1, StartKeeps, ExpireKeeps, ResumeKeeps, RetuneKeeps, DelimitKeeps, AnswerKeeps,
     AdvanceKeeps, Zenon DEF Next

(* The invariant: on the line there is nothing but the one call, and the   *)
(* times to go leave room for it, whatever is lost, refused or damaged and *)
(* whichever rates host and instrument have got to.                        *)
THEOREM WireInvHolds ==
  ASSUME Roomy
  PROVE  Spec => []WireInv
<1>1. WireInv /\ [Next]_vars => WireInv'
  BY Inductive
<1>. QED
  BY InitHolds, <1>1, PTL DEF Spec

-----------------------------------------------------------------------------
(* What follows.                                                           *)

(* When a call with the default timeout returns, neither its request nor a *)
(* reply to it is under way.                                               *)
THEOREM SettledAtReturnHolds ==
  ASSUME Roomy
  PROVE  Spec => []SettledAtReturn
<1>1. WireInv => SettledAtReturn
  BY DEF WireInv, SettledAtReturn, Free
<1>. QED
  BY <1>1, WireInvHolds, PTL

(* A call that the instrument hears and answers at the host's rate         *)
(* succeeds.                                                               *)
THEOREM AnsweredInTimeHolds ==
  ASSUME Roomy
  PROVE  Spec => []AnsweredInTime
<1>1. WireInv => AnsweredInTime
  BY DEF WireInv
<1>. QED
  BY <1>1, WireInvHolds, PTL

(* A change of rate is over when SetBaudRate reports success.              *)
THEOREM SwitchDrainedHolds ==
  ASSUME Roomy
  PROVE  Spec => []SwitchDrained
<1>1. WireInv => SwitchDrained
  BY DEF WireInv
<1>. QED
  BY <1>1, WireInvHolds, PTL

-----------------------------------------------------------------------------
(* The numbers of the driver leave room.                                   *)

LEMMA LargerProduct ==
  ASSUME NEW m \in Nat, NEW n \in Nat, NEW x \in Nat, NEW y \in Nat, m <= x, n <= y
  PROVE  m * n <= x * y
<1>1. x * y - m * n = (x - m) * y + m * (y - n)
  BY SMT
<1>2. x - m \in Nat /\ y - n \in Nat
  BY SMT
<1>3. (x - m) * y \in Nat /\ m * (y - n) \in Nat /\ m * n \in Nat /\ x * y \in Nat
  BY <1>2, Product
<1>. QED
  BY <1>1, <1>3, SMT

(* A call takes no longer than all its bytes at the slowest rate, two of   *)
(* silence with them, and the turnaround.                                  *)
LEMMA CallTakes ==
  ASSUME NEW c \in Call, NEW rate \in BaudRates, NEW answer \in Answers(c, rate),
         NEW longest \in Nat, Turnarounds \subseteq 0..longest,
         NEW bytes \in Nat, NEW slowest \in Nat, ByteTime(rate) <= slowest,
         \A refused \in BOOLEAN : RequestBytes(c) + ReplyBytes(c, refused) <= bytes
  PROVE  Takes(c, rate) + answer <= bytes * slowest + (7 * slowest + 1) \div 2 + longest
<1>1. PICK turnaround \in Turnarounds, refused \in BOOLEAN :
        answer = turnaround + ReplyBytes(c, refused) * ByteTime(rate)
  BY DEF Answers
<1>2. ByteTime(rate) \in Nat
  BY ByteTimes, SMT
<1>3. c.count \in Nat
  BY SMT DEF Call
<1>4. RequestBytes(c) \in Nat /\ ReplyBytes(c, refused) \in Nat
  BY <1>3, SMT DEF RequestBytes, ReplyBytes
<1>5. (RequestBytes(c) + ReplyBytes(c, refused)) * ByteTime(rate) <= bytes * slowest
  <2>1. RequestBytes(c) + ReplyBytes(c, refused) \in Nat
    BY <1>4
  <2>. QED
    BY <1>2, <2>1, LargerProduct
<1>6. (RequestBytes(c) + ReplyBytes(c, refused)) * ByteTime(rate)
        = RequestBytes(c) * ByteTime(rate) + ReplyBytes(c, refused) * ByteTime(rate)
  <2>1. \A k, m, n \in Nat : (k + m) * n = k * n + m * n
    BY SMT
  <2>. QED
    BY <1>2, <1>4, <2>1
<1>7. Gap(rate) \in Nat /\ Gap(rate) <= (7 * slowest + 1) \div 2
  BY <1>2, SMT DEF Gap
<1>8. turnaround \in Nat /\ turnaround <= longest
  BY WireAssumption
<1>9. /\ RequestBytes(c) * ByteTime(rate) \in Nat
      /\ ReplyBytes(c, refused) * ByteTime(rate) \in Nat
      /\ bytes * slowest \in Nat
      /\ (7 * slowest + 1) \div 2 \in Int
  BY <1>2, <1>4, Product
<1>. QED
  BY <1>1, <1>5, <1>6, <1>7, <1>8, <1>9, SMT DEF Takes

(* The timeouts of the driver, with the examples' tick, are long enough    *)
(* for every call it makes, the longest at the slowest rate included, if   *)
(* an instrument begins its reply within 10 ms and the host waits out its  *)
(* broadcasts.                                                             *)
THEOREM ExampleNumbersAreRoomy == ExampleNumbers => Roomy
<1>. SUFFICES ASSUME ExampleNumbers, NEW c \in Calls, NEW rate \in BaudRates,
                     IsProbe(c) => rate \in ProbeRates,
                     ~c.broadcast,
                     NEW wait \in Waits(c.timeout), NEW answer \in Answers(c, rate)
              PROVE  Takes(c, rate) + answer < wait
  BY DEF Roomy, ExampleNumbers
<1>1. c \in Call /\ c.op \in {ReadOp, MultiOp, WriteOp, BaudOp} /\ c.count \in 1..32
  BY WireAssumption DEF Call
<1>2. TickMs = 10 /\ ProbeRates \subseteq 2..5
  BY SMT DEF ExampleNumbers
<1>3. /\ ReadOp # MultiOp /\ WriteOp # MultiOp /\ BaudOp # MultiOp
  BY DEF ReadOp, MultiOp, WriteOp, BaudOp
<1>4. ByteTime(rate) \in Nat /\ ByteTime(rate) <= 2084 /\ (rate >= 2 => ByteTime(rate) <= 521)
  BY ByteTimes, SMT
<1>5. Takes(c, rate) \in Nat /\ answer \in Nat
  BY <1>1, Durations
<1>6. CASE c.timeout = 200
  <2>1. wait \in {200000, 190000}
    BY <1>2, <1>6, SMT DEF Waits, Ticks
  <2>2. \A refused \in BOOLEAN : RequestBytes(c) + ReplyBytes(c, refused) <= 81
    BY <1>1, <1>3, SMT DEF RequestBytes, ReplyBytes
  <2>3. Takes(c, rate) + answer <= 81 * 2084 + (7 * 2084 + 1) \div 2 + 10000
    <3>. DEFINE bytes == 81  slowest == 2084  longest == 10000
    <3>1. bytes \in Nat /\ slowest \in Nat /\ longest \in Nat /\ ByteTime(rate) <= slowest
      BY <1>4, SMT
    <3>2. Turnarounds \subseteq 0..longest
      BY SMT DEF ExampleNumbers, Prompt
    <3>3. \A refused \in BOOLEAN : RequestBytes(c) + ReplyBytes(c, refused) <= bytes
      BY <2>2, Zenon
    <3>. HIDE DEF bytes, slowest, longest
    <3>4. Takes(c, rate) + answer <= bytes * slowest + (7 * slowest + 1) \div 2 + longest
      BY <1>1, <3>1, <3>2, <3>3, CallTakes
    <3>. QED
      BY <3>4, SMT DEF bytes, slowest, longest
  <2>. QED
    BY <1>5, <2>1, <2>3, SMT
<1>7. CASE c.op = ReadOp /\ c.count = 1 /\ c.timeout = 30
  <2>1. wait \in {30000, 20000}
    BY <1>2, <1>7, SMT DEF Waits, Ticks
  <2>2. \A refused \in BOOLEAN : RequestBytes(c) + ReplyBytes(c, refused) <= 15
    BY <1>3, <1>7, SMT DEF RequestBytes, ReplyBytes
  <2>3. ByteTime(rate) <= 521
    <3>1. IsProbe(c)
      BY <1>7, SMT DEF IsProbe, kDefaultTimeoutMs
    <3>2. rate \in 2..5
      BY <1>2, <3>1
    <3>. QED
      BY <1>4, <3>2, SMT
  <2>4. Takes(c, rate) + answer <= 15 * 521 + (7 * 521 + 1) \div 2 + 10000
    <3>. DEFINE bytes == 15  slowest == 521  longest == 10000
    <3>1. bytes \in Nat /\ slowest \in Nat /\ longest \in Nat /\ ByteTime(rate) <= slowest
      BY <2>3, SMT
    <3>2. Turnarounds \subseteq 0..longest
      BY SMT DEF ExampleNumbers, Prompt
    <3>3. \A refused \in BOOLEAN : RequestBytes(c) + ReplyBytes(c, refused) <= bytes
      BY <2>2, Zenon
    <3>. HIDE DEF bytes, slowest, longest
    <3>4. Takes(c, rate) + answer <= bytes * slowest + (7 * slowest + 1) \div 2 + longest
      BY <1>1, <3>1, <3>2, <3>3, CallTakes
    <3>. QED
      BY <3>4, SMT DEF bytes, slowest, longest
  <2>. QED
    BY <1>5, <2>1, <2>4, SMT
<1>. QED
  BY <1>6, <1>7 DEF ExampleNumbers, kDefaultTimeoutMs

-----------------------------------------------------------------------------
(* Calls with too little time: what follows needs none of the above.       *)

LEMMA CallTypes ==
  ASSUME WireTypeOK
  PROVE  /\ host.call \in Call /\ reply.call \in Call
         /\ host.left \in Nat /\ burst.left \in Nat /\ reply.left \in Nat
         /\ hostRate \in BaudRates /\ instRate \in BaudRates
<1>1. NoCall \in Call
  BY SMT DEF NoCall, Call, BaudRates, ReadOp, MultiOp, WriteOp, BaudOp
<1>2. host.call \in Calls \cup {NoCall} /\ reply.call \in Calls \cup {NoCall}
  BY DEF WireTypeOK, Host
<1>. QED
  BY <1>1, <1>2, WireAssumption DEF WireTypeOK, Host

LEMMA Sizes ==
  ASSUME NEW c \in Call
  PROVE  c.timeout \in Nat /\ 1000 * c.timeout \in Nat /\ RequestBytes(c) \in Nat
<1>1. c.count \in Nat /\ c.timeout \in Nat
  BY SMT DEF Call
<1>. QED
  BY <1>1, SMT DEF RequestBytes

(* Whether a call is scarce of time is settled when it is made.            *)
LEMMA SameCall ==
  ASSUME host'.call = host.call, hostRate' = hostRate
  PROVE  /\ Hurried' <=> Hurried
         /\ Scarce(host.call, hostRate)' <=> Scarce(host.call, hostRate)
<1>1. Scarce(host.call, hostRate)' <=> Scarce(host.call, hostRate)
  BY DEF Scarce, Takes
<1>. QED
  BY <1>1 DEF Hurried, AwaitsReply

(* A request occupies the line for at least the time it takes alone.       *)
LEMMA WrittenTakes ==
  ASSUME WireTypeOK, NEW c \in Calls
  PROVE  /\ Written(c) \in [calls : Seq(Calls), rate : BaudRates, left : Nat]
         /\ Written(c).calls # <<>> /\ Written(c).calls[Len(Written(c).calls)] = c
         /\ Written(c).rate = hostRate /\ Written(c).left >= Takes(c, hostRate)
<1>1. /\ burst.calls \in Seq(Calls) /\ burst.left \in Nat /\ hostRate \in BaudRates /\ c \in Call
  BY WireAssumption DEF WireTypeOK
<1>2. ByteTime(hostRate) \in Nat
  BY <1>1, ByteTimes, SMT
<1>3. Gap(hostRate) \in Nat
  BY <1>2, SMT DEF Gap
<1>4. RequestBytes(c) \in Nat
  BY <1>1, Sizes
<1>5. RequestBytes(c) * ByteTime(hostRate) \in Nat
  BY <1>2, <1>4, Product
<1>. DEFINE before == IF burst.left > Gap(hostRate) THEN burst.left - Gap(hostRate) ELSE 0
            sum == before + RequestBytes(c) * ByteTime(hostRate) + Gap(hostRate)
<1>6. before \in Nat
  BY <1>1, <1>3, SMT
<1>7. sum \in Nat /\ sum >= RequestBytes(c) * ByteTime(hostRate) + Gap(hostRate)
  <2>1. \A b, p, g \in Nat : b + p + g \in Nat /\ b + p + g >= p + g
    BY SMT
  <2>. HIDE DEF before
  <2>. QED
    BY <1>3, <1>5, <1>6, <2>1
<1>8. Written(c) = [calls |-> Append(burst.calls, c), rate |-> hostRate, left |-> sum]
  BY DEF Written
<1>9. /\ Append(burst.calls, c) \in Seq(Calls) /\ Append(burst.calls, c) # <<>>
      /\ Append(burst.calls, c)[Len(Append(burst.calls, c))] = c
  BY <1>1
<1>. HIDE DEF sum
<1>. QED
  BY <1>1, <1>7, <1>8, <1>9 DEF Takes

LEMMA ScarceStart ==
  ASSUME ScarceInv, NEW c \in Calls, Start(c)
  PROVE  ScarceInv'
<1>1. /\ c \in Call /\ hostRate \in BaudRates /\ c.timeout \in Nat /\ HostPause \in Nat
      /\ c.broadcast \in BOOLEAN /\ WireTypeOK
  BY WireAssumption DEF ScarceInv, WireTypeOK, Call
<1>2. burst' = Written(c) /\ hostRate' = hostRate /\ instRate' = instRate
  BY DEF Start
<1>3. /\ burst' \in [calls : Seq(Calls), rate : BaudRates, left : Nat]
      /\ burst'.calls # <<>> /\ burst'.calls[Len(burst'.calls)] = c
      /\ burst'.rate = hostRate /\ burst'.left >= Takes(c, hostRate) /\ burst'.left \in Nat
  BY <1>1, <1>2, WrittenTakes
<1>4. /\ reply' \in [call : Calls \cup {NoCall}, refused : BOOLEAN, lost : BOOLEAN,
                     pending : BOOLEAN, left : Nat]
      /\ reply'.pending => reply'.lost
  BY DEF Start, ScarceInv, WireTypeOK
<1>5. CASE ~AwaitsReply(c)
  <2>1. c.broadcast
    BY <1>5 DEF AwaitsReply
  <2>2. host' = [call |-> c, at |-> "pausing", left |-> HostPause, outcome |-> "success",
                 disturbed |-> FALSE]
    BY <1>5, <2>1 DEF Start
  <2>3. host'.call = c /\ host'.at = "pausing" /\ host' \in Host
    BY <1>1, <2>2, SMT DEF Host
  <2>4. WireTypeOK'
    BY <1>1, <1>2, <1>3, <1>4, <2>3 DEF WireTypeOK
  <2>5. ~AwaitsReply(host.call)'
    BY <1>5, <2>3 DEF AwaitsReply
  <2>. QED
    BY <2>3, <2>4, <2>5 DEF ScarceInv, ScarceFails
<1>6. CASE AwaitsReply(c)
  <2>1. PICK wait \in Waits(c.timeout) :
          host' = [call |-> c, at |-> "reading", left |-> wait, outcome |-> "pending",
                   disturbed |-> hostRate # instRate]
    BY <1>6 DEF Start
  <2>2. wait \in Nat /\ wait <= 1000 * c.timeout
    BY <1>1, WaitTimes
  <2>3. host'.call = c /\ host'.at = "reading" /\ host'.left = wait /\ host' \in Host
    BY <1>1, <2>1, <2>2, SMT DEF Host
  <2>4. WireTypeOK'
    BY <1>1, <1>2, <1>3, <1>4, <2>2, <2>3 DEF WireTypeOK
  <2>5. ASSUME Scarce(c, hostRate)
        PROVE  wait < burst'.left + ReplyBytes(c, FALSE) * ByteTime(hostRate)
    <3>1. Takes(c, hostRate) \in Nat /\ ReplyBytes(c, FALSE) * ByteTime(hostRate) \in Nat
      BY <1>1, Durations
    <3>2. 1000 * c.timeout < Takes(c, hostRate) + ReplyBytes(c, FALSE) * ByteTime(hostRate)
      BY <2>5 DEF Scarce
    <3>. DEFINE limit == 1000 * c.timeout
                need  == Takes(c, hostRate)
                back  == ReplyBytes(c, FALSE) * ByteTime(hostRate)
                left  == burst'.left
    <3>3. limit \in Nat /\ need \in Nat /\ back \in Nat /\ left \in Nat
      <4>1. limit \in Nat
        BY <1>1, Sizes
      <4>. HIDE DEF limit
      <4>. QED
        BY <1>3, <3>1, <4>1, Zenon
    <3>4. wait <= limit /\ limit < need + back /\ left >= need
      BY <1>3, <2>2, <3>2, Zenon
    <3>. HIDE DEF limit, need, back, left
    <3>5. wait < left + back
      BY <2>2, <3>3, <3>4, SMT
    <3>. QED
      BY <3>5, Zenon DEF left, back
  <2>6. Scarce(host.call, hostRate)' <=> Scarce(c, hostRate)
    BY <1>2, <2>3 DEF Scarce, Takes
  <2>7. Scarce(c, hostRate) => Late'
    BY <1>2, <1>3, <1>4, <2>3, <2>5 DEF Late
  <2>. QED
    BY <2>3, <2>4, <2>6, <2>7 DEF ScarceInv, ScarceFails
<1>. QED
  BY <1>5, <1>6

LEMMA ScarceExpire ==
  ASSUME ScarceInv, Expire
  PROVE  ScarceInv'
<1>1. /\ host' = [host EXCEPT !.at = "idle", !.outcome = "failure"] /\ host \in Host
      /\ UNCHANGED <<hostRate, burst, instRate, reply>> /\ WireTypeOK
  BY DEF Expire, ScarceInv, WireTypeOK
<1>2. host'.at = "idle" /\ host'.outcome = "failure" /\ host' \in Host
  <2>1. [host EXCEPT !.at = "idle"] \in Host
    BY <1>1 DEF Host
  <2>2. host' = [[host EXCEPT !.at = "idle"] EXCEPT !.outcome = "failure"]
    BY <1>1 DEF Host
  <2>. QED
    BY <1>1, <2>1, <2>2 DEF Host
<1>3. WireTypeOK'
  BY <1>1, <1>2 DEF WireTypeOK
<1>. QED
  BY <1>2, <1>3 DEF ScarceInv, ScarceFails

LEMMA ScarceResume ==
  ASSUME ScarceInv, Resume
  PROVE  ScarceInv'
<1>1. /\ host.at = "pausing" /\ host' = [host EXCEPT !.at = "idle"] /\ host \in Host
      /\ UNCHANGED <<hostRate, burst, instRate, reply>> /\ WireTypeOK
      /\ ~AwaitsReply(host.call)
  BY DEF Resume, ScarceInv, WireTypeOK
<1>2. host'.at = "idle" /\ host'.call = host.call /\ host' \in Host
  BY <1>1, SMT DEF Host
<1>3. WireTypeOK'
  BY <1>1, <1>2 DEF WireTypeOK
<1>4. ~Hurried'
  BY <1>1, <1>2 DEF Hurried, AwaitsReply
<1>. QED
  BY <1>2, <1>3, <1>4 DEF ScarceInv, ScarceFails

LEMMA ScarceRetune ==
  ASSUME ScarceInv, Retune
  PROVE  ScarceInv'
<1>1. /\ host.at = "idle" /\ host.call.op = BaudOp /\ hostRate' = host.call.rate
      /\ UNCHANGED <<host, burst, instRate, reply>> /\ WireTypeOK
  BY DEF Retune, ScarceInv
<1>2. host.call.rate \in BaudRates
  BY <1>1, CallTypes DEF Call
<1>3. WireTypeOK'
  BY <1>1, <1>2 DEF WireTypeOK
<1>4. ~Hurried'
  BY <1>1 DEF Hurried
<1>. QED
  BY <1>1, <1>3, <1>4 DEF ScarceInv, ScarceFails

LEMMA ScarceDelimit ==
  ASSUME ScarceInv, Delimit
  PROVE  ScarceInv'
<1>. DEFINE c == burst.calls[1]
            audible == Len(burst.calls) = 1 /\ burst.rate = instRate /\ ~reply.pending
<1>1. /\ burst.calls # <<>> /\ burst.left = 0 /\ burst' = NoBurst
      /\ UNCHANGED <<hostRate, instRate>>
      /\ IF audible /\ ~c.broadcast
         THEN \E heard, refused, lost \in BOOLEAN, turnaround \in Turnarounds :
                /\ reply' = IF heard
                            THEN [call |-> c, refused |-> refused, lost |-> lost, pending |-> TRUE,
                                  left |-> turnaround
                                           + ReplyBytes(c, refused) * ByteTime(instRate)]
                            ELSE reply
                /\ host' = [host EXCEPT !.disturbed = @ \/ ~heard \/ refused \/ lost]
         ELSE UNCHANGED <<reply, host>>
  BY DEF Delimit
<1>2. /\ burst'.calls = <<>>
      /\ burst' \in [calls : Seq(Calls), rate : BaudRates, left : Nat]
  BY <1>1, SMT DEF NoBurst, BaudRates
<1>3. /\ host \in Host /\ hostRate \in BaudRates /\ instRate \in BaudRates
      /\ reply \in [call : Calls \cup {NoCall}, refused : BOOLEAN, lost : BOOLEAN,
                    pending : BOOLEAN, left : Nat]
      /\ burst.calls \in Seq(Calls)
      /\ host.at = "reading" => host.left <= 1000 * host.call.timeout
      /\ WireTypeOK
  BY DEF ScarceInv, WireTypeOK
<1>4. CASE ~(audible /\ ~c.broadcast)
  <2>1. reply' = reply /\ host' = host
    BY <1>1, <1>4
  <2>2. WireTypeOK'
    BY <1>1, <1>2, <1>3, <2>1 DEF WireTypeOK
  <2>3. Late => Late'
    BY <1>2, <2>1 DEF Late
  <2>. QED
    BY <1>1, <2>1, <2>2, <2>3, SameCall DEF ScarceInv, ScarceFails
<1>5. CASE audible /\ ~c.broadcast
  <2>1. PICK heard \in BOOLEAN, refused \in BOOLEAN, lost \in BOOLEAN,
             turnaround \in Turnarounds :
          /\ reply' = IF heard
                      THEN [call |-> c, refused |-> refused, lost |-> lost, pending |-> TRUE,
                            left |-> turnaround + ReplyBytes(c, refused) * ByteTime(instRate)]
                      ELSE reply
          /\ host' = [host EXCEPT !.disturbed = @ \/ ~heard \/ refused \/ lost]
    BY <1>1, <1>5
  <2>2. /\ host'.at = host.at /\ host'.call = host.call /\ host'.left = host.left
        /\ host'.outcome = host.outcome /\ host' \in Host
    <3>1. PICK v : v = (host.disturbed \/ ~heard \/ refused \/ lost)
      OBVIOUS
    <3>2. v \in BOOLEAN
      BY <3>1
    <3>3. host' = [host EXCEPT !.disturbed = v]
      BY <2>1, <3>1, Zenon
    <3>. QED
      BY <1>3, <3>2, <3>3 DEF Host
  <2>3. Len(burst.calls) = 1 /\ c \in Calls
    BY <1>3, <1>5, ElementOfSeq
  <2>4. ReplyBytes(c, refused) * ByteTime(instRate) \in Nat /\ turnaround \in Nat
    BY <1>3, <2>3, Durations, WireAssumption
  <2>. DEFINE answer == turnaround + ReplyBytes(c, refused) * ByteTime(instRate)
  <2>5. answer \in Nat /\ answer >= ReplyBytes(c, refused) * ByteTime(instRate)
    BY <2>4, SMT
  <2>6. reply' = IF heard
                 THEN [call |-> c, refused |-> refused, lost |-> lost, pending |-> TRUE,
                       left |-> answer]
                 ELSE reply
    BY <2>1
  <2>. HIDE DEF answer
  <2>7. reply' \in [call : Calls \cup {NoCall}, refused : BOOLEAN, lost : BOOLEAN,
                    pending : BOOLEAN, left : Nat]
    BY <1>3, <2>3, <2>5, <2>6
  <2>8. WireTypeOK'
    BY <1>1, <1>2, <1>3, <2>2, <2>7 DEF WireTypeOK
  <2>9. ASSUME Late PROVE Late'
    <3>. DEFINE back == ReplyBytes(c, FALSE) * ByteTime(instRate)
    <3>1. c = host.call /\ instRate = hostRate /\ host.left < 0 + back
      BY <1>1, <1>5, <2>3, <2>9 DEF Late
    <3>2. ASSUME heard, ~refused PROVE host.left < answer
      <4>1. refused = FALSE
        BY <3>2
      <4>2. answer >= back /\ back \in Nat
        BY <2>4, <2>5, <4>1
      <4>3. host.left \in Nat
        BY <1>3 DEF Host
      <4>. HIDE DEF back
      <4>. QED
        BY <2>5, <3>1, <4>2, <4>3, SMT
    <3>3. reply'.pending /\ ~reply'.refused => host'.left < reply'.left
      BY <1>5, <2>2, <2>6, <3>2
    <3>. QED
      BY <1>2, <3>3 DEF Late
  <2>. QED
    BY <1>1, <2>2, <2>8, <2>9, SameCall DEF ScarceInv, ScarceFails
<1>. QED
  BY <1>4, <1>5

LEMMA ScarceAnswer ==
  ASSUME ScarceInv, Answer
  PROVE  ScarceInv'
<1>1. /\ reply.pending /\ reply.left = 0 /\ reply' = [NoReply EXCEPT !.left = Gap(instRate)]
      /\ UNCHANGED <<hostRate, burst>>
      /\ instRate' = IF reply.call.op = BaudOp /\ ~reply.refused THEN reply.call.rate
                     ELSE instRate
      /\ \/ /\ host.at = "reading" /\ hostRate = instRate /\ ~reply.refused
            /\ host' = [host EXCEPT !.at = "idle",
                                   !.outcome = IF reply.lost THEN "failure" ELSE "success"]
         \/ UNCHANGED host
  BY DEF Answer
<1>2. /\ ~reply'.pending
      /\ reply' \in [call : Calls \cup {NoCall}, refused : BOOLEAN, lost : BOOLEAN,
                     pending : BOOLEAN, left : Nat]
  <2>1. Gap(instRate) \in Nat
    <3>1. ByteTime(instRate) \in Nat
      BY ByteTimes DEF ScarceInv, WireTypeOK
    <3>. QED
      BY <3>1, SMT DEF Gap
  <2>2. /\ NoReply \in [call : Calls \cup {NoCall}, refused : BOOLEAN, lost : BOOLEAN,
                         pending : BOOLEAN, left : Nat]
        /\ ~NoReply.pending
    BY DEF NoReply
  <2>. QED
    BY <1>1, <2>1, <2>2
<1>3. host \in Host /\ instRate' \in BaudRates /\ WireTypeOK /\ host.left \in Nat
  BY <1>1, CallTypes DEF ScarceInv, WireTypeOK, Call
<1>4. CASE UNCHANGED host
  <2>1. WireTypeOK'
    BY <1>1, <1>2, <1>3, <1>4 DEF WireTypeOK
  <2>2. Late => Late'
    BY <1>1, <1>2, <1>4 DEF Late
  <2>. QED
    BY <1>1, <1>4, <2>1, <2>2, SameCall DEF ScarceInv, ScarceFails
<1>5. CASE /\ host.at = "reading" /\ ~reply.refused
           /\ host' = [host EXCEPT !.at = "idle",
                                  !.outcome = IF reply.lost THEN "failure" ELSE "success"]
  <2>1. PICK outcome \in {"success", "failure"} :
          outcome = IF reply.lost THEN "failure" ELSE "success"
    OBVIOUS
  <2>2. host'.at = "idle" /\ host'.call = host.call /\ host'.outcome = outcome /\ host' \in Host
    <3>1. host' = [[host EXCEPT !.at = "idle"] EXCEPT !.outcome = outcome]
      BY <1>3, <1>5, <2>1 DEF Host
    <3>2. [host EXCEPT !.at = "idle"] \in Host
      BY <1>3 DEF Host
    <3>. QED
      BY <1>3, <2>1, <3>1, <3>2 DEF Host
  <2>3. WireTypeOK'
    BY <1>1, <1>2, <1>3, <2>2 DEF WireTypeOK
  <2>4. ASSUME Scarce(host.call, hostRate) PROVE outcome = "failure"
    <3>1. Late
      BY <1>5, <2>4 DEF ScarceInv
    <3>2. ~reply.lost => host.left < 0
      BY <1>1, <1>5, <3>1 DEF Late
    <3>3. reply.lost
      BY <1>3, <3>2, SMT
    <3>. QED
      BY <2>1, <3>3
  <2>5. Hurried' => Scarce(host.call, hostRate)
    BY <1>1, <2>2, SameCall DEF Hurried
  <2>. QED
    BY <2>2, <2>3, <2>4, <2>5 DEF ScarceInv, ScarceFails
<1>. QED
  BY <1>1, <1>4, <1>5

LEMMA ScarceAdvance ==
  ASSUME ScarceInv, Advance
  PROVE  ScarceInv'
<1>1. /\ host \in Host /\ burst \in [calls : Seq(Calls), rate : BaudRates, left : Nat]
      /\ reply \in [call : Calls \cup {NoCall}, refused : BOOLEAN, lost : BOOLEAN,
                    pending : BOOLEAN, left : Nat]
      /\ host.left \in Nat /\ burst.left \in Nat /\ reply.left \in Nat
      /\ host.at = "reading" => host.left <= 1000 * host.call.timeout
      /\ WireTypeOK
  BY DEF ScarceInv, WireTypeOK, Host
<1>2. PICK d \in Nat :
        /\ d > 0
        /\ host.at # "idle" => d <= host.left
        /\ burst.calls # <<>> => d <= burst.left
        /\ reply.pending => d <= reply.left
        /\ host' = [host EXCEPT !.left = IF @ > d THEN @ - d ELSE 0]
        /\ burst' = [burst EXCEPT !.left = IF @ > d THEN @ - d ELSE 0]
        /\ reply' = [reply EXCEPT !.left = IF @ > d THEN @ - d ELSE 0]
  BY <1>1, Earliest
<1>3. UNCHANGED <<hostRate, instRate>>
  BY DEF Advance
<1>4. PICK h \in Nat, b \in Nat, r \in Nat :
        /\ h = IF host.left > d THEN host.left - d ELSE 0
        /\ b = IF burst.left > d THEN burst.left - d ELSE 0
        /\ r = IF reply.left > d THEN reply.left - d ELSE 0
  BY <1>1, <1>2, SMT
<1>5. /\ h <= host.left
      /\ host.at # "idle" => h = host.left - d
      /\ burst.calls # <<>> => b = burst.left - d
      /\ reply.pending => r = reply.left - d
  BY <1>1, <1>2, <1>4, SMT
<1>6. /\ host' = [host EXCEPT !.left = h] /\ burst' = [burst EXCEPT !.left = b]
      /\ reply' = [reply EXCEPT !.left = r]
  BY <1>2, <1>4, Zenon
<1>7. /\ host' \in Host /\ host'.left = h /\ host'.call = host.call /\ host'.at = host.at
      /\ host'.outcome = host.outcome
  BY <1>1, <1>6, SMTT(30) DEF Host
<1>8. /\ burst' \in [calls : Seq(Calls), rate : BaudRates, left : Nat]
      /\ burst'.calls = burst.calls /\ burst'.rate = burst.rate /\ burst'.left = b
  BY <1>1, <1>6
<1>9. /\ reply' \in [call : Calls \cup {NoCall}, refused : BOOLEAN, lost : BOOLEAN,
                     pending : BOOLEAN, left : Nat]
      /\ reply'.pending = reply.pending
      /\ reply'.refused = reply.refused /\ reply'.lost = reply.lost /\ reply'.left = r
  BY <1>1, <1>6
<1>10. host.call \in Call /\ hostRate \in BaudRates
  BY <1>1, CallTypes
<1>11. WireTypeOK'
  <2>1. host'.at = "reading" => host'.left <= 1000 * host'.call.timeout
    <3>1. 1000 * host.call.timeout \in Int
      BY <1>10, Sizes
    <3>. QED
      BY <1>1, <1>5, <1>7, <3>1
  <2>. QED
    BY <1>1, <1>3, <1>7, <1>8, <1>9, <2>1 DEF WireTypeOK
<1>12. ASSUME host.at = "reading", Late PROVE Late'
  <2>. DEFINE back == ReplyBytes(host.call, FALSE) * ByteTime(hostRate)
  <2>1. back \in Nat
    BY <1>10, Durations
  <2>2. /\ burst.calls # <<>> => host.left < burst.left + back
        /\ reply.pending /\ ~reply.refused /\ ~reply.lost => host.left < reply.left
    BY <1>12 DEF Late
  <2>3. ReplyBytes(host.call, FALSE)' * ByteTime(hostRate)' = back
    BY <1>3, <1>7
  <2>. HIDE DEF back
  <2>4. /\ burst.calls # <<>> => h < b + back
        /\ reply.pending /\ ~reply.refused /\ ~reply.lost => h < r
    BY <1>1, <1>2, <1>5, <1>12, <2>1, <2>2, SMT
  <2>5. burst.calls # <<>> => burst.rate = hostRate /\ burst.calls[Len(burst.calls)] = host.call
    BY <1>12 DEF Late
  <2>. QED
    BY <1>3, <1>7, <1>8, <1>9, <2>3, <2>4, <2>5 DEF Late
<1>13. Hurried' => Hurried
  BY <1>3, <1>7, SameCall
<1>14. Scarce(host.call, hostRate)' => Scarce(host.call, hostRate)
  BY <1>3, <1>7, SameCall
<1>15. AwaitsReply(host.call)' => AwaitsReply(host.call)
  BY <1>7 DEF AwaitsReply
<1>. QED
  BY <1>7, <1>11, <1>12, <1>13, <1>14, <1>15 DEF ScarceInv, ScarceFails

LEMMA ScarceStutter ==
  ASSUME ScarceInv, UNCHANGED vars
  PROVE  ScarceInv'
<1>1. UNCHANGED <<hostRate, host, burst, instRate, reply>>
  BY DEF vars
<1>2. WireTypeOK'
  BY <1>1 DEF ScarceInv, WireTypeOK
<1>3. Late => Late'
  BY <1>1 DEF Late
<1>. QED
  BY <1>1, <1>2, <1>3, SameCall DEF ScarceInv, ScarceFails, AwaitsReply

(* The invariant: while such a call waits, the last on the line is its own *)
(* request, or the reply under way ends only after the call has given up.  *)
THEOREM ScarceInvHolds == Spec => []ScarceInv
<1>1. Init => ScarceInv
  <2>1. SUFFICES ASSUME Init PROVE ScarceInv
    OBVIOUS
  <2>2. WireTypeOK
    BY <2>1, InitHolds DEF WireInv
  <2>3. host.call = NoCall /\ host.at = "idle"
    BY <2>1 DEF Init
  <2>. QED
    BY <2>2, <2>3 DEF ScarceInv, ScarceFails, Hurried
<1>2. ScarceInv /\ [Next]_vars => ScarceInv'
  BY ScarceStart, ScarceExpire, ScarceResume, ScarceRetune, ScarceDelimit, ScarceAnswer,
     ScarceAdvance, ScarceStutter, Zenon DEF Next
<1>. QED
  BY <1>1, <1>2, PTL DEF Spec

(* A call too short for its request and its reply never succeeds, whatever *)
(* the host's other calls, the tick, the turnarounds and the losses.       *)
THEOREM ScarceFailsHolds == Spec => []ScarceFails
<1>1. ScarceInv => ScarceFails
  BY DEF ScarceInv
<1>. QED
  BY <1>1, ScarceInvHolds, PTL

(* Types, whatever the timing, and that no wait is longer than the timeout *)
(* asked for.                                                              *)
THEOREM WireTypeCorrect == Spec => []WireTypeOK
<1>1. ScarceInv => WireTypeOK
  BY DEF ScarceInv
<1>. QED
  BY <1>1, ScarceInvHolds, PTL

(* The 30 ms that DiscoverPresentAddresses gives a probe are too few at    *)
(* 4800: request, silence and reply take 38.6 ms.                          *)
LEMMA SlowProbeScarce ==
  ASSUME NEW c \in DefaultProbes
  PROVE  Scarce(c, 0)
<1>1. c.op = ReadOp /\ c.count = 1 /\ c.timeout = 30 /\ ReadOp # MultiOp
  BY DEF DefaultProbes, ReadOp, MultiOp
<1>2. BaudRateToBps(0) = 4800
  BY SMT DEF BaudRateToBps
<1>3. ByteTime(0) = 2084
  BY <1>2, SMT DEF ByteTime
<1>4. Gap(0) = 7294
  BY <1>3, SMT DEF Gap
<1>5. RequestBytes(c) = 8 /\ ReplyBytes(c, FALSE) = 7
  BY <1>1, SMT DEF RequestBytes, ReplyBytes
<1>6. Takes(c, 0) = 23966
  BY <1>3, <1>4, <1>5, SMT DEF Takes
<1>7. 1000 * c.timeout < Takes(c, 0) + ReplyBytes(c, FALSE) * ByteTime(0)
  <2>. DEFINE k == Takes(c, 0)  m == ReplyBytes(c, FALSE)  n == ByteTime(0)
  <2>1. m = 7
    BY <1>5, Zenon
  <2>2. k = 23966 /\ n = 2084
    <3>. HIDE DEF m
    <3>. QED
      BY <1>3, <1>6, SMT
  <2>. HIDE DEF k, m, n
  <2>3. 1000 * c.timeout < k + m * n
    BY <1>1, <2>1, <2>2, SMT
  <2>. QED
    BY <2>3, Zenon DEF k, m, n
<1>. QED
  BY <1>7, Zenon DEF Scarce

(* A sweep with the default probe timeout finds nobody at 4800, whatever   *)
(* the instruments, the tick, the losses and the host's other calls.       *)
THEOREM SlowProbesFailHolds == Spec => []SlowProbesFail
<1>1. ScarceInv => SlowProbesFail
  <2>1. SUFFICES ASSUME ScarceInv, host.at = "idle", hostRate = 0,
                        host.call \in DefaultProbes
                 PROVE  host.outcome = "failure"
    BY DEF SlowProbesFail
  <2>2. host.call.op = ReadOp /\ host.call.timeout = 30
    BY <2>1 DEF DefaultProbes
  <2>3. host.call # NoCall
    BY <2>2, SMT DEF NoCall
  <2>4. host.call \in Calls
    BY <2>1, <2>3 DEF ScarceInv, WireTypeOK, Host
  <2>5. AwaitsReply(host.call) /\ host.call.op # BaudOp
    BY <2>2, <2>4, WireAssumption DEF AwaitsReply, ReadOp, MultiOp, WriteOp, BaudOp
  <2>6. Scarce(host.call, hostRate)
    BY <2>1, SlowProbeScarce
  <2>. QED
    BY <2>1, <2>3, <2>5, <2>6 DEF ScarceInv, ScarceFails, Hurried
<1>. QED
  BY <1>1, ScarceInvHolds, PTL

(* At 9600 and more every call is over within 100 ms of being made, the    *)
(* longest included, if an instrument begins its reply within 10 ms: the   *)
(* tick in which Session has a call succeed.                               *)
THEOREM CallsFitATick ==
  ASSUME Prompt,
         NEW c \in Calls, NEW rate \in BaudRates, rate >= 1,
         NEW answer \in Answers(c, rate)
  PROVE  Takes(c, rate) + answer < 100000
<1>1. c \in Call /\ c.count \in 1..32
  BY WireAssumption DEF Call
<1>2. ByteTime(rate) \in Nat /\ ByteTime(rate) <= 1042
  BY ByteTimes, SMT
<1>3. ReadOp # MultiOp /\ Takes(c, rate) \in Nat /\ answer \in Nat
  BY <1>1, Durations DEF ReadOp, MultiOp
<1>4. \A refused \in BOOLEAN : RequestBytes(c) + ReplyBytes(c, refused) <= 81
  BY <1>1, <1>3, SMT DEF RequestBytes, ReplyBytes
<1>. DEFINE bytes == 81  slowest == 1042  longest == 10000
<1>5. bytes \in Nat /\ slowest \in Nat /\ longest \in Nat /\ ByteTime(rate) <= slowest
  BY <1>2, SMT
<1>6. \A refused \in BOOLEAN : RequestBytes(c) + ReplyBytes(c, refused) <= bytes
  BY <1>4, Zenon
<1>7. Turnarounds \subseteq 0..longest
  BY SMT DEF Prompt
<1>. HIDE DEF bytes, slowest, longest
<1>8. Takes(c, rate) + answer <= bytes * slowest + (7 * slowest + 1) \div 2 + longest
  BY <1>1, <1>5, <1>6, <1>7, CallTakes
<1>. QED
  BY <1>3, <1>8, SMT DEF bytes, slowest, longest
=============================================================================
