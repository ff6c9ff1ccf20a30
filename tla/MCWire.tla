------------------------------- MODULE MCWire -------------------------------
(* Values for the constants of Wire: calls with the longest and the        *)
(* shortest requests and replies, broadcasts, changes of rate, and probes. *)
EXTENDS Wire

Ask(op, count) == [op |-> op, count |-> count, broadcast |-> FALSE, rate |-> 0,
                   timeout |-> kDefaultTimeoutMs]
ToAll(op, count) == [Ask(op, count) EXCEPT !.broadcast = TRUE]
Switch(rate)     == [Ask(BaudOp, 1) EXCEPT !.rate = rate]
Probe            == [Ask(ReadOp, 1) EXCEPT !.timeout = 30]   \* probe_timeout_ms

MCCalls ==
  {Ask(ReadOp, 32), Ask(ReadOp, 10), Ask(MultiOp, 32), Ask(WriteOp, 1), ToAll(WriteOp, 1),
   ToAll(MultiOp, 2), Probe} \cup {Switch(rate) : rate \in BaudRates}

ProbeCalls     == {Probe}
BroadcastCalls == {ToAll(WriteOp, 1), Ask(ReadOp, 10)}
=============================================================================
