------------------------ MODULE RegistersRefinement ------------------------
(***************************************************************************)
(* Basis2Bus implements RemoteRegisters, for a host that is Serialised and *)
(* Settled: bytes, buffers and timeouts disappear, and what an instrument  *)
(* may yet carry out are the requests that are on their way to it, or that *)
(* a driver is about to transmit.                                          *)
(***************************************************************************)
EXTENDS Basis2Bus

OnTheWay ==
  UNION {{[slave |-> s, txn |-> inbox[s][i].txn, request |-> inbox[s][i].frame] :
             i \in DOMAIN inbox[s]} : s \in Slaves}

ToTransmit ==
  {[slave |-> s, txn |-> call[d].txn, request |-> RequestFrame(call[d].args, call[d].unit)] :
     s \in Slaves, d \in {e \in Drivers : pc[e] = "write"}}

Due == OnTheWay \cup ToTransmit

Readdresses(c) == c.op = AddressOp

Remote == INSTANCE RemoteRegisters WITH
  Clients <- Drivers, Servers <- Slaves, Arguments <- Calls, Addresses <- HostAddresses,
  FrameOf <- RequestFrame, NoArguments <- NoCall, Initial <- PowerOn,
  target <- address, calls <- call, due <- Due, done <- served, store <- regs, issued <- sent

(* The calls of the driver are calls on registers held elsewhere: whatever *)
(* the line loses, damages or delays, each is carried out at most once by  *)
(* each instrument and in one step, and reports no more than was done.     *)
ImplementsRegisters == Remote!Spec
=============================================================================
