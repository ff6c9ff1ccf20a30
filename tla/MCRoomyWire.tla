----------------------------- MODULE MCRoomyWire -----------------------------
(* The instance of MCWire that satisfies the hypothesis of WireProofs.     *)
EXTENDS MCWire

ASSUME MCExampleNumbers == ExampleNumbers
=============================================================================
