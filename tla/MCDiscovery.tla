---------------------------- MODULE MCDiscovery ----------------------------
(* Values for the constants of Discovery: instruments at addresses 1 and   *)
(* 2, and windows that hold both, one, an address nobody has, the last one *)
(* a uint8_t can name, and nothing.                                        *)
EXTENDS Discovery

CONSTANTS d1, s1, s2

MCRegisters == {25, 45}
MCPowerOn == [s \in {s1, s2} |-> [r \in MCRegisters |->
               IF r = 25 THEN 257 ELSE IF s = s1 THEN 1 ELSE 2]]
MCTarget == [d \in {d1} |-> 1]
MCWindows == {<<1, 2>>, <<2, 3>>, <<2, 2>>, <<255, 255>>, <<3, 2>>}
MCCalls == {Probe}

(* The run meets the conditions under which a sweep is complete, and made  *)
(* of what a host may do.                                                  *)
ASSUME MCUndisturbed == Undisturbed /\ WithinReach
=============================================================================
