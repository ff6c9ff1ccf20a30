---------------------------- MODULE MCBasis2Bus ----------------------------
(* Values for the constants of Basis2Bus: a few registers of two           *)
(* instruments at addresses 1 and 2, and the calls the runs make.          *)
EXTENDS RegistersRefinement

CONSTANTS d1, d2, s1, s2

MCRegisters == {45, 2053}

MCPowerOn == [s \in {s1, s2} |-> [r \in MCRegisters |->
               IF r = 45 THEN (IF s = s1 THEN 1 ELSE 2) ELSE 0]]

OneTarget  == [d \in {d1} |-> 1]
TwoTargets == [d \in {d1, d2} |-> IF d = d1 THEN 1 ELSE 2]

Read(reg, count)   == [op |-> ReadOp, reg |-> reg, count |-> count, words |-> <<>>]
Single(reg, value) == [op |-> SingleOp, reg |-> reg, count |-> 1, words |-> <<value>>]
Multi(reg, words)  == [op |-> MultiOp, reg |-> reg, count |-> Len(words), words |-> words]
NewAddress(a)      == [op |-> AddressOp, reg |-> 45, count |-> 1, words |-> <<a>>]

CoreCalls == {Read(2053, 1), Read(2053, 0), Read(2053, 3), Single(2053, 1),
              Multi(2053, <<2>>), NewAddress(2), NewAddress(9)}

(* For the run with no lock: with the second register of a pair, so that a *)
(* read of more registers than its receive array has room for is answered. *)
SharedRegisters == {45, 2053, 2054}

SharedPowerOn == [s \in {s1, s2} |-> [r \in SharedRegisters |->
                   IF r = 45 THEN (IF s = s1 THEN 1 ELSE 2) ELSE 0]]

SharedCalls == {Read(2053, 1), Read(2053, 2), Single(2053, 1), Multi(2053, <<1>>)}

TimelyCalls == {Read(2053, 1), Read(45, 2), Single(2053, 1), Multi(2053, <<1>>),
                NewAddress(3), Read(2053, 0)}
=============================================================================
