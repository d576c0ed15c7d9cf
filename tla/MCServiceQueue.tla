--------------------------- MODULE MCServiceQueue ---------------------------
(* Values for model checking ServiceQueue: two programs, one of them with a *)
(* slot reserved for it where there are two.                                *)
EXTENDS ServiceQueue

CONSTANTS p1, p2

MCProcs == {p1, p2}
MCName == [p \in Procs |-> IF p = p1 THEN "reserved" ELSE "other"]
MCSlotReserved == [i \in 0 .. NSlots - 1 |-> IF i = 0 THEN "reserved" ELSE ""]
MCSlotOpen == [i \in 0 .. NSlots - 1 |-> ""]
MCOne == {p1}
=============================================================================
