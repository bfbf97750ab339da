--------------------------- MODULE MCCommandGate ---------------------------
(* A small instance of CommandGate for TLC. *)
EXTENDS CommandGate

CONSTANTS k1, k2, p1, p2, s1, none

\* k1 is a turn command, k2 is not.
MixedTurns == [r \in Keys \X Prints |-> IF r[1] = k1 THEN s1 ELSE none]
=============================================================================
