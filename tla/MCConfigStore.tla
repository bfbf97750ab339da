--------------------------- MODULE MCConfigStore ---------------------------
(* A small instance of ConfigStore for TLC. *)
EXTENDS ConfigStore

CONSTANTS p1, p2
============================================================================
