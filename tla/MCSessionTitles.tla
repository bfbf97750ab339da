-------------------------- MODULE MCSessionTitles --------------------------
(* A small instance of SessionTitles for TLC. *)
EXTENDS SessionTitles
============================================================================
