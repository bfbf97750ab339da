----------------------------- MODULE MCPushLog -----------------------------
(* Small instances of PushLog for TLC. *)
EXTENDS PushLog

CONSTANTS c1, c2

\* The properties of a stream say nothing of a broken one.
Unbroken == intact
=============================================================================
