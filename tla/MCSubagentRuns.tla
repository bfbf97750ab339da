--------------------------- MODULE MCSubagentRuns ---------------------------
(* Small instances of SubagentRuns for TLC. *)
EXTENDS SubagentRuns
=============================================================================
