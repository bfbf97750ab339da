------------------------ MODULE MCWorkspaceRegistry ------------------------
(* A small instance of WorkspaceRegistry for TLC. *)
EXTENDS WorkspaceRegistry

CONSTANTS w1, w2, c1, c2, e1, e2, e3, none
=============================================================================
