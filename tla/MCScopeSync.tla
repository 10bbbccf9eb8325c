---------------------------- MODULE MCScopeSync -----------------------------
(* Small instances of ScopeSync for TLC. *)
EXTENDS ScopeSync

CONSTANTS x1, y1
=============================================================================
