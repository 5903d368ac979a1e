----------------------------- MODULE MCDiagExample -----------------------------
(* Small instances of DiagExample for TLC. *)
EXTENDS DiagExample, TLC

CONSTANTS sync, async, routine
=============================================================================
