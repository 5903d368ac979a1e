----------------------- MODULE MCSimpleOperationAdapter -----------------------
(* Small instances of SimpleOperationAdapter for TLC. *)
EXTENDS SimpleOperationAdapter, TLC

CONSTANTS r1, r2, freeze

=============================================================================
