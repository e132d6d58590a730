--------------------------- MODULE MCPendingLost ---------------------------
(* Small instances of PendingLost for TLC.                                 *)
EXTENDS PendingLost
=============================================================================
