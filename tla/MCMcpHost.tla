------------------------------ MODULE MCMcpHost ------------------------------
(***************************************************************************)
(* McpHost for TLC.  The bounds are the cardinality of Turns and MaxCalls. *)
(***************************************************************************)
EXTENDS McpHost

CONSTANTS t1, t2

All == {"spawn", "wait", "await", "status", "respond", "cancel"}
=============================================================================
