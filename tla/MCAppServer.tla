----------------------------- MODULE MCAppServer -----------------------------
(***************************************************************************)
(* AppServer for TLC.  The bounds are the cardinalities of its constants.  *)
(***************************************************************************)
EXTENDS AppServer

CONSTANTS t1, i1, r1, r2
=============================================================================
