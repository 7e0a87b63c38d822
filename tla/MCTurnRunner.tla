---------------------------- MODULE MCTurnRunner ----------------------------
(***************************************************************************)
(* TurnRunner for TLC: calls of run_turn in one process, with or without a *)
(* shared client_request_id.                                               *)
(***************************************************************************)
EXTENDS TurnRunner, TLC

CONSTANTS r1, r2, h1, c1

OneHost == [r \in Runners |-> h1]
SameKey == [r \in Runners |-> "k"]
=============================================================================
