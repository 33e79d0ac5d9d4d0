---------------------------- MODULE MCTurnRouter ----------------------------
(***************************************************************************)
(* Model-checking instance of TurnRouter.  One body and one correlation id *)
(* already give two different payloads for every logical key; a capacity   *)
(* of two makes the queue fill with the messages of a single step.         *)
(***************************************************************************)
EXTENDS TurnRouter
=============================================================================
