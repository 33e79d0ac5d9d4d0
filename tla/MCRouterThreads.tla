--------------------------- MODULE MCRouterThreads ---------------------------
(***************************************************************************)
(* Model-checking instance of RouterThreads: two payloads for the first    *)
(* commitment, an auxiliary message that can fill the queue, and the next  *)
(* commitment.                                                             *)
(***************************************************************************)
EXTENDS RouterThreads

Message(s, type, body) ==
  [sub |-> 1, step |-> s, type |-> type, body |-> body, corr |-> NoCorrelation,
   fault |-> NoFault]

MCInputs ==
  {Message(0, "commitment", "b1"), Message(0, "commitment", "b2"),
   Message(0, "reveal", "b1"), Message(0, "hint", "b1"),
   Message(1, "commitment", "b1")}
=============================================================================
