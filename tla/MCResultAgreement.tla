------------------------- MODULE MCResultAgreement -------------------------
(* Model-checking instance of ResultAgreement. *)
EXTENDS ResultAgreement
=============================================================================
