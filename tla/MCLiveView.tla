----------------------------- MODULE MCLiveView -----------------------------
(* Model-checking instance of LiveView: the start cell of the small board. *)
EXTENDS LiveView
\* Tuples cannot be written in a configuration file.
MCStart == <<0, 0>>
=============================================================================
