--------------------------- MODULE MCThiefSeries ---------------------------
(* Model-checking instance of ThiefSeries: the start cell of the small board. *)
EXTENDS ThiefSeries
\* Tuples cannot be written in a configuration file.
MCStart == <<0, 0>>
=============================================================================
