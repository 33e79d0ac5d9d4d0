--------------------------- MODULE SeriesContract ---------------------------
(***************************************************************************)
(* What run_series promises its caller, without turns, boards or messages: *)
(* sub-games are scored one at a time, a played one with a step count that *)
(* fits its result; the first forfeited one ends the series; a series that *)
(* returns "completed" has scored every sub-game; and a series an          *)
(* exception leaves keeps what it had scored.                              *)
(***************************************************************************)
EXTENDS Integers, Sequences

CONSTANTS Threshold,   \* steps the thief must survive
          Games        \* sub-games in the series

VARIABLES played,      \* scored sub-games, oldest first
          status       \* "open", or how the series ended

contractVars == <<played, status>>

ContractInit == played = <<>> /\ status = "open"

\* A played sub-game: survival takes exactly the threshold; a capture takes
\* at least the captured turn and its confirmation, and at most one turn
\* more than the threshold; a failed audit voids either.
PlayedResults ==
  [result : {"survival"}, steps : {Threshold}]
    \union [result : {"capture"}, steps : 2 .. Threshold + 1]
    \union [result : {"technical_loss"}, steps : 1 .. Threshold + 1]

ScoreGame ==
  /\ status = "open"
  /\ \E game \in PlayedResults : played' = Append(played, game)
  /\ status' = IF Len(played') = Games THEN "completed" ELSE "open"

\* A technical failure before any natural end.
ForfeitGame ==
  /\ status = "open"
  /\ \E n \in 0 .. Threshold :
       played' = Append(played, [result |-> "technical_loss", steps |-> n])
  /\ status' = "technical_loss_ended_series"

AbandonSeries ==
  /\ status = "open"
  /\ status' = "raised"
  /\ played' = played

ContractNext == ScoreGame \/ ForfeitGame \/ AbandonSeries

ContractSpec == ContractInit /\ [][ContractNext]_contractVars
=============================================================================
