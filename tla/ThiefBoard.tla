----------------------------- MODULE ThiefBoard -----------------------------
(***************************************************************************)
(* The board the thief plays on: zero-based (row, column) cells, the five  *)
(* directions, the moves that are legal next to a set of barriers, and the *)
(* honest resolution of the police's public capture evidence.  An optional *)
(* cell (None in the code) is a set with at most one cell.                 *)
(***************************************************************************)
EXTENDS Integers

CONSTANT GridSize            \* cells per side of the square board

ASSUME GridAssumption == GridSize \in Nat \ {0}

Cells == (0 .. GridSize - 1) \X (0 .. GridSize - 1)

\* An optional cell on the wire: a capture claim or a barrier declaration.
MaybeCell == {{}} \union {{c} : c \in Cells}

Directions == {"N", "S", "E", "W", "STAY"}

RowDelta(d) == IF d = "N" THEN -1 ELSE IF d = "S" THEN 1 ELSE 0

ColDelta(d) == IF d = "E" THEN 1 ELSE IF d = "W" THEN -1 ELSE 0

ApplyDirection(cell, d) == <<cell[1] + RowDelta(d), cell[2] + ColDelta(d)>>

\* STAY is always legal, even on a barrier; another direction needs a
\* destination on the board that is not a barrier.
LegalMoveDirections(cell, barriers) ==
  {d \in Directions :
     \/ d = "STAY"
     \/ /\ ApplyDirection(cell, d) \in Cells
        /\ ApplyDirection(cell, d) \notin barriers}

\* What one police reveal says in public about a capture.  A cell off the
\* board is left out: as a claim it is one more wrong claim, as a barrier it
\* blocks nothing.
Evidence == [claim : MaybeCell, barrier : MaybeCell]

NoEvidence == [claim |-> {}, barrier |-> {}]

\* resolve_capture: a barrier on the thief's cell captures without a
\* response; otherwise a claim is answered truthfully.
Captured(cell, opp) ==
  \/ cell \in opp.barrier
  \/ cell \in opp.claim

\* Mutant of ClaimResponse: a wrong claim hides a barrier on the thief's cell.
ClaimAnsweredFirst(cell, opp) ==
  IF opp.claim # {} THEN IF cell \in opp.claim THEN "yes" ELSE "no"
  ELSE IF cell \in opp.barrier THEN "yes" ELSE "none"

\* The answer the thief owes the police after this evidence.
ClaimResponse(cell, opp) ==
  IF Captured(cell, opp) THEN "yes" ELSE IF opp.claim # {} THEN "no" ELSE "none"
=============================================================================
