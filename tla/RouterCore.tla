----------------------------- MODULE RouterCore -----------------------------
(***************************************************************************)
(* The validation core behind the receive_turn tool, as operators on the   *)
(* router's state: a cursor per sub-game (SequenceTracker), the messages   *)
(* seen under each logical key and correlation id, and the bounded queue   *)
(* (BoundedInbox).  A message body is opaque: two messages are the same    *)
(* payload exactly when they are equal.                                    *)
(***************************************************************************)
EXTENDS Integers, Sequences, SequencesExt

CONSTANTS SubGames,       \* sub-game numbers that occur on the wire
          MaxStep,        \* last step that occurs on the wire
          Bodies,         \* payloads that the properties tell apart
          AuxTypes,       \* auxiliary message types (hint, scent, commit_ack...)
          Correlations,   \* correlation ids, beside NoCorrelation
          Faults,         \* ways a message can fail the structure and binding checks
          Capacity        \* capacity of the bounded inbox

ASSUME RouterAssumption ==
  /\ MaxStep \in Nat
  /\ Capacity \in Nat \ {0}
  /\ AuxTypes \intersect {"commitment", "reveal"} = {}
  /\ Faults \subseteq {"MALFORMED", "WRONG_ROLE", "WRONG_GAME", "CONFIG_MISMATCH"}

NoCorrelation == "none"

\* The fault of a well-formed message from the expected sender, game and config.
NoFault == "none"

MessageTypes == {"commitment", "reveal"} \union AuxTypes

Messages == [sub : SubGames, step : 0 .. MaxStep, type : MessageTypes,
             body : Bodies, corr : Correlations \union {NoCorrelation},
             fault : Faults \union {NoFault}]

DeadStates == {"error", "series_complete", "quit"}

\* phase -1: nothing of the active step accepted; 0: its commitment was.
Cursors == [step : Nat, phase : {-1, 0}]

EmptyRouter == [cursor |-> [g \in SubGames |-> [step |-> 0, phase |-> -1]],
                seen   |-> {},
                byCorr |-> {},
                queue  |-> <<>>]

LogicalKey(m) == <<m.sub, m.step, m.type>>

IsIdempotentReplay(r, m) == m \in r.seen

IsDuplicateConflict(r, m) ==
  \E x \in r.seen : LogicalKey(x) = LogicalKey(m) /\ x # m

CorrelationConflict(r, m) ==
  /\ m.corr # NoCorrelation
  /\ \E x \in r.byCorr : x.corr = m.corr /\ x # m

\* Mutant of InSequence: a reveal need not follow its commitment.
InSequenceAnyPhase(r, m) ==
  /\ m.step = r.cursor[m.sub].step
  /\ m.type = "commitment" => r.cursor[m.sub].phase = -1

\* check_and_advance, the check: the active step only, a commitment first and
\* once, a reveal after it; auxiliary messages at any phase.
InSequence(r, m) ==
  /\ m.step = r.cursor[m.sub].step
  /\ m.type = "commitment" => r.cursor[m.sub].phase = -1
  /\ m.type = "reveal" => r.cursor[m.sub].phase = 0

\* check_and_advance, the advance.
Advanced(r, m) ==
  [r.cursor EXCEPT ![m.sub] =
     IF m.type = "commitment" THEN [step |-> @.step, phase |-> 0]
     ELSE IF m.type = "reveal" THEN [step |-> @.step + 1, phase |-> -1]
     ELSE @]

\* Mutant of AckCode: a second payload under a logical key is not a conflict.
AckCodeWithoutConflicts(r, machine, m) ==
  IF m.fault # NoFault THEN m.fault
  ELSE IF machine \in DeadStates THEN "LIFECYCLE"
  ELSE IF IsIdempotentReplay(r, m) THEN "idempotent"
  ELSE IF ~InSequence(r, m) THEN "SEQUENCE"
  ELSE IF Len(r.queue) >= Capacity THEN "BACKPRESSURE"
  ELSE "ok"

\* The ack of _handle_turn: the first check that fails decides.
AckCode(r, machine, m) ==
  IF m.fault # NoFault THEN m.fault
  ELSE IF machine \in DeadStates THEN "LIFECYCLE"
  ELSE IF IsIdempotentReplay(r, m) THEN "idempotent"
  ELSE IF IsDuplicateConflict(r, m) \/ CorrelationConflict(r, m)
       THEN "CONFLICTING_DUPLICATE"
  ELSE IF ~InSequence(r, m) THEN "SEQUENCE"
  ELSE IF Len(r.queue) >= Capacity THEN "BACKPRESSURE"
  ELSE "ok"

Accepting == {"ok", "idempotent"}

\* Mutant of Enqueued: the message is queued but not remembered.
EnqueuedUnseen(r, m) ==
  [r EXCEPT !.cursor = Advanced(r, m), !.queue = Append(@, m)]

\* enqueue: append, and remember under the key and the correlation id.
Enqueued(r, m) ==
  [cursor |-> Advanced(r, m),
   seen   |-> {x \in r.seen : LogicalKey(x) # LogicalKey(m)} \union {m},
   byCorr |-> IF m.corr = NoCorrelation THEN r.byCorr
              ELSE {x \in r.byCorr : x.corr # m.corr} \union {m},
   queue  |-> Append(r.queue, m)]

\* The router after acknowledging m with code.  The cursor has already moved
\* when a full queue rejects the message.
RouterAfter(r, m, code) ==
  IF code = "ok" THEN Enqueued(r, m)
  ELSE IF code = "BACKPRESSURE" THEN [r EXCEPT !.cursor = Advanced(r, m)]
  ELSE r

-----------------------------------------------------------------------------
IsRevealOf(m, g, s) == m.type = "reveal" /\ m.sub = g /\ m.step = s

IsCommitmentOf(m, g, s) == m.type = "commitment" /\ m.sub = g /\ m.step = s

\* pop_matching with no enqueue in between: the first message of the test
\* leaves the queue, the others keep their order.
WithoutReveal(q, g, s) == RemoveFirstMatch(q, LAMBDA m : IsRevealOf(m, g, s))

WithoutCommitment(q, g, s) == RemoveFirstMatch(q, LAMBDA m : IsCommitmentOf(m, g, s))

\* Mutants of Consumed: the reveal is read and stays queued; the commitment stays
\* queued.
ConsumedPeeking(q, g, s) == WithoutCommitment(q, g, s)

ConsumedUnpruned(q, g, s) == WithoutReveal(q, g, s)

\* The queue once the gateway has consumed the reveal of step s and pruned
\* its commitment.
Consumed(q, g, s) == WithoutCommitment(WithoutReveal(q, g, s), g, s)
=============================================================================
