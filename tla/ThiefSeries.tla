---------------------------- MODULE ThiefSeries ----------------------------
(***************************************************************************)
(* The thief's side of a whole series: the turn loop, the sub-game runtime *)
(* around it and the series runtime around that, sharing one lifecycle     *)
(* machine.  The coroutine only gives up control where it awaits the       *)
(* opponent, so an action runs from one await to the next: the opponent's  *)
(* answers, the failures of a call and a cancellation are the choices made *)
(* at an await.  The strategy may pick any legal direction and the police  *)
(* may claim, or declare a barrier on, any cell.                           *)
(***************************************************************************)
EXTENDS ThiefBoard, PeerLifecycle, Sequences

CONSTANTS ThiefStart,          \* config.board_and_agents.thief_start
          SurvivalThreshold,   \* config.movement_and_barriers.survival_threshold
          NumGames,            \* sub-games in the series
          MaxTurns             \* the caller's turn cap, or NoCap

NoCap == -1

ASSUME SeriesAssumption ==
  /\ ThiefStart \in Cells
  /\ SurvivalThreshold \in Nat \ {0}
  /\ NumGames \in Nat \ {0}
  /\ MaxTurns \in Nat \union {NoCap}

VARIABLES
  machine,    \* lifecycle state, shared with the inbound router
  pc,         \* where the series coroutine stands
  outcome,    \* why the series returned or raised
  index,      \* sub-game being played, from 0
  turns,      \* run_turn calls made in this sub-game
  step,       \* logical step of this sub-game
  position,   \* the thief's true cell
  barriers,   \* barriers the police has declared
  pending,    \* claim answer owed in the next reveal
  exchange,   \* commit/acknowledge/reveal phase of every step
  draft,      \* the sealed record being exchanged
  records,    \* sealed records whose exchange completed
  heard,      \* history: the evidence the last turn resolved
  seriesLog   \* one record per finished sub-game

vars == <<machine, pc, outcome, index, turns, step, position, barriers,
          pending, exchange, draft, records, heard, seriesLog>>

Steps == 0 .. SurvivalThreshold

Responses == {"none", "no", "yes"}

\* "error" stands for a raised sealing ExchangeError.
Phases == {"none", "committed", "acknowledged", "revealed"}

SealedRecord == [step : Steps, position : Cells, move : Directions,
                 claim : Responses, nonce : Nat]

SubGameResults == {"capture", "survival", "technical_loss"}

SubGameRecord == [result : SubGameResults, steps : Nat, verified : BOOLEAN]

\* How an exception can leave the series runtime.
Escapes == {"cancelled", "illegal_action", "malformed_reveal", "rpc_error"}

\* Mutant of TurnCap: no extra turn for a capture in the last step.
TurnCapTooShort == IF MaxTurns = NoCap THEN SurvivalThreshold ELSE MaxTurns

TurnCap == IF MaxTurns = NoCap THEN SurvivalThreshold + 1 ELSE MaxTurns

TypeOK ==
  /\ machine \in PeerStates
  /\ pc \in {"start", "health", "loop", "commit", "reveal", "done", "raised"}
  /\ outcome \in {"running", "completed", "technical_loss_ended_series"}
                   \union Escapes
  /\ index \in 0 .. NumGames
  /\ turns \in Nat
  /\ step \in Steps
  /\ position \in Cells
  /\ barriers \in SUBSET Cells
  /\ pending \in Responses
  /\ exchange \in [Steps -> Phases]
  /\ draft \in SealedRecord
  /\ records \in Seq(SealedRecord)
  /\ heard \in Evidence
  /\ seriesLog \in Seq(SubGameRecord)

-----------------------------------------------------------------------------
\* The per-step guard CommitRevealExchange.  A second commit of a step hashes
\* a different payload, so it is always a conflict.
CommitStep(x, s) ==
  [x EXCEPT ![s] = IF x[s] = "none" THEN "committed" ELSE "error"]

AcknowledgeStep(x, s) ==
  [x EXCEPT ![s] = IF x[s] = "committed" THEN "acknowledged" ELSE "error"]

RevealStep(x, s) ==
  [x EXCEPT ![s] = IF x[s] = "acknowledged" THEN "revealed" ELSE "error"]

\* audit_sealed_records on records this peer sealed itself: the payloads
\* hash to their commitments, so only a repeated nonce can fail the audit.
AuditVerified(recs) ==
  \A i, j \in 1 .. Len(recs) : recs[i].nonce = recs[j].nonce => i = j

\* Mutant of Sealed: seals the cell the move leads to.
SealedAfterMove(d, n) ==
  [step |-> step, position |-> ApplyDirection(position, d), move |-> d,
   claim |-> pending, nonce |-> n]

\* seal_turn: the record fixes the position before the move and the answer
\* owed from the previous turn; new_nonce is fresh or repeats an old one.
Sealed(d, n) == [step |-> step, position |-> position, move |-> d,
                 claim |-> pending, nonce |-> n]

-----------------------------------------------------------------------------
Init ==
  /\ machine = "initializing"
  /\ pc = "start"
  /\ outcome = "running"
  /\ index = 0
  /\ turns = 0
  /\ step = 0
  /\ position = ThiefStart
  /\ barriers = {}
  /\ pending = "none"
  /\ exchange = [s \in Steps |-> "none"]
  /\ draft = [step |-> 0, position |-> ThiefStart, move |-> "STAY",
              claim |-> "none", nonce |-> 0]
  /\ records = <<>>
  /\ heard = NoEvidence
  /\ seriesLog = <<>>

\* The runtime of one sub-game is built afresh; only the machine survives
\* from the previous one.  The first sub-game fast-forwards the machine and
\* waits for the opponent's health endpoint.
StartSubGame ==
  /\ pc = "start"
  /\ turns' = 0
  /\ step' = 0
  /\ position' = ThiefStart
  /\ barriers' = {}
  /\ pending' = "none"
  /\ exchange' = [s \in Steps |-> "none"]
  /\ records' = <<>>
  /\ heard' = NoEvidence
  /\ \/ /\ index = 0
        /\ machine' = FastForwardToWaiting(machine)
        /\ pc' = "health"
     \/ /\ index > 0
        /\ machine' = machine
        /\ pc' = "loop"
  /\ UNCHANGED <<outcome, index, draft, seriesLog>>

\* Mutant of HealthDone: the health poll has no attempt limit.
HealthPolledForever == pc = "health" /\ UNCHANGED vars

\* wait_for_health answered, or gave up and its error was suppressed.
HealthDone ==
  /\ pc = "health"
  /\ pc' = "loop"
  /\ UNCHANGED <<machine, outcome, index, turns, step, position, barriers,
                 pending, exchange, draft, records, heard, seriesLog>>

\* A turn up to its first await: decide a legal direction, seal the turn,
\* register the commitment and send it.
BeginTurn ==
  /\ pc = "loop"
  /\ turns < TurnCap
  /\ \E d \in LegalMoveDirections(position, barriers), n \in 0 .. Len(records) :
       draft' = Sealed(d, n)
  /\ exchange' = CommitStep(exchange, step)
  /\ machine' = After(After(After(machine, "begin_turn"), "move_decided"),
                      "commit_sent")
  /\ turns' = turns + 1
  /\ pc' = "commit"
  /\ UNCHANGED <<outcome, index, step, position, barriers, pending, records,
                 heard, seriesLog>>

\* The commitment was accepted; the reveal goes out.
CommitAcked ==
  /\ pc = "commit"
  /\ pc' = "reveal"
  /\ UNCHANGED <<machine, outcome, index, turns, step, position, barriers,
                 pending, exchange, draft, records, heard, seriesLog>>

-----------------------------------------------------------------------------
\* _finalize with the machine in state m, and the part of run_series that
\* follows without an await: audit unless in ERROR, log the sub-game, then
\* stop the series or advance the machine.
Finalize(m, result, recs) ==
  LET verified == m # "error" /\ AuditVerified(recs)
      last     == index + 1 = NumGames
  IN /\ seriesLog' = Append(seriesLog,
          [result   |-> IF verified THEN result ELSE "technical_loss",
           steps    |-> Len(recs),
           verified |-> verified])
     /\ IF m = "error"
        THEN /\ machine' = m
             /\ pc' = "done"
             /\ outcome' = "technical_loss_ended_series"
             /\ index' = index
        ELSE /\ machine' = After(After(m, "begin_audit"),
                                 IF last THEN "series_audit_done"
                                         ELSE "next_sub_game")
             /\ pc' = IF last THEN "done" ELSE "start"
             /\ outcome' = IF last THEN "completed" ELSE outcome
             /\ index' = index + 1

\* abort(reason): ERROR from wherever the machine is, then _finalize.
Abort(recs) ==
  Finalize(IF machine = "error" THEN machine ELSE ForceError(machine),
           "technical_loss", recs)

\* Either half of the exchange was rejected or unreachable, or no opponent
\* reveal arrived within the poll budget: run_turn forces ERROR.
ExchangeFails ==
  /\ pc \in {"commit", "reveal"}
  /\ Finalize(ForceError(machine), "technical_loss", records)
  /\ UNCHANGED <<turns, step, position, barriers, pending, exchange, draft,
                 records, heard>>

\* The for loop ran out of turns.
TurnCapExhausted ==
  /\ pc = "loop"
  /\ turns = TurnCap
  /\ Abort(records)
  /\ UNCHANGED <<turns, step, position, barriers, pending, exchange, draft,
                 records, heard>>

\* The reveal was acknowledged and the opponent's reveal of this step has
\* been popped from the inbox: the exchange and the record are completed.
RevealDelivered ==
  /\ pc = "reveal"
  /\ exchange' = RevealStep(AcknowledgeStep(exchange, step), step)
  /\ records' = Append(records, draft)

Verifying == After(After(machine, "ack_received"), "reveal_sent")

\* The reveal carried the confirmation of last turn's capture.
ConfirmCapture ==
  /\ RevealDelivered
  /\ pending = "yes"
  /\ Finalize(After(Verifying, "sub_game_ended"), "capture", records')
  /\ UNCHANGED <<turns, step, position, barriers, pending, draft, heard>>

\* resolve_capture and absorb_public_evidence on the opponent's reveal.
ResolveAndAbsorb(opp) ==
  /\ RevealDelivered
  /\ pending # "yes"
  /\ barriers' = barriers \union opp.barrier
  /\ pending' = ClaimResponse(position, opp)
  /\ heard' = opp

\* Captured this turn: the position is frozen until the confirmation.
CapturedThisTurn(opp) ==
  /\ ResolveAndAbsorb(opp)
  /\ Captured(position, opp)
  /\ machine' = After(Verifying, "turn_verified")
  /\ step' = step + 1
  /\ pc' = "loop"
  /\ UNCHANGED <<outcome, index, turns, position, draft, seriesLog>>

\* Mutant of Moved: legality is checked on the board of the decision.
MovedOnOldBoard(opp) ==
  /\ ResolveAndAbsorb(opp)
  /\ ~Captured(position, opp)
  /\ draft.move \in LegalMoveDirections(position, barriers)
  /\ position' = ApplyDirection(position, draft.move)

\* The sealed move is played on the board that now holds the new barrier.
Moved(opp) ==
  /\ ResolveAndAbsorb(opp)
  /\ ~Captured(position, opp)
  /\ draft.move \in LegalMoveDirections(position, barriers')
  /\ position' = ApplyDirection(position, draft.move)

TurnComplete(opp) ==
  /\ Moved(opp)
  /\ step + 1 < SurvivalThreshold
  /\ machine' = After(Verifying, "turn_verified")
  /\ step' = step + 1
  /\ pc' = "loop"
  /\ UNCHANGED <<outcome, index, turns, draft, seriesLog>>

\* Mutant of Survived: survival is declared one step early.
SurvivedEarly(opp) ==
  /\ Moved(opp)
  /\ step + 2 >= SurvivalThreshold
  /\ Finalize(After(Verifying, "sub_game_ended"), "survival", records')
  /\ UNCHANGED <<turns, step, draft>>

Survived(opp) ==
  /\ Moved(opp)
  /\ step + 1 >= SurvivalThreshold
  /\ Finalize(After(Verifying, "sub_game_ended"), "survival", records')
  /\ UNCHANGED <<turns, step, draft>>

\* The new barrier stands where the sealed move leads: apply_move raises
\* IllegalActionError, which run_turn does not catch.
MoveBlocked(opp) ==
  /\ ResolveAndAbsorb(opp)
  /\ ~Captured(position, opp)
  /\ draft.move \notin LegalMoveDirections(position, barriers')
  /\ machine' = Verifying
  /\ pc' = "raised"
  /\ outcome' = "illegal_action"
  /\ UNCHANGED <<index, turns, step, position, draft, seriesLog>>

\* A claim or barrier sent as an object raises KeyError in resolve_capture:
\* run_turn forces ERROR, with this turn's record already complete.
UnreadableReveal ==
  /\ RevealDelivered
  /\ pending # "yes"
  /\ Finalize(ForceError(Verifying), "technical_loss", records')
  /\ UNCHANGED <<turns, step, position, barriers, pending, draft, heard>>

\* Any other claim or barrier that is not a pair of coordinates raises
\* TypeError or IndexError there, which run_turn does not catch.
MalformedReveal ==
  /\ RevealDelivered
  /\ pending # "yes"
  /\ machine' = Verifying
  /\ pc' = "raised"
  /\ outcome' = "malformed_reveal"
  /\ UNCHANGED <<index, turns, step, position, barriers, pending, draft,
                 heard, seriesLog>>

-----------------------------------------------------------------------------
\* An McpError that is neither overload nor timeout passes through the
\* client, the gateway and run_turn.
RpcRaises ==
  /\ pc \in {"health", "commit", "reveal"}
  /\ pc' = "raised"
  /\ outcome' = "rpc_error"
  /\ UNCHANGED <<machine, index, turns, step, position, barriers, pending,
                 exchange, draft, records, heard, seriesLog>>

\* Mutant of Cancel: the handler re-raises without calling abort.
CancelWithoutAbort ==
  /\ pc \in {"health", "commit", "reveal"}
  /\ pc' = "raised"
  /\ outcome' = "cancelled"
  /\ UNCHANGED <<machine, index, turns, step, position, barriers, pending,
                 exchange, draft, records, heard, seriesLog>>

\* Cancellation inside the turn loop is recorded by abort and re-raised; the
\* health wait lies outside that handler.
Cancel ==
  /\ pc \in {"health", "commit", "reveal"}
  /\ machine' = IF pc = "health" THEN machine ELSE ForceError(machine)
  /\ pc' = "raised"
  /\ outcome' = "cancelled"
  /\ UNCHANGED <<index, turns, step, position, barriers, pending, exchange,
                 draft, records, heard, seriesLog>>

Finished == pc \in {"done", "raised"} /\ UNCHANGED vars

RevealOutcome ==
  \/ ConfirmCapture
  \/ UnreadableReveal
  \/ MalformedReveal
  \/ \E opp \in Evidence :
       CapturedThisTurn(opp) \/ TurnComplete(opp) \/ Survived(opp) \/ MoveBlocked(opp)

Progress ==
  \/ StartSubGame
  \/ HealthDone
  \/ BeginTurn
  \/ CommitAcked
  \/ ExchangeFails
  \/ TurnCapExhausted
  \/ RevealOutcome

Next == Progress \/ RpcRaises \/ Cancel \/ Finished

Spec == Init /\ [][Next]_vars

-----------------------------------------------------------------------------
LastRecord == records[Len(records)]

LastGame == seriesLog[Len(seriesLog)]

\* The sealed records replay the game: their steps count up from 0, the first
\* fixes the start cell, each next one stands where the previous move led, or
\* on the same cell when it confirms a capture, and nothing follows a
\* confirmation.  Late barriers, failed turns and the frozen turn after a
\* capture must not break the chain the final audit publishes.
SealedTrail ==
  /\ \A k \in 1 .. Len(records) : records[k].step = k - 1
  /\ records # <<>> => records[1].position = ThiefStart
  /\ \A k \in 1 .. Len(records) - 1 :
       /\ records[k].claim # "yes"
       /\ records[k + 1].position =
            IF records[k + 1].claim = "yes"
            THEN records[k].position
            ELSE ApplyDirection(records[k].position, records[k].move)

\* The answer owed to the police is the truth about the cell sealed for the
\* step the claim was made in, although the thief may have moved since.
HonestAnswer ==
  pc \in {"loop", "commit", "reveal"} /\ records # <<>>
    => /\ pending = "yes" <=> \/ heard.claim = {LastRecord.position}
                             \/ heard.barrier = {LastRecord.position}
       /\ pending = "none" => heard.claim = {}

\* A logged outcome is backed by the sealed records: a capture by a
\* confirmation in the last of them, a survival by exactly the threshold of
\* records and no confirmation, a technical loss by ERROR or a failed audit.
OutcomeJustified ==
  pc \in {"start", "done"} /\ seriesLog # <<>> =>
    /\ LastGame.steps = Len(records)
    /\ LastGame.result = "capture" =>
         records # <<>> /\ LastRecord.claim = "yes"
    /\ LastGame.result = "survival" =>
         /\ Len(records) = SurvivalThreshold
         /\ \A k \in 1 .. Len(records) : records[k].claim # "yes"
    /\ LastGame.result = "technical_loss" =>
         machine = "error" \/ ~AuditVerified(records)

\* The default cap of survival_threshold + 1 turns leaves room for the turn
\* that confirms a capture in the very last step: the loop never runs out.
DefaultCapSuffices ==
  MaxTurns = NoCap => ~(pc = "loop" /\ turns = TurnCap)

\* The thief stands on a declared barrier only as a captured thief.
NeverOnBarrier == position \in barriers => pending = "yes"

\* What the final state of the machine and the reported reason tell of each
\* other.  ERROR is never reported as a completed or a still running series;
\* the failures that a handler catches (a failed exchange, an unreadable
\* reveal, an exhausted cap, a failure of the last sub-game included) and a
\* cancellation inside the turn loop do end in ERROR, the forfeit as the last
\* logged result; and a series is reported completed exactly when the machine
\* has gone through the last audit, with every sub-game logged.  Nothing is
\* said of the machine after the exits that no handler catches: a raw McpError,
\* a malformed reveal, a blocked move, and a cancellation in the health wait.
\* BlockedMoveEndsInError is what the runtime's own comments say of such exits.
FailureReported ==
  /\ machine = "error" => outcome \in {"technical_loss_ended_series", "cancelled"}
  /\ outcome = "technical_loss_ended_series" =>
       machine = "error" /\ LastGame.result = "technical_loss"
  /\ outcome = "cancelled" /\ turns > 0 => machine = "error"
  /\ outcome = "completed" <=> machine = "series_complete"
  /\ outcome = "completed" => Len(seriesLog) = NumGames
  /\ \A k \in 1 .. Len(seriesLog) :
       seriesLog[k].verified \/ seriesLog[k].result = "technical_loss"

\* A captured thief neither moves nor withdraws its confession before the
\* sub-game is over.
FrozenOnceCaptured ==
  [][pc # "start" /\ pending = "yes" => position' = position /\ pending' = pending]_vars

\* What the runtime says of its exits: a turn that fails on a move the rules
\* forbid leaves the machine in ERROR.  The move is chosen before the barrier
\* that blocks it is known.
BlockedMoveEndsInError == outcome = "illegal_action" => machine = "error"

\* Whatever the opponent and the transport do, the series returns or raises.
Terminates == <>(pc \in {"done", "raised"})

-----------------------------------------------------------------------------
\* The series as its caller sees it.
PlayedGames ==
  [k \in DOMAIN seriesLog |-> [result |-> seriesLog[k].result,
                               steps  |-> seriesLog[k].steps]]

SeriesStatus ==
  IF outcome = "running" THEN "open" ELSE IF outcome \in Escapes THEN "raised" ELSE outcome

Contract == INSTANCE SeriesContract WITH
  Threshold <- SurvivalThreshold, Games <- NumGames,
  played <- PlayedGames, status <- SeriesStatus

\* The turn, sub-game and series runtimes together keep the contract of
\* run_series: one scored entry per sub-game, with a step count its result
\* allows, none after a forfeit, and none once the series has ended.
ImplementsContract == Contract!ContractSpec

-----------------------------------------------------------------------------
\* The parts of the inductive invariant behind the safety properties.

InExchange == pc \in {"commit", "reveal"}

InSubGame == pc \in {"health", "loop", "commit", "reveal"}

\* The lifecycle state and the outcome each await is reached in.
LifecycleInv ==
  /\ pc = "start" => machine = IF index = 0 THEN "initializing" ELSE "waiting"
  /\ pc \in {"health", "loop"} => machine = "waiting"
  /\ InExchange => machine = "waiting_for_ack"
  /\ pc \notin {"done", "raised"} => outcome = "running" /\ index < NumGames
  /\ pc = "done" =>
       \/ outcome = "completed" /\ machine = "series_complete" /\ index = NumGames
       \/ outcome = "technical_loss_ended_series" /\ machine = "error"
  /\ pc = "raised" =>
       /\ outcome \in Escapes
       /\ machine # "series_complete"
       /\ machine = "error" => outcome = "cancelled"
       /\ outcome = "cancelled" /\ turns > 0 => machine = "error"

\* One log entry per sub-game that ended, and a series that ended in ERROR
\* has logged the forfeit.
LogInv ==
  /\ outcome = "technical_loss_ended_series" => LastGame.result = "technical_loss"
  /\ Len(seriesLog) =
       IF outcome = "technical_loss_ended_series" THEN index + 1 ELSE index
  /\ \A k \in 1 .. Len(seriesLog) :
       seriesLog[k].verified \/ seriesLog[k].result = "technical_loss"

\* Inside a sub-game the counters, the exchange and the sealed draft move in
\* lockstep, and only a captured thief plays a step past the threshold.
LockstepInv ==
  InSubGame =>
    /\ turns = IF InExchange THEN step + 1 ELSE step
    /\ Len(records) = step
    /\ step = SurvivalThreshold => pending = "yes"
    /\ exchange = [s \in Steps |->
                     IF s < step THEN "revealed"
                     ELSE IF s = step /\ InExchange THEN "committed" ELSE "none"]
    /\ pc = "health" => step = 0
    /\ InExchange =>
         /\ draft = Sealed(draft.move, draft.nonce)
         /\ draft.move \in LegalMoveDirections(position, barriers)

\* The next sealed record will continue the trail from the last one.
TrailEndInv ==
  InSubGame =>
    /\ \A k \in 1 .. Len(records) : records[k].claim # "yes"
    /\ records = <<>> => position = ThiefStart /\ pending = "none"
    /\ records # <<>> =>
         position = IF pending = "yes" THEN LastRecord.position
                    ELSE ApplyDirection(LastRecord.position, LastRecord.move)

\* The inductive invariant: every part is needed to carry the sealed trail,
\* the honest answer and the logged outcomes over one step of the coroutine.
SeriesInv ==
  /\ TypeOK
  /\ LifecycleInv
  /\ LogInv
  /\ LockstepInv
  /\ TrailEndInv
  /\ SealedTrail
  /\ HonestAnswer
  /\ NeverOnBarrier
  /\ OutcomeJustified
=============================================================================
