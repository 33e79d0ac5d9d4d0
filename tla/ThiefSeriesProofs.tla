-------------------------- MODULE ThiefSeriesProofs --------------------------
(***************************************************************************)
(* Proofs about ThiefSeries, and about the LiveView that follows it, for   *)
(* every board size, start cell, threshold, series length and turn cap.    *)
(***************************************************************************)
EXTENDS LiveView, TLAPS

USE GridAssumption, SeriesAssumption

-----------------------------------------------------------------------------
\* The lifecycle events of one turn, as the runtime applies them.
LEMMA LifecycleSteps ==
  /\ FastForwardToWaiting("initializing") = "waiting"
  /\ After(After(After("waiting", "begin_turn"), "move_decided"), "commit_sent")
       = "waiting_for_ack"
  /\ After(After("waiting_for_ack", "ack_received"), "reveal_sent") = "verifying"
  /\ After("verifying", "turn_verified") = "waiting"
  /\ After("verifying", "sub_game_ended") = "sub_game_over"
  /\ After(After("sub_game_over", "begin_audit"), "series_audit_done")
       = "series_complete"
  /\ After(After("sub_game_over", "begin_audit"), "next_sub_game") = "waiting"
  /\ ForceError("waiting") = "error"
  /\ ForceError("waiting_for_ack") = "error"
  /\ ForceError("verifying") = "error"
<1> USE DEF After, Resolve, Table, Transitions, Rejected, TerminalStates
<1>1. After("initializing", "server_started") = "server_ready"
  OBVIOUS
<1>2. After("server_ready", "begin_negotiation") = "negotiating"
  OBVIOUS
<1>3. After("negotiating", "terms_signed") = "signed"
  OBVIOUS
<1>4. After("signed", "sub_game_start") = "waiting"
  OBVIOUS
<1>5. After("waiting", "begin_turn") = "thinking"
  OBVIOUS
<1>6. After("thinking", "move_decided") = "committing"
  OBVIOUS
<1>7. After("committing", "commit_sent") = "waiting_for_ack"
  OBVIOUS
<1>8. After("waiting_for_ack", "ack_received") = "revealing"
  OBVIOUS
<1>9. After("revealing", "reveal_sent") = "verifying"
  OBVIOUS
<1>10. After("verifying", "turn_verified") = "waiting"
  OBVIOUS
<1>11. After("verifying", "sub_game_ended") = "sub_game_over"
  OBVIOUS
<1>12. After("sub_game_over", "begin_audit") = "auditing"
  OBVIOUS
<1>13. After("auditing", "series_audit_done") = "series_complete"
  OBVIOUS
<1>14. After("auditing", "next_sub_game") = "waiting"
  OBVIOUS
<1>15. /\ ForceError("waiting") = "error" /\ ForceError("waiting_for_ack") = "error"
       /\ ForceError("verifying") = "error"
  BY DEF ForceError
<1> HIDE DEF After
<1> QED
  BY <1>1, <1>2, <1>3, <1>4, <1>5, <1>6, <1>7, <1>8, <1>9, <1>10, <1>11, <1>12,
     <1>13, <1>14, <1>15 DEF FastForwardToWaiting

\* A legal direction keeps the thief on the board.
LEMMA LegalStaysOnBoard ==
  ASSUME NEW cell \in Cells, NEW walls \in SUBSET Cells,
         NEW d \in LegalMoveDirections(cell, walls)
  PROVE  ApplyDirection(cell, d) \in Cells
<1>1. CASE d = "STAY"
  <2>1. ApplyDirection(cell, d) = cell
    BY <1>1 DEF ApplyDirection, RowDelta, ColDelta, Cells
  <2> QED BY <2>1
<1>2. CASE d # "STAY"
  BY <1>2 DEF LegalMoveDirections
<1> QED BY <1>1, <1>2

\* Standing still off the barriers, or moving legally, keeps the thief off them.
LEMMA LegalAvoidsBarriers ==
  ASSUME NEW cell \in Cells, NEW walls \in SUBSET Cells, cell \notin walls,
         NEW d \in LegalMoveDirections(cell, walls)
  PROVE  ApplyDirection(cell, d) \notin walls
<1>1. CASE d = "STAY"
  <2>1. ApplyDirection(cell, d) = cell
    BY <1>1 DEF ApplyDirection, RowDelta, ColDelta, Cells
  <2> QED BY <2>1
<1>2. CASE d # "STAY"
  BY <1>2 DEF LegalMoveDirections
<1> QED BY <1>1, <1>2

\* The initial state satisfies the inductive invariant.
LEMMA InitInv == Init => SeriesInv
<1> SUFFICES ASSUME Init PROVE SeriesInv
  OBVIOUS
<1> USE DEF Init
<1>1. TypeOK
  BY DEF TypeOK, PeerStates, Steps, Phases, SealedRecord, Responses, Evidence,
         NoEvidence, MaybeCell, Directions
<1>2. LifecycleInv /\ LogInv
  BY DEF LifecycleInv, LogInv, InExchange
<1>3. LockstepInv /\ TrailEndInv
  BY DEF LockstepInv, TrailEndInv, InSubGame, InExchange
<1>4. SealedTrail /\ HonestAnswer /\ NeverOnBarrier /\ OutcomeJustified
  BY DEF SealedTrail, HonestAnswer, NeverOnBarrier, OutcomeJustified
<1> QED BY <1>1, <1>2, <1>3, <1>4 DEF SeriesInv

-----------------------------------------------------------------------------
\* Starting a sub-game, on a fresh board and with fresh counters.
LEMMA StartInv == SeriesInv /\ StartSubGame => SeriesInv'
<1> SUFFICES ASSUME SeriesInv, StartSubGame PROVE SeriesInv'
  OBVIOUS
<1> USE DEF SeriesInv, StartSubGame
<1>1. machine' = "waiting" /\ pc' \in {"health", "loop"}
  BY LifecycleSteps DEF LifecycleInv
<1>2. TypeOK'
  BY <1>1 DEF TypeOK, PeerStates, Steps, Phases, Responses, Evidence,
              NoEvidence, MaybeCell
<1>3. LifecycleInv'
  BY <1>1 DEF LifecycleInv, InExchange
<1>4. LogInv'
  BY DEF LogInv, LastGame
<1>5. LockstepInv' /\ TrailEndInv'
  BY <1>1 DEF LockstepInv, TrailEndInv, InSubGame, InExchange
<1>6. SealedTrail' /\ HonestAnswer' /\ NeverOnBarrier' /\ OutcomeJustified'
  BY <1>1 DEF SealedTrail, HonestAnswer, NeverOnBarrier, OutcomeJustified
<1> QED BY <1>2, <1>3, <1>4, <1>5, <1>6

\* The health wait and the acknowledged commitment only move the coroutine.
LEMMA AwaitInv == SeriesInv /\ (HealthDone \/ CommitAcked) => SeriesInv'
<1> SUFFICES ASSUME SeriesInv, HealthDone \/ CommitAcked PROVE SeriesInv'
  OBVIOUS
<1> USE DEF SeriesInv, HealthDone, CommitAcked
<1>1. TypeOK' /\ LifecycleInv' /\ LogInv'
  BY DEF TypeOK, LifecycleInv, LogInv, InExchange
<1>2. LockstepInv'
  BY DEF LockstepInv, InSubGame, InExchange, Sealed
<1>3. TrailEndInv'
  BY DEF TrailEndInv, InSubGame, LastRecord
<1>4. SealedTrail' /\ NeverOnBarrier'
  BY DEF SealedTrail, NeverOnBarrier
<1>5. HonestAnswer'
  BY DEF HonestAnswer, LastRecord, LockstepInv, InSubGame, TypeOK
<1>6. OutcomeJustified'
  BY DEF OutcomeJustified
<1> QED BY <1>1, <1>2, <1>3, <1>4, <1>5, <1>6

\* Deciding, sealing and committing a turn.
LEMMA BeginInv == SeriesInv /\ BeginTurn => SeriesInv'
<1> SUFFICES ASSUME SeriesInv, BeginTurn PROVE SeriesInv'
  OBVIOUS
<1> USE DEF SeriesInv, BeginTurn
<1> PICK d \in LegalMoveDirections(position, barriers), n \in 0 .. Len(records) :
      draft' = Sealed(d, n)
  OBVIOUS
<1>1. machine' = "waiting_for_ack"
  BY LifecycleSteps DEF LifecycleInv
<1>2. exchange[step] = "none"
  BY DEF LockstepInv, InSubGame, InExchange, TypeOK, Steps
<1>3. draft' \in SealedRecord
  BY DEF TypeOK, SealedRecord, Sealed, LegalMoveDirections
<1>4. exchange' \in [Steps -> Phases]
  BY <1>2 DEF TypeOK, CommitStep, Phases
<1>5. TypeOK'
  BY <1>1, <1>3, <1>4 DEF TypeOK, PeerStates
<1>6. LifecycleInv' /\ LogInv'
  BY <1>1 DEF LifecycleInv, LogInv, InExchange
<1>7. exchange' = [s \in Steps |-> IF s < step THEN "revealed"
                                   ELSE IF s = step THEN "committed" ELSE "none"]
  BY <1>2 DEF CommitStep, LockstepInv, InSubGame, InExchange, TypeOK, Steps
<1>8. LockstepInv'
  BY <1>7 DEF LockstepInv, InSubGame, InExchange, Sealed, TypeOK
<1>9. TrailEndInv'
  BY DEF TrailEndInv, InSubGame, LastRecord
<1>10. SealedTrail' /\ NeverOnBarrier'
  BY DEF SealedTrail, NeverOnBarrier
<1>11. HonestAnswer' /\ OutcomeJustified'
  BY DEF HonestAnswer, LastRecord, OutcomeJustified
<1> QED BY <1>5, <1>6, <1>8, <1>9, <1>10, <1>11

-----------------------------------------------------------------------------
\* Ending a sub-game: whichever way _finalize is reached, the log, the machine
\* and the outcome stay consistent, provided the records back the result.
LEMMA FinalizeInv ==
  ASSUME SeriesInv, InSubGame,
         NEW m \in {"error", "sub_game_over"}, NEW result \in SubGameResults,
         Finalize(m, result, records'), records' \in Seq(SealedRecord),
         m = "error" <=> result = "technical_loss",
         result = "capture" => records' # <<>> /\ LastRecord'.claim = "yes",
         result = "survival" =>
           /\ Len(records') = SurvivalThreshold
           /\ \A k \in 1 .. Len(records') : records'[k].claim # "yes"
  PROVE  /\ pc' \in {"start", "done"}
         /\ machine' \in PeerStates
         /\ outcome' \in {"running", "completed", "technical_loss_ended_series"}
         /\ index' \in 0 .. NumGames
         /\ seriesLog' \in Seq(SubGameRecord)
         /\ LifecycleInv' /\ LogInv' /\ OutcomeJustified'
<1> DEFINE verified == m # "error" /\ AuditVerified(records')
           entry == [result   |-> IF verified THEN result ELSE "technical_loss",
                     steps    |-> Len(records'),
                     verified |-> verified]
<1>1. /\ pc \notin {"done", "raised"} /\ pc # "start"
      /\ outcome = "running" /\ index \in Nat /\ index < NumGames
      /\ Len(seriesLog) = index /\ seriesLog \in Seq(SubGameRecord)
  BY DEF SeriesInv, LifecycleInv, LogInv, InSubGame, TypeOK
<1>2. entry \in SubGameRecord
  BY DEF SubGameRecord, SubGameResults
<1>3. seriesLog' = Append(seriesLog, entry)
  BY DEF Finalize
<1> HIDE DEF entry
<1>4. /\ seriesLog' \in Seq(SubGameRecord)
      /\ Len(seriesLog') = index + 1
      /\ LastGame' = entry
      /\ \A k \in 1 .. index : seriesLog'[k] = seriesLog[k]
  BY <1>1, <1>2, <1>3 DEF LastGame
<1>5. entry.verified \/ entry.result = "technical_loss"
  BY DEF entry
<1>6. \A k \in 1 .. Len(seriesLog') :
        seriesLog'[k].verified \/ seriesLog'[k].result = "technical_loss"
  BY <1>1, <1>4, <1>5 DEF SeriesInv, LogInv, LastGame
<1>7. CASE m = "error"
  <2>1. /\ machine' = "error" /\ pc' = "done" /\ index' = index
        /\ outcome' = "technical_loss_ended_series"
    BY <1>7 DEF Finalize
  <2>2. LastGame'.result = "technical_loss"
    BY <1>4, <1>7 DEF entry
  <2>3. LifecycleInv' /\ LogInv'
    BY <1>1, <1>4, <1>6, <2>1, <2>2 DEF LifecycleInv, LogInv, InExchange
  <2>4. OutcomeJustified'
    BY <1>4, <1>7, <2>1 DEF OutcomeJustified, entry
  <2> QED BY <1>1, <1>4, <2>1, <2>3, <2>4 DEF PeerStates
<1>8. CASE m = "sub_game_over"
  <2>1. /\ index' = index + 1
        /\ pc' = IF index + 1 = NumGames THEN "done" ELSE "start"
        /\ outcome' = IF index + 1 = NumGames THEN "completed" ELSE "running"
        /\ machine' = IF index + 1 = NumGames THEN "series_complete" ELSE "waiting"
    BY <1>1, <1>8, LifecycleSteps DEF Finalize
  <2>2. LifecycleInv' /\ LogInv'
    BY <1>1, <1>4, <1>6, <2>1 DEF LifecycleInv, LogInv, InExchange, Escapes
  <2>3. OutcomeJustified'
    BY <1>4, <1>8, <2>1 DEF OutcomeJustified, entry
  <2> QED BY <1>1, <1>4, <2>1, <2>2, <2>3 DEF PeerStates
<1> QED BY <1>7, <1>8

\* Completing an exchange appends the sealed draft, which continues the trail.
LEMMA RevealInv ==
  ASSUME SeriesInv, RevealDelivered
  PROVE  /\ records' \in Seq(SealedRecord)
         /\ Len(records') = step + 1
         /\ LastRecord' = draft
         /\ \A k \in 1 .. step : records'[k] = records[k] /\ records[k].claim # "yes"
         /\ draft.position = position /\ draft.claim = pending
         /\ SealedTrail'
         /\ exchange' = [s \in Steps |-> IF s < step + 1 THEN "revealed" ELSE "none"]
         /\ machine = "waiting_for_ack" /\ Verifying = "verifying"
<1> USE DEF RevealDelivered
<1>1. /\ InSubGame /\ InExchange /\ step \in Nat /\ step \in Steps
      /\ records \in Seq(SealedRecord) /\ draft \in SealedRecord /\ Len(records) = step
  BY DEF SeriesInv, TypeOK, LockstepInv, InSubGame, InExchange, Steps
<1>2. draft.step = step /\ draft.position = position /\ draft.claim = pending
  BY <1>1 DEF SeriesInv, LockstepInv, Sealed
<1>3. /\ records' \in Seq(SealedRecord)
      /\ Len(records') = step + 1
      /\ records'[step + 1] = draft
      /\ \A k \in 1 .. step : records'[k] = records[k]
  BY <1>1
<1>4. \A k \in 1 .. step : records[k].claim # "yes"
  BY <1>1 DEF SeriesInv, TrailEndInv
<1>5. SealedTrail'
  <2>1. \A k \in 1 .. Len(records') : records'[k].step = k - 1
    BY <1>1, <1>2, <1>3 DEF SeriesInv, SealedTrail
  <2>2. records'[1].position = ThiefStart
    BY <1>1, <1>2, <1>3 DEF SeriesInv, SealedTrail, TrailEndInv
  <2>3. ASSUME NEW k \in 1 .. Len(records') - 1
        PROVE  /\ records'[k].claim # "yes"
               /\ records'[k + 1].position =
                    IF records'[k + 1].claim = "yes" THEN records'[k].position
                    ELSE ApplyDirection(records'[k].position, records'[k].move)
    <3>1. CASE k = step
      BY <1>1, <1>2, <1>3, <1>4, <3>1 DEF SeriesInv, TrailEndInv, LastRecord
    <3>2. CASE k # step
      BY <1>1, <1>3, <1>4, <3>2 DEF SeriesInv, SealedTrail
    <3> QED BY <3>1, <3>2
  <2> QED BY <2>1, <2>2, <2>3 DEF SealedTrail
<1>6. exchange = [s \in Steps |-> IF s < step THEN "revealed"
                                  ELSE IF s = step THEN "committed" ELSE "none"]
  BY <1>1 DEF SeriesInv, LockstepInv
<1>7. exchange' = [s \in Steps |-> IF s < step + 1 THEN "revealed" ELSE "none"]
  BY <1>1, <1>6 DEF AcknowledgeStep, RevealStep, Steps
<1>8. machine = "waiting_for_ack" /\ Verifying = "verifying"
  BY <1>1, LifecycleSteps DEF SeriesInv, LifecycleInv, Verifying
<1> QED BY <1>1, <1>2, <1>3, <1>4, <1>5, <1>7, <1>8 DEF LastRecord

\* A failed exchange and an exhausted turn cap both end in ERROR.
LEMMA ForfeitInv == SeriesInv /\ (ExchangeFails \/ TurnCapExhausted) => SeriesInv'
<1> SUFFICES ASSUME SeriesInv, ExchangeFails \/ TurnCapExhausted PROVE SeriesInv'
  OBVIOUS
<1> USE DEF ExchangeFails, TurnCapExhausted
<1>1. /\ InSubGame
      /\ UNCHANGED <<turns, step, position, barriers, pending, exchange, draft,
                     records, heard>>
  BY DEF InSubGame
<1>2. Finalize("error", "technical_loss", records')
  <2>1. CASE ExchangeFails
    BY <2>1, LifecycleSteps DEF SeriesInv, LifecycleInv, InExchange
  <2>2. CASE TurnCapExhausted
    BY <2>2, LifecycleSteps DEF Abort, SeriesInv, LifecycleInv
  <2> QED BY <2>1, <2>2
<1>3. records' \in Seq(SealedRecord)
  BY <1>1 DEF SeriesInv, TypeOK
<1>4. /\ pc' \in {"start", "done"}
      /\ machine' \in PeerStates
      /\ outcome' \in {"running", "completed", "technical_loss_ended_series"}
      /\ index' \in 0 .. NumGames
      /\ seriesLog' \in Seq(SubGameRecord)
      /\ LifecycleInv' /\ LogInv' /\ OutcomeJustified'
  BY <1>1, <1>2, <1>3, FinalizeInv DEF SubGameResults
<1>5. TypeOK'
  BY <1>1, <1>4 DEF SeriesInv, TypeOK
<1>6. LockstepInv' /\ TrailEndInv' /\ HonestAnswer'
  BY <1>4 DEF LockstepInv, TrailEndInv, HonestAnswer, InSubGame
<1>7. SealedTrail' /\ NeverOnBarrier'
  BY <1>1 DEF SeriesInv, SealedTrail, NeverOnBarrier
<1> QED BY <1>4, <1>5, <1>6, <1>7 DEF SeriesInv

\* The confirming turn ends the sub-game in a capture.
LEMMA ConfirmInv == SeriesInv /\ ConfirmCapture => SeriesInv'
<1> SUFFICES ASSUME SeriesInv, ConfirmCapture PROVE SeriesInv'
  OBVIOUS
<1> USE DEF ConfirmCapture
<1>1. RevealDelivered /\ InSubGame
  BY DEF RevealDelivered, InSubGame
<1>2. /\ records' \in Seq(SealedRecord)
      /\ Len(records') = step + 1
      /\ LastRecord' = draft /\ draft.claim = "yes"
      /\ SealedTrail'
      /\ exchange' = [s \in Steps |-> IF s < step + 1 THEN "revealed" ELSE "none"]
      /\ Verifying = "verifying"
  BY <1>1, RevealInv
<1>3. records' # <<>>
  BY <1>2 DEF SeriesInv, TypeOK, Steps
<1>4. Finalize("sub_game_over", "capture", records')
  BY <1>2, LifecycleSteps
<1>5. /\ pc' \in {"start", "done"}
      /\ machine' \in PeerStates
      /\ outcome' \in {"running", "completed", "technical_loss_ended_series"}
      /\ index' \in 0 .. NumGames
      /\ seriesLog' \in Seq(SubGameRecord)
      /\ LifecycleInv' /\ LogInv' /\ OutcomeJustified'
  BY <1>1, <1>2, <1>3, <1>4, FinalizeInv DEF SubGameResults
<1>6. TypeOK'
  BY <1>2, <1>5 DEF SeriesInv, TypeOK, Phases
<1>7. LockstepInv' /\ TrailEndInv' /\ HonestAnswer' /\ NeverOnBarrier'
  BY <1>5 DEF SeriesInv, LockstepInv, TrailEndInv, HonestAnswer, InSubGame,
              NeverOnBarrier
<1> QED BY <1>2, <1>5, <1>6, <1>7 DEF SeriesInv

\* A reveal that raises KeyError forfeits the sub-game after its record.
LEMMA UnreadableInv == SeriesInv /\ UnreadableReveal => SeriesInv'
<1> SUFFICES ASSUME SeriesInv, UnreadableReveal PROVE SeriesInv'
  OBVIOUS
<1> USE DEF UnreadableReveal
<1>1. RevealDelivered /\ InSubGame
  BY DEF RevealDelivered, InSubGame
<1>2. /\ records' \in Seq(SealedRecord)
      /\ SealedTrail'
      /\ exchange' = [s \in Steps |-> IF s < step + 1 THEN "revealed" ELSE "none"]
      /\ Verifying = "verifying"
  BY <1>1, RevealInv
<1>3. Finalize("error", "technical_loss", records')
  BY <1>2, LifecycleSteps
<1>4. /\ pc' \in {"start", "done"}
      /\ machine' \in PeerStates
      /\ outcome' \in {"running", "completed", "technical_loss_ended_series"}
      /\ index' \in 0 .. NumGames
      /\ seriesLog' \in Seq(SubGameRecord)
      /\ LifecycleInv' /\ LogInv' /\ OutcomeJustified'
  BY <1>1, <1>2, <1>3, FinalizeInv DEF SubGameResults
<1>5. TypeOK'
  BY <1>2, <1>4 DEF SeriesInv, TypeOK, Phases
<1>6. LockstepInv' /\ TrailEndInv' /\ HonestAnswer' /\ NeverOnBarrier'
  BY <1>4 DEF SeriesInv, LockstepInv, TrailEndInv, HonestAnswer, InSubGame,
              NeverOnBarrier
<1> QED BY <1>2, <1>4, <1>5, <1>6 DEF SeriesInv

\* What resolving the opponent's reveal establishes, before any move.
LEMMA ResolveInv ==
  ASSUME SeriesInv, NEW opp \in Evidence, ResolveAndAbsorb(opp)
  PROVE  /\ step < SurvivalThreshold /\ step \in Nat
         /\ position \in Cells /\ position \notin barriers
         /\ barriers' \in SUBSET Cells
         /\ position \in barriers' => Captured(position, opp)
         /\ pending' \in Responses /\ heard' = opp
         /\ pending' = "yes" <=> Captured(position, opp)
         /\ Captured(position, opp) <=>
              opp.claim = {position} \/ opp.barrier = {position}
         /\ pending' = "none" => opp.claim = {}
         /\ \A k \in 1 .. Len(records') : records'[k].claim # "yes"
<1> USE DEF ResolveAndAbsorb
<1>1. RevealDelivered /\ InSubGame /\ opp.claim \in MaybeCell /\ opp.barrier \in MaybeCell
  BY DEF RevealDelivered, InSubGame, Evidence
<1>2. step \in 0 .. SurvivalThreshold /\ step # SurvivalThreshold
  BY <1>1 DEF SeriesInv, TypeOK, Steps, LockstepInv
<1>3. position \in Cells /\ position \notin barriers /\ barriers \in SUBSET Cells
  BY DEF SeriesInv, TypeOK, NeverOnBarrier
<1>4. Captured(position, opp) <=> opp.claim = {position} \/ opp.barrier = {position}
  BY <1>1 DEF Captured, MaybeCell
<1>5. \A k \in 1 .. Len(records') : records'[k].claim # "yes"
  <2>1. /\ Len(records') = step + 1 /\ LastRecord' = draft /\ draft.claim = pending
        /\ \A k \in 1 .. step : records'[k] = records[k] /\ records[k].claim # "yes"
    BY <1>1, RevealInv
  <2> QED BY <1>2, <2>1 DEF LastRecord
<1>6. barriers' \in SUBSET Cells /\ (position \in barriers' => Captured(position, opp))
  BY <1>1, <1>3 DEF MaybeCell, Captured
<1>7. /\ pending' \in Responses
      /\ pending' = "yes" <=> Captured(position, opp)
      /\ pending' = "none" => opp.claim = {}
  BY DEF ClaimResponse, Responses
<1> QED BY <1>2, <1>3, <1>4, <1>5, <1>6, <1>7

\* The thief's new cell after its sealed move on the updated board.
LEMMA MovedInv ==
  ASSUME SeriesInv, NEW opp \in Evidence, Moved(opp)
  PROVE  /\ position' \in Cells /\ position' \notin barriers'
         /\ pending' # "yes"
         /\ position' = ApplyDirection(position, draft.move)
<1> USE DEF Moved
<1>1. /\ position \in Cells /\ barriers' \in SUBSET Cells
      /\ position \notin barriers' /\ pending' # "yes"
  BY ResolveInv
<1> QED BY <1>1, LegalStaysOnBoard, LegalAvoidsBarriers

\* A turn that goes on to the next one, captured or moved.
LEMMA NextTurnInv ==
  ASSUME SeriesInv, NEW opp \in Evidence, CapturedThisTurn(opp) \/ TurnComplete(opp)
  PROVE  SeriesInv'
<1> USE DEF CapturedThisTurn, TurnComplete
<1>1. /\ ResolveAndAbsorb(opp) /\ RevealDelivered
      /\ machine' = After(Verifying, "turn_verified")
      /\ step' = step + 1 /\ pc' = "loop" /\ pc = "reveal"
      /\ UNCHANGED <<outcome, index, turns, draft, seriesLog>>
  BY DEF Moved, ResolveAndAbsorb, RevealDelivered
<1>2. /\ records' \in Seq(SealedRecord)
      /\ Len(records') = step + 1
      /\ LastRecord' = draft /\ draft.position = position
      /\ SealedTrail'
      /\ exchange' = [s \in Steps |-> IF s < step + 1 THEN "revealed" ELSE "none"]
      /\ machine' = "waiting"
  BY <1>1, RevealInv, LifecycleSteps
<1>3. /\ step < SurvivalThreshold /\ step \in Nat
      /\ position \in Cells /\ barriers' \in SUBSET Cells
      /\ pending' \in Responses /\ heard' = opp
      /\ pending' = "yes" <=> Captured(position, opp)
      /\ Captured(position, opp) <=>
           opp.claim = {position} \/ opp.barrier = {position}
      /\ pending' = "none" => opp.claim = {}
      /\ \A k \in 1 .. Len(records') : records'[k].claim # "yes"
  BY <1>1, ResolveInv
<1>4. /\ position' \in Cells
      /\ position' \in barriers' => pending' = "yes"
      /\ position' = IF pending' = "yes" THEN position
                     ELSE ApplyDirection(position, draft.move)
  <2>1. CASE CapturedThisTurn(opp)
    BY <1>3, <2>1
  <2>2. CASE TurnComplete(opp)
    BY <2>2, MovedInv
  <2> QED BY <2>1, <2>2
<1>5. step + 1 = SurvivalThreshold => pending' = "yes"
  BY <1>3 DEF Moved
<1>6. turns = step + 1
  BY <1>1 DEF SeriesInv, LockstepInv, InSubGame, InExchange
<1>7. TypeOK'
  <2>1. step' \in Steps /\ exchange' \in [Steps -> Phases]
    BY <1>1, <1>2, <1>3 DEF Steps, Phases
  <2> QED BY <1>1, <1>2, <1>3, <1>4, <2>1 DEF SeriesInv, TypeOK, PeerStates
<1>8. LifecycleInv' /\ LogInv'
  BY <1>1, <1>2 DEF SeriesInv, LifecycleInv, LogInv, InExchange
<1>9. LockstepInv'
  BY <1>1, <1>2, <1>5, <1>6 DEF LockstepInv, InSubGame, InExchange
<1>10. TrailEndInv'
  <2>1. records' # <<>>
    BY <1>2, <1>3
  <2> QED BY <1>1, <1>2, <1>3, <1>4, <2>1 DEF TrailEndInv
<1>11. HonestAnswer'
  BY <1>2, <1>3 DEF HonestAnswer
<1>12. NeverOnBarrier' /\ OutcomeJustified'
  BY <1>1, <1>4 DEF NeverOnBarrier, OutcomeJustified
<1> QED BY <1>2, <1>7, <1>8, <1>9, <1>10, <1>11, <1>12 DEF SeriesInv

\* Surviving the last step.
LEMMA SurvivedInv ==
  ASSUME SeriesInv, NEW opp \in Evidence, Survived(opp)
  PROVE  SeriesInv'
<1> USE DEF Survived
<1>1. ResolveAndAbsorb(opp) /\ RevealDelivered /\ InSubGame
  BY DEF Moved, ResolveAndAbsorb, RevealDelivered, InSubGame
<1>2. /\ records' \in Seq(SealedRecord)
      /\ Len(records') = step + 1
      /\ SealedTrail'
      /\ exchange' = [s \in Steps |-> IF s < step + 1 THEN "revealed" ELSE "none"]
      /\ Verifying = "verifying"
  BY <1>1, RevealInv
<1>3. /\ step < SurvivalThreshold /\ step \in Nat
      /\ barriers' \in SUBSET Cells /\ pending' \in Responses /\ heard' = opp
      /\ \A k \in 1 .. Len(records') : records'[k].claim # "yes"
  BY <1>1, ResolveInv
<1>4. position' \in Cells /\ position' \notin barriers'
  BY MovedInv
<1>5. Len(records') = SurvivalThreshold
  BY <1>2, <1>3
<1>6. Finalize("sub_game_over", "survival", records')
  BY <1>2, LifecycleSteps
<1>7. /\ pc' \in {"start", "done"}
      /\ machine' \in PeerStates
      /\ outcome' \in {"running", "completed", "technical_loss_ended_series"}
      /\ index' \in 0 .. NumGames
      /\ seriesLog' \in Seq(SubGameRecord)
      /\ LifecycleInv' /\ LogInv' /\ OutcomeJustified'
  BY <1>1, <1>2, <1>3, <1>5, <1>6, FinalizeInv DEF SubGameResults
<1>8. TypeOK'
  <2>1. exchange' \in [Steps -> Phases]
    BY <1>2 DEF Phases
  <2> QED BY <1>2, <1>3, <1>4, <1>7, <2>1 DEF SeriesInv, TypeOK
<1>9. LockstepInv' /\ TrailEndInv' /\ HonestAnswer' /\ NeverOnBarrier'
  BY <1>4, <1>7 DEF LockstepInv, TrailEndInv, HonestAnswer, InSubGame, NeverOnBarrier
<1> QED BY <1>2, <1>7, <1>8, <1>9 DEF SeriesInv

\* An exception that leaves the runtime after the reveal was delivered.
LEMMA RaisedInRevealInv ==
  ASSUME SeriesInv,
         MalformedReveal \/ \E opp \in Evidence : MoveBlocked(opp)
  PROVE  SeriesInv'
<1>1. /\ RevealDelivered /\ pending # "yes"
      /\ machine' = Verifying /\ pc' = "raised"
      /\ outcome' \in {"malformed_reveal", "illegal_action"}
      /\ UNCHANGED <<index, turns, step, position, draft, seriesLog>>
  BY DEF MalformedReveal, MoveBlocked, ResolveAndAbsorb
<1>2. /\ records' \in Seq(SealedRecord) /\ SealedTrail'
      /\ exchange' = [s \in Steps |-> IF s < step + 1 THEN "revealed" ELSE "none"]
      /\ machine' = "verifying"
  BY <1>1, RevealInv
<1>3. /\ barriers' \in SUBSET Cells /\ pending' \in Responses /\ heard' \in Evidence
      /\ position' \notin barriers'
  <2>1. CASE MalformedReveal
    BY <2>1 DEF MalformedReveal, SeriesInv, TypeOK, NeverOnBarrier
  <2>2. ASSUME NEW opp \in Evidence, MoveBlocked(opp)
        PROVE  /\ barriers' \in SUBSET Cells /\ pending' \in Responses
               /\ heard' \in Evidence /\ position' \notin barriers'
    BY <1>1, <2>2, ResolveInv DEF MoveBlocked
  <2> QED BY <2>1, <2>2
<1>4. TypeOK'
  <2>1. exchange' \in [Steps -> Phases]
    BY <1>2 DEF Phases
  <2> QED BY <1>1, <1>2, <1>3, <2>1 DEF SeriesInv, TypeOK, PeerStates, Escapes
<1>5. LifecycleInv' /\ LogInv'
  BY <1>1, <1>2 DEF RevealDelivered, SeriesInv, LifecycleInv, LogInv, InExchange, Escapes
<1>6. /\ LockstepInv' /\ TrailEndInv' /\ HonestAnswer' /\ NeverOnBarrier'
      /\ OutcomeJustified'
  BY <1>1, <1>3 DEF LockstepInv, TrailEndInv, HonestAnswer, InSubGame, NeverOnBarrier,
                    OutcomeJustified
<1> QED BY <1>2, <1>4, <1>5, <1>6 DEF SeriesInv

\* An exception or a cancellation at an await.
LEMMA RaisedAtAwaitInv == SeriesInv /\ (RpcRaises \/ Cancel) => SeriesInv'
<1> SUFFICES ASSUME SeriesInv, RpcRaises \/ Cancel PROVE SeriesInv'
  OBVIOUS
<1> USE DEF RpcRaises, Cancel
<1>1. /\ pc \in {"health", "commit", "reveal"} /\ pc' = "raised"
      /\ outcome' \in {"rpc_error", "cancelled"}
      /\ UNCHANGED <<index, turns, step, position, barriers, pending, exchange,
                     draft, records, heard, seriesLog>>
  OBVIOUS
<1>2. machine' = IF outcome' = "cancelled" /\ turns > 0 THEN "error" ELSE machine
  BY LifecycleSteps DEF SeriesInv, LifecycleInv, LockstepInv, InSubGame, InExchange,
                        TypeOK, Steps
<1>3. machine \in {"waiting", "waiting_for_ack"} /\ outcome = "running"
  BY <1>1 DEF SeriesInv, LifecycleInv, InExchange
<1>4. TypeOK'
  BY <1>1, <1>2 DEF SeriesInv, TypeOK, PeerStates, Escapes
<1>5. LifecycleInv' /\ LogInv'
  BY <1>1, <1>2, <1>3 DEF SeriesInv, LifecycleInv, LogInv, InExchange, Escapes
<1>6. /\ LockstepInv' /\ TrailEndInv' /\ HonestAnswer' /\ OutcomeJustified'
      /\ SealedTrail' /\ NeverOnBarrier'
  BY <1>1 DEF SeriesInv, LockstepInv, TrailEndInv, HonestAnswer, InSubGame,
              OutcomeJustified, SealedTrail, NeverOnBarrier
<1> QED BY <1>4, <1>5, <1>6 DEF SeriesInv

\* Every step of the coroutine, and stuttering, preserves the invariant.
LEMMA NextInv == SeriesInv /\ [Next]_vars => SeriesInv'
<1> SUFFICES ASSUME SeriesInv, [Next]_vars PROVE SeriesInv'
  OBVIOUS
<1>1. CASE StartSubGame
  BY <1>1, StartInv
<1>2. CASE HealthDone \/ CommitAcked
  BY <1>2, AwaitInv
<1>3. CASE BeginTurn
  BY <1>3, BeginInv
<1>4. CASE ExchangeFails \/ TurnCapExhausted
  BY <1>4, ForfeitInv
<1>5. CASE RevealOutcome
  <2>1. CASE ConfirmCapture
    BY <2>1, ConfirmInv
  <2>5. CASE UnreadableReveal
    BY <2>5, UnreadableInv
  <2>2. ASSUME NEW opp \in Evidence, CapturedThisTurn(opp) \/ TurnComplete(opp)
        PROVE  SeriesInv'
    BY <2>2, NextTurnInv
  <2>3. ASSUME NEW opp \in Evidence, Survived(opp)
        PROVE  SeriesInv'
    BY <2>3, SurvivedInv
  <2>4. CASE MalformedReveal \/ \E opp \in Evidence : MoveBlocked(opp)
    BY <2>4, RaisedInRevealInv
  <2> QED BY <1>5, <2>1, <2>2, <2>3, <2>4, <2>5 DEF RevealOutcome
<1>6. CASE RpcRaises \/ Cancel
  BY <1>6, RaisedAtAwaitInv
<1>7. CASE UNCHANGED vars
  BY <1>7 DEF vars, SeriesInv, TypeOK, LifecycleInv, LogInv, LockstepInv, TrailEndInv,
              SealedTrail, HonestAnswer, NeverOnBarrier, OutcomeJustified, InSubGame,
              InExchange, LastRecord, LastGame, Sealed
<1> QED BY <1>1, <1>2, <1>3, <1>4, <1>5, <1>6, <1>7 DEF Next, Progress, Finished

\* The inductive invariant holds in every reachable state of the series.
THEOREM SeriesInvariant == Spec => []SeriesInv
<1>1. Init => SeriesInv
  BY InitInv
<1>2. SeriesInv /\ [Next]_vars => SeriesInv'
  BY NextInv
<1> QED BY <1>1, <1>2, PTL DEF Spec

\* No lifecycle event is ever applied in a state that rejects it, no exchange
\* error is raised, and every counter stays in range.
THEOREM SeriesTypeCorrect == Spec => []TypeOK
<1>1. SeriesInv => TypeOK
  BY DEF SeriesInv
<1> QED BY <1>1, SeriesInvariant, PTL

\* The records the final audit publishes replay the thief's walk.
THEOREM SeriesSealedTrail == Spec => []SealedTrail
<1>1. SeriesInv => SealedTrail
  BY DEF SeriesInv
<1> QED BY <1>1, SeriesInvariant, PTL

\* The answer owed is the truth about the cell the claim was made against.
THEOREM SeriesHonestAnswer == Spec => []HonestAnswer
<1>1. SeriesInv => HonestAnswer
  BY DEF SeriesInv
<1> QED BY <1>1, SeriesInvariant, PTL

\* Every logged result is backed by the sealed records.
THEOREM SeriesOutcomeJustified == Spec => []OutcomeJustified
<1>1. SeriesInv => OutcomeJustified
  BY DEF SeriesInv
<1> QED BY <1>1, SeriesInvariant, PTL

\* Only a captured thief stands on a barrier.
THEOREM SeriesNeverOnBarrier == Spec => []NeverOnBarrier
<1>1. SeriesInv => NeverOnBarrier
  BY DEF SeriesInv
<1> QED BY <1>1, SeriesInvariant, PTL

\* The default turn cap is never what ends a sub-game.
THEOREM SeriesDefaultCapSuffices == Spec => []DefaultCapSuffices
<1>1. SeriesInv => DefaultCapSuffices
  BY DEF SeriesInv, TypeOK, LockstepInv, InSubGame, InExchange, Steps,
         DefaultCapSuffices, TurnCap
<1> QED BY <1>1, SeriesInvariant, PTL

\* ERROR is never reported as success, every failure that a handler catches ends
\* in ERROR, and only a fully audited series is reported completed.
THEOREM SeriesFailureReported == Spec => []FailureReported
<1>1. SeriesInv => FailureReported
  <2> SUFFICES ASSUME SeriesInv PROVE FailureReported
    OBVIOUS
  <2>1. pc \in {"start", "health", "loop", "commit", "reveal", "done", "raised"}
    BY DEF SeriesInv, TypeOK
  <2>2. CASE pc \notin {"done", "raised"}
    BY <2>1, <2>2 DEF SeriesInv, LifecycleInv, LogInv, InExchange, FailureReported
  <2>3. CASE pc = "done"
    BY <2>3 DEF SeriesInv, LifecycleInv, LogInv, FailureReported
  <2>4. CASE pc = "raised"
    BY <2>4 DEF SeriesInv, LifecycleInv, LogInv, FailureReported, Escapes
  <2> QED BY <2>2, <2>3, <2>4
<1> QED BY <1>1, SeriesInvariant, PTL

\* A captured thief neither moves nor takes its confession back.
THEOREM SeriesFrozenOnceCaptured == Spec => FrozenOnceCaptured
<1>1. [Next]_vars =>
        [pc # "start" /\ pending = "yes" => position' = position /\ pending' = pending]_vars
  BY DEF vars, Next, Progress, RevealOutcome, Finished, StartSubGame, HealthDone,
         BeginTurn, CommitAcked, ExchangeFails, TurnCapExhausted, ConfirmCapture,
         UnreadableReveal, MalformedReveal, CapturedThisTurn, TurnComplete, Survived, MoveBlocked, Moved,
         ResolveAndAbsorb, RpcRaises, Cancel
<1> QED BY <1>1, PTL DEF Spec, FrozenOnceCaptured

-----------------------------------------------------------------------------
\* Logging a sub-game appends its result and step count to what the caller sees.
LEMMA PlayedAppend ==
  ASSUME seriesLog \in Seq(SubGameRecord), NEW e \in SubGameRecord,
         seriesLog' = Append(seriesLog, e)
  PROVE  PlayedGames' = Append(PlayedGames, [result |-> e.result, steps |-> e.steps])
<1> DEFINE n == Len(seriesLog)
           game == [result |-> e.result, steps |-> e.steps]
<1>1. n \in Nat /\ DOMAIN seriesLog = 1 .. n /\ DOMAIN seriesLog' = 1 .. n + 1
  OBVIOUS
<1>2. PlayedGames \in Seq([result : SubGameResults, steps : Nat]) /\ Len(PlayedGames) = n
  <2>1. \A k \in 1 .. n : seriesLog[k] \in SubGameRecord
    OBVIOUS
  <2> QED BY <1>1, <2>1 DEF PlayedGames, SubGameRecord
<1>3. \A k \in 1 .. n + 1 : PlayedGames'[k] = IF k = n + 1 THEN game ELSE PlayedGames[k]
  BY <1>1 DEF PlayedGames
<1>4. \A k \in 1 .. n + 1 :
        Append(PlayedGames, game)[k] = IF k = n + 1 THEN game ELSE PlayedGames[k]
  BY <1>1, <1>2
<1>5. PlayedGames' = [k \in 1 .. n + 1 |-> PlayedGames'[k]]
  BY <1>1 DEF PlayedGames
<1>6. Append(PlayedGames, game) = [k \in 1 .. n + 1 |-> Append(PlayedGames, game)[k]]
  BY <1>1, <1>2
<1> QED BY <1>3, <1>4, <1>5, <1>6

\* Finalizing scores one sub-game or forfeits the series.
LEMMA FinalizeRefines ==
  ASSUME SeriesInv, InSubGame,
         NEW m \in {"error", "sub_game_over"}, NEW result \in SubGameResults,
         Finalize(m, result, records'), records' \in Seq(SealedRecord),
         m = "error" => Len(records') \in 0 .. SurvivalThreshold,
         m # "error" => /\ Len(records') \in 1 .. SurvivalThreshold + 1
                        /\ result = "survival" => Len(records') = SurvivalThreshold
                        /\ result = "capture" => Len(records') >= 2
  PROVE  Contract!ContractNext
<1> DEFINE verified == m # "error" /\ AuditVerified(records')
           entry == [result   |-> IF verified THEN result ELSE "technical_loss",
                     steps    |-> Len(records'),
                     verified |-> verified]
           game == [result |-> entry.result, steps |-> entry.steps]
<1>1. /\ outcome = "running" /\ index \in Nat /\ index < NumGames
      /\ Len(seriesLog) = index /\ seriesLog \in Seq(SubGameRecord)
  BY DEF SeriesInv, LifecycleInv, LogInv, InSubGame, TypeOK
<1>2. entry \in SubGameRecord
  BY DEF SubGameRecord, SubGameResults
<1>3. seriesLog' = Append(seriesLog, entry)
  BY DEF Finalize
<1>4. PlayedGames' = Append(PlayedGames, game)
  <2> HIDE DEF entry
  <2> QED BY <1>1, <1>2, <1>3, PlayedAppend
<1>5. Len(PlayedGames') = index + 1
  <2> HIDE DEF entry
  <2>1. Len(seriesLog') = index + 1 /\ seriesLog' \in Seq(SubGameRecord)
    BY <1>1, <1>2, <1>3
  <2> QED BY <2>1 DEF PlayedGames
<1>6. SeriesStatus = "open"
  BY <1>1 DEF SeriesStatus
<1>7. CASE m = "error"
  <2>1. outcome' = "technical_loss_ended_series"
    BY <1>7 DEF Finalize
  <2>2. SeriesStatus' = "technical_loss_ended_series"
    BY <2>1 DEF SeriesStatus, Escapes
  <2>3. game = [result |-> "technical_loss", steps |-> Len(records')]
    BY <1>7
  <2>4. Contract!ForfeitGame
    BY <1>4, <1>6, <1>7, <2>2, <2>3 DEF Contract!ForfeitGame
  <2> QED BY <2>4 DEF Contract!ContractNext
<1>8. CASE m = "sub_game_over"
  <2>1. outcome' = IF index + 1 = NumGames THEN "completed" ELSE "running"
    BY <1>1, <1>8 DEF Finalize
  <2>2. SeriesStatus' = IF Len(PlayedGames') = NumGames THEN "completed" ELSE "open"
    BY <1>5, <2>1 DEF SeriesStatus, Escapes
  <2>3. game \in Contract!PlayedResults
    <3>1. CASE verified /\ result = "survival"
      BY <1>8, <3>1 DEF Contract!PlayedResults
    <3>2. CASE verified /\ result = "capture"
      BY <1>8, <3>2 DEF Contract!PlayedResults
    <3>3. CASE ~verified \/ result = "technical_loss"
      BY <1>8, <3>3 DEF Contract!PlayedResults
    <3> QED BY <3>1, <3>2, <3>3 DEF SubGameResults
  <2>4. Contract!ScoreGame
    BY <1>4, <1>6, <2>2, <2>3 DEF Contract!ScoreGame
  <2> QED BY <2>4 DEF Contract!ContractNext
<1> QED BY <1>7, <1>8

\* Every step of the series is a step of the contract or leaves it alone.
LEMMA StepRefines ==
  SeriesInv /\ [Next]_vars => [Contract!ContractNext]_(Contract!contractVars)
<1> SUFFICES ASSUME SeriesInv, [Next]_vars
             PROVE  Contract!ContractNext \/ UNCHANGED Contract!contractVars
  OBVIOUS
<1>0. step \in 0 .. SurvivalThreshold /\ records \in Seq(SealedRecord)
  BY DEF SeriesInv, TypeOK, Steps
<1>1. CASE outcome' = outcome /\ seriesLog' = seriesLog
  BY <1>1 DEF Contract!contractVars, PlayedGames, SeriesStatus
<1>2. CASE outcome = "running" /\ outcome' \in Escapes /\ seriesLog' = seriesLog
  BY <1>2 DEF Contract!ContractNext, Contract!AbandonSeries, PlayedGames,
              SeriesStatus, Escapes
<1>3. CASE ExchangeFails \/ TurnCapExhausted
  <2>1. InSubGame /\ records' = records
    BY <1>3 DEF ExchangeFails, TurnCapExhausted, InSubGame
  <2>2. Finalize("error", "technical_loss", records')
    BY <1>3, <2>1, LifecycleSteps
       DEF ExchangeFails, TurnCapExhausted, Abort, SeriesInv, LifecycleInv, InExchange
  <2>3. Len(records') \in 0 .. SurvivalThreshold
    BY <1>0, <2>1 DEF SeriesInv, LockstepInv
  <2> QED BY <1>0, <2>1, <2>2, <2>3, FinalizeRefines DEF SubGameResults
<1>4. CASE ConfirmCapture
  <2>1. InSubGame /\ RevealDelivered /\ pending = "yes"
    BY <1>4 DEF ConfirmCapture, RevealDelivered, InSubGame
  <2>2. /\ records' \in Seq(SealedRecord) /\ Len(records') = step + 1
        /\ Verifying = "verifying"
    BY <2>1, RevealInv
  <2>3. step >= 1
    BY <1>0, <2>1 DEF SeriesInv, LockstepInv, TrailEndInv
  <2>4. Finalize("sub_game_over", "capture", records')
    BY <1>4, <2>2, LifecycleSteps DEF ConfirmCapture
  <2> QED BY <1>0, <2>1, <2>2, <2>3, <2>4, FinalizeRefines DEF SubGameResults
<1>10. CASE UnreadableReveal
  <2>1. InSubGame /\ RevealDelivered /\ pending # "yes"
    BY <1>10 DEF UnreadableReveal, RevealDelivered, InSubGame
  <2>2. /\ records' \in Seq(SealedRecord) /\ Len(records') = step + 1
        /\ Verifying = "verifying"
    BY <2>1, RevealInv
  <2>3. step # SurvivalThreshold
    BY <2>1 DEF SeriesInv, LockstepInv
  <2>4. Finalize("error", "technical_loss", records')
    BY <1>10, <2>2, LifecycleSteps DEF UnreadableReveal
  <2> QED BY <1>0, <2>1, <2>2, <2>3, <2>4, FinalizeRefines DEF SubGameResults
<1>5. ASSUME NEW opp \in Evidence, Survived(opp)
      PROVE  Contract!ContractNext
  <2>1. InSubGame /\ RevealDelivered /\ ResolveAndAbsorb(opp)
    BY <1>5 DEF Survived, Moved, ResolveAndAbsorb, RevealDelivered, InSubGame
  <2>2. /\ records' \in Seq(SealedRecord) /\ Len(records') = step + 1
        /\ Verifying = "verifying"
    BY <2>1, RevealInv
  <2>3. step < SurvivalThreshold
    BY <2>1, ResolveInv
  <2>4. Finalize("sub_game_over", "survival", records') /\ step + 1 >= SurvivalThreshold
    BY <1>5, <2>2, LifecycleSteps DEF Survived
  <2> QED BY <1>0, <2>1, <2>2, <2>3, <2>4, FinalizeRefines DEF SubGameResults
<1>6. CASE UNCHANGED vars
  BY <1>1, <1>6 DEF vars
<1>7. CASE StartSubGame \/ HealthDone \/ BeginTurn \/ CommitAcked
  BY <1>1, <1>7 DEF StartSubGame, HealthDone, BeginTurn, CommitAcked
<1>8. ASSUME NEW opp \in Evidence, CapturedThisTurn(opp) \/ TurnComplete(opp)
      PROVE  UNCHANGED Contract!contractVars
  BY <1>1, <1>8 DEF CapturedThisTurn, TurnComplete, Contract!contractVars, PlayedGames,
                    SeriesStatus
<1>9. ASSUME MalformedReveal \/ RpcRaises \/ Cancel
             \/ \E opp \in Evidence : MoveBlocked(opp)
      PROVE  Contract!ContractNext
  <2>1. pc \in {"health", "commit", "reveal"}
    BY <1>9 DEF MalformedReveal, RpcRaises, Cancel, MoveBlocked, ResolveAndAbsorb,
                RevealDelivered
  <2>2. outcome = "running"
    BY <2>1 DEF SeriesInv, LifecycleInv
  <2>3. outcome' \in Escapes /\ seriesLog' = seriesLog
    BY <1>9 DEF MalformedReveal, RpcRaises, Cancel, MoveBlocked, Escapes
  <2> QED BY <2>2, <2>3 DEF Contract!ContractNext, Contract!AbandonSeries, PlayedGames,
                            SeriesStatus, Escapes
<1> QED
  BY <1>3, <1>4, <1>5, <1>6, <1>7, <1>8, <1>9, <1>10
     DEF Next, Progress, RevealOutcome, Finished

\* The runtime implements the contract of run_series: every behaviour of the
\* turn, sub-game and series loops is, seen through the scored sub-games and
\* the reported status, a behaviour the contract allows.
THEOREM SeriesImplementsContract == Spec => ImplementsContract
<1>1. Init => Contract!ContractInit
  BY DEF Init, Contract!ContractInit, PlayedGames, SeriesStatus
<1>2. SeriesInv /\ [Next]_vars => [Contract!ContractNext]_(Contract!contractVars)
  BY StepRefines
<1> QED
  BY <1>1, <1>2, SeriesInvariant, PTL DEF Spec, ImplementsContract, Contract!ContractSpec

-----------------------------------------------------------------------------
(* The live view of the series, folded from the events of its turns.       *)

\* The fields of a LiveViewModel.
IsView(v) ==
  /\ v = [sub |-> v.sub, step |-> v.step, position |-> v.position, path |-> v.path,
          barriers |-> v.barriers, banner |-> v.banner, connection |-> v.connection,
          flags |-> v.flags, key |-> v.key]
  /\ v.path \in Seq(Int \X Int)

\* The last event folded is a decision exactly while an exchange is under way, so
\* no event of the series is ever taken for a redelivery of the one before it.
KeyInv ==
  /\ InExchange => view.key[1] = "decision"
  /\ pc \in {"start", "health", "loop"} => view.key[1] # "decision"

\* Until the first decision of a sub-game the view is that of an earlier one.
EarlierInv ==
  pc \in {"start", "health"} \/ (pc = "loop" /\ records = <<>>) =>
    view.sub \in 0 .. index /\ (index = 0 => view.banner = "playing")

\* From then on it is the view of this sub-game, one cell per decision.
CurrentInv ==
  /\ InExchange =>
       /\ view.sub = index + 1 /\ view.step = step /\ view.banner = "playing"
       /\ Len(view.path) = step + 1
       /\ view.path[step + 1] = ApplyDirection(position, draft.move)
       /\ view.position = ApplyDirection(position, draft.move)
  /\ pc = "loop" /\ records # <<>> =>
       view.sub = index + 1 /\ Len(view.path) = step

\* A turn was played, so the turn cap is not zero.
CapInv == index > 0 \/ InExchange => TurnCap > 0

\* The inductive invariant of the live view.
LiveInv ==
  /\ IsView(view)
  /\ KeyInv
  /\ EarlierInv
  /\ CurrentInv
  /\ CapInv
  /\ ViewShowsGame
  /\ BannerMatchesLog

-----------------------------------------------------------------------------
\* Every step of the live series is a step of the series.
LEMMA LiveStepIsStep == [LiveNext]_liveVars => [Next]_vars
  BY DEF LiveNext, liveVars, LiveProgress, LiveBeginTurn, LiveExchangeFails,
         LiveUnreadableReveal, LiveConfirmCapture, LiveResolve, LiveSilent, Next, Progress,
         RevealOutcome

\* A decision that is not a redelivery.
LEMMA DecisionFolds ==
  ASSUME IsView(view), view.key[1] # "decision", position \in Cells,
         NEW d \in Directions, Publishing(DecisionEvent(d))
  PROVE  /\ IsView(view')
         /\ view'.sub = index + 1 /\ view'.step = step
         /\ view'.position = ApplyDirection(position, d)
         /\ view'.path = Append(IF index + 1 # view.sub THEN <<>> ELSE view.path,
                                ApplyDirection(position, d))
         /\ view'.banner = (IF index + 1 # view.sub THEN "playing" ELSE view.banner)
         /\ view'.barriers = view.barriers /\ view'.connection = view.connection
         /\ view'.key[1] = "decision"
<1> DEFINE e == DecisionEvent(d)
<1>1. e.type = "decision" /\ e.sub = index + 1 /\ e.step = step
      /\ e.cell = ApplyDirection(position, d)
  BY DEF DecisionEvent
<1> HIDE DEF e
<1>2. EventKey(e)[1] = "decision"
  BY <1>1 DEF EventKey
<1>3. view' = [FoldDecision(view, e) EXCEPT !.key = EventKey(e)]
  BY <1>1, <1>2 DEF Publishing, Fold, FoldOne, e
<1>4. ApplyDirection(position, d) \in Int \X Int
  BY DEF ApplyDirection, RowDelta, ColDelta, Cells
<1>5. Append(IF index + 1 # view.sub THEN <<>> ELSE view.path, e.cell) \in Seq(Int \X Int)
  BY <1>1, <1>4 DEF IsView
<1> HIDE DEF EventKey
<1>6. view' = [sub |-> e.sub, step |-> e.step, position |-> e.cell,
               path |-> Append(IF e.sub # view.sub THEN <<>> ELSE view.path, e.cell),
               barriers |-> view.barriers,
               banner |-> IF e.sub # view.sub THEN "playing" ELSE view.banner,
               connection |-> view.connection, flags |-> view.flags, key |-> EventKey(e)]
  BY <1>3 DEF IsView, FoldDecision
<1> QED BY <1>1, <1>2, <1>5, <1>6 DEF IsView

\* The outcome of an exchange after its decision.
LEMMA ExchangeFolds ==
  ASSUME NEW v, IsView(v), v.key[1] = "decision", NEW flags, NEW cells, NEW w,
         w = Fold(v, ExchangeEvent(flags, cells))
  PROVE  /\ IsView(w)
         /\ w.sub = v.sub /\ w.step = v.step /\ w.position = v.position
         /\ w.path = v.path /\ w.banner = v.banner /\ w.barriers = cells
         /\ w.connection = (IF "reveal_received" \in flags THEN "connected"
                            ELSE "disconnected")
         /\ w.key[1] = "exchange"
<1> DEFINE e == ExchangeEvent(flags, cells)
<1>1. e.type = "exchange" /\ e.flags = flags /\ e.barriers = cells
  BY DEF ExchangeEvent
<1> HIDE DEF e
<1>2. EventKey(e)[1] = "exchange"
  BY <1>1 DEF EventKey
<1>3. w = [FoldExchange(v, e) EXCEPT !.key = EventKey(e)]
  BY <1>1, <1>2 DEF Fold, FoldOne, e
<1>4. w = [sub |-> v.sub, step |-> v.step, position |-> v.position, path |-> v.path,
           barriers |-> cells, banner |-> v.banner,
           connection |-> IF "reveal_received" \in flags THEN "connected" ELSE "disconnected",
           flags |-> flags, key |-> EventKey(e)]
  BY <1>1, <1>3 DEF IsView, FoldExchange
<1> QED BY <1>2, <1>4 DEF IsView

\* The result of a sub-game.
LEMMA ResultFolds ==
  ASSUME NEW v, IsView(v), v.key[1] # "result", NEW result, NEW w,
         w = Fold(v, ResultEvent(result))
  PROVE  /\ IsView(w)
         /\ w.sub = v.sub /\ w.banner = result /\ w.key[1] = "result"
<1> DEFINE e == ResultEvent(result)
<1>1. e.type = "result" /\ e.result = result
  BY DEF ResultEvent
<1> HIDE DEF e
<1>2. EventKey(e)[1] = "result"
  BY <1>1 DEF EventKey
<1>3. w = [FoldResult(v, e) EXCEPT !.key = EventKey(e)]
  BY <1>1, <1>2 DEF Fold, FoldOne, e
<1>4. w = [sub |-> v.sub, step |-> v.step, position |-> v.position, path |-> v.path,
           barriers |-> v.barriers, banner |-> result, connection |-> v.connection,
           flags |-> v.flags, key |-> EventKey(e)]
  BY <1>1, <1>3 DEF IsView, FoldResult
<1> QED BY <1>2, <1>4 DEF IsView
-----------------------------------------------------------------------------
\* How _finalize leaves the log and the machine.
LEMMA FinalizeEnds ==
  ASSUME SeriesInv, InSubGame,
         NEW m \in {"error", "sub_game_over"}, NEW result, Finalize(m, result, records')
  PROVE  /\ pc' \in {"start", "done"}
         /\ pc' = "start" => index' = index + 1
         /\ index' \in {index, index + 1}
         /\ LastGame'.result = IF m # "error" /\ AuditVerified(records') THEN result
                               ELSE "technical_loss"
         /\ m # "error" => machine' # "error"
<1> DEFINE verified == m # "error" /\ AuditVerified(records')
           entry == [result   |-> IF verified THEN result ELSE "technical_loss",
                     steps    |-> Len(records'),
                     verified |-> verified]
<1>1. seriesLog' = Append(seriesLog, entry)
  BY DEF Finalize
<1>2. seriesLog \in Seq(SubGameRecord)
  BY DEF SeriesInv, TypeOK
<1>3. LastGame' = entry
  <2> HIDE DEF entry
  <2> QED BY <1>1, <1>2 DEF LastGame
<1>4. CASE m = "error"
  BY <1>3, <1>4 DEF Finalize
<1>5. CASE m = "sub_game_over"
  <2>1. machine' \in {"series_complete", "waiting"}
    BY <1>5, LifecycleSteps DEF Finalize
  <2> QED BY <1>3, <1>5, <2>1 DEF Finalize
<1> QED BY <1>4, <1>5

\* A sub-game that ends with its result published.
LEMMA PublishedEnd ==
  ASSUME SeriesInv, LiveInv, InExchange,
         NEW m \in {"error", "sub_game_over"}, NEW result, Finalize(m, result, records'),
         m = "error" => result = "technical_loss",
         IsView(view'), view'.sub = view.sub, view'.banner = result,
         view'.key[1] = "result"
  PROVE  LiveInv'
<1>1. InSubGame /\ index \in Nat /\ view.sub = index + 1 /\ TurnCap > 0
  BY DEF InExchange, InSubGame, SeriesInv, TypeOK, LiveInv, CurrentInv, CapInv
<1>2. /\ pc' \in {"start", "done"}
      /\ pc' = "start" => index' = index + 1
      /\ LastGame'.result = IF m # "error" /\ AuditVerified(records') THEN result
                            ELSE "technical_loss"
      /\ m # "error" => machine' # "error"
  BY <1>1, FinalizeEnds
<1>3. KeyInv' /\ EarlierInv' /\ CurrentInv' /\ ViewShowsGame'
  BY <1>1, <1>2 DEF KeyInv, EarlierInv, CurrentInv, ViewShowsGame, InExchange, InSubGame
<1>4. CapInv'
  BY <1>1 DEF CapInv, TurnCap
<1>5. BannerMatchesLog'
  BY <1>2 DEF BannerMatchesLog
<1> QED BY <1>3, <1>4, <1>5 DEF LiveInv

\* A failed exchange, and a reveal that cannot be read.
LEMMA LiveForfeit ==
  ASSUME SeriesInv, LiveInv, LiveExchangeFails \/ LiveUnreadableReveal
  PROVE  LiveInv'
<1>1. /\ InExchange
      /\ \E flags : PublishingBoth(ExchangeFailed(flags), ResultEvent("technical_loss"))
  BY DEF LiveExchangeFails, LiveUnreadableReveal, ExchangeFails, UnreadableReveal,
         RevealDelivered, InExchange
<1>2. PICK flags : PublishingBoth(ExchangeFailed(flags), ResultEvent("technical_loss"))
  BY <1>1
<1>3. Finalize("error", "technical_loss", records')
  <2>1. CASE LiveExchangeFails
    BY <2>1, LifecycleSteps DEF LiveExchangeFails, ExchangeFails, SeriesInv, LifecycleInv,
                                InExchange
  <2>2. CASE LiveUnreadableReveal
    <3>1. UnreadableReveal /\ RevealDelivered
      BY <2>2 DEF LiveUnreadableReveal, UnreadableReveal
    <3>2. Verifying = "verifying"
      BY <3>1, RevealInv
    <3> QED BY <3>1, <3>2, LifecycleSteps DEF UnreadableReveal
  <2> QED BY <2>1, <2>2
<1> DEFINE v == Fold(view, ExchangeEvent(flags, {}))
<1>4. IsView(v) /\ v.sub = view.sub /\ v.key[1] = "exchange"
  BY <1>1, ExchangeFolds DEF LiveInv, KeyInv
<1>5. view' = Fold(v, ResultEvent("technical_loss"))
  BY <1>2 DEF PublishingBoth, ExchangeFailed
<1> HIDE DEF v
<1>6. /\ IsView(view') /\ view'.sub = v.sub /\ view'.banner = "technical_loss"
      /\ view'.key[1] = "result"
  BY <1>4, <1>5, ResultFolds
<1> QED BY <1>1, <1>3, <1>4, <1>6, PublishedEnd

\* The turn that confirms a capture.
LEMMA LiveConfirm ==
  ASSUME SeriesInv, LiveInv, LiveConfirmCapture
  PROVE  LiveInv'
<1>1. ConfirmCapture /\ RevealDelivered /\ InExchange /\ Publishing(ResultEvent("capture"))
  BY DEF LiveConfirmCapture, ConfirmCapture, RevealDelivered, InExchange
<1>2. Verifying = "verifying"
  BY <1>1, RevealInv
<1>3. Finalize("sub_game_over", "capture", records')
  BY <1>1, <1>2, LifecycleSteps DEF ConfirmCapture
<1>4. /\ IsView(view') /\ view'.sub = view.sub /\ view'.banner = "capture"
      /\ view'.key[1] = "result"
  BY <1>1, ResultFolds DEF LiveInv, KeyInv, Publishing
<1> QED BY <1>1, <1>3, <1>4, PublishedEnd

\* Surviving the last step.
LEMMA LiveSurvived ==
  ASSUME SeriesInv, LiveInv, NEW opp \in Evidence, Survived(opp),
         PublishingBoth(ExchangeOk, ResultEvent("survival"))
  PROVE  LiveInv'
<1>1. RevealDelivered /\ InExchange
  BY DEF Survived, Moved, ResolveAndAbsorb, RevealDelivered, InExchange
<1>2. Verifying = "verifying"
  BY <1>1, RevealInv
<1>3. Finalize("sub_game_over", "survival", records')
  BY <1>2, LifecycleSteps DEF Survived
<1> DEFINE v == Fold(view, ExchangeEvent(Flags, barriers'))
<1>4. IsView(v) /\ v.sub = view.sub /\ v.key[1] = "exchange"
  BY <1>1, ExchangeFolds DEF LiveInv, KeyInv
<1>5. view' = Fold(v, ResultEvent("survival"))
  BY DEF PublishingBoth, ExchangeOk
<1> HIDE DEF v
<1>6. /\ IsView(view') /\ view'.sub = v.sub /\ view'.banner = "survival"
      /\ view'.key[1] = "result"
  BY <1>4, <1>5, ResultFolds
<1> QED BY <1>1, <1>3, <1>4, <1>6, PublishedEnd

\* A turn that completes, or raises after its exchange.
LEMMA LiveTurn ==
  ASSUME SeriesInv, SeriesInv', LiveInv, NEW opp \in Evidence,
         CapturedThisTurn(opp) \/ TurnComplete(opp) \/ MoveBlocked(opp),
         Publishing(ExchangeOk)
  PROVE  LiveInv'
<1>1. ResolveAndAbsorb(opp) /\ RevealDelivered /\ InExchange /\ index' = index
  BY DEF CapturedThisTurn, TurnComplete, MoveBlocked, Moved, ResolveAndAbsorb,
         RevealDelivered, InExchange
<1>2. /\ IsView(view') /\ view'.sub = view.sub /\ view'.step = view.step
      /\ view'.position = view.position /\ view'.path = view.path
      /\ view'.banner = view.banner /\ view'.barriers = barriers'
      /\ view'.connection = "connected" /\ view'.key[1] = "exchange"
  BY <1>1, ExchangeFolds DEF LiveInv, KeyInv, Publishing, ExchangeOk, Flags
<1>3. CapInv'
  BY <1>1 DEF LiveInv, CapInv, TurnCap
<1>4. CASE MoveBlocked(opp)
  <2>1. pc' = "raised"
    BY <1>4 DEF MoveBlocked
  <2> QED BY <1>2, <1>3, <2>1 DEF LiveInv, KeyInv, EarlierInv, CurrentInv, ViewShowsGame,
                                  BannerMatchesLog, InExchange, InSubGame
<1>5. CASE CapturedThisTurn(opp) \/ TurnComplete(opp)
  <2>1. pc' = "loop" /\ step' = step + 1
    BY <1>5 DEF CapturedThisTurn, TurnComplete
  <2>2. /\ Len(records') = step + 1 /\ records'[step + 1] = draft
        /\ \A k \in 1 .. step : records'[k] = records[k]
        /\ draft.position = position
        /\ Len(records) = step /\ step \in Nat
    BY <1>1, RevealInv DEF LastRecord, SeriesInv, LockstepInv, TypeOK, Steps, InSubGame,
                           InExchange
  <2>3. /\ view.sub = index + 1 /\ Len(view.path) = step + 1 /\ view.banner = "playing"
        /\ view.path[step + 1] = ApplyDirection(position, draft.move)
        /\ view.position = ApplyDirection(position, draft.move)
    BY <1>1 DEF LiveInv, CurrentInv
  <2>4. \A k \in 1 .. step : view.path[k] = ApplyDirection(records[k].position,
                                                          records[k].move)
    <3>1. CASE step = 0
      BY <3>1
    <3>2. CASE step # 0
      BY <1>1, <2>2, <3>2 DEF LiveInv, ViewShowsGame, InExchange, InSubGame
    <3> QED BY <3>1, <3>2
  <2>5. \A k \in 1 .. Len(records') :
          view'.path[k] = ApplyDirection(records'[k].position, records'[k].move)
    BY <1>2, <2>2, <2>3, <2>4
  <2>6. pending' # "yes" => position' = ApplyDirection(position, draft.move)
    <3>1. CASE CapturedThisTurn(opp)
      BY <1>1, <3>1, ResolveInv DEF CapturedThisTurn
    <3>2. CASE TurnComplete(opp)
      BY <3>2 DEF TurnComplete, Moved
    <3> QED BY <1>5, <3>1, <3>2
  <2>7. ViewShowsGame'
    BY <1>2, <2>1, <2>3, <2>5, <2>6 DEF ViewShowsGame, InExchange, InSubGame
  <2>8. KeyInv' /\ EarlierInv' /\ CurrentInv'
    BY <1>1, <1>2, <2>1, <2>2, <2>3 DEF KeyInv, EarlierInv, CurrentInv, InExchange
  <2>9. BannerMatchesLog'
    BY <2>1 DEF BannerMatchesLog
  <2> QED BY <1>2, <1>3, <2>7, <2>8, <2>9 DEF LiveInv
<1> QED BY <1>4, <1>5

\* The decision of a turn, the first of its sub-game or a later one.
LEMMA LiveBegin ==
  ASSUME SeriesInv, SeriesInv', LiveInv, LiveBeginTurn
  PROVE  LiveInv'
<1>1. /\ BeginTurn /\ Publishing(DecisionEvent(draft'.move))
      /\ pc = "loop" /\ pc' = "commit" /\ turns < TurnCap
      /\ UNCHANGED <<index, step, position, barriers, records>>
  BY DEF LiveBeginTurn, BeginTurn
<1>2. /\ draft'.move \in Directions /\ position \in Cells /\ index \in Nat
      /\ step \in Nat /\ Len(records) = step /\ turns \in Nat
      /\ records \in Seq(SealedRecord)
  BY <1>1 DEF SeriesInv, TypeOK, SealedRecord, LockstepInv, InSubGame, Steps
<1>3. /\ IsView(view')
      /\ view'.sub = index + 1 /\ view'.step = step
      /\ view'.position = ApplyDirection(position, draft'.move)
      /\ view'.path = Append(IF index + 1 # view.sub THEN <<>> ELSE view.path,
                             ApplyDirection(position, draft'.move))
      /\ view'.banner = (IF index + 1 # view.sub THEN "playing" ELSE view.banner)
      /\ view'.barriers = view.barriers /\ view'.connection = view.connection
      /\ view'.key[1] = "decision"
  BY <1>1, <1>2, DecisionFolds DEF LiveInv, KeyInv
<1>4. KeyInv' /\ EarlierInv' /\ BannerMatchesLog'
  BY <1>1, <1>3 DEF KeyInv, EarlierInv, BannerMatchesLog, InExchange
<1>5. CapInv'
  <2>1. TurnCap \in Nat
    BY SeriesAssumption DEF TurnCap, NoCap
  <2> QED BY <1>1, <1>2, <2>1 DEF CapInv, TurnCap
<1> DEFINE old == IF index + 1 # view.sub THEN <<>> ELSE view.path
<1>6. /\ old \in Seq(Int \X Int) /\ Len(old) = step
      /\ view'.banner = "playing"
      /\ records # <<>> => /\ view'.path = Append(view.path, ApplyDirection(position, draft'.move))
                           /\ Len(view.path) = step
  <2>1. CASE records = <<>>
    <3>1. view.sub \in 0 .. index /\ step = 0
      BY <1>1, <1>2, <2>1 DEF LiveInv, EarlierInv
    <3>2. index + 1 # view.sub
      BY <1>2, <3>1
    <3> QED BY <1>3, <2>1, <3>1, <3>2
  <2>2. CASE records # <<>>
    <3>1. view.sub = index + 1 /\ Len(view.path) = step /\ view.banner = "playing"
      BY <1>1, <2>2 DEF LiveInv, CurrentInv, ViewShowsGame, InSubGame
    <3> QED BY <1>3, <3>1 DEF LiveInv, IsView
  <2> QED BY <2>1, <2>2
<1>7. ApplyDirection(position, draft'.move) \in Int \X Int
  BY <1>2 DEF ApplyDirection, RowDelta, ColDelta, Cells
<1>8. /\ Len(view'.path) = step + 1
      /\ view'.path[step + 1] = ApplyDirection(position, draft'.move)
  <2>1. view'.path = Append(old, ApplyDirection(position, draft'.move))
    BY <1>3
  <2> HIDE DEF old
  <2> QED BY <1>6, <1>7, <2>1
<1>9. CurrentInv'
  BY <1>1, <1>3, <1>6, <1>8 DEF CurrentInv, InExchange
<1>10. ViewShowsGame'
  <2>1. ASSUME records # <<>>
        PROVE  /\ view.barriers = barriers /\ view.connection = "connected"
               /\ \A k \in 1 .. Len(records) :
                    view'.path[k] = ApplyDirection(records[k].position, records[k].move)
    <3>1. /\ view.barriers = barriers /\ view.connection = "connected"
          /\ \A k \in 1 .. Len(records) :
               view.path[k] = ApplyDirection(records[k].position, records[k].move)
      BY <1>1, <2>1 DEF LiveInv, ViewShowsGame, InSubGame
    <3>2. view.path \in Seq(Int \X Int)
      BY DEF LiveInv, IsView
    <3>3. \A k \in 1 .. Len(records) : view'.path[k] = view.path[k]
      <4> DEFINE cell == ApplyDirection(position, draft'.move)
                 path == view.path
      <4>1. view'.path = Append(path, cell) /\ Len(path) = Len(records) /\ Len(path) \in Nat
        BY <1>2, <1>6, <2>1, <3>2
      <4>2. path \in Seq(Int \X Int) /\ cell \in Int \X Int
        BY <1>7, <3>2
      <4> HIDE DEF cell, path
      <4>3. \A k \in 1 .. Len(path) : Append(path, cell)[k] = path[k]
        BY <4>2
      <4> QED BY <4>1, <4>3 DEF path
    <3> QED BY <3>1, <3>3
  <2> QED BY <1>1, <1>3, <1>6, <1>8, <2>1 DEF ViewShowsGame, InExchange, InSubGame
<1> QED BY <1>3, <1>4, <1>5, <1>9, <1>10 DEF LiveInv

\* The steps that publish nothing.
LEMMA LiveQuiet ==
  ASSUME SeriesInv, SeriesInv', LiveInv, UNCHANGED view,
         \/ StartSubGame \/ HealthDone \/ CommitAcked \/ TurnCapExhausted
         \/ MalformedReveal \/ RpcRaises \/ Cancel \/ UNCHANGED vars
  PROVE  LiveInv'
<1> USE DEF LiveInv
<1>1. CASE StartSubGame
  <2>1. /\ pc = "start" /\ pc' \in {"health", "loop"} /\ records' = <<>> /\ index' = index
    BY <1>1 DEF StartSubGame
  <2> QED BY <2>1 DEF KeyInv, EarlierInv, CurrentInv, CapInv, ViewShowsGame,
                      BannerMatchesLog, InExchange, InSubGame, TurnCap
<1>2. CASE HealthDone
  <2>1. /\ pc = "health" /\ pc' = "loop" /\ records' = records /\ index' = index
        /\ Len(records) = 0 /\ records \in Seq(SealedRecord)
    BY <1>2 DEF HealthDone, SeriesInv, LockstepInv, InSubGame, TypeOK
  <2>2. records = <<>>
    BY <2>1
  <2> QED BY <2>1, <2>2 DEF KeyInv, EarlierInv, CurrentInv, CapInv, ViewShowsGame,
                      BannerMatchesLog, InExchange, InSubGame, TurnCap
<1>3. CASE CommitAcked
  BY <1>3 DEF CommitAcked, KeyInv, EarlierInv, CurrentInv, CapInv, ViewShowsGame,
              BannerMatchesLog, InExchange, InSubGame, TurnCap
<1>4. CASE TurnCapExhausted
  <2>1. /\ pc = "loop" /\ turns = TurnCap /\ machine = "waiting" /\ InSubGame
        /\ UNCHANGED <<turns, records>> /\ Abort(records)
    BY <1>4 DEF TurnCapExhausted, InSubGame, SeriesInv, LifecycleInv
  <2>2. Finalize("error", "technical_loss", records')
    BY <2>1, LifecycleSteps DEF Abort
  <2>3. pc' = "done" /\ index' = index /\ LastGame'.result = "technical_loss"
    BY <2>1, <2>2, FinalizeEnds DEF Finalize
  <2>4. view.banner = "playing"
    <3>1. CASE records = <<>>
      <4>1. turns = 0 /\ index \in Nat
        BY <2>1, <3>1 DEF SeriesInv, LockstepInv, InExchange, TypeOK
      <4>2. index = 0
        BY <2>1, <4>1 DEF CapInv
      <4> QED BY <2>1, <3>1, <4>2 DEF EarlierInv
    <3>2. CASE records # <<>>
      BY <2>1, <3>2 DEF ViewShowsGame
    <3> QED BY <3>1, <3>2
  <2>5. BannerMatchesLog'
    BY <2>1, <2>3, <2>4 DEF BannerMatchesLog, TurnCap
  <2> QED BY <2>3, <2>5 DEF KeyInv, EarlierInv, CurrentInv, CapInv, ViewShowsGame,
                            InExchange, InSubGame, TurnCap
<1>5. CASE MalformedReveal \/ RpcRaises \/ Cancel
  <2>1. pc' = "raised" /\ index' = index
    BY <1>5 DEF MalformedReveal, RpcRaises, Cancel
  <2> QED BY <2>1 DEF KeyInv, EarlierInv, CurrentInv, CapInv, ViewShowsGame,
                      BannerMatchesLog, InExchange, InSubGame, TurnCap
<1>6. CASE UNCHANGED vars
  BY <1>6 DEF vars, KeyInv, EarlierInv, CurrentInv, CapInv, ViewShowsGame,
              BannerMatchesLog, InExchange, InSubGame, TurnCap, LastGame
<1> QED BY <1>1, <1>2, <1>3, <1>4, <1>5, <1>6

\* Every step of the live series preserves the invariant.
LEMMA LiveNextInv == SeriesInv /\ SeriesInv' /\ LiveInv /\ [LiveNext]_liveVars => LiveInv'
<1> SUFFICES ASSUME SeriesInv, SeriesInv', LiveInv, [LiveNext]_liveVars PROVE LiveInv'
  OBVIOUS
<1>1. CASE LiveBeginTurn
  BY <1>1, LiveBegin
<1>2. CASE LiveExchangeFails \/ LiveUnreadableReveal
  BY <1>2, LiveForfeit
<1>3. CASE LiveConfirmCapture
  BY <1>3, LiveConfirm
<1>4. ASSUME NEW opp \in Evidence, LiveResolve(opp)
      PROVE  LiveInv'
  BY <1>4, LiveTurn, LiveSurvived DEF LiveResolve
<1>5. CASE LiveSilent \/ ((RpcRaises \/ Cancel \/ Finished) /\ UNCHANGED view)
           \/ UNCHANGED liveVars
  BY <1>5, LiveQuiet DEF LiveSilent, Finished, liveVars
<1> QED BY <1>1, <1>2, <1>3, <1>4, <1>5 DEF LiveNext, LiveProgress

\* The inductive invariant of the live view holds in every reachable state.
THEOREM LiveInvariant == LiveSpec => [](SeriesInv /\ LiveInv)
<1>1. LiveInit => SeriesInv
  BY InitInv DEF LiveInit
<1>2. LiveInit => LiveInv
  BY DEF LiveInit, Init, EmptyView, NoKey, NoCell, LiveInv, IsView, KeyInv, EarlierInv,
         CurrentInv, CapInv, ViewShowsGame, BannerMatchesLog, InExchange, InSubGame
<1>3. SeriesInv /\ [LiveNext]_liveVars => SeriesInv'
  BY NextInv, LiveStepIsStep
<1> QED BY <1>1, <1>2, <1>3, LiveNextInv, PTL DEF LiveSpec

\* The window shows this peer's own truth: sub-game, step, barriers, the cells of
\* the sealed moves, and the thief's cell unless it was just captured.
THEOREM LiveShowsGame == LiveSpec => []ViewShowsGame
<1>1. LiveInv => ViewShowsGame
  BY DEF LiveInv
<1> QED BY <1>1, LiveInvariant, PTL

\* After a sub-game the banner is the logged result, but for a failed self-audit
\* and an exhausted turn cap.
THEOREM LiveBannerMatchesLog == LiveSpec => []BannerMatchesLog
<1>1. LiveInv => BannerMatchesLog
  BY DEF LiveInv
<1> QED BY <1>1, LiveInvariant, PTL
=============================================================================
