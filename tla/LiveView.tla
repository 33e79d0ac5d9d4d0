------------------------------ MODULE LiveView ------------------------------
(***************************************************************************)
(* What the live window shows of a series.  Every action of ThiefSeries    *)
(* publishes its events to the sink, in the order of the code; the queue   *)
(* keeps that order, so the view the window has once it caught up is the   *)
(* fold of everything published, however its polls cut the queue.          *)
(***************************************************************************)
EXTENDS ThiefSeries, TLC

VARIABLE view   \* the LiveViewModel after the last published event

liveVars == <<vars, view>>

Flags == {"commit_sent", "ack_received", "reveal_sent", "reveal_received"}
NoCell == <<-1, -1>>
NoKey == <<"none", 0, "none">>

EmptyView ==
  [sub |-> 0, step |-> 0, position |-> NoCell, path |-> <<>>, barriers |-> {},
   banner |-> "playing", connection |-> "connecting", flags |-> {}, key |-> NoKey]

-----------------------------------------------------------------------------
(* The events (turn_gui_publish).                                          *)

\* The decision is published before the turn is sealed, with the cell the move
\* leads to on the board as it is known then.
DecisionEvent(d) ==
  [type |-> "decision", sub |-> index + 1, step |-> step, cell |-> ApplyDirection(position, d)]

ExchangeEvent(flags, cells) ==
  [type |-> "exchange", sub |-> index + 1, step |-> step, flags |-> flags, barriers |-> cells]

\* exchange_ok is published after the evidence was absorbed, exchange_failed with
\* the real progress and no barriers at all.
ExchangeOk == ExchangeEvent(Flags, barriers')
ExchangeFailed(flags) == ExchangeEvent(flags, {})

ResultEvent(result) == [type |-> "result", sub |-> index + 1, result |-> result]

-----------------------------------------------------------------------------
(* The reducer (view_model.fold).                                          *)

EventKey(e) == <<e.type, e.sub, IF e.type = "result" THEN e.result ELSE ToString(e.step)>>

\* Mutant of FoldDecision: the path and the banner of the last sub-game stay.
FoldDecisionNoReset(v, e) ==
  [v EXCEPT !.sub = e.sub, !.step = e.step, !.position = e.cell,
            !.path = Append(v.path, e.cell)]

\* A decision of another sub-game resets the path and the banner.
FoldDecision(v, e) ==
  LET new == e.sub # v.sub
  IN [v EXCEPT !.sub = e.sub, !.step = e.step, !.position = e.cell,
               !.path = Append(IF new THEN <<>> ELSE v.path, e.cell),
               !.banner = IF new THEN "playing" ELSE v.banner]

FoldExchange(v, e) ==
  [v EXCEPT !.flags = e.flags, !.barriers = e.barriers,
            !.connection = IF "reveal_received" \in e.flags THEN "connected"
                           ELSE "disconnected"]

\* Mutant of FoldResult: the result is only written to the event log.
FoldResultIgnored(v, e) == v

FoldResult(v, e) == [v EXCEPT !.banner = e.result]

FoldOne(v, e) ==
  CASE e.type = "decision" -> FoldDecision(v, e)
    [] e.type = "exchange" -> FoldExchange(v, e)
    [] e.type = "result"   -> FoldResult(v, e)

\* An event with the key of the last one is taken for a redelivery.
Fold(v, e) ==
  IF EventKey(e) = v.key THEN v ELSE [FoldOne(v, e) EXCEPT !.key = EventKey(e)]

Publishing(e) == view' = Fold(view, e)

\* The failure or survival of an exchange is published with its result.
PublishingBoth(e, f) == view' = Fold(Fold(view, e), f)

-----------------------------------------------------------------------------
LiveInit == Init /\ view = EmptyView

\* The flags of a failed exchange: how far deliver_commit_and_reveal had come.
FailureFlags ==
  IF pc = "commit" THEN {{}, {"commit_sent"}}
  ELSE {{"commit_sent", "ack_received"}, {"commit_sent", "ack_received", "reveal_sent"}}

LiveBeginTurn == BeginTurn /\ Publishing(DecisionEvent(draft'.move))

LiveExchangeFails ==
  /\ ExchangeFails
  /\ \E flags \in FailureFlags :
       PublishingBoth(ExchangeFailed(flags), ResultEvent("technical_loss"))

\* A fault outside the exchange claims no progress.
LiveUnreadableReveal ==
  /\ UnreadableReveal
  /\ PublishingBoth(ExchangeFailed({}), ResultEvent("technical_loss"))

LiveConfirmCapture == ConfirmCapture /\ Publishing(ResultEvent("capture"))

LiveResolve(opp) ==
  \/ (CapturedThisTurn(opp) \/ TurnComplete(opp) \/ MoveBlocked(opp))
       /\ Publishing(ExchangeOk)
  \/ Survived(opp) /\ PublishingBoth(ExchangeOk, ResultEvent("survival"))

\* These publish nothing, not even when they end the sub-game.
LiveSilent ==
  /\ \/ StartSubGame \/ HealthDone \/ CommitAcked \/ TurnCapExhausted \/ MalformedReveal
  /\ UNCHANGED view

LiveProgress ==
  \/ LiveBeginTurn
  \/ LiveExchangeFails
  \/ LiveUnreadableReveal
  \/ LiveConfirmCapture
  \/ \E opp \in Evidence : LiveResolve(opp)
  \/ LiveSilent

LiveNext == LiveProgress \/ ((RpcRaises \/ Cancel \/ Finished) /\ UNCHANGED view)

\* Every await is bounded (call timeout, retry and poll budgets), so the
\* coroutine always gets an answer or an error and goes on.
LiveSpec == LiveInit /\ [][LiveNext]_liveVars /\ WF_liveVars(LiveProgress)

-----------------------------------------------------------------------------
\* The window shows this peer's own truth: during a sub-game its number, step
\* and barriers, a path that repeats the sealed moves, and the thief's cell, with
\* one exception that lasts until the sub-game is over: a thief that has just
\* been captured stays where it is, and the window shows it on the cell its
\* sealed move led to.
ViewShowsGame ==
  /\ InExchange => view.sub = index + 1 /\ view.step = step /\ Len(view.path) = step + 1
  /\ InSubGame /\ records # <<>> =>
       /\ view.banner = "playing"
       /\ view.barriers = barriers /\ view.connection = "connected"
       /\ \A k \in 1 .. Len(records) :
            view.path[k] = ApplyDirection(records[k].position, records[k].move)
       /\ pc = "loop" /\ pending # "yes" => view.position = position

\* After a sub-game the banner is the result that was logged, unless the
\* self-audit overruled it after it was published, or the turn cap ran out, which
\* nothing publishes.
BannerMatchesLog ==
  pc \in {"start", "done"} /\ seriesLog # <<>> =>
    \/ view.banner = LastGame.result
    \/ LastGame.result = "technical_loss" /\ machine # "error" /\ ~AuditVerified(records)
    \/ LastGame.result = "technical_loss" /\ turns = TurnCap /\ view.banner = "playing"
=============================================================================
