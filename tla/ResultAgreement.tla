-------------------------- MODULE ResultAgreement --------------------------
(***************************************************************************)
(* The end of a series between two peers that run the same protocol: each  *)
(* one finishes or fails on its own, submits its totals and digest to the  *)
(* other's submit_audit tool, polls its own audit inbox for the opponent's *)
(* submission, resolves the agreement and stops its server.  The digest is *)
(* a hash of the scored sub-games, so two digests are equal exactly when   *)
(* the sub-games are.                                                      *)
(***************************************************************************)
EXTENDS Integers, Functions

CONSTANTS NumGames,    \* sub-games in the series
          StepCounts,  \* step counts that the properties tell apart
          PollBudget   \* attempts of _await_opponent_agreement

ASSUME AgreementAssumption ==
  /\ NumGames \in Nat \ {0}
  /\ StepCounts \subseteq Nat
  /\ PollBudget \in Nat \ {0}

Peers == {"thief", "police"}

Opponent(p) == CHOOSE q \in Peers : q # p

Results == {"capture", "survival", "technical_loss"}

SubGame == [result : Results, steps : StepCounts]

CompletedSeries == [1 .. NumGames -> SubGame]

\* score_sub_game with the scores of the shared config.
PoliceScore == [capture |-> 20, survival |-> 5, technical_loss |-> 0]

ThiefScore == [capture |-> 5, survival |-> 10, technical_loss |-> 0]

\* The totals of run_series.
Total(score, games) == SumFunction([k \in DOMAIN games |-> score[games[k].result]])

\* compute_result_digest and build_result_agreement_message.
Submission(games) == [games |-> NumGames, digest |-> games,
                      police |-> Total(PoliceScore, games),
                      thief |-> Total(ThiefScore, games)]

VARIABLES
  phase,      \* where each peer stands
  series,     \* the sub-games each peer scored, once it has completed
  wire,       \* submissions in flight, by sender
  inbox,      \* audit inbox of each peer
  seen,       \* submissions each peer's audit inbox has recorded
  polls,      \* empty polls of the audit inbox
  verdict     \* agreement status and totals each peer reports

vars == <<phase, series, wire, inbox, seen, polls, verdict>>

Closed == {"resolved", "raised", "stopped"}

Undecided == [status |-> "undecided", police |-> 0, thief |-> 0]

Submissions == {Submission(games) : games \in CompletedSeries}

\* What a peer with this submission can report.
Outcomes(ours) ==
  {[status |-> status, police |-> ours.police, thief |-> ours.thief] :
     status \in {"agreed", "unverified_self_play"}}
  \union {[status |-> "disputed_zeroed", police |-> 0, thief |-> 0]}

Verdicts == {Undecided} \union UNION {Outcomes(ours) : ours \in Submissions}

TypeOK ==
  /\ phase \in [Peers -> {"playing", "submitting", "polling", "failed"} \union Closed]
  /\ series \in [Peers -> CompletedSeries \union {<<>>}]
  /\ wire \in [Peers -> SUBSET Submissions]
  /\ inbox \in [Peers -> SUBSET Submissions]
  /\ seen \in [Peers -> SUBSET Submissions]
  /\ polls \in [Peers -> 0 .. PollBudget]
  /\ verdict \in [Peers -> Verdicts]

Init ==
  /\ phase = [p \in Peers |-> "playing"]
  /\ series = [p \in Peers |-> <<>>]
  /\ wire = [p \in Peers |-> {}]
  /\ inbox = [p \in Peers |-> {}]
  /\ seen = [p \in Peers |-> {}]
  /\ polls = [p \in Peers |-> 0]
  /\ verdict = [p \in Peers |-> Undecided]

-----------------------------------------------------------------------------
\* run_series returned "completed"; the machine is in SERIES_COMPLETE.
Complete(p) ==
  /\ phase[p] = "playing"
  /\ \E games \in CompletedSeries : series' = [series EXCEPT ![p] = games]
  /\ phase' = [phase EXCEPT ![p] = "submitting"]
  /\ UNCHANGED <<wire, inbox, seen, polls, verdict>>

\* run_series returned after a technical loss, with the machine in ERROR:
\* nothing is exchanged, and the server answers LIFECYCLE until it stops.
Fail(p) ==
  /\ phase[p] = "playing"
  /\ phase' = [phase EXCEPT ![p] = "failed"]
  /\ UNCHANGED <<series, wire, inbox, seen, polls, verdict>>

StopServer(p) ==
  /\ phase[p] = "failed"
  /\ phase' = [phase EXCEPT ![p] = "stopped"]
  /\ UNCHANGED <<series, wire, inbox, seen, polls, verdict>>

\* call_submit_audit, whatever becomes of the call: an ack of either kind and
\* a PeerUnavailableError both lead on to the polling.
Submit(p) ==
  /\ phase[p] = "submitting"
  /\ wire' = [wire EXCEPT ![p] = {Submission(series[p])}]
  /\ phase' = [phase EXCEPT ![p] = "polling"]
  /\ UNCHANGED <<series, inbox, seen, polls, verdict>>

\* An McpError that is not a timeout leaves finalize_series_agreement.
SubmitRaises(p) ==
  /\ phase[p] = "submitting"
  /\ wire' \in {wire, [wire EXCEPT ![p] = {Submission(series[p])}]}
  /\ phase' = [phase EXCEPT ![p] = "raised"]
  /\ UNCHANGED <<series, inbox, seen, polls, verdict>>

\* The submission reaches the opponent's handle_audit, perhaps not for the
\* last time.  ERROR rejects it, a repetition changes nothing, a different
\* submission under the same key is a conflict.
HandleAudit(p) ==
  LET q == Opponent(p)
  IN \E m \in wire[p] :
       /\ phase[q] \notin Closed
       /\ wire' \in {wire, [wire EXCEPT ![p] = {}]}
       /\ IF phase[q] # "failed" /\ seen[q] = {}
          THEN /\ inbox' = [inbox EXCEPT ![q] = {m}]
               /\ seen' = [seen EXCEPT ![q] = {m}]
          ELSE UNCHANGED <<inbox, seen>>
       /\ UNCHANGED <<phase, series, polls, verdict>>

\* The call is lost, or the opponent's server is gone.
Lose(p) ==
  /\ wire[p] # {}
  /\ wire' = [wire EXCEPT ![p] = {}]
  /\ UNCHANGED <<phase, series, inbox, seen, polls, verdict>>

-----------------------------------------------------------------------------
\* Mutant of Resolve: only the totals are compared.
ResolveTotalsOnly(ours, theirs) ==
  IF ours.police = theirs.police /\ ours.thief = theirs.thief
  THEN [status |-> "agreed", police |-> ours.police, thief |-> ours.thief]
  ELSE [status |-> "disputed_zeroed", police |-> 0, thief |-> 0]

\* Mutant of Resolve: a disputed series keeps the own totals.
ResolveKeepsTotals(ours, theirs) ==
  [status |-> IF ours = theirs THEN "agreed" ELSE "disputed_zeroed",
   police |-> ours.police, thief |-> ours.thief]

\* The comparison of exchange_and_resolve_agreement, then
\* resolve_final_agreement on the totals of a submission that arrived.
Resolve(ours, theirs) ==
  IF /\ ours.games = theirs.games /\ ours.digest = theirs.digest
     /\ ours.police = theirs.police /\ ours.thief = theirs.thief
  THEN [status |-> "agreed", police |-> ours.police, thief |-> ours.thief]
  ELSE [status |-> "disputed_zeroed", police |-> 0, thief |-> 0]

\* A poll finds the opponent's submission; the peer resolves and stops.
PollFinds(p) ==
  /\ phase[p] = "polling"
  /\ polls[p] < PollBudget
  /\ \E m \in inbox[p] :
       /\ verdict' = [verdict EXCEPT ![p] = Resolve(Submission(series[p]), m)]
       /\ inbox' = [inbox EXCEPT ![p] = @ \ {m}]
  /\ phase' = [phase EXCEPT ![p] = "resolved"]
  /\ UNCHANGED <<series, wire, seen, polls>>

\* Mutant of PollEmpty: an empty poll is not counted.
PollEmptyUncounted(p) == phase[p] = "polling" /\ inbox[p] = {} /\ UNCHANGED vars

PollEmpty(p) ==
  /\ phase[p] = "polling"
  /\ inbox[p] = {}
  /\ polls[p] < PollBudget
  /\ polls' = [polls EXCEPT ![p] = @ + 1]
  /\ UNCHANGED <<phase, series, wire, inbox, seen, verdict>>

\* Mutant of PollTimesOut: the own totals are promoted to agreed.
PromoteOwnTotals(p) ==
  /\ phase[p] = "polling"
  /\ polls[p] = PollBudget
  /\ LET ours == Submission(series[p])
     IN verdict' = [verdict EXCEPT ![p] =
          [status |-> "agreed", police |-> ours.police, thief |-> ours.thief]]
  /\ phase' = [phase EXCEPT ![p] = "resolved"]
  /\ UNCHANGED <<series, wire, inbox, seen, polls>>

\* The poll budget is spent: the own totals stand, unverified.
PollTimesOut(p) ==
  /\ phase[p] = "polling"
  /\ polls[p] = PollBudget
  /\ LET ours == Submission(series[p])
     IN verdict' = [verdict EXCEPT ![p] =
          [status |-> "unverified_self_play", police |-> ours.police,
           thief |-> ours.thief]]
  /\ phase' = [phase EXCEPT ![p] = "resolved"]
  /\ UNCHANGED <<series, wire, inbox, seen, polls>>

Own(p) ==
  \/ Complete(p) \/ Fail(p) \/ StopServer(p) \/ Submit(p)
  \/ PollFinds(p) \/ PollEmpty(p) \/ PollTimesOut(p)

Next == \E p \in Peers : Own(p) \/ SubmitRaises(p) \/ HandleAudit(p) \/ Lose(p)

Spec == Init /\ [][Next]_vars

\* Each peer's own coroutine goes on; the network promises nothing.
FairSpec == Spec /\ \A p \in Peers : WF_vars(Own(p))

-----------------------------------------------------------------------------
\* A peer that reports "agreed" has an opponent that completed the identical
\* series, sub-game by sub-game, whatever was lost, repeated or late.
AgreedMeansIdentical ==
  \A p \in Peers : verdict[p].status = "agreed" => series[Opponent(p)] = series[p]

\* The two verdicts never contradict each other: not agreed on one side and
\* disputed on the other, and no two different certified totals.
NoContradiction ==
  \A p \in Peers : verdict[p].status = "agreed" =>
    /\ verdict[Opponent(p)].status # "disputed_zeroed"
    /\ verdict[Opponent(p)].status = "agreed" => verdict[Opponent(p)] = verdict[p]

\* A dispute zeroes both totals of the side that saw it, and only a real
\* difference between the two series is a dispute.
DisputeIsReal ==
  \A p \in Peers : verdict[p].status = "disputed_zeroed" =>
    /\ verdict[p].police = 0 /\ verdict[p].thief = 0
    /\ series[Opponent(p)] # series[p]

\* Every peer ends, with or without its opponent.
BothEnd == \A p \in Peers : <>(phase[p] \in Closed)
=============================================================================
