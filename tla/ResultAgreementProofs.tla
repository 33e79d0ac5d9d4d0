----------------------- MODULE ResultAgreementProofs -----------------------
(***************************************************************************)
(* Proofs about ResultAgreement for every length of the series, every set  *)
(* of step counts and every poll budget.                                   *)
(***************************************************************************)
EXTENDS ResultAgreement, TLAPS

\* What a peer has sent, received or resolved, it has sent, received or resolved
\* for the series both peers still hold.
TraceInv ==
  \A p \in Peers :
    /\ phase[p] \in {"submitting", "polling", "resolved"} => series[p] \in CompletedSeries
    /\ wire[p] \subseteq {Submission(series[p])}
    /\ wire[p] # {} => phase[p] \in {"polling"} \union Closed
    /\ inbox[p] \subseteq seen[p]
    /\ seen[p] \subseteq {Submission(series[Opponent(p)])}
    /\ seen[p] # {} => phase[Opponent(p)] \notin {"playing", "submitting"}

\* A verdict rests on the opponent's submission.
VerdictInv ==
  \A p \in Peers :
    /\ verdict[p].status # "undecided" => phase[p] = "resolved"
    /\ verdict[p].status \in {"agreed", "disputed_zeroed"} =>
         /\ phase[Opponent(p)] \notin {"playing", "submitting"}
         /\ verdict[p] = Resolve(Submission(series[p]), Submission(series[Opponent(p)]))

\* The inductive invariant of the agreement.
AgreementInv == TypeOK /\ TraceInv /\ VerdictInv

-----------------------------------------------------------------------------
\* The two peers are each other's opponents.
LEMMA OpponentFacts ==
  ASSUME NEW p \in Peers
  PROVE  Opponent(p) \in Peers /\ Opponent(p) # p /\ Opponent(Opponent(p)) = p
<1>1. \A q \in Peers : \E r \in Peers : r # q  BY DEF Peers
<1>2. \A q \in Peers : Opponent(q) \in Peers /\ Opponent(q) # q  BY <1>1, Zenon DEF Opponent
<1>3. QED  BY <1>2 DEF Peers

\* The verdict on two submissions: agreed with their common totals exactly when
\* the series are the same, disputed with zero totals otherwise.
LEMMA ResolveOutcome ==
  ASSUME NEW s, NEW t
  PROVE  /\ Resolve(Submission(s), Submission(t)).status \in {"agreed", "disputed_zeroed"}
         /\ Resolve(Submission(s), Submission(t)).status = "agreed" <=> s = t
         /\ s # t => Resolve(Submission(s), Submission(t)) =
                       [status |-> "disputed_zeroed", police |-> 0, thief |-> 0]
         /\ Resolve(Submission(s), Submission(t)) \in Outcomes(Submission(s))
  BY DEF Resolve, Submission, Outcomes

\* Nothing has happened yet.
LEMMA AgreementInit == Init => AgreementInv
<1> SUFFICES ASSUME Init PROVE AgreementInv  OBVIOUS
<1>1. TypeOK  BY AgreementAssumption DEF Init, TypeOK, Closed, Verdicts
<1>2. TraceInv  BY DEF Init, TraceInv
<1>3. VerdictInv  BY DEF Init, VerdictInv, Undecided
<1>4. QED  BY <1>1, <1>2, <1>3 DEF AgreementInv

\* Every step of a peer and of the network preserves the types.
LEMMA AgreementTypes ==
  ASSUME AgreementInv, NEW p \in Peers,
         Own(p) \/ SubmitRaises(p) \/ HandleAudit(p) \/ Lose(p)
  PROVE  TypeOK'
<1> USE DEF AgreementInv, TypeOK, Closed
<1>0. Opponent(p) \in Peers  BY OpponentFacts
<1>1. CASE Complete(p)  BY <1>1 DEF Complete
<1>2. CASE Fail(p) \/ StopServer(p)  BY <1>2 DEF Fail, StopServer
<1>3. CASE Submit(p) \/ SubmitRaises(p)
  <2>1. series[p] \in CompletedSeries  BY <1>3 DEF Submit, SubmitRaises, TraceInv
  <2>2. Submission(series[p]) \in Submissions  BY <2>1 DEF Submissions
  <2>3. [wire EXCEPT ![p] = {Submission(series[p])}] \in [Peers -> SUBSET Submissions]
    BY <2>2
  <2>4. QED  BY <1>3, <2>3 DEF Submit, SubmitRaises
<1>4. CASE HandleAudit(p)
  <2>1. PICK m \in wire[p] :
          /\ wire' \in {wire, [wire EXCEPT ![p] = {}]}
          /\ \/ /\ inbox' = [inbox EXCEPT ![Opponent(p)] = {m}]
                /\ seen' = [seen EXCEPT ![Opponent(p)] = {m}]
             \/ UNCHANGED <<inbox, seen>>
          /\ UNCHANGED <<phase, series, polls, verdict>>
    BY <1>4 DEF HandleAudit
  <2>2. m \in Submissions  OBVIOUS
  <2>3. /\ [wire EXCEPT ![p] = {}] \in [Peers -> SUBSET Submissions]
        /\ [inbox EXCEPT ![Opponent(p)] = {m}] \in [Peers -> SUBSET Submissions]
        /\ [seen EXCEPT ![Opponent(p)] = {m}] \in [Peers -> SUBSET Submissions]
    BY <2>2, <1>0
  <2>4. QED  BY <2>1, <2>3
<1>5. CASE Lose(p)  BY <1>5 DEF Lose
<1>6. CASE PollEmpty(p)  BY <1>6, AgreementAssumption DEF PollEmpty
<1>7. CASE PollFinds(p) \/ PollTimesOut(p)
  <2>1. series[p] \in CompletedSeries  BY <1>7 DEF PollFinds, PollTimesOut, TraceInv
  <2>2. Submission(series[p]) \in Submissions  BY <2>1 DEF Submissions
  <2>3. verdict'[p] \in Outcomes(Submission(series[p]))
    <3>1. CASE PollTimesOut(p)  BY <3>1 DEF PollTimesOut, Outcomes
    <3>2. CASE PollFinds(p)
      <4>1. PICK m \in inbox[p] :
              verdict' = [verdict EXCEPT ![p] = Resolve(Submission(series[p]), m)]
        BY <3>2 DEF PollFinds
      <4>2. m = Submission(series[Opponent(p)])  BY <4>1 DEF TraceInv
      <4>3. QED  BY <4>1, <4>2, ResolveOutcome
    <3>3. QED  BY <1>7, <3>1, <3>2
  <2>4. verdict' = [verdict EXCEPT ![p] = verdict'[p]]
    BY <1>7 DEF PollFinds, PollTimesOut
  <2>5. verdict'[p] \in Verdicts  BY <2>2, <2>3 DEF Verdicts
  <2>6. inbox' \in [Peers -> SUBSET Submissions]
    <3>1. CASE PollTimesOut(p)  BY <3>1 DEF PollTimesOut
    <3>2. CASE PollFinds(p)
      <4>1. PICK m : inbox' = [inbox EXCEPT ![p] = inbox[p] \ {m}]  BY <3>2 DEF PollFinds
      <4>2. inbox[p] \ {m} \in SUBSET Submissions  OBVIOUS
      <4>3. QED  BY <4>1, <4>2
    <3>3. QED  BY <1>7, <3>1, <3>2
  <2>7. QED  BY <1>7, <2>4, <2>5, <2>6 DEF PollFinds, PollTimesOut
<1>8. QED  BY <1>1, <1>2, <1>3, <1>4, <1>5, <1>6, <1>7 DEF Own

\* Every step of a peer and of the network preserves the trace of submissions.
LEMMA AgreementTrace ==
  ASSUME AgreementInv, NEW p \in Peers,
         Own(p) \/ SubmitRaises(p) \/ HandleAudit(p) \/ Lose(p)
  PROVE  TraceInv'
<1> USE DEF AgreementInv, TypeOK, Closed
<1> SUFFICES ASSUME NEW q \in Peers
             PROVE  (/\ phase[q] \in {"submitting", "polling", "resolved"} =>
                          series[q] \in CompletedSeries
                     /\ wire[q] \subseteq {Submission(series[q])}
                     /\ wire[q] # {} => phase[q] \in {"polling"} \union Closed
                     /\ inbox[q] \subseteq seen[q]
                     /\ seen[q] \subseteq {Submission(series[Opponent(q)])}
                     /\ seen[q] # {} =>
                          phase[Opponent(q)] \notin {"playing", "submitting"})'
  BY DEF TraceInv
<1>0. /\ Opponent(p) \in Peers /\ Opponent(p) # p /\ Opponent(Opponent(p)) = p
      /\ Opponent(q) \in Peers /\ Opponent(q) # q /\ Opponent(Opponent(q)) = q
  BY OpponentFacts
<1>1. CASE Complete(p)
  <2>1. wire[p] = {} /\ seen[Opponent(p)] = {}  BY <1>0, <1>1 DEF Complete, TraceInv
  <2>2. QED  BY <1>0, <1>1, <2>1 DEF Complete, TraceInv
<1>2. CASE Fail(p) \/ StopServer(p)
  BY <1>0, <1>2 DEF Fail, StopServer, TraceInv
<1>3. CASE Submit(p) \/ SubmitRaises(p)
  BY <1>0, <1>3 DEF Submit, SubmitRaises, TraceInv
<1>4. CASE HandleAudit(p)
  <2>1. PICK m \in wire[p] :
          /\ wire' \in {wire, [wire EXCEPT ![p] = {}]}
          /\ \/ /\ inbox' = [inbox EXCEPT ![Opponent(p)] = {m}]
                /\ seen' = [seen EXCEPT ![Opponent(p)] = {m}]
             \/ UNCHANGED <<inbox, seen>>
          /\ UNCHANGED <<phase, series, polls, verdict>>
    BY <1>4 DEF HandleAudit
  <2>2. m = Submission(series[p]) /\ phase[p] \in {"polling"} \union Closed
    BY <2>1 DEF TraceInv
  <2>3. wire'[q] \subseteq wire[q]  BY <2>1
  <2>4. \/ inbox'[q] = inbox[q] /\ seen'[q] = seen[q]
        \/ q = Opponent(p) /\ inbox'[q] = {m} /\ seen'[q] = {m}
    BY <1>0, <2>1
  <2>5. phase' = phase /\ series' = series  BY <2>1
  <2>6. QED  BY <1>0, <2>2, <2>3, <2>4, <2>5 DEF TraceInv
<1>5. CASE Lose(p)  BY <1>0, <1>5 DEF Lose, TraceInv
<1>6. CASE PollEmpty(p)  BY <1>0, <1>6 DEF PollEmpty, TraceInv
<1>7. CASE PollFinds(p) \/ PollTimesOut(p)
  <2>1. inbox'[q] \subseteq inbox[q]
    <3>1. CASE PollTimesOut(p)  BY <3>1 DEF PollTimesOut
    <3>2. CASE PollFinds(p)
      <4>1. PICK m : inbox' = [inbox EXCEPT ![p] = inbox[p] \ {m}]  BY <3>2 DEF PollFinds
      <4>2. QED  BY <4>1
    <3>3. QED  BY <1>7, <3>1, <3>2
  <2>2. /\ phase[p] = "polling" /\ phase' = [phase EXCEPT ![p] = "resolved"]
        /\ UNCHANGED <<series, wire, seen>>
    BY <1>7 DEF PollFinds, PollTimesOut
  <2>3. QED  BY <1>0, <2>1, <2>2 DEF TraceInv
<1>8. QED  BY <1>1, <1>2, <1>3, <1>4, <1>5, <1>6, <1>7 DEF Own

\* Every step of a peer and of the network preserves the ground of the verdicts.
LEMMA AgreementVerdicts ==
  ASSUME AgreementInv, NEW p \in Peers,
         Own(p) \/ SubmitRaises(p) \/ HandleAudit(p) \/ Lose(p)
  PROVE  VerdictInv'
<1> USE DEF AgreementInv, TypeOK, Closed
<1> SUFFICES ASSUME NEW q \in Peers
             PROVE  (/\ verdict[q].status # "undecided" => phase[q] = "resolved"
                     /\ verdict[q].status \in {"agreed", "disputed_zeroed"} =>
                          /\ phase[Opponent(q)] \notin {"playing", "submitting"}
                          /\ verdict[q] = Resolve(Submission(series[q]),
                                                  Submission(series[Opponent(q)])))'
  BY DEF VerdictInv
<1>0. /\ Opponent(p) \in Peers /\ Opponent(p) # p /\ Opponent(Opponent(p)) = p
      /\ Opponent(q) \in Peers /\ Opponent(q) # q /\ Opponent(Opponent(q)) = q
  BY OpponentFacts
<1>1. CASE Complete(p)  BY <1>0, <1>1 DEF Complete, VerdictInv
<1>2. CASE Fail(p) \/ StopServer(p)  BY <1>0, <1>2 DEF Fail, StopServer, VerdictInv
<1>3. CASE Submit(p) \/ SubmitRaises(p)
  BY <1>0, <1>3 DEF Submit, SubmitRaises, VerdictInv
<1>4. CASE HandleAudit(p) \/ Lose(p)
  <2>1. UNCHANGED <<phase, series, verdict>>  BY <1>4 DEF HandleAudit, Lose
  <2>2. QED  BY <1>0, <2>1 DEF VerdictInv
<1>5. CASE PollEmpty(p)  BY <1>0, <1>5 DEF PollEmpty, VerdictInv
<1>6. CASE PollTimesOut(p)  BY <1>0, <1>6 DEF PollTimesOut, VerdictInv
<1>7. CASE PollFinds(p)
  <2>1. PICK m \in inbox[p] :
          verdict' = [verdict EXCEPT ![p] = Resolve(Submission(series[p]), m)]
    BY <1>7 DEF PollFinds
  <2>2. /\ m = Submission(series[Opponent(p)])
        /\ phase[Opponent(p)] \notin {"playing", "submitting"}
    BY <2>1 DEF TraceInv
  <2>3. phase' = [phase EXCEPT ![p] = "resolved"] /\ series' = series
    BY <1>7 DEF PollFinds
  <2>4. QED  BY <1>0, <2>1, <2>2, <2>3 DEF VerdictInv
<1>8. QED  BY <1>1, <1>2, <1>3, <1>4, <1>5, <1>6, <1>7 DEF Own

-----------------------------------------------------------------------------
\* The inductive invariant: every submission on the way, in an inbox or behind a
\* verdict is the one of the series its sender completed (finalize_series_agreement
\* over submit_audit), whatever the network does.
THEOREM AgreementInvariant == Spec => []AgreementInv
<1>1. AgreementInv /\ [Next]_vars => AgreementInv'
  <2> SUFFICES ASSUME AgreementInv, [Next]_vars PROVE AgreementInv'  OBVIOUS
  <2>1. CASE UNCHANGED vars
    BY <2>1 DEF vars, AgreementInv, TypeOK, TraceInv, VerdictInv
  <2>2. ASSUME NEW p \in Peers,
               Own(p) \/ SubmitRaises(p) \/ HandleAudit(p) \/ Lose(p)
        PROVE  AgreementInv'
    BY <2>2, AgreementTypes, AgreementTrace, AgreementVerdicts DEF AgreementInv
  <2>3. QED  BY <2>1, <2>2 DEF Next
<1>2. QED  BY <1>1, AgreementInit, PTL DEF Spec

\* A peer that reports "agreed" has an opponent that completed the identical series.
THEOREM AgreedIsIdentical == Spec => []AgreedMeansIdentical
<1>1. AgreementInv => AgreedMeansIdentical
  BY OpponentFacts, ResolveOutcome DEF AgreementInv, VerdictInv, AgreedMeansIdentical
<1>2. QED  BY <1>1, AgreementInvariant, PTL

\* The two peers never certify contradicting verdicts.
THEOREM VerdictsNeverContradict == Spec => []NoContradiction
<1>1. AgreementInv => NoContradiction
  <2> SUFFICES ASSUME AgreementInv, NEW p \in Peers, verdict[p].status = "agreed"
               PROVE  /\ verdict[Opponent(p)].status # "disputed_zeroed"
                      /\ verdict[Opponent(p)].status = "agreed" =>
                           verdict[Opponent(p)] = verdict[p]
    BY DEF NoContradiction
  <2>1. Opponent(p) \in Peers /\ Opponent(Opponent(p)) = p  BY OpponentFacts
  <2>2. series[Opponent(p)] = series[p]
    BY <2>1, ResolveOutcome DEF AgreementInv, VerdictInv
  <2>3. QED  BY <2>1, <2>2, ResolveOutcome DEF AgreementInv, VerdictInv
<1>2. QED  BY <1>1, AgreementInvariant, PTL

\* A dispute is a real difference between the series, and it zeroes the totals.
THEOREM DisputesAreReal == Spec => []DisputeIsReal
<1>1. AgreementInv => DisputeIsReal
  BY OpponentFacts, ResolveOutcome DEF AgreementInv, VerdictInv, DisputeIsReal
<1>2. QED  BY <1>1, AgreementInvariant, PTL
=============================================================================
