-------------------------------- MODULE Duel --------------------------------
(***************************************************************************)
(* Two peers playing each other: each runs the exchange of its turn loop   *)
(* (commitment, reveal, poll for the other's reveal) through its gateway   *)
(* into the other's router, and both advance on their own.  A request or   *)
(* its acknowledgement may be lost, and a poll budget may run out while    *)
(* the other peer is merely slow.  The police peer is another program: it  *)
(* is taken to speak the same protocol, as this peer's router demands.     *)
(***************************************************************************)
EXTENDS RouterCore, SequencesExt

CONSTANTS Peers,      \* the two peers
          MaxFaults   \* bound: lost calls and polls given up too early

Steps == MaxStep + 1
Total == Steps * Cardinality(SubGames)

ASSUME DuelAssumption ==
  /\ \E p, q \in Peers : p # q /\ Peers = {p, q}
  /\ IsFiniteSet(SubGames) /\ SubGames # {}
  /\ SubGames = 1 .. Cardinality(SubGames)
  /\ MaxFaults \in Nat

VARIABLES
  done,     \* exchanges a peer has completed
  pc,       \* where its turn loop stands
  call,     \* its outstanding call: "none", "sent", or the acknowledgement
  router,   \* its router
  sealed,   \* history: the moves it has sealed
  read,     \* history: the opponent moves it has read
  faults

duelVars == <<done, pc, call, router, sealed, read, faults>>

Other(p) == CHOOSE q \in Peers : q # p

SubGameOf(p) == done[p] \div Steps + 1
StepOf(p) == done[p] % Steps

Ended == {"over", "failed"}

\* The lifecycle state the router of p sees.
Machine(p) ==
  IF pc[p] = "over" THEN "series_complete" ELSE IF pc[p] = "failed" THEN "error" ELSE "waiting"

\* The message p is delivering: the commitment hides the move the reveal shows.
Outgoing(p) ==
  [sub |-> SubGameOf(p), step |-> StepOf(p),
   type |-> IF pc[p] = "commit" THEN "commitment" ELSE "reveal",
   body |-> Last(sealed[p]), corr |-> NoCorrelation, fault |-> NoFault]

DuelInit ==
  /\ done = [p \in Peers |-> 0]
  /\ pc = [p \in Peers |-> "turn"]
  /\ call = [p \in Peers |-> "none"]
  /\ router = [p \in Peers |-> EmptyRouter]
  /\ sealed = [p \in Peers |-> <<>>]
  /\ read = [p \in Peers |-> <<>>]
  /\ faults = 0

\* Decide, seal, send the commitment.
SealTurn(p) ==
  /\ pc[p] = "turn"
  /\ \E b \in Bodies : sealed' = [sealed EXCEPT ![p] = Append(@, b)]
  /\ pc' = [pc EXCEPT ![p] = "commit"]
  /\ call' = [call EXCEPT ![p] = "sent"]
  /\ UNCHANGED <<done, router, read, faults>>

\* The other peer's router handles the message, whatever that peer is doing.
Handle(p) ==
  /\ call[p] = "sent"
  /\ LET q    == Other(p)
         code == AckCode(router[q], Machine(q), Outgoing(p))
     IN /\ router' = [router EXCEPT ![q] = RouterAfter(@, Outgoing(p), code)]
        /\ call' = [call EXCEPT ![p] = code]
  /\ UNCHANGED <<done, pc, sealed, read, faults>>

CommitAccepted(p) ==
  /\ pc[p] = "commit" /\ call[p] \in Accepting
  /\ pc' = [pc EXCEPT ![p] = "reveal"]
  /\ call' = [call EXCEPT ![p] = "sent"]
  /\ UNCHANGED <<done, router, sealed, read, faults>>

RevealAccepted(p) ==
  /\ pc[p] = "reveal" /\ call[p] \in Accepting
  /\ pc' = [pc EXCEPT ![p] = "poll"]
  /\ call' = [call EXCEPT ![p] = "none"]
  /\ UNCHANGED <<done, router, sealed, read, faults>>

Fails(p) == pc' = [pc EXCEPT ![p] = "failed"] /\ call' = [call EXCEPT ![p] = "none"]

Rejected(p) ==
  /\ call[p] \notin Accepting \union {"none", "sent"}
  /\ Fails(p)
  /\ UNCHANGED <<done, router, sealed, read, faults>>

\* The request never arrived, or its acknowledgement did not come back.
CallLost(p) ==
  /\ call[p] # "none" /\ faults < MaxFaults
  /\ Fails(p)
  /\ faults' = faults + 1
  /\ UNCHANGED <<done, router, sealed, read>>

\* Mutant of Awaited: a reveal of any step will do.
AwaitedAnyStep(p) == {m \in ToSet(router[p].queue) : m.type = "reveal"}

\* The reveal the poll of p looks for.
Awaited(p) == {m \in ToSet(router[p].queue) : IsRevealOf(m, SubGameOf(p), StepOf(p))}

\* pop_matching finds it: the turn is complete.
PollFinds(p) ==
  /\ pc[p] = "poll"
  /\ \E m \in Awaited(p) :
       /\ read' = [read EXCEPT ![p] = Append(@, m.body)]
       /\ router' = [router EXCEPT ![p].queue = Consumed(@, m.sub, m.step)]
  /\ done' = [done EXCEPT ![p] = @ + 1]
  /\ pc' = [pc EXCEPT ![p] = IF done'[p] = Total THEN "over" ELSE "turn"]
  /\ UNCHANGED <<call, sealed, faults>>

\* Mutant of PollGivesUp: the poll has no budget.
PollForever(p) == pc[p] = "poll" /\ Awaited(p) = {} /\ UNCHANGED duelVars

\* No reveal will come any more: the budget runs out.
PollGivesUp(p) ==
  /\ pc[p] = "poll" /\ Awaited(p) = {} /\ pc[Other(p)] \in Ended
  /\ Fails(p)
  /\ UNCHANGED <<done, router, sealed, read, faults>>

\* The budget runs out while the opponent is only slow.
PollTooShort(p) ==
  /\ pc[p] = "poll" /\ Awaited(p) = {} /\ faults < MaxFaults
  /\ Fails(p)
  /\ faults' = faults + 1
  /\ UNCHANGED <<done, router, sealed, read>>

PeerStep(p) ==
  \/ SealTurn(p) \/ Handle(p) \/ CommitAccepted(p) \/ RevealAccepted(p)
  \/ Rejected(p) \/ PollFinds(p) \/ PollGivesUp(p)

BothEnded == (\A p \in Peers : pc[p] \in Ended) /\ UNCHANGED duelVars

DuelNext ==
  \/ \E p \in Peers : PeerStep(p) \/ CallLost(p) \/ PollTooShort(p)
  \/ BothEnded

\* Each peer's event loop and server go on: its calls and polls are bounded.
DuelSpec ==
  DuelInit /\ [][DuelNext]_duelVars /\ \A p \in Peers : WF_duelVars(PeerStep(p))

-----------------------------------------------------------------------------
\* The two peers play the same game without a common clock: neither is more than
\* one exchange ahead, also across the end of a sub-game, and what a peer has
\* read as the opponent's moves is exactly what the opponent sealed for those
\* steps.  Hence when one peer completed the series and the other failed, the
\* failure lies in the very last exchange.
SameGame ==
  \A p \in Peers :
    /\ done[p] <= done[Other(p)] + 1
    /\ Len(read[p]) = done[p]
    /\ IsPrefix(read[p], sealed[Other(p)])

\* As long as no call was lost and no poll gave up too early, neither router has
\* refused anything, neither peer has failed, and nothing had to be sent twice:
\* the slower peer's bounded inbox holds all that the faster one can send, and
\* its cursors are where the next message needs them, also in the last exchange,
\* when the faster peer may be over already.
NothingRefused ==
  faults = 0 => \A p \in Peers : pc[p] # "failed" /\ call[p] \in {"none", "sent", "ok"}

\* Whatever is lost or late, both peers end: a failure of one is noticed by the
\* other through a rejection or an exhausted poll.
DuelEnds == <>(\A p \in Peers : pc[p] \in Ended)

\* If no call is lost and no poll gives up too early, both peers complete every
\* sub-game: however their calls interleave, no message of one peer is rejected
\* by the other, and the bounded inbox never fills up.
CompletesUndisturbed == [](faults = 0) => <>(\A p \in Peers : pc[p] = "over")
=============================================================================
