--------------------------- MODULE RouterThreads ---------------------------
(***************************************************************************)
(* The router under real concurrency.  The tools are synchronous functions *)
(* that the MCP server runs on worker threads, and nothing in the router   *)
(* takes a lock, while the gateway polls the same inbox from the event     *)
(* loop.  A step is one access to shared state: the duplicate check, the   *)
(* sequence check with its advance (no call lies between the two, so the   *)
(* interpreter does not switch threads there), one put or get of the queue *)
(* and the remembering of a message.                                       *)
(***************************************************************************)
EXTENDS RouterCore

CONSTANTS Threads,     \* worker threads of the MCP server
          Inputs       \* well-formed messages the opponent may send, and resend

ASSUME InputsAssumption == Inputs \subseteq {m \in Messages : m.fault = NoFault}

VARIABLES
  router,     \* state of RouterCore
  worker,     \* what each worker thread is doing
  poll,       \* where the gateway's pop_matching stands
  buffer,     \* messages pop_matching has drained and not yet put back
  match,      \* the message it found, as a set
  target,     \* what it looks for: the reveal, then its commitment
  want,       \* the step the turn loop is at
  acked,      \* history: messages acknowledged with ok
  consumed    \* history: reveals handed to the turn loop

vars == <<router, worker, poll, buffer, match, target, want, acked,
          consumed>>

pollVars == <<poll, buffer, match, target, want, consumed>>

Idle == [at |-> "idle", msgs |-> {}]

\* The one sub-game that is played.
Game == CHOOSE g \in SubGames : TRUE

Matches(m) ==
  IF target = "reveal" THEN IsRevealOf(m, Game, want) ELSE IsCommitmentOf(m, Game, want)

Init ==
  /\ router = EmptyRouter
  /\ worker = [t \in Threads |-> Idle]
  /\ poll = "idle"
  /\ buffer = <<>>
  /\ match = {}
  /\ target = "reveal"
  /\ want = 0
  /\ acked = {}
  /\ consumed = {}

-----------------------------------------------------------------------------
\* The opponent's call of receive_turn reaches a free worker thread.  Once the
\* turn loop has given up the machine is in ERROR and the call changes nothing.
Receive(t, m) ==
  /\ poll # "gave_up"
  /\ worker[t] = Idle
  /\ worker' = [worker EXCEPT ![t] = [at |-> "check", msgs |-> {m}]]
  /\ UNCHANGED <<router, acked, pollVars>>

\* is_idempotent_replay, is_duplicate_conflict and correlation_conflict.
Check(t) ==
  \E m \in worker[t].msgs :
    /\ worker[t].at = "check"
    /\ LET replay   == IsIdempotentReplay(router, m)
           conflict == IsDuplicateConflict(router, m) \/ CorrelationConflict(router, m)
       IN /\ worker' = [worker EXCEPT ![t] =
                          IF replay \/ conflict THEN Idle ELSE [@ EXCEPT !.at = "feed"]]
          /\ acked' = IF replay THEN acked \union {m} ELSE acked
    /\ UNCHANGED <<router, pollVars>>

\* Mutant of Feed: the check alone, the tracker never advances.
FeedWithoutAdvance(t) ==
  \E m \in worker[t].msgs :
    /\ worker[t].at = "feed"
    /\ worker' = [worker EXCEPT ![t] =
                    IF InSequence(router, m) THEN [@ EXCEPT !.at = "put"] ELSE Idle]
    /\ UNCHANGED <<router, acked, pollVars>>

\* check_and_advance: out of order is a SEQUENCE rejection.
Feed(t) ==
  \E m \in worker[t].msgs :
    /\ worker[t].at = "feed"
    /\ IF InSequence(router, m)
       THEN /\ worker' = [worker EXCEPT ![t].at = "put"]
            /\ router' = [router EXCEPT !.cursor = Advanced(router, m)]
       ELSE /\ worker' = [worker EXCEPT ![t] = Idle]
            /\ UNCHANGED router
    /\ UNCHANGED <<acked, pollVars>>

\* put_nowait: a full queue is a BACKPRESSURE rejection.
Put(t) ==
  \E m \in worker[t].msgs :
    /\ worker[t].at = "put"
    /\ IF Len(router.queue) < Capacity
       THEN /\ worker' = [worker EXCEPT ![t].at = "remember"]
            /\ router' = [router EXCEPT !.queue = Append(@, m)]
       ELSE /\ worker' = [worker EXCEPT ![t] = Idle]
            /\ UNCHANGED router
    /\ UNCHANGED <<acked, pollVars>>

\* enqueue records the message, and the tool answers ok.
Remember(t) ==
  \E m \in worker[t].msgs :
    /\ worker[t].at = "remember"
    /\ router' = [router EXCEPT
         !.seen   = {x \in @ : LogicalKey(x) # LogicalKey(m)} \union {m},
         !.byCorr = IF m.corr = NoCorrelation THEN @
                    ELSE {x \in @ : x.corr # m.corr} \union {m}]
    /\ worker' = [worker EXCEPT ![t] = Idle]
    /\ acked' = acked \union {m}
    /\ UNCHANGED <<pollVars>>

-----------------------------------------------------------------------------
\* _await_opponent_reveal polls again; the loop stops after the last step.
StartPoll ==
  /\ poll = "idle"
  /\ want <= MaxStep
  /\ poll' = "drain"
  /\ UNCHANGED <<router, worker, buffer, match, target, want, acked,
                 consumed>>

\* drain: get_nowait until the queue is empty.
DrainOne ==
  /\ poll = "drain"
  /\ router.queue # <<>>
  /\ buffer' = Append(buffer, Head(router.queue))
  /\ router' = [router EXCEPT !.queue = Tail(@)]
  /\ UNCHANGED <<worker, poll, match, target, want, acked, consumed>>

DrainEnds ==
  /\ poll = "drain"
  /\ router.queue = <<>>
  /\ poll' = "putback"
  /\ UNCHANGED <<router, worker, buffer, match, target, want, acked,
                 consumed>>

\* The first match is kept out of the queue.
TakeMatch ==
  /\ poll = "putback"
  /\ buffer # <<>>
  /\ match = {} /\ Matches(Head(buffer))
  /\ match' = {Head(buffer)}
  /\ buffer' = Tail(buffer)
  /\ UNCHANGED <<router, worker, poll, target, want, acked, consumed>>

\* Mutant of PutBack: what does not match is dropped.
DropOthers ==
  /\ poll = "putback"
  /\ buffer # <<>>
  /\ match # {} \/ ~Matches(Head(buffer))
  /\ buffer' = Tail(buffer)
  /\ UNCHANGED <<router, worker, poll, match, target, want, acked, consumed>>

\* Every other message is put back; queue.Full is not caught when worker
\* threads have filled the room in the meantime, and takes what was drained and
\* not yet put back with it.
PutBack ==
  /\ poll = "putback"
  /\ buffer # <<>>
  /\ match # {} \/ ~Matches(Head(buffer))
  /\ IF Len(router.queue) < Capacity
     THEN /\ router' = [router EXCEPT !.queue = Append(@, Head(buffer))]
          /\ buffer' = Tail(buffer)
          /\ UNCHANGED <<poll, match>>
     ELSE /\ poll' = "raised"
          /\ buffer' = <<>>
          /\ match' = {}
          /\ UNCHANGED router
  /\ UNCHANGED <<worker, target, want, acked, consumed>>

\* pop_matching returns: nothing, so poll again, or give up after the last
\* poll; the reveal, so prune its commitment; or the pruned commitment, and
\* the turn loop takes its step.
PollAgain ==
  /\ poll = "putback" /\ buffer = <<>>
  /\ target = "reveal" /\ match = {}
  /\ poll' \in {"idle", "gave_up"}
  /\ UNCHANGED <<router, worker, buffer, match, target, want, acked,
                 consumed>>

FoundReveal ==
  /\ poll = "putback" /\ buffer = <<>>
  /\ target = "reveal" /\ match # {}
  /\ consumed' = consumed \union match
  /\ match' = {}
  /\ target' = "commitment"
  /\ poll' = "drain"
  /\ UNCHANGED <<router, worker, buffer, want, acked>>

\* Mutant of Pruned: the turn loop waits for the same step again.
PrunedWithoutStep ==
  /\ poll = "putback" /\ buffer = <<>>
  /\ target = "commitment"
  /\ match' = {}
  /\ target' = "reveal"
  /\ poll' = "idle"
  /\ UNCHANGED <<router, worker, buffer, want, acked, consumed>>

Pruned ==
  /\ poll = "putback" /\ buffer = <<>>
  /\ target = "commitment"
  /\ match' = {}
  /\ target' = "reveal"
  /\ want' = want + 1
  /\ poll' = "idle"
  /\ UNCHANGED <<router, worker, buffer, acked, consumed>>

Gateway ==
  \/ StartPoll \/ DrainOne \/ DrainEnds \/ TakeMatch \/ PutBack
  \/ PollAgain \/ FoundReveal \/ Pruned

Work(t) == Check(t) \/ Feed(t) \/ Put(t) \/ Remember(t)

Next ==
  \/ \E t \in Threads, m \in Inputs : Receive(t, m)
  \/ \E t \in Threads : Work(t)
  \/ Gateway

Spec == Init /\ [][Next]_vars

\* Worker threads and the event loop both keep running.
FairSpec == Spec /\ WF_vars(Gateway) /\ \A t \in Threads : WF_vars(Work(t))

-----------------------------------------------------------------------------
IsCore(m) == m.type \in {"commitment", "reveal"}

\* Without a lock two threads may both find a logical key unseen; the sequence
\* tracker still lets only one payload of a commitment or a reveal through.
CoreNoEquivocation ==
  \A x, y \in acked : IsCore(x) /\ LogicalKey(x) = LogicalKey(y) => x = y

InSeq(m, q) == \E i \in 1 .. Len(q) : q[i] = m

\* An acknowledged message is queued, held by the poll that drained it, handed
\* over, or a commitment pruned with its reveal, for as long as the poll has
\* not been cut short by queue.Full.
AckedNotLost ==
  poll # "raised" =>
    \A m \in acked :
      \/ InSeq(m, router.queue) \/ InSeq(m, buffer)
      \/ m \in match \union consumed
      \/ /\ m.type = "commitment"
         /\ \E x \in consumed : IsRevealOf(x, m.sub, m.step)

\* An acknowledged reveal of the step the turn loop waits in reaches it, unless
\* the poll raises queue.Full or had made its last attempt.
RevealReachesLoop ==
  \A s \in 0 .. MaxStep :
    (want = s /\ \E m \in acked : IsRevealOf(m, Game, s))
      ~> (want > s \/ poll \in {"raised", "gave_up"})
=============================================================================
