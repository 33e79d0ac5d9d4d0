----------------------------- MODULE TurnRouter -----------------------------
(***************************************************************************)
(* The thief's inbound side: any message may be delivered to receive_turn, *)
(* in any order and any number of times, while the gateway consumes the    *)
(* reveals the turn loop is waiting for and the lifecycle machine may      *)
(* reach a state that closes the door.                                     *)
(***************************************************************************)
EXTENDS RouterCore

VARIABLES
  router,     \* state of RouterCore
  machine,    \* the shared lifecycle state, "waiting" standing for all live ones
  want,       \* sub-game and step whose reveal the turn loop waits for
  acked,      \* history: messages acknowledged with ok
  bounced,    \* history: logical keys a full queue rejected
  consumed    \* history: reveals popped by the gateway, oldest first

routerVars == <<router, machine, want, acked, bounced, consumed>>

Init ==
  /\ router = EmptyRouter
  /\ machine = "waiting"
  /\ want = [sub |-> 1, step |-> 0]
  /\ acked = {}
  /\ bounced = {}
  /\ consumed = <<>>

\* receive_turn, or its alias receive_move.
HandleTurn(m) ==
  LET code == AckCode(router, machine, m)
  IN /\ router' = RouterAfter(router, m, code)
     /\ acked' = IF code \in Accepting THEN acked \union {m} ELSE acked
     /\ bounced' = IF code = "BACKPRESSURE" THEN bounced \union {LogicalKey(m)} ELSE bounced
     /\ UNCHANGED <<machine, want, consumed>>

\* A poll of _await_opponent_reveal that finds its reveal: pop it, prune its
\* commitment, and let the turn loop go on to the next step.
ConsumeReveal ==
  /\ machine = "waiting"
  /\ \E i \in 1 .. Len(router.queue) :
       /\ IsRevealOf(router.queue[i], want.sub, want.step)
       /\ \A j \in 1 .. i - 1 : ~IsRevealOf(router.queue[j], want.sub, want.step)
       /\ consumed' = Append(consumed, router.queue[i])
       /\ router' = [router EXCEPT !.queue = Consumed(@, want.sub, want.step)]
       /\ want' = [want EXCEPT !.step = @ + 1]
       /\ UNCHANGED <<machine, acked, bounced>>

\* The turn loop finished its sub-game and waits in the next one.
NextSubGame ==
  /\ machine = "waiting"
  /\ want.step > 0
  /\ want.sub + 1 \in SubGames
  /\ want' = [sub |-> want.sub + 1, step |-> 0]
  /\ UNCHANGED <<router, machine, acked, bounced, consumed>>

\* A technical loss or the end of the series.
CloseDoor ==
  /\ machine = "waiting"
  /\ machine' \in {"error", "series_complete"}
  /\ UNCHANGED <<router, want, acked, bounced, consumed>>

Next ==
  \/ \E m \in Messages : HandleTurn(m)
  \/ ConsumeReveal
  \/ NextSubGame
  \/ CloseDoor

Spec == Init /\ [][Next]_routerVars

-----------------------------------------------------------------------------
\* No equivocation: of two different payloads for one logical key at most one
\* is ever acknowledged, however deliveries are repeated and reordered.
NoEquivocation ==
  \A x, y \in acked : LogicalKey(x) = LogicalKey(y) => x = y

AckedKeys == {LogicalKey(m) : m \in acked}

\* Commit before reveal: an acknowledged reveal had its commitment, and every
\* earlier reveal of its sub-game, acknowledged before it or turned away by a
\* full queue, whose rejection comes after the cursor has moved.
CommittedOrBounced ==
  \A m \in acked : m.type = "reveal" =>
    /\ <<m.sub, m.step, "commitment">> \in AckedKeys \union bounced
    /\ \A s \in 0 .. m.step - 1 :
         <<m.sub, s, "reveal">> \in AckedKeys \union bounced

InQueue(m) == \E i \in 1 .. Len(router.queue) : router.queue[i] = m

\* Exactly once: no reveal is handed to the turn loop twice, and none that was
\* handed over is still queued.
ConsumedOnce ==
  /\ \A i, j \in 1 .. Len(consumed) : consumed[i] = consumed[j] => i = j
  /\ \A i \in 1 .. Len(consumed) : ~InQueue(consumed[i])

\* A sender that did not see an ack may repeat the message at any later time
\* and is told ok again, as long as the peer is alive.
ResendIsSafe ==
  machine \notin DeadStates =>
    \A m \in acked : AckCode(router, machine, m) \in Accepting

=============================================================================
