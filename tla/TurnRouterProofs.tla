-------------------------- MODULE TurnRouterProofs --------------------------
(***************************************************************************)
(* Proofs about TurnRouter for every set of sub-games, bodies, correlation *)
(* ids and faults, every number of steps and every inbox capacity.         *)
(***************************************************************************)
EXTENDS TurnRouter, SequenceTheorems, WellFoundedInduction, TLAPS

\* The messages on record under their logical keys.
KeysInv ==
  /\ router = [cursor |-> router.cursor, seen |-> router.seen,
                byCorr |-> router.byCorr, queue |-> router.queue]
  /\ router.seen = acked
  /\ \A m \in acked : m \in Messages /\ m.fault = NoFault
  /\ NoEquivocation

\* A cursor points past what was acknowledged or turned away by a full queue.
CursorInv ==
  /\ router.cursor \in [SubGames -> Cursors]
  /\ \A g \in SubGames :
       /\ router.cursor[g].phase = 0 =>
            <<g, router.cursor[g].step, "commitment">> \in AckedKeys \union bounced
       /\ \A s \in 0 .. router.cursor[g].step - 1 :
            /\ <<g, s, "commitment">> \in AckedKeys \union bounced
            /\ <<g, s, "reveal">> \in AckedKeys \union bounced
  /\ \A m \in acked : m.type = "reveal" => m.step < router.cursor[m.sub].step

\* The inductive invariant of the router.
RouterInv == KeysInv /\ CursorInv

-----------------------------------------------------------------------------
\* A delivery changes the record only by a message that is new under its key
\* and in sequence.
LEMMA DeliveryOutcomes ==
  ASSUME KeysInv, NEW m \in Messages, HandleTurn(m)
  PROVE  \/ router' = router /\ acked' = acked /\ bounced' = bounced
         \/ /\ m.fault = NoFault /\ InSequence(router, m)
            /\ \A x \in acked : LogicalKey(x) # LogicalKey(m)
            /\ router'.cursor = Advanced(router, m)
            /\ \/ /\ router'.seen = acked \union {m} /\ acked' = acked \union {m}
                  /\ bounced' = bounced
               \/ /\ router'.seen = router.seen /\ acked' = acked
                  /\ bounced' = bounced \union {LogicalKey(m)}
<1> DEFINE code == AckCode(router, machine, m)
<1>1. /\ router' = RouterAfter(router, m, code)
      /\ acked' = IF code \in Accepting THEN acked \union {m} ELSE acked
      /\ bounced' = IF code = "BACKPRESSURE" THEN bounced \union {LogicalKey(m)}
                    ELSE bounced
  BY DEF HandleTurn
<1>2. CASE code = "ok"
  <2>1. /\ m.fault = NoFault /\ InSequence(router, m)
        /\ m \notin router.seen /\ ~IsDuplicateConflict(router, m)
    BY <1>2, RouterAssumption DEF AckCode, IsIdempotentReplay, NoFault, Messages
  <2>2. \A x \in acked : LogicalKey(x) # LogicalKey(m)
    BY <2>1 DEF KeysInv, IsDuplicateConflict
  <2>3. router' = Enqueued(router, m) /\ acked' = acked \union {m} /\ bounced' = bounced
    BY <1>1, <1>2 DEF RouterAfter, Accepting
  <2>4. router'.cursor = Advanced(router, m) /\ router'.seen = acked \union {m}
    BY <2>2, <2>3 DEF Enqueued, KeysInv
  <2> QED BY <2>1, <2>2, <2>3, <2>4
<1>3. CASE code = "BACKPRESSURE"
  <2>1. /\ m.fault = NoFault /\ InSequence(router, m)
        /\ m \notin router.seen /\ ~IsDuplicateConflict(router, m)
    BY <1>3, RouterAssumption DEF AckCode, IsIdempotentReplay, NoFault, Messages
  <2>2. \A x \in acked : LogicalKey(x) # LogicalKey(m)
    BY <2>1 DEF KeysInv, IsDuplicateConflict
  <2>3. /\ router' = [router EXCEPT !.cursor = Advanced(router, m)]
        /\ acked' = acked /\ bounced' = bounced \union {LogicalKey(m)}
    BY <1>1, <1>3 DEF RouterAfter, Accepting
  <2>4. router'.cursor = Advanced(router, m) /\ router'.seen = router.seen
    BY <2>3 DEF KeysInv
  <2> QED BY <2>1, <2>2, <2>3, <2>4
<1>4. CASE code = "idempotent"
  <2>1. m \in acked
    BY <1>4, RouterAssumption DEF AckCode, IsIdempotentReplay, KeysInv, NoFault, Messages
  <2> QED BY <1>1, <1>4, <2>1 DEF RouterAfter, Accepting
<1>5. CASE code \notin {"ok", "BACKPRESSURE", "idempotent"}
  BY <1>1, <1>5 DEF RouterAfter, Accepting
<1> QED BY <1>2, <1>3, <1>4, <1>5

\* The record that a delivery leaves is again a record of four fields.
LEMMA RouterShape ==
  ASSUME KeysInv, NEW m \in Messages, HandleTurn(m)
  PROVE  router' = [cursor |-> router'.cursor, seen |-> router'.seen,
                    byCorr |-> router'.byCorr, queue |-> router'.queue]
  BY DEF HandleTurn, RouterAfter, Enqueued, KeysInv

\* A delivery keeps the keys unique and the cursors behind the record.
LEMMA HandleTurnInv ==
  ASSUME RouterInv, NEW m \in Messages, HandleTurn(m)
  PROVE  RouterInv'
<1> USE DEF RouterInv
<1>1. CASE router' = router /\ acked' = acked /\ bounced' = bounced
  BY <1>1 DEF KeysInv, CursorInv, NoEquivocation, AckedKeys
<1>2. CASE /\ m.fault = NoFault /\ InSequence(router, m)
           /\ \A x \in acked : LogicalKey(x) # LogicalKey(m)
           /\ router'.cursor = Advanced(router, m)
           /\ \/ /\ router'.seen = acked \union {m} /\ acked' = acked \union {m}
                 /\ bounced' = bounced
              \/ /\ router'.seen = router.seen /\ acked' = acked
                 /\ bounced' = bounced \union {LogicalKey(m)}
  <2>1. KeysInv'
    BY <1>2, RouterShape DEF KeysInv, NoEquivocation
  <2>2. /\ m.sub \in SubGames /\ m.step = router.cursor[m.sub].step
        /\ router.cursor \in [SubGames -> Cursors]
        /\ router.cursor[m.sub] \in Cursors
    BY <1>2 DEF CursorInv, InSequence, Messages
  <2>3. /\ AckedKeys \union bounced \subseteq (AckedKeys \union bounced)'
        /\ <<m.sub, m.step, m.type>> \in (AckedKeys \union bounced)'
    BY <1>2 DEF AckedKeys, LogicalKey
  <2>4. \A g \in SubGames : g # m.sub => router'.cursor[g] = router.cursor[g]
    BY <1>2, <2>2 DEF Advanced
  <2>5. router'.cursor[m.sub] =
          IF m.type = "commitment" THEN [step |-> m.step, phase |-> 0]
          ELSE IF m.type = "reveal" THEN [step |-> m.step + 1, phase |-> -1]
          ELSE router.cursor[m.sub]
    BY <1>2, <2>2 DEF Advanced
  <2>6. router'.cursor \in [SubGames -> Cursors]
    BY <1>2, <2>2 DEF Advanced, Cursors
  <2>7. m.type = "reveal" => router.cursor[m.sub].phase = 0
    BY <1>2 DEF InSequence
  <2>8. ASSUME NEW g \in SubGames
        PROVE  /\ router'.cursor[g].phase = 0 =>
                    <<g, router'.cursor[g].step, "commitment">>
                       \in (AckedKeys \union bounced)'
               /\ \A s \in 0 .. router'.cursor[g].step - 1 :
                    /\ <<g, s, "commitment">> \in (AckedKeys \union bounced)'
                    /\ <<g, s, "reveal">> \in (AckedKeys \union bounced)'
    <3>1. CASE g # m.sub
      BY <2>3, <2>4, <3>1 DEF CursorInv
    <3>2. CASE g = m.sub /\ m.type = "commitment"
      BY <2>2, <2>3, <2>5, <3>2 DEF CursorInv
    <3>3. CASE g = m.sub /\ m.type = "reveal"
      <4>1. router'.cursor[g].step = m.step + 1 /\ router'.cursor[g].phase = -1
        BY <2>5, <3>3
      <4>2. m.step \in Nat /\ \A s \in 0 .. m.step : s = m.step \/ s \in 0 .. m.step - 1
        BY <2>2 DEF Cursors
      <4>3. <<g, m.step, "commitment">> \in AckedKeys \union bounced
        BY <2>2, <2>7, <3>3 DEF CursorInv
      <4>4. ASSUME NEW s \in 0 .. m.step - 1
            PROVE  /\ <<g, s, "commitment">> \in AckedKeys \union bounced
                   /\ <<g, s, "reveal">> \in AckedKeys \union bounced
        BY <2>2, <3>3 DEF CursorInv
      <4>5. \A s \in 0 .. m.step :
              /\ <<g, s, "commitment">> \in (AckedKeys \union bounced)'
              /\ <<g, s, "reveal">> \in (AckedKeys \union bounced)'
        BY <2>3, <3>3, <4>2, <4>3, <4>4
      <4> QED BY <4>1, <4>2, <4>5
    <3>4. CASE g = m.sub /\ m.type \notin {"commitment", "reveal"}
      BY <2>3, <2>5, <3>4 DEF CursorInv
    <3> QED BY <3>1, <3>2, <3>3, <3>4
  <2>9. ASSUME NEW x \in acked', x.type = "reveal"
        PROVE  x.step < router'.cursor[x.sub].step
    <3>1. CASE x = m
      BY <2>2, <2>5, <2>9, <3>1 DEF Cursors
    <3>2. CASE x \in acked
      <4>1. x.sub \in SubGames /\ x.step \in Nat /\ x.step < router.cursor[x.sub].step
        BY <2>9, <3>2 DEF CursorInv, KeysInv, Messages
      <4>2. CASE x.sub # m.sub
        BY <2>4, <4>1, <4>2
      <4>3. CASE x.sub = m.sub
        BY <2>2, <2>5, <4>1, <4>3 DEF Cursors
      <4> QED BY <4>2, <4>3
    <3> QED BY <1>2, <3>1, <3>2
  <2> QED BY <2>1, <2>6, <2>8, <2>9 DEF CursorInv
<1> QED BY <1>1, <1>2, DeliveryOutcomes

\* Nothing but a delivery touches the record of acknowledged messages.
LEMMA RouterNextInv == RouterInv /\ [Next]_routerVars => RouterInv'
<1> SUFFICES ASSUME RouterInv, [Next]_routerVars PROVE RouterInv'
  OBVIOUS
<1>1. ASSUME NEW m \in Messages, HandleTurn(m)
      PROVE  RouterInv'
  BY <1>1, HandleTurnInv
<1>2. CASE ConsumeReveal
  <2>1. /\ \E q : router' = [router EXCEPT !.queue = q]
        /\ UNCHANGED <<acked, bounced>>
    BY <1>2 DEF ConsumeReveal
  <2> QED BY <2>1 DEF RouterInv, KeysInv, CursorInv, NoEquivocation, AckedKeys
<1>3. CASE NextSubGame \/ CloseDoor \/ UNCHANGED routerVars
  BY <1>3 DEF NextSubGame, CloseDoor, routerVars, RouterInv, KeysInv, CursorInv,
              NoEquivocation, AckedKeys
<1> QED BY <1>1, <1>2, <1>3 DEF Next

\* The inductive invariant holds in every reachable state.
THEOREM RouterInvariant == Spec => []RouterInv
<1>1. Init => RouterInv
  BY DEF Init, EmptyRouter, RouterInv, KeysInv, CursorInv, NoEquivocation, Cursors
<1> QED BY <1>1, RouterNextInv, PTL DEF Spec

\* Of two payloads for one logical key at most one is ever acknowledged,
\* however the opponent repeats, reorders and varies its messages.
THEOREM RouterNoEquivocation == Spec => []NoEquivocation
<1>1. RouterInv => NoEquivocation
  BY DEF RouterInv, KeysInv
<1> QED BY <1>1, RouterInvariant, PTL

\* A reveal is acknowledged only after its commitment and every earlier reveal
\* were acknowledged or met a full queue.
THEOREM RouterCommittedOrBounced == Spec => []CommittedOrBounced
<1>1. RouterInv => CommittedOrBounced
  <2> SUFFICES ASSUME RouterInv, NEW m \in acked, m.type = "reveal"
               PROVE  /\ <<m.sub, m.step, "commitment">> \in AckedKeys \union bounced
                      /\ \A s \in 0 .. m.step - 1 :
                           <<m.sub, s, "reveal">> \in AckedKeys \union bounced
    BY DEF CommittedOrBounced
  <2>1. /\ m.sub \in SubGames /\ m.step \in Nat
        /\ m.step < router.cursor[m.sub].step /\ router.cursor[m.sub].step \in Nat
    BY RouterAssumption DEF RouterInv, KeysInv, CursorInv, Messages, Cursors
  <2>2. ASSUME NEW s \in 0 .. router.cursor[m.sub].step - 1
        PROVE  /\ <<m.sub, s, "commitment">> \in AckedKeys \union bounced
               /\ <<m.sub, s, "reveal">> \in AckedKeys \union bounced
    BY <2>1 DEF RouterInv, CursorInv
  <2>3. \A s \in 0 .. m.step : s \in 0 .. router.cursor[m.sub].step - 1
    BY <2>1
  <2>4. m.step \in 0 .. m.step /\ \A s \in 0 .. m.step - 1 : s \in 0 .. m.step
    BY <2>1
  <2> QED BY <2>2, <2>3, <2>4
<1> QED BY <1>1, RouterInvariant, PTL

\* Repeating an acknowledged message is acknowledged again by a live peer.
THEOREM RouterResendIsSafe == Spec => []ResendIsSafe
<1>1. RouterInv => ResendIsSafe
  BY DEF RouterInv, KeysInv, ResendIsSafe, AckCode, Accepting, IsIdempotentReplay
<1> QED BY <1>1, RouterInvariant, PTL

-----------------------------------------------------------------------------
\* A message queued or handed over was acknowledged; no message is in the queue
\* twice, none was handed over twice and none is in both places.
QueueInv ==
  /\ router.queue \in Seq(Messages)
  /\ \A i \in 1 .. Len(router.queue) : router.queue[i] \in acked
  /\ \A i, j \in 1 .. Len(router.queue) : router.queue[i] = router.queue[j] => i = j
  /\ consumed \in Seq(Messages)
  /\ \A i \in 1 .. Len(consumed) : consumed[i] \in acked
  /\ ConsumedOnce

\* A set of indices that is not empty has a least one.
LEMMA LeastIndex ==
  ASSUME NEW I, I \subseteq Nat, I # {}
  PROVE  Min(I) \in I /\ \A y \in I : Min(I) <= y
<1>1. \E x \in I : \A y \in I : ~(<<y, x>> \in OpToRel(<, Nat))
  BY WFMin, NatLessThanWellFounded
<1>2. PICK x \in I : \A y \in I : ~(<<y, x>> \in OpToRel(<, Nat))
  BY <1>1
<1>3. \A y \in I : x <= y
  <2> SUFFICES ASSUME NEW y \in I, y < x PROVE FALSE
    OBVIOUS
  <2>1. <<y, x>> \in OpToRel(<, Nat)
    BY DEF OpToRel
  <2> QED BY <1>2, <2>1
<1> QED BY <1>3 DEF Min

\* RemoveAt takes one element out and keeps the order of the others.
LEMMA RemoveAtFacts ==
  ASSUME NEW S, NEW q \in Seq(S), NEW n \in 1 .. Len(q)
  PROVE  /\ RemoveAt(q, n) \in Seq(S)
         /\ Len(RemoveAt(q, n)) = Len(q) - 1
         /\ \A k \in 1 .. Len(q) - 1 :
              RemoveAt(q, n)[k] = IF k < n THEN q[k] ELSE q[k + 1]
<1> DEFINE a == SubSeq(q, 1, n - 1)
           b == SubSeq(q, n + 1, Len(q))
<1>1. /\ a \in Seq(S) /\ Len(a) = n - 1
      /\ \A k \in 1 .. n - 1 : a[k] = q[k]
  OBVIOUS
<1>2. /\ b \in Seq(S) /\ Len(b) = Len(q) - n
      /\ \A k \in 1 .. Len(q) - n : b[k] = q[n + k]
  OBVIOUS
<1>3. RemoveAt(q, n) = a \o b
  BY DEF RemoveAt
<1>0. Len(q) \in Nat /\ n \in Nat /\ Len(q) - 1 = (n - 1) + (Len(q) - n)
  OBVIOUS
<1> HIDE DEF a, b
<1>4. /\ a \o b \in Seq(S) /\ Len(a \o b) = Len(a) + Len(b)
      /\ \A k \in 1 .. Len(a) + Len(b) :
           (a \o b)[k] = IF k <= Len(a) THEN a[k] ELSE b[k - Len(a)]
  BY <1>1, <1>2, ConcatProperties
<1>5. ASSUME NEW k \in 1 .. Len(q) - 1
      PROVE  (a \o b)[k] = IF k < n THEN q[k] ELSE q[k + 1]
  <2>1. k \in Nat /\ k \in 1 .. Len(a) + Len(b)
    BY <1>0, <1>1, <1>2
  <2>2. CASE k < n
    BY <1>0, <1>1, <1>4, <2>1, <2>2
  <2>3. CASE ~(k < n)
    <3>1. (a \o b)[k] = b[k - (n - 1)]
      BY <1>0, <1>1, <1>4, <2>1, <2>3
    <3>2. k - (n - 1) \in 1 .. Len(q) - n /\ n + (k - (n - 1)) = k + 1
      BY <1>0, <2>1, <2>3
    <3> QED BY <1>2, <2>3, <3>1, <3>2
  <2> QED BY <2>2, <2>3
<1> QED BY <1>0, <1>1, <1>2, <1>3, <1>4, <1>5

\* What is left of a queue without repetitions has none, and lacks the message.
LEMMA RemoveAtUnique ==
  ASSUME NEW q \in Seq(Messages), NEW n \in 1 .. Len(q),
         \A i, j \in 1 .. Len(q) : q[i] = q[j] => i = j
  PROVE  LET r == RemoveAt(q, n)
         IN /\ r \in Seq(Messages)
            /\ \A i, j \in 1 .. Len(r) : r[i] = r[j] => i = j
            /\ \A i \in 1 .. Len(r) : \E j \in 1 .. Len(q) : j # n /\ r[i] = q[j]
<1> DEFINE r == RemoveAt(q, n)
<1>1. /\ r \in Seq(Messages) /\ Len(r) = Len(q) - 1
      /\ \A k \in 1 .. Len(q) - 1 : r[k] = IF k < n THEN q[k] ELSE q[k + 1]
  BY RemoveAtFacts
<1> HIDE DEF r
<1>2. ASSUME NEW i \in 1 .. Len(r), NEW j \in 1 .. Len(r), r[i] = r[j]
      PROVE  i = j
  <2> DEFINE at(k) == IF k < n THEN k ELSE k + 1
  <2>1. /\ at(i) \in 1 .. Len(q) /\ r[i] = q[at(i)]
        /\ at(j) \in 1 .. Len(q) /\ r[j] = q[at(j)]
    BY <1>1
  <2>2. at(i) = at(j)
    BY <1>2, <2>1
  <2> QED BY <2>2
<1>3. ASSUME NEW i \in 1 .. Len(r)
      PROVE  \E j \in 1 .. Len(q) : j # n /\ r[i] = q[j]
  <2>1. CASE i < n
    BY <1>1, <2>1
  <2>2. CASE i >= n
    BY <1>1, <2>2
  <2> QED BY <2>1, <2>2
<1> QED BY <1>1, <1>2, <1>3 DEF r

\* The first reveal of a step leaves the queue.
LEMMA WithoutRevealFacts ==
  ASSUME NEW q \in Seq(Messages), NEW g, NEW s, NEW n \in 1 .. Len(q),
         IsRevealOf(q[n], g, s),
         \A j \in 1 .. n - 1 : ~IsRevealOf(q[j], g, s)
  PROVE  WithoutReveal(q, g, s) = RemoveAt(q, n)
<1> DEFINE I == {i \in 1 .. Len(q) : IsRevealOf(q[i], g, s)}
<1>1. WithoutReveal(q, g, s) = RemoveAt(q, IF I # {} THEN Min(I) ELSE 0)
  BY DEF WithoutReveal, RemoveFirstMatch, SelectInSeq
<1>2. n \in I /\ \A y \in I : n <= y
  OBVIOUS
<1>3. Min(I) = n
  <2> HIDE DEF I
  <2>1. I \subseteq Int
    BY DEF I
  <2>2. I \subseteq Nat /\ I # {}
    BY <1>2 DEF I
  <2>3. Min(I) \in I /\ \A y \in I : Min(I) <= y
    BY <2>2, LeastIndex
  <2>4. Min(I) <= n /\ n <= Min(I) /\ n \in Int /\ Min(I) \in Int
    BY <1>2, <2>1, <2>3
  <2> QED BY <2>4
<1> QED BY <1>1, <1>2, <1>3

\* The commitment leaves the queue if it is there.
LEMMA WithoutCommitmentFacts ==
  ASSUME NEW q \in Seq(Messages), NEW g, NEW s
  PROVE  \/ WithoutCommitment(q, g, s) = q
         \/ \E n \in 1 .. Len(q) : WithoutCommitment(q, g, s) = RemoveAt(q, n)
<1> DEFINE I == {i \in 1 .. Len(q) : IsCommitmentOf(q[i], g, s)}
<1>1. CASE I = {}
  BY <1>1 DEF WithoutCommitment, RemoveFirstMatch
<1>2. CASE I # {}
  <2>1. WithoutCommitment(q, g, s) = RemoveAt(q, Min(I))
    BY <1>2 DEF WithoutCommitment, RemoveFirstMatch, SelectInSeq
  <2>2. I \subseteq Nat
    OBVIOUS
  <2>3. Min(I) \in I
    BY <1>2, <2>2, LeastIndex
  <2> QED BY <2>1, <2>3
<1> QED BY <1>1, <1>2

\* A delivery queues at most a message that was never acknowledged before.
LEMMA QueueAfterDelivery ==
  ASSUME KeysInv, NEW m \in Messages, HandleTurn(m)
  PROVE  /\ consumed' = consumed /\ acked \subseteq acked'
         /\ \/ router'.queue = router.queue
            \/ router'.queue = Append(router.queue, m) /\ m \notin acked /\ m \in acked'
<1> DEFINE code == AckCode(router, machine, m)
<1>1. /\ router' = RouterAfter(router, m, code) /\ consumed' = consumed
      /\ acked' = IF code \in Accepting THEN acked \union {m} ELSE acked
  BY DEF HandleTurn
<1>2. CASE code = "ok"
  <2>1. m \notin router.seen
    BY <1>2, RouterAssumption DEF AckCode, IsIdempotentReplay, NoFault, Messages
  <2>2. router' = Enqueued(router, m)
    BY <1>1, <1>2 DEF RouterAfter
  <2> QED BY <1>1, <1>2, <2>1, <2>2 DEF KeysInv, Enqueued, Accepting
<1>3. CASE code # "ok"
  <2>1. router' \in {router, [router EXCEPT !.cursor = Advanced(router, m)]}
    BY <1>1, <1>3 DEF RouterAfter
  <2>2. router'.queue = router.queue
    BY <2>1 DEF KeysInv
  <2> QED BY <1>1, <2>2
<1> QED BY <1>2, <1>3

\* A delivery keeps the queue and the reveals handed over apart.
LEMMA HandleTurnQueue ==
  ASSUME KeysInv, QueueInv, NEW m \in Messages, HandleTurn(m)
  PROVE  QueueInv'
<1> USE DEF QueueInv, ConsumedOnce, InQueue
<1>1. consumed' = consumed /\ acked \subseteq acked'
  BY QueueAfterDelivery
<1>2. CASE router'.queue = router.queue
  BY <1>1, <1>2
<1>3. CASE router'.queue = Append(router.queue, m) /\ m \notin acked /\ m \in acked'
  <2> DEFINE q == router.queue
             r == router'.queue
  <2>1. /\ r \in Seq(Messages) /\ Len(r) = Len(q) + 1 /\ Len(q) \in Nat
        /\ \A i \in 1 .. Len(q) : r[i] = q[i]
        /\ r[Len(q) + 1] = m
    BY <1>3
  <2>2. \A i \in 1 .. Len(r) : i \in 1 .. Len(q) \/ i = Len(q) + 1
    BY <2>1
  <2> HIDE DEF q, r
  <2>3. /\ \A i \in 1 .. Len(q) : q[i] \in acked
        /\ \A i, j \in 1 .. Len(q) : q[i] = q[j] => i = j
        /\ \A i \in 1 .. Len(consumed) : \A j \in 1 .. Len(q) : q[j] # consumed[i]
    BY DEF q
  <2>4. \A i \in 1 .. Len(r) : r[i] \in acked'
    BY <1>1, <1>3, <2>1, <2>2, <2>3
  <2>5. \A i, j \in 1 .. Len(r) : r[i] = r[j] => i = j
    BY <1>3, <2>1, <2>2, <2>3
  <2>6. \A i \in 1 .. Len(consumed) : \A j \in 1 .. Len(r) : r[j] # consumed[i]
    BY <1>3, <2>1, <2>2, <2>3
  <2> QED BY <1>1, <2>1, <2>4, <2>5, <2>6 DEF r
<1> QED BY <1>2, <1>3, QueueAfterDelivery

\* A poll that finds its reveal moves it, once, from the queue to the turn loop.
LEMMA ConsumeQueue ==
  ASSUME KeysInv, QueueInv, ConsumeReveal
  PROVE  QueueInv'
<1> DEFINE q == router.queue
           r == WithoutReveal(q, want.sub, want.step)
           t == Consumed(q, want.sub, want.step)
<1>1. PICK n \in 1 .. Len(q) :
        /\ IsRevealOf(q[n], want.sub, want.step)
        /\ \A j \in 1 .. n - 1 : ~IsRevealOf(q[j], want.sub, want.step)
        /\ consumed' = Append(consumed, q[n])
        /\ router' = [router EXCEPT !.queue = t]
        /\ acked' = acked
  BY DEF ConsumeReveal
<1>2. router'.queue = t
  BY <1>1 DEF KeysInv
<1>3. /\ q \in Seq(Messages)
      /\ \A i \in 1 .. Len(q) : q[i] \in acked
      /\ \A i, j \in 1 .. Len(q) : q[i] = q[j] => i = j
  BY DEF QueueInv
<1>4. r = RemoveAt(q, n)
  BY <1>1, <1>3, WithoutRevealFacts
<1>5. t = WithoutCommitment(r, want.sub, want.step)
  BY DEF Consumed
<1>6. /\ consumed \in Seq(Messages)
      /\ \A i \in 1 .. Len(consumed) : consumed[i] \in acked
      /\ \A i, j \in 1 .. Len(consumed) : consumed[i] = consumed[j] => i = j
      /\ \A i \in 1 .. Len(consumed) : \A j \in 1 .. Len(q) : q[j] # consumed[i]
  BY DEF QueueInv, ConsumedOnce, InQueue
<1> HIDE DEF q, r, t
<1>7. /\ r \in Seq(Messages)
      /\ \A i, j \in 1 .. Len(r) : r[i] = r[j] => i = j
      /\ \A i \in 1 .. Len(r) : \E j \in 1 .. Len(q) : j # n /\ r[i] = q[j]
  BY <1>3, <1>4, RemoveAtUnique
<1>8. /\ t \in Seq(Messages)
      /\ \A i, j \in 1 .. Len(t) : t[i] = t[j] => i = j
      /\ \A i \in 1 .. Len(t) : \E j \in 1 .. Len(r) : t[i] = r[j]
  <2>1. CASE t = r
    BY <1>7, <2>1
  <2>2. ASSUME NEW k \in 1 .. Len(r), t = RemoveAt(r, k)
        PROVE  /\ t \in Seq(Messages)
               /\ \A i, j \in 1 .. Len(t) : t[i] = t[j] => i = j
               /\ \A i \in 1 .. Len(t) : \E j \in 1 .. Len(r) : t[i] = r[j]
    <3>1. LET u == RemoveAt(r, k)
          IN /\ u \in Seq(Messages)
             /\ \A i, j \in 1 .. Len(u) : u[i] = u[j] => i = j
             /\ \A i \in 1 .. Len(u) : \E j \in 1 .. Len(r) : j # k /\ u[i] = r[j]
      BY <1>7, RemoveAtUnique
    <3> QED BY <2>2, <3>1
  <2> QED BY <1>5, <1>7, <2>1, <2>2, WithoutCommitmentFacts
<1>9. \A i \in 1 .. Len(t) : \E j \in 1 .. Len(q) : j # n /\ t[i] = q[j]
  BY <1>7, <1>8
<1>10. \A i \in 1 .. Len(t) : t[i] \in acked /\ t[i] # q[n]
  BY <1>3, <1>9
<1>11. /\ consumed' \in Seq(Messages) /\ Len(consumed') = Len(consumed) + 1
       /\ Len(consumed) \in Nat
       /\ \A i \in 1 .. Len(consumed) : consumed'[i] = consumed[i]
       /\ consumed'[Len(consumed) + 1] = q[n]
       /\ \A i \in 1 .. Len(consumed') : i \in 1 .. Len(consumed) \/ i = Len(consumed) + 1
  BY <1>1, <1>3, <1>6
<1>12. \A i \in 1 .. Len(consumed') : consumed'[i] \in acked
  BY <1>3, <1>6, <1>11
<1>13. \A i, j \in 1 .. Len(consumed') : consumed'[i] = consumed'[j] => i = j
  BY <1>6, <1>11
<1>14. \A i \in 1 .. Len(consumed') : \A j \in 1 .. Len(t) : t[j] # consumed'[i]
  BY <1>6, <1>9, <1>10, <1>11
<1> QED
  BY <1>1, <1>2, <1>8, <1>10, <1>11, <1>12, <1>13, <1>14
     DEF QueueInv, ConsumedOnce, InQueue

\* However messages are repeated, reordered and varied, no reveal reaches the turn
\* loop twice and none that reached it is still queued.
THEOREM RouterConsumedOnce == Spec => []ConsumedOnce
<1>1. Init => QueueInv
  BY DEF Init, EmptyRouter, QueueInv, ConsumedOnce, InQueue
<1>2. RouterInv /\ QueueInv /\ [Next]_routerVars => QueueInv'
  <2> SUFFICES ASSUME RouterInv, QueueInv, [Next]_routerVars PROVE QueueInv'
    OBVIOUS
  <2>1. KeysInv
    BY DEF RouterInv
  <2>2. CASE \E m \in Messages : HandleTurn(m)
    BY <2>1, <2>2, HandleTurnQueue
  <2>3. CASE ConsumeReveal
    BY <2>1, <2>3, ConsumeQueue
  <2>4. CASE NextSubGame \/ CloseDoor \/ UNCHANGED routerVars
    BY <2>4 DEF NextSubGame, CloseDoor, routerVars, QueueInv, ConsumedOnce, InQueue
  <2> QED BY <2>2, <2>3, <2>4 DEF Next
<1>3. QueueInv => ConsumedOnce
  BY DEF QueueInv
<1> QED BY <1>1, <1>2, <1>3, RouterInvariant, PTL DEF Spec
=============================================================================
