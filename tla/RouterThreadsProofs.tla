------------------------ MODULE RouterThreadsProofs ------------------------
(***************************************************************************)
(* Proofs about RouterThreads for every number of worker threads, every    *)
(* set of messages and every inbox capacity.                               *)
(***************************************************************************)
EXTENDS RouterThreads, TLAPS

\* A thread that the sequence tracker has let through and that has not answered yet.
Holds(t, m) == worker[t].at \in {"put", "remember"} /\ m \in worker[t].msgs

\* Each thread handles one message; what is on record has been acknowledged.
ThreadsInv ==
  /\ worker \in [Threads -> [at : {"idle", "check", "feed", "put", "remember"},
                             msgs : SUBSET Messages]]
  /\ \A t \in Threads : \A x, y \in worker[t].msgs : x = y
  /\ router = [cursor |-> router.cursor, seen |-> router.seen,
               byCorr |-> router.byCorr, queue |-> router.queue]
  /\ router.cursor \in [SubGames -> Cursors]
  /\ router.seen \subseteq acked
  /\ acked \subseteq Messages

\* The cursor has left this core message behind.
Past(m) ==
  \/ m.step < router.cursor[m.sub].step
  \/ /\ m.type = "commitment" /\ m.step = router.cursor[m.sub].step
     /\ router.cursor[m.sub].phase = 0

\* The cursor is past every core message that was let through, and each core key
\* was let through once: it is acknowledged, or one thread has it in hand.
PassedInv ==
  /\ \A m \in acked : IsCore(m) => Past(m)
  /\ \A t \in Threads : \A m \in worker[t].msgs : Holds(t, m) /\ IsCore(m) => Past(m)
  /\ \A t \in Threads : \A m \in worker[t].msgs : \A x \in acked :
       Holds(t, m) /\ IsCore(m) => LogicalKey(x) # LogicalKey(m)
  /\ \A t, u \in Threads : \A m \in worker[t].msgs : \A x \in worker[u].msgs :
       Holds(t, m) /\ Holds(u, x) /\ IsCore(m) /\ LogicalKey(x) = LogicalKey(m) => t = u
  /\ CoreNoEquivocation

\* The inductive invariant of the concurrent router.
ConcurrentInv == ThreadsInv /\ PassedInv

-----------------------------------------------------------------------------
\* Nothing has been received yet.
LEMMA ConcurrentInit == Init => ConcurrentInv
<1> SUFFICES ASSUME Init PROVE ConcurrentInv  OBVIOUS
<1>1. ThreadsInv  BY DEF Init, ThreadsInv, EmptyRouter, Idle, Cursors
<1>2. PassedInv  BY DEF Init, PassedInv, Holds, Idle, CoreNoEquivocation
<1>3. QED  BY <1>1, <1>2 DEF ConcurrentInv

\* What the polling gateway leaves alone: it moves messages of the queue only.
LEMMA GatewayFrame ==
  ASSUME ThreadsInv, Gateway
  PROVE  /\ UNCHANGED <<worker, acked>>
         /\ router'.cursor = router.cursor /\ router'.seen = router.seen
         /\ router' = [cursor |-> router'.cursor, seen |-> router'.seen,
                       byCorr |-> router'.byCorr, queue |-> router'.queue]
<1> USE DEF ThreadsInv
<1>1. CASE StartPoll \/ DrainEnds \/ TakeMatch \/ PollAgain \/ FoundReveal \/ Pruned
  BY <1>1 DEF StartPoll, DrainEnds, TakeMatch, PollAgain, FoundReveal, Pruned
<1>2. CASE DrainOne  BY <1>2 DEF DrainOne
<1>3. CASE PutBack  BY <1>3 DEF PutBack
<1>4. QED  BY <1>1, <1>2, <1>3 DEF Gateway

\* A state that differs only in the queue keeps the invariant.
LEMMA QueueOnly ==
  ASSUME ConcurrentInv, UNCHANGED <<worker, acked>>,
         router'.cursor = router.cursor, router'.seen = router.seen,
         router' = [cursor |-> router'.cursor, seen |-> router'.seen,
                    byCorr |-> router'.byCorr, queue |-> router'.queue]
  PROVE  ConcurrentInv'
<1>1. ThreadsInv'  BY DEF ConcurrentInv, ThreadsInv
<1>2. PassedInv'
  BY DEF ConcurrentInv, PassedInv, Holds, Past, CoreNoEquivocation
<1>3. QED  BY <1>1, <1>2 DEF ConcurrentInv

\* A thread that goes from one place to another without passing the tracker, and
\* without an answer for a new message, keeps the invariant.
LEMMA NotFed ==
  ASSUME ConcurrentInv, NEW t \in Threads, router' = router, acked' = acked,
         NEW w \in [at : {"idle", "check", "feed"}, msgs : SUBSET Messages],
         \A x, y \in w.msgs : x = y,
         worker' = [worker EXCEPT ![t] = w]
  PROVE  ConcurrentInv'
<1>1. ThreadsInv'  BY DEF ConcurrentInv, ThreadsInv
<1>2. \A u \in Threads : \A m : Holds(u, m)' => Holds(u, m) /\ worker'[u] = worker[u]
  BY DEF ConcurrentInv, ThreadsInv, Holds
<1>3. PassedInv'
  <2> USE <1>2 DEF ConcurrentInv, PassedInv
  <2>1. \A m : Past(m)' = Past(m)  BY DEF Past
  <2>2. (\A m \in acked : IsCore(m) => Past(m))'  BY <2>1
  <2>3. (\A u \in Threads : \A m \in worker[u].msgs : Holds(u, m) /\ IsCore(m) => Past(m))'
    BY <2>1
  <2>4. (\A u \in Threads : \A m \in worker[u].msgs : \A x \in acked :
           Holds(u, m) /\ IsCore(m) => LogicalKey(x) # LogicalKey(m))'
    OBVIOUS
  <2>5. (\A u, v \in Threads : \A m \in worker[u].msgs : \A x \in worker[v].msgs :
           Holds(u, m) /\ Holds(v, x) /\ IsCore(m) /\ LogicalKey(x) = LogicalKey(m)
             => u = v)'
    OBVIOUS
  <2>6. CoreNoEquivocation'  BY DEF CoreNoEquivocation
  <2>7. QED  BY <2>2, <2>3, <2>4, <2>5, <2>6
<1>4. QED  BY <1>1, <1>3 DEF ConcurrentInv

\* A new call occupies a thread.
LEMMA ReceiveInv ==
  ASSUME ConcurrentInv, NEW t \in Threads, NEW m \in Inputs, Receive(t, m)
  PROVE  ConcurrentInv'
<1>1. m \in Messages  BY InputsAssumption
<1> DEFINE w == [at |-> "check", msgs |-> {m}]
<1>2. w \in [at : {"idle", "check", "feed"}, msgs : SUBSET Messages]  BY <1>1
<1>3. \A x, y \in w.msgs : x = y  OBVIOUS
<1>4. router' = router /\ acked' = acked /\ worker' = [worker EXCEPT ![t] = w]
  BY DEF Receive
<1> HIDE DEF w
<1>5. QED  BY <1>2, <1>3, <1>4, NotFed

\* The duplicate check answers a replay of what is on record and lets a new
\* message go on.
LEMMA CheckInv ==
  ASSUME ConcurrentInv, NEW t \in Threads, Check(t)
  PROVE  ConcurrentInv'
<1> USE DEF ConcurrentInv, ThreadsInv
<1>1. PICK m \in worker[t].msgs :
        /\ worker' = [worker EXCEPT ![t] =
                        IF \/ IsIdempotentReplay(router, m)
                           \/ IsDuplicateConflict(router, m) \/ CorrelationConflict(router, m)
                        THEN Idle ELSE [worker[t] EXCEPT !.at = "feed"]]
        /\ acked' = IF IsIdempotentReplay(router, m) THEN acked \union {m} ELSE acked
        /\ router' = router
  BY DEF Check
<1>2. acked' = acked  BY <1>1 DEF IsIdempotentReplay
<1>3. /\ Idle \in [at : {"idle", "check", "feed"}, msgs : SUBSET Messages]
      /\ [worker[t] EXCEPT !.at = "feed"]
           \in [at : {"idle", "check", "feed"}, msgs : SUBSET Messages]
      /\ \A x, y \in Idle.msgs : x = y
      /\ \A x, y \in [worker[t] EXCEPT !.at = "feed"].msgs : x = y
  BY DEF Idle
<1>4. \E w \in [at : {"idle", "check", "feed"}, msgs : SUBSET Messages] :
        (\A x, y \in w.msgs : x = y) /\ worker' = [worker EXCEPT ![t] = w]
  BY <1>1, <1>3
<1>5. QED  BY <1>1, <1>2, <1>4, NotFed

\* The tracker lets a core message through only if its key was not let through
\* before, and leaves it behind in the same step.
LEMMA FeedInv ==
  ASSUME ConcurrentInv, NEW t \in Threads, Feed(t)
  PROVE  ConcurrentInv'
<1> USE DEF ConcurrentInv
<1>1. PICK m \in worker[t].msgs :
        /\ worker[t].at = "feed" /\ acked' = acked
        /\ \/ /\ InSequence(router, m)
              /\ worker' = [worker EXCEPT ![t].at = "put"]
              /\ router' = [router EXCEPT !.cursor = Advanced(router, m)]
           \/ worker' = [worker EXCEPT ![t] = Idle] /\ router' = router
  BY DEF Feed
<1>2. m \in Messages /\ worker[t].msgs = {m}  BY DEF ThreadsInv
<1>3. CASE worker' = [worker EXCEPT ![t] = Idle] /\ router' = router
  <2>1. /\ Idle \in [at : {"idle", "check", "feed"}, msgs : SUBSET Messages]
        /\ \A x, y \in Idle.msgs : x = y
    BY DEF Idle
  <2>2. QED  BY <1>1, <1>3, <2>1, NotFed
<1>4. CASE /\ InSequence(router, m)
           /\ worker' = [worker EXCEPT ![t].at = "put"]
           /\ router' = [router EXCEPT !.cursor = Advanced(router, m)]
  <2>1. m.sub \in SubGames /\ m.step \in Nat /\ router.cursor[m.sub] \in Cursors
    BY <1>2, RouterAssumption DEF Messages, ThreadsInv
  <2>2. router'.cursor = Advanced(router, m) /\ router'.seen = router.seen
    BY <1>4 DEF ThreadsInv
  <2>3. \A g \in SubGames : g # m.sub => router'.cursor[g] = router.cursor[g]
    BY <2>1, <2>2 DEF Advanced, ThreadsInv
  <2>4. router'.cursor[m.sub] =
          IF m.type = "commitment" THEN [step |-> m.step, phase |-> 0]
          ELSE IF m.type = "reveal" THEN [step |-> m.step + 1, phase |-> -1]
          ELSE router.cursor[m.sub]
    BY <1>4, <2>1, <2>2 DEF Advanced, ThreadsInv, InSequence
  <2>5. ThreadsInv'
    <3>1. router'.cursor \in [SubGames -> Cursors]
      BY <2>1, <2>2, <1>4 DEF Advanced, ThreadsInv, Cursors
    <3>2. worker' \in [Threads -> [at : {"idle", "check", "feed", "put", "remember"},
                                   msgs : SUBSET Messages]]
      BY <1>4 DEF ThreadsInv
    <3>3. \A u \in Threads : worker'[u].msgs = worker[u].msgs  BY <1>4 DEF ThreadsInv
    <3>4. QED  BY <1>1, <1>4, <2>2, <3>1, <3>2, <3>3 DEF ThreadsInv
  <2>6. ASSUME NEW x \in Messages, IsCore(x), Past(x)
        PROVE  Past(x)' /\ LogicalKey(x) # LogicalKey(m)
    <3>1. x.sub \in SubGames /\ x.step \in Nat  BY RouterAssumption DEF Messages
    <3>2. LogicalKey(x) # LogicalKey(m)
      BY <1>4, <2>1, <2>6, <3>1 DEF InSequence, Past, LogicalKey, IsCore, Cursors
    <3>3. Past(x)'
      <4>1. CASE x.sub # m.sub  BY <2>3, <2>6, <3>1, <4>1 DEF Past
      <4>2. CASE x.sub = m.sub
        BY <1>4, <2>1, <2>4, <2>6, <3>1, <4>2 DEF Past, InSequence, Cursors
      <4>3. QED  BY <4>1, <4>2
    <3>4. QED  BY <3>2, <3>3
  <2>7. IsCore(m) => Past(m)'  BY <2>1, <2>4 DEF Past, IsCore
  <2>8. /\ \A u \in Threads : worker'[u].msgs = worker[u].msgs
        /\ \A u \in Threads : \A x : Holds(u, x)' <=> Holds(u, x) \/ (u = t /\ x = m)
    BY <1>1, <1>2, <1>4 DEF Holds, ThreadsInv
  <2>9. \A u \in Threads : \A x \in worker[u].msgs : x \in Messages
    BY DEF ThreadsInv
  <2>10. PassedInv'
    <3>1. (\A x \in acked : IsCore(x) => Past(x))'
      BY <1>1, <2>6 DEF ThreadsInv, PassedInv
    <3>2. (\A u \in Threads : \A x \in worker[u].msgs : Holds(u, x) /\ IsCore(x) => Past(x))'
      BY <2>6, <2>7, <2>8, <2>9 DEF PassedInv
    <3>3. (\A u \in Threads : \A y \in worker[u].msgs : \A x \in acked :
             Holds(u, y) /\ IsCore(y) => LogicalKey(x) # LogicalKey(y))'
      <4>1. \A x \in acked : IsCore(m) => LogicalKey(x) # LogicalKey(m)
        <5> SUFFICES ASSUME NEW x \in acked, IsCore(m), LogicalKey(x) = LogicalKey(m)
                     PROVE  FALSE
          OBVIOUS
        <5>1. IsCore(x)  BY DEF IsCore, LogicalKey
        <5>2. QED  BY <2>6, <5>1 DEF ThreadsInv, PassedInv
      <4>2. QED  BY <1>1, <2>8, <4>1 DEF PassedInv
    <3>4. (\A u, v \in Threads : \A y \in worker[u].msgs : \A x \in worker[v].msgs :
             Holds(u, y) /\ Holds(v, x) /\ IsCore(y) /\ LogicalKey(x) = LogicalKey(y)
               => u = v)'
      <4>1. \A u \in Threads : \A x \in worker[u].msgs :
              Holds(u, x) /\ IsCore(m) => LogicalKey(x) # LogicalKey(m)
        <5> SUFFICES ASSUME NEW u \in Threads, NEW x \in worker[u].msgs, Holds(u, x),
                            IsCore(m), LogicalKey(x) = LogicalKey(m)
                     PROVE  FALSE
          OBVIOUS
        <5>1. IsCore(x)  BY DEF IsCore, LogicalKey
        <5>2. QED  BY <2>6, <2>9, <5>1 DEF PassedInv
      <4>2. SUFFICES ASSUME NEW u \in Threads, NEW v \in Threads,
                            NEW y \in worker[u].msgs, NEW x \in worker[v].msgs,
                            Holds(u, y)', Holds(v, x)', IsCore(y),
                            LogicalKey(x) = LogicalKey(y)
                     PROVE  u = v
        BY <2>8
      <4>3. IsCore(x)  BY <4>2 DEF IsCore, LogicalKey
      <4>4. CASE Holds(u, y) /\ Holds(v, x)  BY <4>2, <4>4 DEF PassedInv
      <4>5. CASE u = t /\ y = m  BY <2>8, <4>1, <4>2, <4>5
      <4>6. CASE v = t /\ x = m  BY <2>8, <4>1, <4>2, <4>3, <4>6
      <4>7. QED  BY <2>8, <4>2, <4>4, <4>5, <4>6
    <3>5. CoreNoEquivocation'  BY <1>1 DEF PassedInv, CoreNoEquivocation
    <3>6. QED  BY <3>1, <3>2, <3>3, <3>4, <3>5 DEF PassedInv
  <2>11. QED  BY <2>5, <2>10
<1>5. QED  BY <1>1, <1>3, <1>4

\* A put moves a thread on with its message, or frees it.
LEMMA PutInv ==
  ASSUME ConcurrentInv, NEW t \in Threads, Put(t)
  PROVE  ConcurrentInv'
<1> USE DEF ConcurrentInv
<1>1. PICK m \in worker[t].msgs :
        /\ worker[t].at = "put" /\ acked' = acked
        /\ \/ /\ worker' = [worker EXCEPT ![t].at = "remember"]
              /\ router' = [router EXCEPT !.queue = Append(@, m)]
           \/ worker' = [worker EXCEPT ![t] = Idle] /\ router' = router
  BY DEF Put
<1>2. CASE worker' = [worker EXCEPT ![t] = Idle] /\ router' = router
  <2>1. /\ Idle \in [at : {"idle", "check", "feed"}, msgs : SUBSET Messages]
        /\ \A x, y \in Idle.msgs : x = y
    BY DEF Idle
  <2>2. QED  BY <1>1, <1>2, <2>1, NotFed
<1>3. CASE /\ worker' = [worker EXCEPT ![t].at = "remember"]
           /\ router' = [router EXCEPT !.queue = Append(@, m)]
  <2>1. /\ \A u \in Threads : worker'[u].msgs = worker[u].msgs
        /\ \A u \in Threads : \A x : Holds(u, x)' <=> Holds(u, x)
    BY <1>1, <1>3 DEF Holds, ThreadsInv
  <2>2. /\ router'.cursor = router.cursor /\ router'.seen = router.seen
        /\ router' = [cursor |-> router'.cursor, seen |-> router'.seen,
                      byCorr |-> router'.byCorr, queue |-> router'.queue]
    BY <1>3 DEF ThreadsInv
  <2>3. ThreadsInv'
    <3>1. worker' \in [Threads -> [at : {"idle", "check", "feed", "put", "remember"},
                                   msgs : SUBSET Messages]]
      BY <1>3 DEF ThreadsInv
    <3>2. (\A u \in Threads : \A x, y \in worker[u].msgs : x = y)'  BY <2>1 DEF ThreadsInv
    <3>3. QED  BY <1>1, <2>2, <3>1, <3>2 DEF ThreadsInv
  <2>4. \A x : Past(x)' = Past(x)  BY <2>2 DEF Past
  <2>5. PassedInv'
    <3>1. (\A x \in acked : IsCore(x) => Past(x))'  BY <1>1, <2>4 DEF PassedInv
    <3>2. (\A u \in Threads : \A x \in worker[u].msgs : Holds(u, x) /\ IsCore(x) => Past(x))'
      BY <2>1, <2>4 DEF PassedInv
    <3>3. (\A u \in Threads : \A y \in worker[u].msgs : \A x \in acked :
             Holds(u, y) /\ IsCore(y) => LogicalKey(x) # LogicalKey(y))'
      BY <1>1, <2>1 DEF PassedInv
    <3>4. (\A u, v \in Threads : \A y \in worker[u].msgs : \A x \in worker[v].msgs :
             Holds(u, y) /\ Holds(v, x) /\ IsCore(y) /\ LogicalKey(x) = LogicalKey(y)
               => u = v)'
      BY <2>1 DEF PassedInv
    <3>5. CoreNoEquivocation'  BY <1>1 DEF PassedInv, CoreNoEquivocation
    <3>6. QED  BY <3>1, <3>2, <3>3, <3>4, <3>5 DEF PassedInv
  <2>6. QED  BY <2>3, <2>5
<1>4. QED  BY <1>1, <1>2, <1>3

\* The answer turns the message in hand into an acknowledged one.
LEMMA RememberInv ==
  ASSUME ConcurrentInv, NEW t \in Threads, Remember(t)
  PROVE  ConcurrentInv'
<1> USE DEF ConcurrentInv
<1>1. PICK m \in worker[t].msgs :
        /\ worker[t].at = "remember"
        /\ router' = [router EXCEPT
             !.seen   = {x \in router.seen : LogicalKey(x) # LogicalKey(m)} \union {m},
             !.byCorr = IF m.corr = NoCorrelation THEN router.byCorr
                        ELSE {x \in router.byCorr : x.corr # m.corr} \union {m}]
        /\ worker' = [worker EXCEPT ![t] = Idle]
        /\ acked' = acked \union {m}
  BY DEF Remember
<1>2. m \in Messages /\ worker[t].msgs = {m} /\ Holds(t, m)
  BY <1>1 DEF ThreadsInv, Holds
<1>3. /\ router'.cursor = router.cursor
      /\ router'.seen \subseteq router.seen \union {m}
      /\ router' = [cursor |-> router'.cursor, seen |-> router'.seen,
                    byCorr |-> router'.byCorr, queue |-> router'.queue]
  BY <1>1 DEF ThreadsInv
<1>4. /\ \A u \in Threads : \A x :
           Holds(u, x)' => u # t /\ Holds(u, x) /\ x \in worker[u].msgs
      /\ \A u \in Threads : \A x : x \in worker'[u].msgs => x \in worker[u].msgs
  BY <1>1 DEF Holds, ThreadsInv, Idle
<1>5. ThreadsInv'
  <2>1. worker' \in [Threads -> [at : {"idle", "check", "feed", "put", "remember"},
                                 msgs : SUBSET Messages]]
    BY <1>1 DEF ThreadsInv, Idle
  <2>2. QED  BY <1>1, <1>2, <1>3, <1>4, <2>1 DEF ThreadsInv
<1>6. \A x : Past(x)' = Past(x)  BY <1>3 DEF Past
<1>7. PassedInv'
  <2>1. (\A x \in acked : IsCore(x) => Past(x))'
    BY <1>1, <1>2, <1>6 DEF PassedInv
  <2>2. (\A u \in Threads : \A x \in worker[u].msgs : Holds(u, x) /\ IsCore(x) => Past(x))'
    BY <1>4, <1>6 DEF PassedInv
  <2>3. (\A u \in Threads : \A y \in worker[u].msgs : \A x \in acked :
           Holds(u, y) /\ IsCore(y) => LogicalKey(x) # LogicalKey(y))'
    BY <1>1, <1>2, <1>4 DEF PassedInv
  <2>4. (\A u, v \in Threads : \A y \in worker[u].msgs : \A x \in worker[v].msgs :
           Holds(u, y) /\ Holds(v, x) /\ IsCore(y) /\ LogicalKey(x) = LogicalKey(y)
             => u = v)'
    BY <1>4 DEF PassedInv
  <2>5. CoreNoEquivocation'
    <3> SUFFICES ASSUME NEW x \in acked \union {m}, NEW y \in acked \union {m},
                        IsCore(x), LogicalKey(x) = LogicalKey(y)
                 PROVE  x = y
      BY <1>1 DEF CoreNoEquivocation
    <3>1. IsCore(y)  BY DEF IsCore, LogicalKey
    <3>2. QED  BY <1>2, <3>1 DEF PassedInv, CoreNoEquivocation
  <2>6. QED  BY <2>1, <2>2, <2>3, <2>4, <2>5 DEF PassedInv
<1>8. QED  BY <1>5, <1>7

-----------------------------------------------------------------------------
\* The inductive invariant of the unlocked handler: each core key passes the
\* sequence tracker once, whatever the worker threads and the gateway do.
THEOREM ConcurrentInvariant == Spec => []ConcurrentInv
<1>1. ConcurrentInv /\ [Next]_vars => ConcurrentInv'
  <2> SUFFICES ASSUME ConcurrentInv, [Next]_vars PROVE ConcurrentInv'  OBVIOUS
  <2>1. CASE UNCHANGED vars
    <3>1. /\ UNCHANGED <<worker, acked>> /\ router' = router  BY <2>1 DEF vars
    <3>2. QED  BY <3>1, QueueOnly DEF ConcurrentInv, ThreadsInv
  <2>2. CASE Gateway  BY <2>2, GatewayFrame, QueueOnly DEF ConcurrentInv
  <2>3. ASSUME NEW t \in Threads, NEW m \in Inputs, Receive(t, m) PROVE ConcurrentInv'
    BY <2>3, ReceiveInv
  <2>4. ASSUME NEW t \in Threads, Work(t) PROVE ConcurrentInv'
    BY <2>4, CheckInv, FeedInv, PutInv, RememberInv DEF Work
  <2>5. QED  BY <2>1, <2>2, <2>3, <2>4 DEF Next
<1>2. QED  BY <1>1, ConcurrentInit, PTL DEF Spec

\* Two payloads of one commitment or reveal are never both acknowledged, though the
\* handler runs unlocked on any number of worker threads.
THEOREM ThreadsNoEquivocation == Spec => []CoreNoEquivocation
<1>1. ConcurrentInv => CoreNoEquivocation  BY DEF ConcurrentInv, PassedInv
<1>2. QED  BY <1>1, ConcurrentInvariant, PTL

-----------------------------------------------------------------------------
(* Nothing acknowledged is lost.                                           *)

\* Where an accepted message may be.
Kept(m) ==
  \/ InSeq(m, router.queue) \/ InSeq(m, buffer)
  \/ m \in match \union consumed
  \/ m.type = "commitment" /\ \E x \in consumed : IsRevealOf(x, m.sub, m.step)

\* What the poll has taken out is what it looks for, and it prunes the commitment
\* of a reveal it has handed over.
PollInv ==
  /\ router.queue \in Seq(Messages) /\ buffer \in Seq(Messages)
  /\ \A m \in match : Matches(m)
  /\ target = "commitment" => \E x \in consumed : IsRevealOf(x, Game, want)

\* A message is kept from the moment it is queued, before it is acknowledged.
KeptInv ==
  poll # "raised" =>
    /\ \A m \in acked : Kept(m)
    /\ \A t \in Threads : worker[t].at = "remember" => \A m \in worker[t].msgs : Kept(m)

\* Membership of a sequence that grows at its end or loses its head.
LEMMA InSeqAppend ==
  ASSUME NEW S, NEW q \in Seq(S), NEW x \in S
  PROVE  /\ Append(q, x) \in Seq(S)
         /\ \A m : InSeq(m, Append(q, x)) <=> InSeq(m, q) \/ m = x
  BY DEF InSeq

LEMMA InSeqTail ==
  ASSUME NEW S, NEW q \in Seq(S), q # <<>>
  PROVE  /\ Head(q) \in S /\ Tail(q) \in Seq(S)
         /\ \A m : InSeq(m, q) => m = Head(q) \/ InSeq(m, Tail(q))
<1>1. Head(q) \in S /\ Tail(q) \in Seq(S)  OBVIOUS
<1>2. ASSUME NEW i \in 1 .. Len(q), i # 1
      PROVE  i - 1 \in 1 .. Len(Tail(q)) /\ Tail(q)[i - 1] = q[i]
  BY <1>2
<1>3. q[1] = Head(q)  OBVIOUS
<1>4. QED  BY <1>1, <1>2, <1>3 DEF InSeq

\* A poll that does not raise loses nothing, and stays a poll for what it wants.
LEMMA GatewayKeeps ==
  ASSUME ThreadsInv, PollInv, Gateway
  PROVE  PollInv' /\ (poll' # "raised" => \A m : Kept(m) => Kept(m)')
<1> USE DEF PollInv
<1>1. CASE StartPoll \/ DrainEnds \/ PollAgain
  BY <1>1 DEF StartPoll, DrainEnds, PollAgain, Kept, Matches
<1>2. CASE DrainOne
  <2>1. /\ router'.queue = Tail(router.queue) /\ router.queue # <<>>
        /\ buffer' = Append(buffer, Head(router.queue))
        /\ UNCHANGED <<match, target, want, consumed>>
    BY <1>2 DEF DrainOne, ThreadsInv
  <2>2. /\ Head(router.queue) \in Messages /\ router'.queue \in Seq(Messages)
        /\ \A m : InSeq(m, router.queue) =>
                   m = Head(router.queue) \/ InSeq(m, router'.queue)
    BY <2>1, InSeqTail
  <2>3. /\ buffer' \in Seq(Messages)
        /\ \A m : InSeq(m, buffer') <=> InSeq(m, buffer) \/ m = Head(router.queue)
    BY <2>1, <2>2, InSeqAppend
  <2>4. PollInv'  BY <2>1, <2>2, <2>3 DEF Matches
  <2>5. QED  BY <2>1, <2>2, <2>3, <2>4 DEF Kept
<1>3. CASE TakeMatch
  <2>1. /\ buffer' = Tail(buffer) /\ buffer # <<>>
        /\ match = {} /\ match' = {Head(buffer)} /\ Matches(Head(buffer))
        /\ UNCHANGED <<router, target, want, consumed>>
    BY <1>3 DEF TakeMatch
  <2>2. /\ buffer' \in Seq(Messages)
        /\ \A m : InSeq(m, buffer) => m = Head(buffer) \/ InSeq(m, buffer')
    BY <2>1, InSeqTail
  <2>3. PollInv'  BY <2>1, <2>2 DEF Matches
  <2>4. QED  BY <2>1, <2>2, <2>3 DEF Kept
<1>4. CASE PutBack
  <2>1. CASE Len(router.queue) < Capacity
    <3>1. /\ router'.queue = Append(router.queue, Head(buffer)) /\ buffer # <<>>
          /\ buffer' = Tail(buffer) /\ UNCHANGED <<match, target, want, consumed>>
      BY <1>4, <2>1 DEF PutBack, ThreadsInv
    <3>2. /\ Head(buffer) \in Messages /\ buffer' \in Seq(Messages)
          /\ \A m : InSeq(m, buffer) => m = Head(buffer) \/ InSeq(m, buffer')
      BY <3>1, InSeqTail
    <3>3. /\ router'.queue \in Seq(Messages)
          /\ \A m : InSeq(m, router'.queue) <=> InSeq(m, router.queue) \/ m = Head(buffer)
      BY <3>1, <3>2, InSeqAppend
    <3>4. PollInv'  BY <3>1, <3>2, <3>3 DEF Matches
    <3>5. QED  BY <3>1, <3>2, <3>3, <3>4 DEF Kept
  <2>2. CASE ~(Len(router.queue) < Capacity)  BY <1>4, <2>2 DEF PutBack
  <2>3. QED  BY <2>1, <2>2
<1>5. CASE FoundReveal
  <2>1. /\ target = "reveal" /\ match # {} /\ consumed' = consumed \union match
        /\ match' = {} /\ UNCHANGED <<router, buffer, want>>
    BY <1>5 DEF FoundReveal
  <2>2. \E x \in consumed' : IsRevealOf(x, Game, want)'  BY <2>1 DEF Matches, IsRevealOf
  <2>3. PollInv'  BY <2>1, <2>2 DEF IsRevealOf
  <2>4. QED  BY <2>1, <2>3 DEF Kept
<1>6. CASE Pruned
  <2>1. /\ target = "commitment" /\ match' = {} /\ target' = "reveal"
        /\ UNCHANGED <<router, buffer, consumed>>
    BY <1>6 DEF Pruned
  <2>2. \A m \in match : /\ m.type = "commitment"
                         /\ \E x \in consumed : IsRevealOf(x, m.sub, m.step)
    BY <2>1 DEF Matches, IsCommitmentOf
  <2>3. QED  BY <2>1, <2>2 DEF Kept
<1>7. QED  BY <1>1, <1>2, <1>3, <1>4, <1>5, <1>6 DEF Gateway

\* What the worker threads do to the queue and the poll: they append at most.
LEMMA WorkKeeps ==
  ASSUME ThreadsInv, PollInv, NEW t \in Threads,
         Work(t) \/ \E m \in Inputs : Receive(t, m)
  PROVE  /\ PollInv' /\ poll' = poll
         /\ \A m : Kept(m) => Kept(m)'
<1>1. UNCHANGED <<poll, buffer, match, target, want, consumed>>
  BY DEF Work, Check, Feed, Put, Remember, Receive, pollVars
<1>2. \/ router'.queue = router.queue
      \/ \E x \in Messages : router'.queue = Append(router.queue, x)
  <2>1. CASE Check(t) \/ \E m \in Inputs : Receive(t, m)  BY <2>1 DEF Check, Receive
  <2>2. CASE Feed(t)  BY <2>2 DEF Feed, ThreadsInv
  <2>3. CASE Put(t)  BY <2>3 DEF Put, ThreadsInv
  <2>4. CASE Remember(t)  BY <2>4 DEF Remember, ThreadsInv
  <2>5. QED  BY <2>1, <2>2, <2>3, <2>4 DEF Work
<1>3. router'.queue \in Seq(Messages) /\ \A m : InSeq(m, router.queue) => InSeq(m, router'.queue)
  <2>1. router.queue \in Seq(Messages)  BY DEF PollInv
  <2>2. ASSUME NEW x \in Messages
        PROVE  /\ Append(router.queue, x) \in Seq(Messages)
               /\ \A m : InSeq(m, router.queue) => InSeq(m, Append(router.queue, x))
    BY <2>1, InSeqAppend
  <2>3. QED  BY <1>2, <2>1, <2>2
<1>4. PollInv'  BY <1>1, <1>3 DEF PollInv, Matches
<1>5. QED  BY <1>1, <1>3, <1>4 DEF Kept

\* A worker thread acknowledges what is on record or what it has queued.
LEMMA WorkKeptInv ==
  ASSUME ThreadsInv, PollInv, KeptInv, NEW t \in Threads,
         Work(t) \/ \E m \in Inputs : Receive(t, m)
  PROVE  KeptInv'
<1> SUFFICES ASSUME poll' # "raised"
             PROVE  /\ \A m \in acked' : Kept(m)'
                    /\ \A u \in Threads : worker'[u].at = "remember" =>
                         \A m \in worker'[u].msgs : Kept(m)'
  BY DEF KeptInv
<1>1. poll' = poll /\ \A m : Kept(m) => Kept(m)'  BY WorkKeeps
<1>2. /\ \A m \in acked : Kept(m)'
      /\ \A u \in Threads : worker[u].at = "remember" => \A m \in worker[u].msgs : Kept(m)'
  BY <1>1 DEF KeptInv
<1>3. \A u \in Threads : u # t => worker'[u] = worker[u]
  <2>1. CASE Check(t)  BY <2>1 DEF ThreadsInv, Check
  <2>2. CASE Feed(t)  BY <2>2 DEF ThreadsInv, Feed
  <2>3. CASE Put(t)  BY <2>3 DEF ThreadsInv, Put
  <2>4. CASE Remember(t)  BY <2>4 DEF ThreadsInv, Remember
  <2>5. CASE \E m \in Inputs : Receive(t, m)  BY <2>5 DEF ThreadsInv, Receive
  <2>6. QED  BY <2>1, <2>2, <2>3, <2>4, <2>5 DEF Work
<1>4. CASE Check(t) \/ \E m \in Inputs : Receive(t, m)
  <2>1. CASE Check(t)
    <3>1. acked' = acked  BY <2>1 DEF Check, ThreadsInv, IsIdempotentReplay
    <3>2. worker'[t].at # "remember"  BY <2>1 DEF Check, ThreadsInv, Idle
    <3>3. QED  BY <1>2, <1>3, <3>1, <3>2
  <2>2. CASE \E m \in Inputs : Receive(t, m)
    <3>1. acked' = acked  BY <2>2 DEF Receive
    <3>2. worker'[t].at # "remember"  BY <2>2 DEF Receive, ThreadsInv
    <3>3. QED  BY <1>2, <1>3, <3>1, <3>2
  <2>3. QED  BY <1>4, <2>1, <2>2
<1>5. CASE Feed(t)
  <2>1. acked' = acked /\ worker'[t].at # "remember"  BY <1>5 DEF Feed, ThreadsInv, Idle
  <2>2. QED  BY <1>2, <1>3, <2>1
<1>6. CASE Put(t)
  <2>1. acked' = acked  BY <1>6 DEF Put
  <2>2. ASSUME worker'[t].at = "remember", NEW m \in worker'[t].msgs PROVE Kept(m)'
    <3>1. m \in worker[t].msgs /\ router'.queue = Append(router.queue, m)
      BY <1>6, <2>2 DEF Put, ThreadsInv, Idle
    <3>2. m \in Messages  BY <3>1 DEF ThreadsInv
    <3>3. InSeq(m, router'.queue)  BY <3>1, <3>2, InSeqAppend DEF PollInv
    <3>4. QED  BY <3>3 DEF Kept
  <2>3. QED  BY <1>2, <1>3, <2>1, <2>2
<1>7. CASE Remember(t)
  <2>1. \E m \in worker[t].msgs : worker[t].at = "remember" /\ acked' = acked \union {m}
    BY <1>7 DEF Remember
  <2>2. worker'[t].at # "remember"  BY <1>7 DEF Remember, ThreadsInv, Idle
  <2>3. QED  BY <1>2, <1>3, <2>1, <2>2
<1>8. QED  BY <1>4, <1>5, <1>6, <1>7 DEF Work

\* Nothing that was acknowledged disappears between the worker threads and the
\* poll that drains and refills the queue beside them, unless the refill raises.
THEOREM ThreadsAckedNotLost == Spec => []AckedNotLost
<1>1. Init => PollInv /\ KeptInv
  BY DEF Init, EmptyRouter, PollInv, KeptInv, Idle
<1>2. ThreadsInv /\ PollInv /\ KeptInv /\ [Next]_vars => (PollInv /\ KeptInv)'
  <2> SUFFICES ASSUME ThreadsInv, PollInv, KeptInv, [Next]_vars
               PROVE  PollInv' /\ KeptInv'
    OBVIOUS
  <2>1. CASE UNCHANGED vars  BY <2>1 DEF vars, PollInv, KeptInv, Kept, Matches
  <2>2. CASE Gateway
    <3>1. poll # "raised"
      BY <2>2 DEF Gateway, StartPoll, DrainOne, DrainEnds, TakeMatch, PutBack, PollAgain,
                  FoundReveal, Pruned
    <3>2. UNCHANGED <<worker, acked>>  BY <2>2, GatewayFrame
    <3>3. PollInv' /\ (poll' # "raised" => \A m : Kept(m) => Kept(m)')
      BY <2>2, GatewayKeeps
    <3>4. QED  BY <3>1, <3>2, <3>3 DEF KeptInv
  <2>3. ASSUME NEW t \in Threads, Work(t) \/ \E m \in Inputs : Receive(t, m)
        PROVE  PollInv' /\ KeptInv'
    BY <2>3, WorkKeeps, WorkKeptInv
  <2>4. QED  BY <2>1, <2>2, <2>3 DEF Next
<1>3. ConcurrentInv => ThreadsInv  BY DEF ConcurrentInv
<1>4. KeptInv => AckedNotLost  BY DEF KeptInv, Kept, AckedNotLost
<1>5. QED  BY <1>1, <1>2, <1>3, <1>4, ConcurrentInvariant, PTL DEF Spec
=============================================================================
