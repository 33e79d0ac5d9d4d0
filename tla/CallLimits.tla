----------------------------- MODULE CallLimits -----------------------------
(***************************************************************************)
(* A metered call from one public peer to the other: the caller's          *)
(* OutboundPacer (rolling window, then semaphore), the retry loop of       *)
(* mcp_client._call, and the receiver's IncomingGatekeeper (queue depth,   *)
(* rolling window, semaphore) around the tool body.                        *)
(*                                                                         *)
(* Time is a Tick; a rolling window is a sequence of ages, and an age past *)
(* the window stays at Window + 1, where the code prunes it.  The network  *)
(* may delay a request, lose it, or lose its answer; a request whose       *)
(* caller has gone may still arrive, run, or be cancelled by the server.   *)
(***************************************************************************)
EXTENDS Integers, Sequences, FiniteSets, FiniteSetsExt

CONSTANTS
  Callers,        \* coroutines of the calling peer that share its pacer
  Calls,          \* calls each of them makes
  Handshake,      \* whether its first call is push_negotiate, which has no pacer
  Rate,           \* requests_per_minute
  Window,         \* the 60 seconds of both windows, in ticks
  Concurrent,     \* concurrent_requests, of the pacer and of the gatekeeper
  QueueDepth,     \* queue_depth
  MaxRetries,     \* DEFAULT_MAX_RETRIES
  Backoffs,       \* ticks slept before a retry: the default, or the server's hint
  MaxTransit,     \* ticks a request may spend on the network
  Timeout         \* ticks the caller waits for an answer

ASSUME LimitsAssumption ==
  /\ {Calls, Rate, Window, Concurrent, QueueDepth} \subseteq Nat \ {0}
  /\ {MaxRetries, MaxTransit, Timeout} \subseteq Nat
  /\ Backoffs \subseteq Nat \ {0} /\ Backoffs # {}
  /\ Handshake \in BOOLEAN
  /\ IsFiniteSet(Callers)

VARIABLES
  paced,      \* OutboundPacer._recent, as ages
  slots,      \* what is left of OutboundPacer._semaphore
  recent,     \* IncomingGatekeeper._recent: the age of each admission, and
              \* (history) how long after its pacing the request was admitted
  depth,      \* IncomingGatekeeper._queue_depth
  room,       \* what is left of IncomingGatekeeper._semaphore
  caller,     \* where each caller stands in its current call
  request,    \* where the request of each call stands
  flight,     \* ticks each request has been on the network
  lag,        \* history: ticks from the pacing of each call to its arrival
  runs        \* history: how often the tool body ran for each call

vars == <<paced, slots, recent, depth, room, caller, request, flight, lag, runs>>
serverVars == <<recent, depth, room>>

Requests == Callers \X (1 .. Calls)
InCall == {"rate", "slot", "sent", "backoff"}

Current(c) == <<c, caller[c].made>>
\* push_negotiate calls the client directly, before the pacer exists.
IsPaced(r) == ~(Handshake /\ r[2] = 1)
\* The caller is still waiting for the answer to this request.
Awaited(r) == caller[r[1]].at = "sent" /\ r = Current(r[1])

Older(age) == IF age > Window THEN age ELSE age + 1

Init ==
  /\ paced = <<>>
  /\ slots = Concurrent
  /\ recent = <<>>
  /\ depth = 0
  /\ room = Concurrent
  /\ caller = [c \in Callers |->
                 [at |-> "idle", made |-> 0, tries |-> 0, timer |-> 0,
                  sleep |-> CHOOSE b \in Backoffs : TRUE, outcome |-> "none"]]
  /\ request = [r \in Requests |-> "none"]
  /\ flight = [r \in Requests |-> 0]
  /\ lag = [r \in Requests |-> 0]
  /\ runs = [r \in Requests |-> 0]

-----------------------------------------------------------------------------
(* The calling peer.                                                       *)

\* Entries older than the window leave both deques from the front, up to the
\* first fresh one.
FromFirst(fresh, q) == IF fresh = {} THEN <<>> ELSE SubSeq(q, Min(fresh), Len(q))

Pruned(ages) == FromFirst({i \in DOMAIN ages : ages[i] <= Window}, ages)

\* The call: negotiate goes straight out, the others ask the pacer first.
Begin(c) ==
  LET n == caller[c].made + 1
      asks == IsPaced(<<c, n>>)
  IN /\ caller[c].at = "idle" /\ n <= Calls
     /\ caller' = [caller EXCEPT ![c] =
                     [@ EXCEPT !.at = IF asks THEN "rate" ELSE "sent", !.made = n,
                               !.tries = 0, !.timer = 0, !.outcome = "none"]]
     /\ request' = [request EXCEPT ![<<c, n>>] = IF asks THEN "none" ELSE "transit"]
     /\ UNCHANGED <<paced, slots, serverVars, flight, lag, runs>>

\* Mutant of AwaitRateSlot: one call more than the rate fits in a window.
AwaitRateSlotOffByOne(c) ==
  /\ caller[c].at = "rate"
  /\ Len(Pruned(paced)) <= Rate
  /\ paced' = Append(Pruned(paced), 0)
  /\ caller' = [caller EXCEPT ![c].at = "slot"]
  /\ UNCHANGED <<slots, serverVars, request, flight, lag, runs>>

\* Mutant of AwaitRateSlot: old entries are never pruned.
AwaitRateSlotNoPrune(c) ==
  /\ caller[c].at = "rate"
  /\ Len(paced) < Rate
  /\ paced' = Append(paced, 0)
  /\ caller' = [caller EXCEPT ![c].at = "slot"]
  /\ UNCHANGED <<slots, serverVars, request, flight, lag, runs>>

\* _await_rate_slot sleeps until the window has room and takes its place in it.
AwaitRateSlot(c) ==
  /\ caller[c].at = "rate"
  /\ Len(Pruned(paced)) < Rate
  /\ paced' = Append(Pruned(paced), 0)
  /\ caller' = [caller EXCEPT ![c].at = "slot"]
  /\ UNCHANGED <<slots, serverVars, request, flight, lag, runs>>

\* The semaphore is taken second, and held for the whole of _call.
TakeSlot(c) ==
  /\ caller[c].at = "slot" /\ slots > 0
  /\ slots' = slots - 1
  /\ caller' = [caller EXCEPT ![c].at = "sent", ![c].timer = 0]
  /\ request' = [request EXCEPT ![Current(c)] = "transit"]
  /\ UNCHANGED <<paced, serverVars, flight, lag, runs>>

HoldsSlot(c) == caller[c].at \in {"sent", "backoff"} /\ IsPaced(Current(c))

\* _call returns or raises, and the pacer's context manager gives the slot back.
Return(c, outcome) ==
  /\ caller' = [caller EXCEPT ![c] =
                  [@ EXCEPT !.at = IF outcome = "cancelled" THEN "stopped" ELSE "idle",
                            !.timer = 0, !.outcome = outcome]]
  /\ slots' = IF HoldsSlot(c) THEN slots + 1 ELSE slots

\* The answer arrives: the tool's result, or an error that is not an overload.
Answered(c) ==
  /\ caller[c].at = "sent" /\ request[Current(c)] = "answered"
  /\ \E outcome \in {"ok", "refused"} : Return(c, outcome)
  /\ UNCHANGED <<paced, serverVars, request, flight, lag, runs>>

\* Mutant of Unreachable: a timeout is retried like an overload.
UnreachableRetried(c) ==
  /\ caller[c].at = "sent"
  /\ caller[c].tries < MaxRetries
  /\ caller' = [caller EXCEPT ![c].at = "backoff", ![c].tries = @ + 1, ![c].timer = 0]
  /\ UNCHANGED <<paced, slots, serverVars, request, flight, lag, runs>>

\* A connection failure or a timeout, whatever became of the request, is final.
Unreachable(c) ==
  /\ caller[c].at = "sent"
  /\ Return(c, "unavailable")
  /\ UNCHANGED <<paced, serverVars, request, flight, lag, runs>>

\* An overload answer is retried after a backoff, without asking the pacer
\* again, until the retries are used up.
Overloaded(c) ==
  /\ caller[c].at = "sent" /\ request[Current(c)] = "rejected"
  /\ \/ /\ caller[c].tries < MaxRetries
        /\ \E b \in Backoffs :
             caller' = [caller EXCEPT ![c] =
                          [@ EXCEPT !.at = "backoff", !.tries = caller[c].tries + 1,
                                    !.timer = 0, !.sleep = b]]
        /\ UNCHANGED slots
     \/ /\ caller[c].tries = MaxRetries
        /\ Return(c, "overloaded")
  /\ UNCHANGED <<paced, serverVars, request, flight, lag, runs>>

Retry(c) ==
  /\ caller[c].at = "backoff" /\ caller[c].timer = caller[c].sleep
  /\ caller' = [caller EXCEPT ![c].at = "sent", ![c].timer = 0]
  /\ request' = [request EXCEPT ![Current(c)] = "transit"]
  /\ UNCHANGED <<paced, slots, serverVars, flight, lag, runs>>

\* The coroutine is cancelled at an await; the place in the window stays taken.
CancelCall(c) ==
  /\ caller[c].at \in InCall
  /\ Return(c, "cancelled")
  /\ UNCHANGED <<paced, serverVars, request, flight, lag, runs>>

-----------------------------------------------------------------------------
(* The receiving peer.                                                     *)

WithinWindow(entries) ==
  FromFirst({i \in DOMAIN entries : entries[i].age <= Window}, entries)

\* IncomingGatekeeper.slot up to its semaphore: a full queue is refused before
\* the rate is looked at, and only an admitted request counts for the rate.
Arrive(r) ==
  LET full   == depth >= QueueDepth
      within == Len(WithinWindow(recent)) < Rate
  IN /\ request[r] = "transit"
     /\ recent' = IF full THEN recent
                  ELSE IF ~within THEN WithinWindow(recent)
                  ELSE Append(WithinWindow(recent),
                              [age |-> 0, lag |-> lag[r], paced |-> IsPaced(r)])
     /\ request' = [request EXCEPT ![r] = IF full \/ ~within THEN "rejected" ELSE "queued"]
     /\ depth' = IF full \/ ~within THEN depth ELSE depth + 1
     /\ flight' = [flight EXCEPT ![r] = 0]
     /\ UNCHANGED <<paced, slots, room, caller, lag, runs>>

\* The semaphore is acquired and the tool body runs.
Enter(r) ==
  /\ request[r] = "queued" /\ room > 0
  /\ room' = room - 1
  /\ request' = [request EXCEPT ![r] = "running"]
  /\ runs' = [runs EXCEPT ![r] = @ + 1]
  /\ UNCHANGED <<paced, slots, recent, depth, caller, flight, lag>>

Leave(r) ==
  /\ request[r] = "running"
  /\ room' = room + 1
  /\ depth' = depth - 1
  /\ request' = [request EXCEPT ![r] = IF Awaited(r) THEN "answered" ELSE "gone"]
  /\ UNCHANGED <<paced, slots, recent, caller, flight, lag, runs>>

\* Mutant of Disconnect: cancelled in the queue, the depth is not restored.
DisconnectLeaks(r) ==
  /\ request[r] \in {"transit", "queued", "running"} /\ ~Awaited(r)
  /\ room' = IF request[r] = "running" THEN room + 1 ELSE room
  /\ depth' = IF request[r] = "running" THEN depth - 1 ELSE depth
  /\ request' = [request EXCEPT ![r] = "gone"]
  /\ UNCHANGED <<paced, slots, recent, caller, flight, lag, runs>>

\* A request whose caller has gone is lost on its way, or cancelled in the queue
\* or in the body: the semaphore and the finally clause give back what it held.
Disconnect(r) ==
  /\ request[r] \in {"transit", "queued", "running"} /\ ~Awaited(r)
  /\ room' = IF request[r] = "running" THEN room + 1 ELSE room
  /\ depth' = IF request[r] \in {"queued", "running"} THEN depth - 1 ELSE depth
  /\ request' = [request EXCEPT ![r] = "gone"]
  /\ UNCHANGED <<paced, slots, recent, caller, flight, lag, runs>>

-----------------------------------------------------------------------------
\* The call has its place in the window and its request has not been admitted.
OnItsWay(r) ==
  \/ request[r] = "transit"
  \/ /\ r = Current(r[1]) /\ caller[r[1]].at \in {"slot", "sent", "backoff"}
     /\ request[r] \in {"none", "rejected"}

\* A unit of time.  It does not pass over a free semaphore slot that is waited
\* for, a finished backoff, an expired timeout, or the latest time of arrival.
Tick ==
  /\ \A c \in Callers :
       /\ ~(caller[c].at = "slot" /\ slots > 0)
       /\ ~(caller[c].at = "backoff" /\ caller[c].timer = caller[c].sleep)
       /\ ~(caller[c].at = "sent" /\ caller[c].timer >= Timeout)
  /\ \A r \in Requests : ~(request[r] = "transit" /\ flight[r] = MaxTransit)
  /\ paced' = [i \in DOMAIN paced |-> Older(paced[i])]
  /\ recent' = [i \in DOMAIN recent |-> [recent[i] EXCEPT !.age = Older(@)]]
  /\ caller' = [c \in Callers |->
                  [caller[c] EXCEPT !.timer = IF caller[c].at \in {"sent", "backoff"}
                                              THEN @ + 1 ELSE @]]
  /\ flight' = [r \in Requests |-> IF request[r] = "transit" THEN flight[r] + 1 ELSE 0]
  /\ lag' = [r \in Requests |-> IF OnItsWay(r) THEN lag[r] + 1 ELSE lag[r]]
  /\ UNCHANGED <<slots, depth, room, request, runs>>

CallerStep(c) ==
  Begin(c) \/ AwaitRateSlot(c) \/ TakeSlot(c) \/ Answered(c) \/ Unreachable(c)
    \/ Overloaded(c) \/ Retry(c) \/ CancelCall(c)

ServerStep(r) == Arrive(r) \/ Enter(r) \/ Leave(r) \/ Disconnect(r)

Next ==
  \/ \E c \in Callers : CallerStep(c)
  \/ \E r \in Requests : ServerStep(r)
  \/ Tick

Spec == Init /\ [][Next]_vars

\* The event loops run what is ready, the client's timeout ends a wait, a request
\* does not stay on the network for ever, and time passes.  Nobody is assumed to
\* cancel, and no request to arrive.
FairSpec ==
  /\ Spec
  /\ WF_vars(Tick)
  /\ \A c \in Callers :
       WF_vars(AwaitRateSlot(c) \/ TakeSlot(c) \/ Answered(c) \/ Unreachable(c)
                 \/ Overloaded(c) \/ Retry(c))
  /\ \A r \in Requests : WF_vars(Arrive(r) \/ Disconnect(r)) /\ WF_vars(Enter(r))
                            /\ WF_vars(Leave(r))

-----------------------------------------------------------------------------
\* The three counters of the two peers say what is really held, whatever was
\* cancelled, timed out or abandoned in between: the semaphores and the queue
\* depth equal the number of their holders, and the receiver has admitted at
\* most the agreed rate in any window.
LimitsHonest ==
  LET in(states) == Cardinality({r \in Requests : request[r] \in states})
  IN /\ slots = Concurrent - Cardinality({c \in Callers : HoldsSlot(c)})
     /\ room = Concurrent - in({"running"})
     /\ depth = in({"queued", "running"})
     /\ Len(WithinWindow(recent)) <= Rate

\* A tool body runs at most once for a call, though the call may be retried and
\* its answer lost; it has run when the caller got a result, and never for a
\* call the caller gave up as overloaded.
RunsMatchOutcome ==
  /\ \A r \in Requests : runs[r] <= 1
  /\ \A c \in Callers :
       /\ caller[c].outcome = "ok" => runs[Current(c)] = 1
       /\ caller[c].outcome = "overloaded" => runs[Current(c)] = 0

\* The receiver refuses a paced call for its rate only if another call in its
\* window was not paced, or took a different time from its pacing to its
\* admission: with even delays the pacer of the caller is enough.
RejectionExplained ==
  [][\A r \in Requests :
       request[r] = "transit" /\ request'[r] = "rejected" /\ depth < QueueDepth
         /\ IsPaced(r)
         => \E i \in DOMAIN recent' :
              ~recent'[i].paced \/ recent'[i].lag # lag[r]]_vars

\* Every call ends: no wait for the window, for a slot, for an answer or for a
\* backoff lasts for ever.
CallsEnd == \A c \in Callers : caller[c].at \in InCall ~> caller[c].at \notin InCall

\* outbound_pacer.py says that a client that paces its calls never needs the
\* receiver to reject anything: a call never ends as overloaded when every
\* earlier call of the peer was answered.
PacedGetsThrough ==
  \A c \in Callers :
    (\A n \in 1 .. caller[c].made - 1 : request[<<c, n>>] = "answered")
      => caller[c].outcome # "overloaded"
=============================================================================
