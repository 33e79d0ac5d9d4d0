-------------------------- MODULE CallLimitsProofs --------------------------
(***************************************************************************)
(* Proofs about CallLimits for every number of callers, calls and retries, *)
(* every rate, window, queue depth, transit time and timeout.              *)
(***************************************************************************)
EXTENDS CallLimits, FiniteSetTheorems, WellFoundedInduction, TLAPS

Places == {"idle", "stopped"} \union InCall
Results == {"ok", "refused", "unavailable", "overloaded", "cancelled"}

CallsTyped ==
  /\ caller \in [Callers -> [at : Places, made : 0 .. Calls, tries : Nat, timer : Nat,
                             sleep : Backoffs, outcome : Results \union {"none"}]]
  /\ request \in [Requests -> {"none", "transit", "rejected", "queued", "running",
                               "answered", "gone"}]
  /\ runs \in [Requests -> {0, 1}]

\* The tool body has run for a request that is running or answered, and for none
\* that has not been admitted.
RunsInv ==
  \A r \in Requests :
    /\ request[r] \in {"none", "transit", "rejected", "queued"} => runs[r] = 0
    /\ request[r] \in {"running", "answered"} => runs[r] = 1

\* A caller sends a request again only after a rejection, and what it reports is
\* the state of its last request.
CallerInv ==
  \A c \in Callers :
    /\ caller[c].at \in InCall => caller[c].outcome = "none" /\ caller[c].made # 0
    /\ caller[c].outcome # "none" => caller[c].made # 0
    /\ caller[c].at \in {"rate", "slot"} => request[Current(c)] = "none"
    /\ caller[c].at = "backoff" => request[Current(c)] = "rejected"
    /\ caller[c].outcome = "ok" => request[Current(c)] = "answered"
    /\ caller[c].outcome = "overloaded" => request[Current(c)] = "rejected"
    /\ \A n \in 1 .. Calls : n > caller[c].made => request[<<c, n>>] = "none"

\* The inductive invariant of the calls.
CallsInv == CallsTyped /\ RunsInv /\ CallerInv

-----------------------------------------------------------------------------
\* No call has been made.
LEMMA CallsInit == Init => CallsInv
<1> SUFFICES ASSUME Init PROVE CallsInv  OBVIOUS
<1>1. (CHOOSE b \in Backoffs : TRUE) \in Backoffs  BY LimitsAssumption
<1>2. Calls \in Nat \ {0}  BY LimitsAssumption
<1>3. CallsTyped  BY <1>1, <1>2 DEF Init, CallsTyped, Places, InCall, Results
<1>4. RunsInv  BY DEF Init, RunsInv
<1>5. CallerInv  BY <1>2 DEF Init, CallerInv, InCall, Requests
<1>6. QED  BY <1>3, <1>4, <1>5 DEF CallsInv

\* The request of a call in progress is one of the requests, and no other
\* caller's.
LEMMA CurrentRequest ==
  ASSUME CallsTyped, NEW c \in Callers, caller[c].made # 0
  PROVE  Current(c) \in Requests /\ Current(c) = <<c, caller[c].made>>
<1>1. Calls \in Nat  BY LimitsAssumption
<1>2. caller[c].made \in 1 .. Calls  BY <1>1 DEF CallsTyped
<1>3. QED  BY <1>2 DEF Current, Requests

\* The end of a call, with an outcome that its last request justifies.
LEMMA ReturnInv ==
  ASSUME CallsInv, NEW c \in Callers, NEW outcome \in Results, Return(c, outcome),
         caller[c].at \in InCall, request' = request, runs' = runs,
         outcome = "ok" => request[Current(c)] = "answered",
         outcome = "overloaded" => request[Current(c)] = "rejected"
  PROVE  CallsInv'
<1> DEFINE new == [caller[c] EXCEPT !.at = IF outcome = "cancelled" THEN "stopped" ELSE "idle",
                                    !.timer = 0, !.outcome = outcome]
<1>1. caller' = [caller EXCEPT ![c] = new]  BY DEF Return
<1>2. /\ new.made = caller[c].made /\ new.outcome = outcome /\ new.at \in {"idle", "stopped"}
      /\ new \in [at : Places, made : 0 .. Calls, tries : Nat, timer : Nat,
                  sleep : Backoffs, outcome : Results \union {"none"}]
  <2>1. PICK old \in [at : Places, made : 0 .. Calls, tries : Nat, timer : Nat,
                      sleep : Backoffs, outcome : Results \union {"none"}] : caller[c] = old
    BY DEF CallsInv, CallsTyped
  <2>2. {"idle", "stopped"} \subseteq Places  BY DEF Places
  <2>3. QED  BY <2>1, <2>2
<1> HIDE DEF new
<1>3. CallsTyped'  BY <1>1, <1>2 DEF CallsInv, CallsTyped
<1>4. RunsInv'  BY DEF CallsInv, RunsInv
<1>5. CallerInv'
  BY <1>1, <1>2 DEF CallsInv, CallsTyped, CallerInv, Current, InCall, Results
<1>6. QED  BY <1>3, <1>4, <1>5 DEF CallsInv

\* A caller that goes on inside its call, its request being sent or left as it is.
LEMMA CallerGoesOn ==
  ASSUME CallsInv, NEW c \in Callers, runs' = runs,
         NEW new \in [at : InCall, made : 0 .. Calls, tries : Nat, timer : Nat,
                      sleep : Backoffs, outcome : {"none"}],
         caller' = [caller EXCEPT ![c] = new],
         new.made = caller[c].made, caller[c].at \in InCall,
         \/ request' = request /\ new.at = "slot" /\ caller[c].at = "rate"
         \/ request' = request /\ new.at = "backoff" /\ request[Current(c)] = "rejected"
         \/ /\ request' = [request EXCEPT ![Current(c)] = "transit"] /\ new.at = "sent"
            /\ request[Current(c)] \in {"none", "rejected"}
  PROVE  CallsInv'
<1>1. caller[c].made # 0  BY DEF CallsInv, CallerInv
<1>2. Current(c) \in Requests /\ Current(c) = <<c, caller[c].made>>
  BY <1>1, CurrentRequest DEF CallsInv
<1>3. CallsTyped'
  <2>1. new \in [at : Places, made : 0 .. Calls, tries : Nat, timer : Nat,
                 sleep : Backoffs, outcome : Results \union {"none"}]
    BY DEF Places
  <2>2. request' \in [Requests -> {"none", "transit", "rejected", "queued", "running",
                                  "answered", "gone"}]
    BY <1>2 DEF CallsInv, CallsTyped
  <2>3. QED  BY <2>1, <2>2 DEF CallsInv, CallsTyped
<1>4. RunsInv'  BY <1>2 DEF CallsInv, CallsTyped, RunsInv
<1>5. CallerInv'
  <2> SUFFICES ASSUME NEW d \in Callers
               PROVE  (/\ caller[d].at \in InCall =>
                            caller[d].outcome = "none" /\ caller[d].made # 0
                       /\ caller[d].outcome # "none" => caller[d].made # 0
                       /\ caller[d].at \in {"rate", "slot"} => request[Current(d)] = "none"
                       /\ caller[d].at = "backoff" => request[Current(d)] = "rejected"
                       /\ caller[d].outcome = "ok" => request[Current(d)] = "answered"
                       /\ caller[d].outcome = "overloaded" => request[Current(d)] = "rejected"
                       /\ \A n \in 1 .. Calls :
                            n > caller[d].made => request[<<d, n>>] = "none")'
    BY DEF CallerInv
  <2>1. CASE d # c
    <3>1. caller'[d] = caller[d]  BY <2>1 DEF CallsInv, CallsTyped
    <3>2. \A n : <<d, n>> # Current(c)  BY <1>2, <2>1
    <3>3. \A n : <<d, n>> \in Requests => request'[<<d, n>>] = request[<<d, n>>]
      BY <3>2 DEF CallsInv, CallsTyped
    <3>4. \A n \in 1 .. Calls : <<d, n>> \in Requests  BY DEF Requests
    <3>5. caller[d].made # 0 => Current(d) \in Requests /\ Current(d) = <<d, caller[d].made>>
      BY CurrentRequest DEF CallsInv
    <3>6. Current(d)' = Current(d)  BY <3>1 DEF Current
    <3>7. caller[d].made # 0 => request'[Current(d)] = request[Current(d)]
      BY <3>3, <3>5
    <3>8. QED  BY <3>1, <3>3, <3>4, <3>6, <3>7 DEF CallsInv, CallerInv, InCall
  <2>2. CASE d = c
    <3>1. caller'[d] = new  BY <2>2 DEF CallsInv, CallsTyped
    <3>2. Current(d)' = Current(c)  BY <2>2, <3>1 DEF Current
    <3>3. \A n \in 1 .. Calls : n > caller[c].made => request'[<<c, n>>] = "none"
      <4>1. \A n \in 1 .. Calls : n > caller[c].made =>
              <<c, n>> \in Requests /\ <<c, n>> # Current(c)
        BY <1>2 DEF Requests, CallsInv, CallsTyped
      <4>2. QED  BY <4>1 DEF CallsInv, CallsTyped, CallerInv
    <3>4. new.at \in {"rate", "slot"} => request'[Current(c)] = "none"
      BY <1>2 DEF CallsInv, CallsTyped, CallerInv
    <3>5. new.at = "backoff" => request'[Current(c)] = "rejected"
      OBVIOUS
    <3>6. QED  BY <1>1, <2>2, <3>1, <3>2, <3>3, <3>4, <3>5
  <2>3. QED  BY <2>1, <2>2
<1>6. QED  BY <1>3, <1>4, <1>5 DEF CallsInv

\* A request that the receiver handles moves on without its caller.
LEMMA ServerHandles ==
  ASSUME CallsInv, NEW r \in Requests, caller' = caller,
         NEW new \in {"rejected", "queued", "running", "answered", "gone"},
         request' = [request EXCEPT ![r] = new],
         \/ /\ request[r] = "transit" /\ new \in {"rejected", "queued"} /\ runs' = runs
         \/ /\ request[r] = "queued" /\ new = "running"
            /\ runs' = [runs EXCEPT ![r] = @ + 1]
         \/ request[r] = "running" /\ new \in {"answered", "gone"} /\ runs' = runs
         \/ /\ request[r] \in {"transit", "queued", "running"} /\ new = "gone"
            /\ runs' = runs
  PROVE  CallsInv'
<1>1. request[r] = "queued" => runs[r] + 1 = 1  BY DEF CallsInv, RunsInv
<1>2. CallsTyped'  BY <1>1 DEF CallsInv, CallsTyped
<1>3. RunsInv'  BY <1>1 DEF CallsInv, CallsTyped, RunsInv
<1>4. \A q \in Requests : request[q] \in {"none", "rejected", "answered"} =>
        request'[q] = request[q]
  BY DEF CallsInv, CallsTyped
<1>5. \A c \in Callers : caller[c].made # 0 => Current(c) \in Requests
  BY CurrentRequest DEF CallsInv
<1>6. \A c \in Callers : \A n \in 1 .. Calls : <<c, n>> \in Requests  BY DEF Requests
<1>7. \A c \in Callers : Current(c)' = Current(c)  BY DEF Current
<1>8. CallerInv'  BY <1>4, <1>5, <1>6, <1>7 DEF CallsInv, CallerInv, InCall
<1>9. QED  BY <1>2, <1>3, <1>8 DEF CallsInv

\* What an update of some of a caller's fields leaves.
LEMMA BackoffRecord ==
  ASSUME NEW A, NEW M, NEW B, NEW O,
         NEW r \in [at : A, made : M, tries : Nat, timer : Nat, sleep : B, outcome : O],
         NEW at \in A, NEW tries \in Nat, NEW sleep \in B
  PROVE  LET new == [r EXCEPT !.at = at, !.tries = tries, !.timer = 0, !.sleep = sleep]
         IN /\ new \in [at : A, made : M, tries : Nat, timer : Nat, sleep : B, outcome : O]
            /\ new.at = at /\ new.made = r.made
  OBVIOUS

LEMMA BeginRecord ==
  ASSUME NEW A, NEW M, NEW B, NEW O,
         NEW r \in [at : A, made : M, tries : Nat, timer : Nat, sleep : B, outcome : O],
         NEW at \in A, NEW made \in M, NEW outcome \in O
  PROVE  LET new == [r EXCEPT !.at = at, !.made = made, !.tries = 0, !.timer = 0,
                              !.outcome = outcome]
         IN /\ new \in [at : A, made : M, tries : Nat, timer : Nat, sleep : B, outcome : O]
            /\ new.at = at /\ new.made = made /\ new.outcome = outcome
  OBVIOUS

\* A new call starts with a request nobody has seen.
LEMMA BeginInv ==
  ASSUME CallsInv, NEW c \in Callers, Begin(c)
  PROVE  CallsInv'
<1> DEFINE n == caller[c].made + 1
           at == IF IsPaced(<<c, n>>) THEN "rate" ELSE "sent"
           new == [caller[c] EXCEPT !.at = at, !.made = n, !.tries = 0, !.timer = 0,
                                    !.outcome = "none"]
           start == IF IsPaced(<<c, n>>) THEN "none" ELSE "transit"
<1>1. /\ n <= Calls /\ caller' = [caller EXCEPT ![c] = new] /\ runs' = runs
      /\ request' = [request EXCEPT ![<<c, n>>] = start]
  BY DEF Begin
<1>2. Calls \in Nat /\ caller[c].made \in Nat /\ n \in 1 .. Calls
  BY <1>1, LimitsAssumption DEF CallsInv, CallsTyped
<1>3. <<c, n>> \in Requests /\ request[<<c, n>>] = "none" /\ runs[<<c, n>>] = 0
  BY <1>2 DEF Requests, CallsInv, CallerInv, RunsInv
<1>4. /\ new.made = n /\ new.outcome = "none" /\ new.at \in {"rate", "sent"}
      /\ new.at = "rate" => start = "none"
      /\ start \in {"none", "transit"}
      /\ new \in [at : Places, made : 0 .. Calls, tries : Nat, timer : Nat,
                  sleep : Backoffs, outcome : Results \union {"none"}]
  <2> DEFINE M == 0 .. Calls
             O == Results \union {"none"}
  <2>1. /\ at \in {"rate", "sent"} /\ at \in Places
        /\ at = "rate" => start = "none"
        /\ start \in {"none", "transit"} /\ "none" \in O /\ n \in M
        /\ caller[c] \in [at : Places, made : M, tries : Nat, timer : Nat,
                          sleep : Backoffs, outcome : O]
    BY <1>2 DEF CallsInv, CallsTyped, Places, InCall
  <2> HIDE DEF at, n, start, M, O
  <2>2. /\ new \in [at : Places, made : M, tries : Nat, timer : Nat,
                    sleep : Backoffs, outcome : O]
        /\ new.at = at /\ new.made = n /\ new.outcome = "none"
    BY <2>1, BeginRecord
  <2> HIDE DEF new
  <2>3. QED  BY <2>1, <2>2 DEF M, O
<1> HIDE DEF new, start
<1>5. CallsTyped'  BY <1>1, <1>3, <1>4 DEF CallsInv, CallsTyped
<1>6. RunsInv'  BY <1>1, <1>3, <1>4 DEF CallsInv, CallsTyped, RunsInv
<1>7. CallerInv'
  <2> SUFFICES ASSUME NEW d \in Callers
               PROVE  (/\ caller[d].at \in InCall =>
                            caller[d].outcome = "none" /\ caller[d].made # 0
                       /\ caller[d].outcome # "none" => caller[d].made # 0
                       /\ caller[d].at \in {"rate", "slot"} => request[Current(d)] = "none"
                       /\ caller[d].at = "backoff" => request[Current(d)] = "rejected"
                       /\ caller[d].outcome = "ok" => request[Current(d)] = "answered"
                       /\ caller[d].outcome = "overloaded" => request[Current(d)] = "rejected"
                       /\ \A k \in 1 .. Calls :
                            k > caller[d].made => request[<<d, k>>] = "none")'
    BY DEF CallerInv
  <2>1. \A k \in 1 .. Calls : <<d, k>> \in Requests  BY DEF Requests
  <2>2. CASE d # c
    <3>1. caller'[d] = caller[d]  BY <1>1, <2>2 DEF CallsInv, CallsTyped
    <3>2. \A k : <<d, k>> \in Requests => request'[<<d, k>>] = request[<<d, k>>]
      BY <1>1, <2>2 DEF CallsInv, CallsTyped
    <3>3. caller[d].made # 0 => Current(d) \in Requests /\ Current(d) = <<d, caller[d].made>>
      BY CurrentRequest DEF CallsInv
    <3>4. Current(d)' = Current(d)  BY <3>1 DEF Current
    <3>5. caller[d].made # 0 => request'[Current(d)] = request[Current(d)]  BY <3>2, <3>3
    <3>6. QED  BY <2>1, <3>1, <3>2, <3>4, <3>5 DEF CallsInv, CallerInv, InCall
  <2>3. CASE d = c
    <3>1. caller'[d] = new  BY <1>1, <2>3 DEF CallsInv, CallsTyped
    <3>2. Current(d)' = <<c, n>>  BY <1>4, <2>3, <3>1 DEF Current
    <3>3. request'[<<c, n>>] = start  BY <1>1, <1>3 DEF CallsInv, CallsTyped
    <3>4. \A k \in 1 .. Calls : k > n => request'[<<c, k>>] = "none"
      <4>1. \A k \in 1 .. Calls : k > n => request[<<c, k>>] = "none" /\ <<c, k>> # <<c, n>>
        BY <1>2 DEF CallsInv, CallerInv
      <4>2. QED  BY <1>1, <2>1, <2>3, <4>1 DEF CallsInv, CallsTyped
    <3>5. QED  BY <1>2, <1>4, <2>3, <3>1, <3>2, <3>3, <3>4
  <2>4. QED  BY <2>2, <2>3
<1>8. QED  BY <1>5, <1>6, <1>7 DEF CallsInv

\* Every step of a caller keeps the invariant.
LEMMA CallerStepInv ==
  ASSUME CallsInv, NEW c \in Callers, CallerStep(c)
  PROVE  CallsInv'
<1>0. caller[c] \in [at : Places, made : 0 .. Calls, tries : Nat, timer : Nat,
                     sleep : Backoffs, outcome : Results \union {"none"}]
  BY DEF CallsInv, CallsTyped
<1>1. CASE Begin(c)  BY <1>1, BeginInv
<1>2. CASE AwaitRateSlot(c)
  <2> DEFINE new == [caller[c] EXCEPT !.at = "slot"]
  <2>1. /\ caller[c].at = "rate" /\ caller' = [caller EXCEPT ![c] = new]
        /\ request' = request /\ runs' = runs
    BY <1>2 DEF AwaitRateSlot
  <2>2. caller[c].outcome = "none"  BY <2>1 DEF CallsInv, CallerInv, InCall
  <2>3. /\ new \in [at : InCall, made : 0 .. Calls, tries : Nat, timer : Nat,
                    sleep : Backoffs, outcome : {"none"}]
        /\ new.at = "slot" /\ new.made = caller[c].made
    BY <1>0, <2>2 DEF InCall
  <2> HIDE DEF new
  <2>4. QED  BY <2>1, <2>3, CallerGoesOn DEF InCall
<1>3. CASE TakeSlot(c) \/ Retry(c)
  <2> DEFINE new == [caller[c] EXCEPT !.at = "sent", !.timer = 0]
  <2>1. /\ caller[c].at \in {"slot", "backoff"} /\ caller' = [caller EXCEPT ![c] = new]
        /\ request' = [request EXCEPT ![Current(c)] = "transit"] /\ runs' = runs
    BY <1>3 DEF TakeSlot, Retry, CallsInv, CallsTyped
  <2>2. caller[c].outcome = "none" /\ request[Current(c)] \in {"none", "rejected"}
    BY <2>1 DEF CallsInv, CallerInv, InCall
  <2>3. /\ new \in [at : InCall, made : 0 .. Calls, tries : Nat, timer : Nat,
                    sleep : Backoffs, outcome : {"none"}]
        /\ new.at = "sent" /\ new.made = caller[c].made
    BY <1>0, <2>2 DEF InCall
  <2> HIDE DEF new
  <2>4. QED  BY <2>1, <2>2, <2>3, CallerGoesOn DEF InCall
<1>4. CASE Answered(c) \/ Unreachable(c) \/ CancelCall(c)
  <2>1. request' = request /\ runs' = runs /\ caller[c].at \in InCall
    BY <1>4 DEF Answered, Unreachable, CancelCall, InCall
  <2>2. \E outcome \in Results :
          /\ Return(c, outcome) /\ outcome # "overloaded"
          /\ outcome = "ok" => request[Current(c)] = "answered"
    BY <1>4 DEF Answered, Unreachable, CancelCall, Results
  <2>3. QED  BY <2>1, <2>2, ReturnInv
<1>5. CASE Overloaded(c)
  <2>1. /\ caller[c].at = "sent" /\ request[Current(c)] = "rejected"
        /\ request' = request /\ runs' = runs
    BY <1>5 DEF Overloaded
  <2>2. CASE Return(c, "overloaded")  BY <2>1, <2>2, ReturnInv DEF InCall, Results
  <2>3. ASSUME NEW b \in Backoffs,
               caller' = [caller EXCEPT ![c] =
                            [caller[c] EXCEPT !.at = "backoff", !.tries = caller[c].tries + 1,
                                              !.timer = 0, !.sleep = b]]
        PROVE  CallsInv'
    <3> DEFINE new == [caller[c] EXCEPT !.at = "backoff", !.tries = caller[c].tries + 1,
                                        !.timer = 0, !.sleep = b]
    <3>1. caller[c].outcome = "none"  BY <2>1 DEF CallsInv, CallerInv, InCall
    <3>2. /\ caller[c] \in [at : InCall, made : 0 .. Calls, tries : Nat, timer : Nat,
                            sleep : Backoffs, outcome : {"none"}]
          /\ "backoff" \in InCall /\ caller[c].tries + 1 \in Nat
      BY <1>0, <2>1, <3>1 DEF InCall
    <3>3. /\ new \in [at : InCall, made : 0 .. Calls, tries : Nat, timer : Nat,
                      sleep : Backoffs, outcome : {"none"}]
          /\ new.at = "backoff" /\ new.made = caller[c].made
      BY <2>3, <3>2, BackoffRecord
    <3>4. caller' = [caller EXCEPT ![c] = new]  BY <2>3
    <3> HIDE DEF new
    <3>5. QED  BY <2>1, <3>3, <3>4, CallerGoesOn DEF InCall
  <2>4. QED  BY <1>5, <2>2, <2>3 DEF Overloaded
<1>6. QED  BY <1>1, <1>2, <1>3, <1>4, <1>5 DEF CallerStep

\* Every step of the receiver keeps the invariant.
LEMMA ServerStepInv ==
  ASSUME CallsInv, NEW r \in Requests, ServerStep(r)
  PROVE  CallsInv'
<1>1. CASE Arrive(r)  BY <1>1, ServerHandles DEF Arrive
<1>2. CASE Enter(r)  BY <1>2, ServerHandles DEF Enter
<1>3. CASE Leave(r)  BY <1>3, ServerHandles DEF Leave
<1>4. CASE Disconnect(r)  BY <1>4, ServerHandles DEF Disconnect
<1>5. QED  BY <1>1, <1>2, <1>3, <1>4 DEF ServerStep

\* The passing of time keeps the invariant.
LEMMA TickInv ==
  ASSUME CallsInv, Tick
  PROVE  CallsInv'
<1>1. /\ request' = request /\ runs' = runs
      /\ caller' = [c \in Callers |->
                      [caller[c] EXCEPT !.timer = IF caller[c].at \in {"sent", "backoff"}
                                                  THEN @ + 1 ELSE @]]
  BY DEF Tick
<1>2. CallsTyped'
  <2>1. \A c \in Callers :
          [caller[c] EXCEPT !.timer = IF caller[c].at \in {"sent", "backoff"} THEN @ + 1 ELSE @]
            \in [at : Places, made : 0 .. Calls, tries : Nat, timer : Nat,
                 sleep : Backoffs, outcome : Results \union {"none"}]
    BY DEF CallsInv, CallsTyped
  <2>2. QED  BY <1>1, <2>1 DEF CallsInv, CallsTyped
<1>3. \A c \in Callers :
        /\ caller'[c].at = caller[c].at /\ caller'[c].made = caller[c].made
        /\ caller'[c].outcome = caller[c].outcome
        /\ Current(c)' = Current(c)
  BY <1>1 DEF CallsInv, CallsTyped, Current
<1>4. RunsInv'  BY <1>1 DEF CallsInv, RunsInv
<1>5. CallerInv'  BY <1>1, <1>3 DEF CallsInv, CallerInv
<1>6. QED  BY <1>2, <1>4, <1>5 DEF CallsInv

-----------------------------------------------------------------------------
\* The inductive invariant of _call and the gatekeeper's slot: a request is sent
\* again only after it was rejected, and a rejected request has not run.
THEOREM CallsInvariant == Spec => []CallsInv
<1>1. CallsInv /\ [Next]_vars => CallsInv'
  <2> SUFFICES ASSUME CallsInv, [Next]_vars PROVE CallsInv'  OBVIOUS
  <2>1. CASE Next  BY <2>1, CallerStepInv, ServerStepInv, TickInv DEF Next
  <2>2. CASE UNCHANGED vars
    BY <2>2 DEF vars, CallsInv, CallsTyped, RunsInv, CallerInv, Current
  <2>3. QED  BY <2>1, <2>2
<1>2. QED  BY <1>1, CallsInit, PTL DEF Spec

\* The body of a tool runs at most once for a call, and as the caller is told,
\* however often the call was retried and whatever was lost.
THEOREM CallsRunAtMostOnce == Spec => []RunsMatchOutcome
<1>1. CallsInv => RunsMatchOutcome
  <2> SUFFICES ASSUME CallsInv PROVE RunsMatchOutcome  OBVIOUS
  <2>1. \A r \in Requests : runs[r] <= 1  BY DEF CallsInv, CallsTyped
  <2>2. \A c \in Callers : caller[c].outcome # "none" => Current(c) \in Requests
    BY CurrentRequest DEF CallsInv, CallerInv
  <2>3. QED  BY <2>1, <2>2 DEF RunsMatchOutcome, CallsInv, CallerInv, RunsInv
<1>2. QED  BY <1>1, CallsInvariant, PTL
-----------------------------------------------------------------------------
\* Who holds a slot of the pacer, and which requests are in some of the states.
Holders == {c \in Callers : HoldsSlot(c)}
In(states) == {r \in Requests : request[r] \in states}

Entries == [age : Nat, lag : Nat, paced : BOOLEAN]

\* The counters count their holders, and a caller that waits for a slot will hold
\* one.
HeldInv ==
  /\ slots = Concurrent - Cardinality(Holders)
  /\ room = Concurrent - Cardinality(In({"running"}))
  /\ depth = Cardinality(In({"queued", "running"}))
  /\ \A c \in Callers : caller[c].at \in {"rate", "slot"} => IsPaced(Current(c))

\* The deque of admissions never outgrows the rate.
RateInv ==
  /\ lag \in [Requests -> Nat]
  /\ recent \in Seq(Entries)
  /\ Len(recent) <= Rate

\* The sets that are counted are finite.
LEMMA CountedFinite ==
  /\ IsFiniteSet(Holders)
  /\ \A states : IsFiniteSet(In(states))
<1>1. IsFiniteSet(Callers) /\ Calls \in Nat  BY LimitsAssumption
<1>2. IsFiniteSet(1 .. Calls)  BY <1>1, FS_Interval
<1>3. IsFiniteSet(Requests)  BY <1>1, <1>2, FS_Product DEF Requests
<1>4. Holders \in SUBSET Callers /\ \A states : In(states) \in SUBSET Requests
  BY DEF Holders, In
<1>5. QED  BY <1>1, <1>3, <1>4, FS_Subset

\* Moving one element in or out of a counted set.
LEMMA CountOne ==
  ASSUME NEW S, NEW T, NEW x, IsFiniteSet(S),
         \A y : y # x => (y \in S <=> y \in T)
  PROVE  /\ Cardinality(S) \in Nat
         /\ Cardinality(T) = Cardinality(S) + (IF x \in T THEN 1 ELSE 0)
                                            - (IF x \in S THEN 1 ELSE 0)
<1>1. Cardinality(S) \in Nat  BY FS_CardinalityType
<1>2. CASE x \in S /\ x \in T
  <2>1. S = T  BY <1>2
  <2>2. QED  BY <1>1, <1>2, <2>1
<1>3. CASE x \notin S /\ x \notin T
  <2>1. S = T  BY <1>3
  <2>2. QED  BY <1>1, <1>3, <2>1
<1>4. CASE x \in S /\ x \notin T
  <2>1. T = S \ {x}  BY <1>4
  <2>2. Cardinality(T) = Cardinality(S) - 1  BY <1>4, <2>1, FS_RemoveElement
  <2>3. QED  BY <1>1, <1>4, <2>2
<1>5. CASE x \notin S /\ x \in T
  <2>1. T = S \union {x}  BY <1>5
  <2>2. Cardinality(T) = Cardinality(S) + 1  BY <1>5, <2>1, FS_AddElement
  <2>3. QED  BY <1>1, <1>5, <2>2
<1>6. QED  BY <1>2, <1>3, <1>4, <1>5

\* One request changes its state.
LEMMA RequestMoves ==
  ASSUME CallsTyped, NEW r \in Requests, NEW new, request' = [request EXCEPT ![r] = new],
         NEW states
  PROVE  /\ Cardinality(In(states)) \in Nat
         /\ Cardinality(In(states)') = Cardinality(In(states))
                                         + (IF new \in states THEN 1 ELSE 0)
                                         - (IF request[r] \in states THEN 1 ELSE 0)
<1>1. \A q : q # r => (q \in In(states) <=> q \in In(states)')
  BY DEF CallsTyped, In
<1>2. /\ r \in In(states) <=> request[r] \in states
      /\ r \in In(states)' <=> new \in states
  BY DEF CallsTyped, In
<1>3. /\ Cardinality(In(states)) \in Nat
      /\ Cardinality(In(states)') = Cardinality(In(states))
                                      + (IF r \in In(states)' THEN 1 ELSE 0)
                                      - (IF r \in In(states) THEN 1 ELSE 0)
  <2>1. IsFiniteSet(In(states))  BY CountedFinite
  <2> DEFINE S == In(states)
             T == In(states)'
  <2>2. \A y : y # r => (y \in S <=> y \in T)  BY <1>1
  <2> HIDE DEF S, T
  <2>3. /\ Cardinality(S) \in Nat
        /\ Cardinality(T) = Cardinality(S) + (IF r \in T THEN 1 ELSE 0)
                                           - (IF r \in S THEN 1 ELSE 0)
    BY <2>1, <2>2, CountOne DEF S
  <2>4. QED  BY <2>3 DEF S, T
<1>4. QED  BY <1>2, <1>3

\* One caller changes its place.
LEMMA CallerMoves ==
  ASSUME NEW c \in Callers, \A d \in Callers : d # c => caller'[d] = caller[d]
  PROVE  /\ Cardinality(Holders) \in Nat
         /\ Cardinality(Holders') = Cardinality(Holders)
                                      + (IF HoldsSlot(c)' THEN 1 ELSE 0)
                                      - (IF HoldsSlot(c) THEN 1 ELSE 0)
<1> DEFINE S == Holders
           T == Holders'
<1>1. \A d : d # c => (d \in S <=> d \in T)
  BY DEF Holders, HoldsSlot, Current
<1>2. (c \in S <=> HoldsSlot(c)) /\ (c \in T <=> HoldsSlot(c)')
  BY DEF Holders
<1>3. IsFiniteSet(S)  BY CountedFinite
<1> HIDE DEF S, T
<1>4. /\ Cardinality(S) \in Nat
      /\ Cardinality(T) = Cardinality(S) + (IF c \in T THEN 1 ELSE 0)
                                         - (IF c \in S THEN 1 ELSE 0)
  BY <1>1, <1>3, CountOne
<1>5. QED  BY <1>2, <1>4 DEF S, T

\* A step of one caller, whose request is not with the receiver, keeps the counts
\* if it takes and gives back the slot it comes to hold or ceases to hold.
LEMMA CallerKeepsCounts ==
  ASSUME CallsInv, HeldInv, NEW c \in Callers,
         \A d \in Callers : d # c => caller'[d] = caller[d],
         room' = room, depth' = depth,
         \/ request' = request
         \/ \E r \in Requests, new \in {"none", "transit"} :
              /\ request[r] \in {"none", "rejected"}
              /\ request' = [request EXCEPT ![r] = new],
         slots' = slots + (IF HoldsSlot(c) THEN 1 ELSE 0)
                        - (IF HoldsSlot(c)' THEN 1 ELSE 0),
         caller'[c].at \in {"rate", "slot"} => IsPaced(Current(c)')
  PROVE  HeldInv'
<1>1. CallsTyped /\ Concurrent \in Nat  BY LimitsAssumption DEF CallsInv
<1>2. slots' = Concurrent - Cardinality(Holders')
  <2>1. /\ Cardinality(Holders) \in Nat
        /\ Cardinality(Holders') = Cardinality(Holders)
                                     + (IF HoldsSlot(c)' THEN 1 ELSE 0)
                                     - (IF HoldsSlot(c) THEN 1 ELSE 0)
    BY CallerMoves
  <2>2. slots = Concurrent - Cardinality(Holders)  BY DEF HeldInv
  <2>3. QED  BY <1>1, <2>1, <2>2
<1>3. ASSUME NEW states \in {{"running"}, {"queued", "running"}}
      PROVE  Cardinality(In(states)') = Cardinality(In(states))
  <2>1. CASE request' = request
    <3>1. In(states)' = In(states)  BY <2>1 DEF In
    <3>2. QED  BY <3>1
  <2>2. ASSUME NEW r \in Requests, NEW new \in {"none", "transit"},
               request[r] \in {"none", "rejected"}, request' = [request EXCEPT ![r] = new]
        PROVE  Cardinality(In(states)') = Cardinality(In(states))
    <3>1. new \notin states /\ request[r] \notin states  BY <2>2
    <3>2. /\ Cardinality(In(states)) \in Nat
          /\ Cardinality(In(states)') = Cardinality(In(states))
                                          + (IF new \in states THEN 1 ELSE 0)
                                          - (IF request[r] \in states THEN 1 ELSE 0)
      BY <1>1, <2>2, RequestMoves
    <3>3. QED  BY <3>1, <3>2
  <2>3. QED  BY <2>1, <2>2
<1>4. /\ room' = Concurrent - Cardinality(In({"running"})')
      /\ depth' = Cardinality(In({"queued", "running"})')
  BY <1>3 DEF HeldInv
<1>5. ASSUME NEW d \in Callers, caller'[d].at \in {"rate", "slot"}
      PROVE  IsPaced(Current(d)')
  <2>1. CASE d = c  BY <1>5, <2>1
  <2>2. CASE d # c
    <3>1. caller'[d] = caller[d] /\ Current(d)' = Current(d)  BY <2>2 DEF Current
    <3>2. QED  BY <1>5, <3>1 DEF HeldInv
  <2>3. QED  BY <2>1, <2>2
<1>6. QED  BY <1>2, <1>4, <1>5 DEF HeldInv, IsPaced

\* Every step of a caller keeps the counts.
LEMMA CallerStepHeld ==
  ASSUME CallsInv, HeldInv, NEW c \in Callers, CallerStep(c)
  PROVE  HeldInv'
<1>1. /\ caller \in [Callers -> [at : Places, made : 0 .. Calls, tries : Nat, timer : Nat,
                                 sleep : Backoffs, outcome : Results \union {"none"}]]
      /\ CallsTyped
  BY DEF CallsInv, CallsTyped
<1>2. slots \in Int
  <2>1. slots = Concurrent - Cardinality(Holders)  BY DEF HeldInv
  <2>2. Cardinality(Holders) \in Nat  BY CountedFinite, FS_CardinalityType
  <2>3. QED  BY <2>1, <2>2, LimitsAssumption
<1>3. caller[c].at \in InCall => Current(c) \in Requests
  BY <1>1, CurrentRequest DEF CallsInv, CallerInv
<1>4. ASSUME NEW outcome, Return(c, outcome), request' = request,
             room' = room, depth' = depth
      PROVE  HeldInv'
  <2>1. \A d \in Callers : d # c => caller'[d] = caller[d]
    BY <1>1, <1>4 DEF Return
  <2>2. caller'[c].at \in {"idle", "stopped"}
    BY <1>1, <1>4 DEF Return
  <2>3. ~HoldsSlot(c)'  BY <2>2 DEF HoldsSlot
  <2>4. slots' = IF HoldsSlot(c) THEN slots + 1 ELSE slots  BY <1>4 DEF Return
  <2>5. slots' = slots + (IF HoldsSlot(c) THEN 1 ELSE 0) - (IF HoldsSlot(c)' THEN 1 ELSE 0)
    BY <1>2, <2>3, <2>4
  <2>6. QED  BY <1>4, <2>1, <2>2, <2>5, CallerKeepsCounts
<1>5. CASE Answered(c) \/ Unreachable(c) \/ CancelCall(c)
  BY <1>4, <1>5 DEF Answered, Unreachable, CancelCall, serverVars
<1>6. CASE Begin(c)
  <2> DEFINE n == caller[c].made + 1
             at == IF IsPaced(<<c, n>>) THEN "rate" ELSE "sent"
             start == IF IsPaced(<<c, n>>) THEN "none" ELSE "transit"
             new == [caller[c] EXCEPT !.at = at, !.made = n, !.tries = 0, !.timer = 0,
                                      !.outcome = "none"]
  <2>1. /\ caller[c].at = "idle" /\ n <= Calls /\ caller' = [caller EXCEPT ![c] = new]
        /\ request' = [request EXCEPT ![<<c, n>>] = start]
        /\ slots' = slots /\ room' = room /\ depth' = depth
    BY <1>6 DEF Begin, serverVars
  <2>2. caller'[c] = new /\ new.at = at /\ new.made = n
    BY <1>1, <2>1
  <2>3. \A d \in Callers : d # c => caller'[d] = caller[d]
    BY <1>1, <2>1
  <2>4. <<c, n>> \in Requests /\ request[<<c, n>>] = "none"
    <3>1. Calls \in Nat /\ caller[c].made \in Nat  BY <1>1, LimitsAssumption
    <3>2. n \in 1 .. Calls /\ n > caller[c].made  BY <2>1, <3>1
    <3>3. QED  BY <3>2 DEF CallsInv, CallerInv, Requests
  <2>5. start \in {"none", "transit"}  OBVIOUS
  <2>6. Current(c)' = <<c, n>>  BY <2>2 DEF Current
  <2>7. caller'[c].at = at  BY <2>2
  <2> HIDE DEF n, new, start
  <2>8. /\ ~HoldsSlot(c)
        /\ ~HoldsSlot(c)'
    <3>1. ~HoldsSlot(c)  BY <2>1 DEF HoldsSlot
    <3>2. CASE IsPaced(<<c, n>>)
      <4>1. caller'[c].at = "rate"  BY <2>7, <3>2
      <4>2. QED  BY <3>1, <4>1 DEF HoldsSlot
    <3>3. CASE ~IsPaced(<<c, n>>)
      <4>1. ~IsPaced(Current(c))'  BY <2>6, <3>3 DEF IsPaced
      <4>2. QED  BY <3>1, <4>1 DEF HoldsSlot
    <3>4. QED  BY <3>2, <3>3
  <2>9. caller'[c].at \in {"rate", "slot"} => IsPaced(Current(c)')
    BY <2>6, <2>7
  <2>10. slots' = slots + (IF HoldsSlot(c) THEN 1 ELSE 0) - (IF HoldsSlot(c)' THEN 1 ELSE 0)
    BY <1>2, <2>1, <2>8
  <2>11. QED  BY <2>1, <2>3, <2>4, <2>5, <2>9, <2>10, CallerKeepsCounts
<1>7. CASE AwaitRateSlot(c)
  <2>1. /\ caller[c].at = "rate" /\ caller' = [caller EXCEPT ![c].at = "slot"]
        /\ request' = request /\ slots' = slots /\ room' = room /\ depth' = depth
    BY <1>7 DEF AwaitRateSlot, serverVars
  <2>2. /\ caller'[c].at = "slot" /\ caller'[c].made = caller[c].made
        /\ \A d \in Callers : d # c => caller'[d] = caller[d]
    BY <1>1, <2>1
  <2>3. Current(c)' = Current(c) /\ IsPaced(Current(c))
    BY <2>1, <2>2 DEF Current, HeldInv
  <2>4. ~HoldsSlot(c) /\ ~HoldsSlot(c)'  BY <2>1, <2>2 DEF HoldsSlot
  <2>5. slots' = slots + (IF HoldsSlot(c) THEN 1 ELSE 0) - (IF HoldsSlot(c)' THEN 1 ELSE 0)
    BY <1>2, <2>1, <2>4
  <2>6. IsPaced(Current(c)')  BY <2>3
  <2>7. QED  BY <2>1, <2>2, <2>5, <2>6, CallerKeepsCounts
<1>8. CASE TakeSlot(c)
  <2>1. /\ caller[c].at = "slot"
        /\ caller' = [caller EXCEPT ![c] = [caller[c] EXCEPT !.at = "sent", !.timer = 0]]
        /\ request' = [request EXCEPT ![Current(c)] = "transit"]
        /\ slots' = slots - 1 /\ room' = room /\ depth' = depth
    BY <1>1, <1>8 DEF TakeSlot, serverVars
  <2>2. /\ caller'[c].at = "sent" /\ caller'[c].made = caller[c].made
        /\ \A d \in Callers : d # c => caller'[d] = caller[d]
    BY <1>1, <2>1
  <2>3. Current(c)' = Current(c) /\ IsPaced(Current(c))
    BY <2>1, <2>2 DEF Current, HeldInv
  <2>4. ~HoldsSlot(c) /\ HoldsSlot(c)'  BY <2>1, <2>2, <2>3 DEF HoldsSlot, IsPaced
  <2>5. slots' = slots + (IF HoldsSlot(c) THEN 1 ELSE 0) - (IF HoldsSlot(c)' THEN 1 ELSE 0)
    BY <1>2, <2>1, <2>4
  <2>6. Current(c) \in Requests /\ request[Current(c)] \in {"none", "rejected"}
    BY <1>3, <2>1 DEF InCall, CallsInv, CallerInv
  <2>7. QED  BY <2>1, <2>2, <2>5, <2>6, CallerKeepsCounts
<1>9. CASE Retry(c)
  <2>1. /\ caller[c].at = "backoff"
        /\ caller' = [caller EXCEPT ![c] = [caller[c] EXCEPT !.at = "sent", !.timer = 0]]
        /\ request' = [request EXCEPT ![Current(c)] = "transit"]
        /\ slots' = slots /\ room' = room /\ depth' = depth
    BY <1>1, <1>9 DEF Retry, serverVars
  <2>2. /\ caller'[c].at = "sent" /\ caller'[c].made = caller[c].made
        /\ \A d \in Callers : d # c => caller'[d] = caller[d]
    BY <1>1, <2>1
  <2>3. Current(c)' = Current(c)  BY <2>2 DEF Current
  <2>4. HoldsSlot(c) <=> HoldsSlot(c)'  BY <2>1, <2>2, <2>3 DEF HoldsSlot, IsPaced
  <2>5. slots' = slots + (IF HoldsSlot(c) THEN 1 ELSE 0) - (IF HoldsSlot(c)' THEN 1 ELSE 0)
    BY <1>2, <2>1, <2>4
  <2>6. Current(c) \in Requests /\ request[Current(c)] \in {"none", "rejected"}
    BY <1>3, <2>1 DEF InCall, CallsInv, CallerInv
  <2>7. QED  BY <2>1, <2>2, <2>5, <2>6, CallerKeepsCounts
<1>10. CASE Overloaded(c)
  <2>1. /\ caller[c].at = "sent" /\ request' = request /\ room' = room /\ depth' = depth
    BY <1>10 DEF Overloaded, serverVars
  <2>2. CASE Return(c, "overloaded")  BY <1>4, <2>1, <2>2
  <2>3. ASSUME NEW b \in Backoffs, slots' = slots,
               caller' = [caller EXCEPT ![c] =
                            [caller[c] EXCEPT !.at = "backoff", !.tries = caller[c].tries + 1,
                                              !.timer = 0, !.sleep = b]]
        PROVE  HeldInv'
    <3>1. /\ caller'[c].at = "backoff" /\ caller'[c].made = caller[c].made
          /\ \A d \in Callers : d # c => caller'[d] = caller[d]
      BY <1>1, <2>3
    <3>2. Current(c)' = Current(c)  BY <3>1 DEF Current
    <3>3. HoldsSlot(c) <=> HoldsSlot(c)'  BY <2>1, <3>1, <3>2 DEF HoldsSlot, IsPaced
    <3>4. slots' = slots + (IF HoldsSlot(c) THEN 1 ELSE 0) - (IF HoldsSlot(c)' THEN 1 ELSE 0)
      BY <1>2, <2>3, <3>3
    <3>5. QED  BY <2>1, <3>1, <3>4, CallerKeepsCounts
  <2>4. QED  BY <1>10, <2>2, <2>3 DEF Overloaded
<1>11. QED  BY <1>5, <1>6, <1>7, <1>8, <1>9, <1>10 DEF CallerStep

\* A request comes to stand at `new`, and the receiver's counters follow it.
ServerMoves(r, new) ==
  /\ request' = [request EXCEPT ![r] = new]
  /\ room' = room + (IF request[r] = "running" THEN 1 ELSE 0)
                  - (IF new = "running" THEN 1 ELSE 0)
  /\ depth' = depth + (IF new \in {"queued", "running"} THEN 1 ELSE 0)
                    - (IF request[r] \in {"queued", "running"} THEN 1 ELSE 0)

\* Every step of the receiver keeps the counts.
LEMMA ServerStepHeld ==
  ASSUME CallsInv, HeldInv, NEW r \in Requests, ServerStep(r)
  PROVE  HeldInv'
<1>1. CallsTyped /\ Concurrent \in Nat  BY LimitsAssumption DEF CallsInv
<1>2. /\ slots' = slots /\ caller' = caller
      /\ \E new \in {"rejected", "queued", "running", "answered", "gone"} :
           ServerMoves(r, new)
  <2>1. room \in Int /\ depth \in Int
    <3>1. \A states : Cardinality(In(states)) \in Nat
      BY CountedFinite, FS_CardinalityType
    <3>2. QED  BY <1>1, <3>1 DEF HeldInv
  <2>2. CASE Arrive(r)
    <3> DEFINE refused == depth >= QueueDepth \/ ~(Len(WithinWindow(recent)) < Rate)
               new == IF refused THEN "rejected" ELSE "queued"
    <3>1. /\ slots' = slots /\ caller' = caller /\ room' = room /\ request[r] = "transit"
          /\ request' = [request EXCEPT ![r] = new]
          /\ depth' = IF refused THEN depth ELSE depth + 1
      BY <2>2 DEF Arrive
    <3>2. /\ new \in {"rejected", "queued"}
          /\ depth' = depth + (IF new \in {"queued", "running"} THEN 1 ELSE 0)
      BY <2>1, <3>1
    <3> HIDE DEF new, refused
    <3>3. ServerMoves(r, new)  BY <2>1, <3>1, <3>2 DEF ServerMoves
    <3>4. QED  BY <3>1, <3>2, <3>3
  <2>3. CASE Enter(r)
    <3>1. ServerMoves(r, "running")  BY <2>1, <2>3 DEF Enter, ServerMoves
    <3>2. QED  BY <2>3, <3>1 DEF Enter
  <2>4. CASE Leave(r)
    <3> DEFINE new == IF Awaited(r) THEN "answered" ELSE "gone"
    <3>1. /\ slots' = slots /\ caller' = caller /\ room' = room + 1 /\ depth' = depth - 1
          /\ request[r] = "running" /\ request' = [request EXCEPT ![r] = new]
          /\ new \in {"answered", "gone"}
      BY <2>4 DEF Leave
    <3> HIDE DEF new
    <3>2. ServerMoves(r, new)  BY <2>1, <3>1 DEF ServerMoves
    <3>3. QED  BY <3>1, <3>2
  <2>5. CASE Disconnect(r)
    <3>1. ServerMoves(r, "gone")  BY <2>1, <2>5 DEF Disconnect, ServerMoves
    <3>2. QED  BY <2>5, <3>1 DEF Disconnect
  <2>6. QED  BY <2>2, <2>3, <2>4, <2>5 DEF ServerStep
<1>3. PICK new \in {"rejected", "queued", "running", "answered", "gone"} : ServerMoves(r, new)
  BY <1>2
<1>4. ASSUME NEW states
      PROVE  /\ Cardinality(In(states)) \in Nat
             /\ Cardinality(In(states)') = Cardinality(In(states))
                                             + (IF new \in states THEN 1 ELSE 0)
                                             - (IF request[r] \in states THEN 1 ELSE 0)
  <2>1. request' = [request EXCEPT ![r] = new]  BY <1>3 DEF ServerMoves
  <2>2. QED  BY <1>1, <2>1, RequestMoves
<1>5. /\ room' = Concurrent - Cardinality(In({"running"})')
      /\ depth' = Cardinality(In({"queued", "running"})')
  <2> DEFINE running == {"running"}
             within == {"queued", "running"}
  <2>1. /\ new \in running <=> new = "running"
        /\ request[r] \in running <=> request[r] = "running"
    OBVIOUS
  <2>2. /\ room = Concurrent - Cardinality(In(running))
        /\ depth = Cardinality(In(within))
    BY DEF HeldInv
  <2>3. /\ room' = room + (IF request[r] = "running" THEN 1 ELSE 0)
                        - (IF new = "running" THEN 1 ELSE 0)
        /\ depth' = depth + (IF new \in within THEN 1 ELSE 0)
                          - (IF request[r] \in within THEN 1 ELSE 0)
    BY <1>3 DEF ServerMoves
  <2> HIDE DEF running, within
  <2>4. /\ room' = Concurrent - Cardinality(In(running)')
        /\ depth' = Cardinality(In(within)')
    BY <1>1, <1>4, <2>1, <2>2, <2>3
  <2>5. QED  BY <2>4 DEF running, within
<1>6. slots' = Concurrent - Cardinality(Holders')
  <2>1. Holders' = Holders  BY <1>2 DEF Holders, HoldsSlot, Current
  <2>2. QED  BY <1>2, <2>1 DEF HeldInv
<1>7. \A c \in Callers : caller'[c].at \in {"rate", "slot"} => IsPaced(Current(c)')
  BY <1>2 DEF HeldInv, Current
<1>8. QED  BY <1>5, <1>6, <1>7 DEF HeldInv, IsPaced

\* Time passes over what is held.
LEMMA TickHeld ==
  ASSUME CallsInv, HeldInv, Tick
  PROVE  HeldInv'
<1>1. /\ slots' = slots /\ depth' = depth /\ room' = room /\ request' = request
      /\ \A c \in Callers : caller'[c].at = caller[c].at /\ caller'[c].made = caller[c].made
  BY DEF Tick, CallsInv, CallsTyped
<1>2. \A c \in Callers : Current(c)' = Current(c)  BY <1>1 DEF Current
<1>3. Holders' = Holders  BY <1>1, <1>2 DEF Holders, HoldsSlot, IsPaced
<1>4. \A states : In(states)' = In(states)  BY <1>1 DEF In
<1>5. QED  BY <1>1, <1>2, <1>3, <1>4 DEF HeldInv, IsPaced

-----------------------------------------------------------------------------
\* The first fresh entry: a nonempty set of positions has a least member.
LEMMA FirstFresh ==
  ASSUME NEW I, I \subseteq Nat, I # {}
  PROVE  Min(I) \in I /\ \A y \in I : Min(I) <= y
<1>1. PICK x \in I : \A y \in I : ~(<<y, x>> \in OpToRel(<, Nat))
  BY WFMin, NatLessThanWellFounded
<1>2. \A y \in I : x <= y
  <2> SUFFICES ASSUME NEW y \in I, y < x PROVE FALSE  OBVIOUS
  <2>1. <<y, x>> \in OpToRel(<, Nat)  BY DEF OpToRel
  <2>2. QED  BY <1>1, <2>1
<1>3. QED  BY <1>2 DEF Min

\* Pruning the front of a deque leaves a deque that is no longer.
LEMMA PrunedFront ==
  ASSUME NEW S, NEW q \in Seq(S), NEW fresh, fresh \subseteq DOMAIN q
  PROVE  FromFirst(fresh, q) \in Seq(S) /\ Len(FromFirst(fresh, q)) <= Len(q)
<1>1. CASE fresh = {}  BY <1>1 DEF FromFirst
<1>2. CASE fresh # {}
  <2>1. DOMAIN q = 1 .. Len(q) /\ Len(q) \in Nat  OBVIOUS
  <2>2. Min(fresh) \in fresh  BY <1>2, <2>1, FirstFresh
  <2> DEFINE m == Min(fresh)
  <2>3. m \in 1 .. Len(q)  BY <2>1, <2>2
  <2>4. FromFirst(fresh, q) = SubSeq(q, m, Len(q))  BY <1>2 DEF FromFirst
  <2> HIDE DEF m
  <2>5. SubSeq(q, m, Len(q)) \in Seq(S) /\ Len(SubSeq(q, m, Len(q))) = Len(q) - m + 1
    BY <2>1, <2>3
  <2>6. QED  BY <2>1, <2>3, <2>4, <2>5
<1>3. QED  BY <1>1, <1>2

\* An admission finds room in the window; every other step only ages the
\* admissions or leaves them.
LEMMA RateStep == RateInv /\ [Next]_vars => RateInv'
<1> SUFFICES ASSUME RateInv, [Next]_vars PROVE RateInv'  OBVIOUS
<1>1. Rate \in Nat  BY LimitsAssumption
<1>2. ASSUME recent' = recent, lag' = lag PROVE RateInv'
  BY <1>2 DEF RateInv
<1>3. ASSUME NEW r \in Requests, Arrive(r) PROVE RateInv'
  <2> DEFINE w == WithinWindow(recent)
             e == [age |-> 0, lag |-> lag[r], paced |-> IsPaced(r)]
  <2>1. w \in Seq(Entries) /\ Len(w) <= Len(recent)
    <3> DEFINE fresh == {i \in DOMAIN recent : recent[i].age <= Window}
    <3>1. fresh \subseteq DOMAIN recent /\ recent \in Seq(Entries)  BY DEF RateInv
    <3>2. w = FromFirst(fresh, recent)  BY DEF WithinWindow
    <3> HIDE DEF fresh, w
    <3>3. QED  BY <3>1, <3>2, PrunedFront
  <2>2. e \in Entries  BY DEF RateInv, IsPaced, Entries
  <2>3. /\ lag' = lag
        /\ \/ recent' = recent
           \/ recent' = w
           \/ Len(w) < Rate /\ recent' = Append(w, e)
    BY <1>3 DEF Arrive
  <2> HIDE DEF w, e
  <2>4. CASE recent' = recent  BY <1>2, <2>3, <2>4
  <2>5. CASE recent' = w  BY <1>1, <2>1, <2>3, <2>5 DEF RateInv
  <2>6. CASE Len(w) < Rate /\ recent' = Append(w, e)
    <3>1. recent' \in Seq(Entries) /\ Len(recent') = Len(w) + 1  BY <2>1, <2>2, <2>6
    <3>2. Len(w) \in Nat  BY <2>1
    <3>3. QED  BY <1>1, <2>3, <2>6, <3>1, <3>2 DEF RateInv
  <2>7. QED  BY <2>3, <2>4, <2>5, <2>6
<1>4. ASSUME Tick PROVE RateInv'
  <2>1. lag' \in [Requests -> Nat]  BY <1>4 DEF Tick, RateInv
  <2>2. Window \in Nat  BY LimitsAssumption
  <2>3. \A i \in DOMAIN recent : [recent[i] EXCEPT !.age = Older(@)] \in Entries
    <3> SUFFICES ASSUME NEW i \in DOMAIN recent
                 PROVE  [recent[i] EXCEPT !.age = Older(@)] \in Entries
      OBVIOUS
    <3>1. recent[i] \in Entries  BY DEF RateInv
    <3>2. recent[i].age \in Nat  BY <3>1 DEF Entries
    <3>3. Older(recent[i].age) \in Nat  BY <2>2, <3>2 DEF Older
    <3>4. QED  BY <3>1, <3>3 DEF Entries
  <2>4. recent' = [i \in 1 .. Len(recent) |-> [recent[i] EXCEPT !.age = Older(@)]]
    BY <1>4 DEF Tick, RateInv
  <2>5. recent' \in Seq(Entries) /\ Len(recent') = Len(recent)
    BY <2>3, <2>4 DEF RateInv
  <2>6. QED  BY <2>1, <2>5 DEF RateInv
<1>5. ASSUME NEW c \in Callers, CallerStep(c) PROVE RateInv'
  BY <1>2, <1>5 DEF CallerStep, Begin, AwaitRateSlot, TakeSlot, Answered, Unreachable,
                    Overloaded, Retry, CancelCall, serverVars
<1>6. ASSUME NEW r \in Requests, ServerStep(r) PROVE RateInv'
  BY <1>2, <1>3, <1>6 DEF ServerStep, Enter, Leave, Disconnect
<1>7. CASE UNCHANGED vars  BY <1>2, <1>7 DEF vars
<1>8. QED  BY <1>4, <1>5, <1>6, <1>7 DEF Next

\* Nothing is held at first.
LEMMA LimitsInit == Init => HeldInv /\ RateInv
<1> SUFFICES ASSUME Init PROVE HeldInv /\ RateInv  OBVIOUS
<1>1. Concurrent \in Nat /\ Rate \in Nat  BY LimitsAssumption
<1>2. Cardinality({}) = 0  BY FS_EmptySet
<1>3. Holders = {}  BY DEF Init, Holders, HoldsSlot
<1>4. In({"running"}) = {} /\ In({"queued", "running"}) = {}  BY DEF Init, In
<1>5. /\ slots = Concurrent /\ room = Concurrent /\ depth = 0
      /\ \A c \in Callers : caller[c].at = "idle"
  BY DEF Init
<1>6. HeldInv
  <2>1. /\ Cardinality(Holders) = 0
        /\ Cardinality(In({"running"})) = 0
        /\ Cardinality(In({"queued", "running"})) = 0
    BY <1>2, <1>3, <1>4, Zenon
  <2>2. Concurrent = Concurrent - 0  BY <1>1
  <2>3. \A c \in Callers : caller[c].at \in {"rate", "slot"} => IsPaced(Current(c))
    BY <1>5
  <2>4. QED  BY <1>5, <2>1, <2>2, <2>3, Zenon DEF HeldInv
<1>7. RateInv  BY <1>1 DEF Init, RateInv
<1>8. QED  BY <1>6, <1>7

\* The pacer's semaphore, the gatekeeper's semaphore and its queue depth equal
\* the number of their holders after any cancellation, timeout or disconnection,
\* and the gatekeeper admits at most the agreed rate in a window.
THEOREM LimitsAreHonest == Spec => []LimitsHonest
<1>1. CallsInv /\ HeldInv /\ [Next]_vars => HeldInv'
  <2> SUFFICES ASSUME CallsInv, HeldInv, [Next]_vars PROVE HeldInv'  OBVIOUS
  <2>1. CASE Next  BY <2>1, CallerStepHeld, ServerStepHeld, TickHeld DEF Next
  <2>2. CASE UNCHANGED vars
    BY <2>2 DEF vars, HeldInv, Holders, HoldsSlot, In, Current, IsPaced
  <2>3. QED  BY <2>1, <2>2
<1>2. HeldInv /\ RateInv => LimitsHonest
  <2> SUFFICES ASSUME HeldInv, RateInv PROVE LimitsHonest  OBVIOUS
  <2>1. Len(WithinWindow(recent)) <= Rate
    <3> DEFINE fresh == {i \in DOMAIN recent : recent[i].age <= Window}
    <3>1. fresh \subseteq DOMAIN recent /\ recent \in Seq(Entries)  BY DEF RateInv
    <3>2. WithinWindow(recent) = FromFirst(fresh, recent)  BY DEF WithinWindow
    <3> HIDE DEF fresh
    <3>3. /\ FromFirst(fresh, recent) \in Seq(Entries)
          /\ Len(FromFirst(fresh, recent)) <= Len(recent)
      BY <3>1, PrunedFront
    <3>4. Len(FromFirst(fresh, recent)) \in Nat /\ Len(recent) \in Nat /\ Rate \in Nat
      BY <3>1, <3>3, LimitsAssumption
    <3>5. QED  BY <3>2, <3>3, <3>4 DEF RateInv
  <2>2. QED  BY <2>1 DEF HeldInv, Holders, In, LimitsHonest
<1>3. QED  BY <1>1, <1>2, CallsInvariant, LimitsInit, RateStep, PTL DEF Spec

-----------------------------------------------------------------------------
(* Why a paced call is refused.  The calls that have taken a place in the   *)
(* pacer's window are numbered; the invariant says that there is a history  *)
(* of their ages, with at most Rate of them in any window, and that each    *)
(* call on its way and each recent admission of a paced call has a number   *)
(* of its own.                                                              *)

\* The paced calls that have their place in the window and may still arrive.
Live(r) == OnItsWay(r) /\ IsPaced(r)

\* The admissions of paced calls that still count for the rate.
FreshEntry(i) == recent[i].paced /\ recent[i].age <= Window

\* h[j] is the time since the j-th pacing: no window holds more than Rate of them.
Spaced(h) ==
  \A i, j \in 1 .. Len(h) : i + Rate <= j => h[i] > h[j] + Window

\* The pacer's deque is the end of the history, and what it pruned is old.
Remembered(h) ==
  /\ Len(paced) <= Len(h)
  /\ \A j \in 1 .. Len(h) - Len(paced) : h[j] > Window
  /\ \A k \in 1 .. Len(paced) : h[Len(h) - Len(paced) + k] >= paced[k]

\* num[r] is the number of a call on its way, nr[i] that of a recent admission.
LiveNumbered(h, num) ==
  /\ \A r \in Requests : Live(r) => num[r] \in 1 .. Len(h) /\ h[num[r]] = lag[r]
  /\ \A r, s \in Requests : Live(r) /\ Live(s) /\ num[r] = num[s] => r = s

FreshNumbered(h, nr) ==
  /\ Len(nr) = Len(recent)
  /\ \A i \in 1 .. Len(recent) :
       FreshEntry(i) => nr[i] \in 1 .. Len(h) /\ h[nr[i]] = recent[i].age + recent[i].lag
  /\ \A i, j \in 1 .. Len(recent) :
       FreshEntry(i) /\ FreshEntry(j) /\ nr[i] = nr[j] => i = j

Apart(num, nr) ==
  \A r \in Requests : \A i \in 1 .. Len(recent) :
    Live(r) /\ FreshEntry(i) => num[r] # nr[i]

Ledger(h, num, nr) ==
  /\ Spaced(h)
  /\ Remembered(h)
  /\ LiveNumbered(h, num)
  /\ FreshNumbered(h, nr)
  /\ Apart(num, nr)

LedgerInv ==
  \E h \in Seq(Nat), num \in [Requests -> Nat], nr \in Seq(Nat) : Ledger(h, num, nr)

\* The n-th call of c is still to come, or asks the pacer.
Unpaced(c, n) ==
  n > caller[c].made \/ (n = caller[c].made /\ caller[c].at = "rate")

\* A call that has not been paced has not waited; admissions age in order.
AgesInv ==
  /\ paced \in Seq(Nat)
  /\ \A i, j \in 1 .. Len(recent) : i <= j => recent[i].age >= recent[j].age
  /\ \A c \in Callers : \A n \in 1 .. Calls : Unpaced(c, n) => lag[<<c, n>>] = 0

\* What is left of a deque is its end, what has gone was not fresh, and the first
\* one left is.
LEMMA FrontDropped ==
  ASSUME NEW S, NEW q \in Seq(S), NEW fresh, fresh \subseteq DOMAIN q
  PROVE  \E k \in 0 .. Len(q) :
           /\ FromFirst(fresh, q) \in Seq(S)
           /\ Len(FromFirst(fresh, q)) = Len(q) - k
           /\ \A i \in 1 .. Len(q) - k : FromFirst(fresh, q)[i] = q[k + i]
           /\ \A i \in 1 .. k : i \notin fresh
           /\ k # Len(q) => k + 1 \in fresh
<1>1. DOMAIN q = 1 .. Len(q) /\ Len(q) \in Nat  OBVIOUS
<1>2. CASE fresh = {}
  <2>1. FromFirst(fresh, q) = <<>>  BY <1>2 DEF FromFirst
  <2> DEFINE k == Len(q)
             F == FromFirst(fresh, q)
  <2>2. /\ k \in 0 .. Len(q) /\ F \in Seq(S) /\ Len(F) = Len(q) - k
        /\ \A i \in 1 .. Len(q) - k : F[i] = q[k + i]
        /\ \A i \in 1 .. k : i \notin fresh
        /\ k # Len(q) => k + 1 \in fresh
    <3>1. F = <<>>  BY <2>1
    <3>2. k \in 0 .. Len(q) /\ k = Len(q) /\ Len(q) - k = 0  BY <1>1
    <3> HIDE DEF k, F
    <3>3. F \in Seq(S) /\ Len(F) = 0  BY <3>1
    <3>4. QED  BY <1>2, <3>2, <3>3
  <2> HIDE DEF k, F
  <2>3. \E x \in 0 .. Len(q) :
          /\ F \in Seq(S) /\ Len(F) = Len(q) - x
          /\ \A i \in 1 .. Len(q) - x : F[i] = q[x + i]
          /\ \A i \in 1 .. x : i \notin fresh
          /\ x # Len(q) => x + 1 \in fresh
    BY <2>2
  <2>4. QED  BY <2>3 DEF F
<1>3. CASE fresh # {}
  <2> DEFINE m == Min(fresh)
  <2>1. m \in fresh /\ \A i \in fresh : m <= i  BY <1>1, <1>3, FirstFresh
  <2>2. m \in 1 .. Len(q)  BY <1>1, <2>1
  <2>3. FromFirst(fresh, q) = SubSeq(q, m, Len(q))  BY <1>3 DEF FromFirst
  <2> HIDE DEF m
  <2>4. /\ SubSeq(q, m, Len(q)) \in Seq(S)
        /\ Len(SubSeq(q, m, Len(q))) = Len(q) - (m - 1)
        /\ \A i \in 1 .. Len(q) - (m - 1) : SubSeq(q, m, Len(q))[i] = q[(m - 1) + i]
    BY <1>1, <2>2
  <2>5. m - 1 \in 0 .. Len(q) /\ (m - 1) + 1 = m  BY <1>1, <2>2
  <2>6. \A i \in 1 .. m - 1 : i \notin fresh  BY <1>1, <2>1, <2>2
  <2> DEFINE k == m - 1
             F == FromFirst(fresh, q)
  <2>7. /\ k \in 0 .. Len(q) /\ F \in Seq(S) /\ Len(F) = Len(q) - k
        /\ \A i \in 1 .. Len(q) - k : F[i] = q[k + i]
        /\ \A i \in 1 .. k : i \notin fresh
        /\ k # Len(q) => k + 1 \in fresh
    BY <2>1, <2>3, <2>4, <2>5, <2>6
  <2> HIDE DEF k, F
  <2>8. \E x \in 0 .. Len(q) :
          /\ F \in Seq(S) /\ Len(F) = Len(q) - x
          /\ \A i \in 1 .. Len(q) - x : F[i] = q[x + i]
          /\ \A i \in 1 .. x : i \notin fresh
          /\ x # Len(q) => x + 1 \in fresh
    BY <2>7
  <2>9. QED  BY <2>8 DEF F
<1>4. QED  BY <1>2, <1>3


\* The receiver's window: what is pruned is old, what is left is fresh, for the
\* admissions age in order.
LEMMA WindowFront ==
  ASSUME RateInv, AgesInv
  PROVE  \E k \in 0 .. Len(recent) :
           /\ WithinWindow(recent) \in Seq(Entries)
           /\ Len(WithinWindow(recent)) = Len(recent) - k
           /\ \A i \in 1 .. Len(recent) - k : WithinWindow(recent)[i] = recent[k + i]
           /\ \A i \in 1 .. k : recent[i].age > Window
           /\ \A i \in 1 .. Len(recent) - k : recent[k + i].age <= Window
<1> DEFINE fresh == {i \in DOMAIN recent : recent[i].age <= Window}
           w == WithinWindow(recent)
<1>1. /\ recent \in Seq(Entries) /\ DOMAIN recent = 1 .. Len(recent) /\ Len(recent) \in Nat
      /\ fresh \subseteq DOMAIN recent
  BY DEF RateInv
<1>2. w = FromFirst(fresh, recent)  BY DEF WithinWindow
<1>3. \A i \in 1 .. Len(recent) : i \in fresh <=> recent[i].age <= Window  BY <1>1
<1> HIDE DEF fresh, w
<1>4. PICK k \in 0 .. Len(recent) :
        /\ w \in Seq(Entries) /\ Len(w) = Len(recent) - k
        /\ \A i \in 1 .. Len(recent) - k : w[i] = recent[k + i]
        /\ \A i \in 1 .. k : i \notin fresh
        /\ k # Len(recent) => k + 1 \in fresh
  <2>1. recent \in Seq(Entries) /\ fresh \subseteq DOMAIN recent  BY <1>1
  <2>2. QED  BY <1>2, <2>1, FrontDropped, Zenon
<1>5. /\ Window \in Nat /\ k \in 0 .. Len(recent)
      /\ \A i \in 1 .. Len(recent) : recent[i].age \in Nat
  <2>1. Window \in Nat  BY LimitsAssumption
  <2>2. \A i \in 1 .. Len(recent) : recent[i] \in Entries  BY <1>1
  <2>3. QED  BY <1>4, <2>1, <2>2 DEF Entries
<1>6. \A i \in 1 .. k : recent[i].age > Window
  <2>1. \A i \in 1 .. k : i \in 1 .. Len(recent)  BY <1>1, <1>5
  <2>2. \A i \in 1 .. k : i \notin fresh  BY <1>4
  <2>3. QED  BY <1>3, <1>5, <2>1, <2>2
<1>7. ASSUME NEW i \in 1 .. Len(recent) - k PROVE recent[k + i].age <= Window
  <2>1. /\ k + 1 \in 1 .. Len(recent) /\ k + i \in 1 .. Len(recent) /\ k + 1 <= k + i
        /\ k # Len(recent)
    <3>1. Len(recent) \in Nat  BY <1>1
    <3>2. QED  BY <1>5, <3>1
  <2>2. recent[k + 1].age <= Window  BY <1>3, <1>4, <2>1
  <2>3. recent[k + 1].age >= recent[k + i].age  BY <2>1 DEF AgesInv
  <2>4. QED  BY <1>5, <2>1, <2>2, <2>3
<1>8. QED  BY <1>4, <1>6, <1>7 DEF w

\* The pacer's window, likewise: what it prunes has left the window.
LEMMA PacerFront ==
  ASSUME AgesInv
  PROVE  \E k \in 0 .. Len(paced) :
           /\ Pruned(paced) \in Seq(Nat)
           /\ Len(Pruned(paced)) = Len(paced) - k
           /\ \A i \in 1 .. Len(paced) - k : Pruned(paced)[i] = paced[k + i]
           /\ \A i \in 1 .. k : paced[i] > Window
<1> DEFINE fresh == {i \in DOMAIN paced : paced[i] <= Window}
           w == Pruned(paced)
           N == Nat
<1>1. /\ DOMAIN paced = 1 .. Len(paced) /\ Len(paced) \in Nat
      /\ fresh \subseteq DOMAIN paced
  BY DEF AgesInv
<1>2. w = FromFirst(fresh, paced)  BY DEF Pruned
<1>3. \A i \in 1 .. Len(paced) : i \in fresh <=> paced[i] <= Window  BY <1>1
<1> HIDE DEF fresh, w, N
<1>8. paced \in Seq(N)  BY DEF AgesInv, N
<1>4. PICK k \in 0 .. Len(paced) :
        /\ w \in Seq(N) /\ Len(w) = Len(paced) - k
        /\ \A i \in 1 .. Len(paced) - k : w[i] = paced[k + i]
        /\ \A i \in 1 .. k : i \notin fresh
        /\ k # Len(paced) => k + 1 \in fresh
  <2>1. fresh \subseteq DOMAIN paced  BY <1>1
  <2>2. QED  BY <1>2, <1>8, <2>1, FrontDropped, Zenon
<1>5. /\ Window \in Nat /\ k \in 0 .. Len(paced)
      /\ \A i \in 1 .. Len(paced) : paced[i] \in Nat
  <2>1. Window \in Nat  BY LimitsAssumption
  <2>2. \A i \in 1 .. Len(paced) : paced[i] \in Nat  BY DEF AgesInv
  <2>3. QED  BY <2>1, <2>2
<1>6. \A i \in 1 .. k : paced[i] > Window
  <2>1. \A i \in 1 .. k : i \in 1 .. Len(paced)  BY <1>1, <1>5
  <2>2. \A i \in 1 .. k : i \notin fresh  BY <1>4
  <2>3. QED  BY <1>3, <1>5, <2>1, <2>2
<1>7. QED  BY <1>4, <1>6 DEF w, N


\* A call that has been paced stays so.
LEMMA UnpacedShrinks ==
  ASSUME CallsInv, NEW d \in Callers, CallerStep(d)
  PROVE  \A c \in Callers : \A n \in 1 .. Calls : Unpaced(c, n)' => Unpaced(c, n)
<1>1. \A c \in Callers : caller[c].made \in Nat  BY LimitsAssumption DEF CallsInv, CallsTyped
<1>2. ASSUME \A c \in Callers : c # d => caller'[c] = caller[c],
             caller'[d].made = caller[d].made,
             caller'[d].at # "rate"
      PROVE  \A c \in Callers : \A n \in 1 .. Calls : Unpaced(c, n)' => Unpaced(c, n)
  BY <1>2 DEF Unpaced
<1>3. CASE Begin(d)
  <2>1. /\ \A c \in Callers : c # d => caller'[c] = caller[c]
        /\ caller'[d].made = caller[d].made + 1
    BY <1>3 DEF Begin, CallsInv, CallsTyped
  <2>2. QED  BY <1>1, <2>1 DEF Unpaced
<1>4. ASSUME NEW out \in Results, Return(d, out)
      PROVE  /\ \A c \in Callers : c # d => caller'[c] = caller[c]
             /\ caller'[d].made = caller[d].made /\ caller'[d].at # "rate"
  BY <1>4 DEF Return, CallsInv, CallsTyped
<1>5. CASE AwaitRateSlot(d)
  BY <1>2, <1>5 DEF AwaitRateSlot, CallsInv, CallsTyped
<1>6. CASE TakeSlot(d)
  BY <1>2, <1>6 DEF TakeSlot, CallsInv, CallsTyped
<1>7. CASE Retry(d)
  BY <1>2, <1>7 DEF Retry, CallsInv, CallsTyped
<1>8. CASE Overloaded(d)
  <2>1. CASE \E out \in Results : Return(d, out)  BY <1>2, <1>4, <2>1
  <2>2. CASE \E b \in Backoffs : caller' = [caller EXCEPT ![d] =
               [@ EXCEPT !.at = "backoff", !.tries = caller[d].tries + 1,
                         !.timer = 0, !.sleep = b]]
    BY <1>2, <2>2 DEF CallsInv, CallsTyped
  <2>3. QED  BY <1>8, <2>1, <2>2 DEF Overloaded, Results
<1>9. CASE Answered(d) \/ Unreachable(d) \/ CancelCall(d)
  <2>1. \E out \in Results : Return(d, out)
    BY <1>9 DEF Answered, Unreachable, CancelCall, Results
  <2>2. QED  BY <1>2, <1>4, <2>1
<1>10. QED  BY <1>3, <1>5, <1>6, <1>7, <1>8, <1>9 DEF CallerStep


\* Time passes for the calls that have been paced only.
LEMMA UnpacedNotOnItsWay ==
  ASSUME CallsInv, NEW c \in Callers, NEW n \in 1 .. Calls, Unpaced(c, n)
  PROVE  <<c, n>> \in Requests /\ ~OnItsWay(<<c, n>>)
<1>1. <<c, n>> \in Requests /\ <<c, n>>[1] = c  BY DEF Requests
<1>2. caller[c].made \in Nat /\ n \in Nat  BY LimitsAssumption DEF CallsInv, CallsTyped
<1>3. request[<<c, n>>] = "none"
  <2>1. CASE n > caller[c].made  BY <2>1 DEF CallsInv, CallerInv
  <2>2. CASE n = caller[c].made /\ caller[c].at = "rate"
    BY <2>2 DEF CallsInv, CallerInv, Current
  <2>3. QED  BY <2>1, <2>2 DEF Unpaced
<1>4. ~(<<c, n>> = Current(c) /\ caller[c].at \in {"slot", "sent", "backoff"})
  BY <1>2 DEF Unpaced, Current
<1>5. QED  BY <1>1, <1>3, <1>4 DEF OnItsWay

\* The ages stay in order through every step.
LEMMA AgesStep == CallsInv /\ RateInv /\ AgesInv /\ [Next]_vars => AgesInv'
<1> SUFFICES ASSUME CallsInv, RateInv, AgesInv, [Next]_vars PROVE AgesInv'  OBVIOUS
<1>1. Window \in Nat /\ Len(recent) \in Nat /\ Calls \in Nat
  <2>1. Window \in Nat /\ Calls \in Nat  BY LimitsAssumption
  <2>2. Len(recent) \in Nat  BY DEF RateInv
  <2>3. QED  BY <2>1, <2>2
<1>2. ASSUME NEW c \in Callers, CallerStep(c) PROVE AgesInv'
  <2>1. lag' = lag /\ recent' = recent
    BY <1>2 DEF CallerStep, Begin, AwaitRateSlot, TakeSlot, Answered, Unreachable,
                Overloaded, Retry, CancelCall, serverVars
  <2>2. paced' \in Seq(Nat)
    <3>1. CASE paced' = Append(Pruned(paced), 0)
      <4>1. Pruned(paced) \in Seq(Nat)  BY PacerFront
      <4>2. QED  BY <3>1, <4>1
    <3>2. CASE paced' = paced  BY <3>2 DEF AgesInv
    <3>3. QED
      BY <1>2, <3>1, <3>2 DEF CallerStep, Begin, AwaitRateSlot, TakeSlot, Answered,
                              Unreachable, Overloaded, Retry, CancelCall
  <2>3. \A d \in Callers : \A n \in 1 .. Calls : Unpaced(d, n)' => lag'[<<d, n>>] = 0
    BY <1>2, <2>1, UnpacedShrinks DEF AgesInv
  <2>4. QED  BY <2>1, <2>2, <2>3 DEF AgesInv
<1>3. ASSUME NEW r \in Requests, ServerStep(r) PROVE AgesInv'
  <2>1. /\ lag' = lag /\ caller' = caller /\ paced' = paced
        /\ recent' = recent \/ Arrive(r)
    BY <1>3 DEF ServerStep, Arrive, Enter, Leave, Disconnect
  <2>2. \A i, j \in 1 .. Len(recent') : i <= j => recent'[i].age >= recent'[j].age
    <3> DEFINE w == WithinWindow(recent)
               e == [age |-> 0, lag |-> lag[r], paced |-> IsPaced(r)]
    <3>1. CASE recent' = recent  BY <3>1 DEF AgesInv
    <3>2. /\ w \in Seq(Entries) /\ Len(w) \in Nat
          /\ \A i, j \in 1 .. Len(w) : i <= j => w[i].age >= w[j].age
          /\ \A i \in 1 .. Len(w) : w[i].age \in Nat
      <4>1. PICK k \in 0 .. Len(recent) :
              /\ w \in Seq(Entries) /\ Len(w) = Len(recent) - k
              /\ \A i \in 1 .. Len(recent) - k : w[i] = recent[k + i]
        BY WindowFront
      <4> HIDE DEF w
      <4>2. \A i \in 1 .. Len(w) : w[i] = recent[k + i] /\ k + i \in 1 .. Len(recent)
        BY <1>1, <4>1
      <4>3. \A i, j \in 1 .. Len(w) : i <= j => w[i].age >= w[j].age
        <5> SUFFICES ASSUME NEW i \in 1 .. Len(w), NEW j \in 1 .. Len(w), i <= j
                     PROVE  w[i].age >= w[j].age
          OBVIOUS
        <5>1. k + i <= k + j  BY <4>1
        <5>2. QED  BY <4>2, <5>1 DEF AgesInv
      <4>4. w \in Seq(Entries) /\ Len(w) \in Nat  BY <4>1
      <4>5. \A i \in 1 .. Len(w) : w[i] \in Entries  BY <4>4
      <4>6. \A i \in 1 .. Len(w) : w[i].age \in Nat  BY <4>5 DEF Entries
      <4>7. QED  BY <4>3, <4>4, <4>6
    <3>3. recent' \in {recent, w, Append(w, e)}  BY <2>1 DEF Arrive
    <3>4. e.age = 0  OBVIOUS
    <3> HIDE DEF w, e
    <3>5. CASE recent' = w  BY <3>2, <3>5
    <3>6. CASE recent' = Append(w, e)
      <4>1. /\ Len(recent') = Len(w) + 1 /\ recent'[Len(w) + 1] = e
            /\ \A i \in 1 .. Len(w) : recent'[i] = w[i]
        BY <3>2, <3>6
      <4>2. \A i \in 1 .. Len(w) + 1 : i \in 1 .. Len(w) \/ i = Len(w) + 1  BY <3>2
      <4>3. QED  BY <3>2, <3>4, <4>1, <4>2
    <3>7. QED  BY <3>1, <3>3, <3>5, <3>6
  <2>3. \A d \in Callers : \A n \in 1 .. Calls : Unpaced(d, n)' => lag'[<<d, n>>] = 0
    BY <2>1 DEF AgesInv, Unpaced
  <2>4. QED  BY <2>1, <2>2, <2>3 DEF AgesInv
<1>4. ASSUME Tick PROVE AgesInv'
  <2>1. paced' \in Seq(Nat)
    <3>1. paced' = [i \in 1 .. Len(paced) |-> Older(paced[i])]  BY <1>4 DEF Tick, AgesInv
    <3>2. \A i \in 1 .. Len(paced) : Older(paced[i]) \in Nat  BY <1>1 DEF AgesInv, Older
    <3>3. QED  BY <3>1, <3>2 DEF AgesInv
  <2>2. \A i, j \in 1 .. Len(recent') : i <= j => recent'[i].age >= recent'[j].age
    <3>1. /\ recent' = [i \in 1 .. Len(recent) |-> [recent[i] EXCEPT !.age = Older(@)]]
          /\ \A i \in 1 .. Len(recent) : recent[i] \in Entries
      BY <1>4 DEF Tick, RateInv
    <3>2. Len(recent') = Len(recent)  BY <1>1, <3>1
    <3>3. \A i \in 1 .. Len(recent) : recent[i].age \in Nat
                                        /\ recent'[i].age = Older(recent[i].age)
      BY <3>1 DEF Entries
    <3>4. QED  BY <1>1, <3>2, <3>3 DEF AgesInv, Older
  <2>3. \A d \in Callers : \A n \in 1 .. Calls : Unpaced(d, n)' => lag'[<<d, n>>] = 0
    <3> SUFFICES ASSUME NEW d \in Callers, NEW n \in 1 .. Calls, Unpaced(d, n)'
                 PROVE  lag'[<<d, n>>] = 0
      OBVIOUS
    <3>1. caller'[d].at = caller[d].at /\ caller'[d].made = caller[d].made
      BY <1>4 DEF Tick, CallsInv, CallsTyped
    <3>2. Unpaced(d, n)  BY <3>1 DEF Unpaced
    <3>3. lag'[<<d, n>>] = lag[<<d, n>>]  BY <1>4, <3>2, UnpacedNotOnItsWay DEF Tick
    <3>4. QED  BY <3>2, <3>3 DEF AgesInv
  <2>4. QED  BY <2>1, <2>2, <2>3 DEF AgesInv
<1>5. CASE UNCHANGED vars  BY <1>5 DEF vars, AgesInv, Unpaced
<1>6. QED  BY <1>2, <1>3, <1>4, <1>5 DEF Next


\* The steps of a caller that ask nothing of the pacer bring no new call on its way.
LEMMA CallerLive ==
  ASSUME CallsInv, NEW d \in Callers, CallerStep(d), ~AwaitRateSlot(d)
  PROVE  \A r \in Requests : Live(r)' => Live(r)
<1> SUFFICES ASSUME NEW r \in Requests, Live(r)' PROVE Live(r)  OBVIOUS
<1>1. /\ r[1] \in Callers /\ r[2] \in 1 .. Calls /\ r = <<r[1], r[2]>>
      /\ IsPaced(r) /\ OnItsWay(r)'
  BY DEF Requests, Live, IsPaced
<1>2. ASSUME request'[r] = request[r], caller'[r[1]] = caller[r[1]] PROVE Live(r)
  BY <1>1, <1>2 DEF Live, OnItsWay, Current
<1>3. ASSUME \A c \in Callers : c # d => caller'[c] = caller[c],
             request' = request,
             caller'[d].at \notin {"slot", "sent", "backoff"}
      PROVE  Live(r)
  BY <1>1, <1>2, <1>3 DEF Live, OnItsWay
<1>4. ASSUME NEW out \in Results, Return(d, out)
      PROVE  /\ \A c \in Callers : c # d => caller'[c] = caller[c]
             /\ caller'[d].at \in {"idle", "stopped"}
  BY <1>4 DEF Return, CallsInv, CallsTyped
<1>5. CASE Begin(d)
  <2> DEFINE n == caller[d].made + 1
             asks == IsPaced(<<d, n>>)
  <2>1. /\ \A c \in Callers : c # d => caller'[c] = caller[c]
        /\ caller'[d].made = n
        /\ caller'[d].at = IF asks THEN "rate" ELSE "sent"
        /\ request' = [request EXCEPT ![<<d, n>>] = IF asks THEN "none" ELSE "transit"]
    BY <1>5 DEF Begin, CallsInv, CallsTyped
  <2> HIDE DEF n, asks
  <2>2. CASE r = <<d, n>>
    <3>1. asks  BY <1>1, <2>2 DEF asks
    <3>2. request'[r] = "none" /\ caller'[d].at = "rate" /\ r[1] = d
      BY <2>1, <2>2, <3>1 DEF CallsInv, CallsTyped
    <3>3. QED  BY <1>1, <3>2 DEF OnItsWay
  <2>3. CASE r # <<d, n>> /\ r[1] = d
    <3>1. request'[r] = request[r]  BY <2>1, <2>3 DEF CallsInv, CallsTyped
    <3>2. r # Current(d)'  BY <2>1, <2>3 DEF Current
    <3>3. QED  BY <1>1, <2>3, <3>1, <3>2 DEF Live, OnItsWay
  <2>4. CASE r[1] # d
    <3>1. r # <<d, n>>  BY <2>4
    <3>2. request'[r] = request[r]  BY <2>1, <3>1 DEF CallsInv, CallsTyped
    <3>3. QED  BY <1>1, <1>2, <2>1, <2>4, <3>2
  <2>5. QED  BY <2>2, <2>3, <2>4
<1>6. CASE TakeSlot(d) \/ Retry(d)
  <2>1. /\ \A c \in Callers : c # d => caller'[c] = caller[c]
        /\ caller'[d].made = caller[d].made
        /\ request' = [request EXCEPT ![Current(d)] = "transit"]
        /\ caller[d].at \in {"slot", "backoff"}
    BY <1>6 DEF TakeSlot, Retry, CallsInv, CallsTyped
  <2>2. CASE r = Current(d)
    <3>1. request[r] \in {"none", "rejected"} /\ r[1] = d
      BY <2>1, <2>2 DEF CallsInv, CallerInv, Current
    <3>2. QED  BY <1>1, <2>1, <2>2, <3>1 DEF Live, OnItsWay
  <2>3. CASE r # Current(d)
    <3>1. request'[r] = request[r]  BY <2>1, <2>3 DEF CallsInv, CallsTyped
    <3>2. r[1] = d => r # Current(d)'  BY <2>1, <2>3 DEF Current
    <3>3. CASE r[1] = d  BY <1>1, <3>1, <3>2, <3>3 DEF Live, OnItsWay
    <3>4. CASE r[1] # d  BY <1>1, <1>2, <2>1, <3>1, <3>4
    <3>5. QED  BY <3>3, <3>4
  <2>4. QED  BY <2>2, <2>3
<1>7. CASE Overloaded(d)
  <2>1. CASE \E out \in Results : Return(d, out)
    BY <1>3, <1>4, <1>7, <2>1 DEF Overloaded
  <2>2. ASSUME NEW b \in Backoffs, caller' = [caller EXCEPT ![d] =
                 [@ EXCEPT !.at = "backoff", !.tries = caller[d].tries + 1,
                           !.timer = 0, !.sleep = b]]
        PROVE  Live(r)
    <3>1. /\ \A c \in Callers : c # d => caller'[c] = caller[c]
          /\ caller'[d].made = caller[d].made
          /\ request' = request /\ caller[d].at = "sent"
      BY <1>7, <2>2 DEF Overloaded, CallsInv, CallsTyped
    <3>2. CASE r[1] = d  BY <1>1, <3>1, <3>2 DEF Live, OnItsWay, Current
    <3>3. CASE r[1] # d  BY <1>1, <1>2, <3>1, <3>3
    <3>4. QED  BY <3>2, <3>3
  <2>3. QED  BY <1>7, <2>1, <2>2 DEF Overloaded, Results
<1>8. CASE Answered(d) \/ Unreachable(d) \/ CancelCall(d)
  <2>1. (\E out \in Results : Return(d, out)) /\ request' = request
    BY <1>8 DEF Answered, Unreachable, CancelCall, Results
  <2>2. QED  BY <1>3, <1>4, <2>1
<1>9. QED  BY <1>5, <1>6, <1>7, <1>8 DEF CallerStep

\* Nor does a step of the receiver: a request that leaves the network for the queue,
\* or that is lost, is on its way no more.
LEMMA ServerLive ==
  ASSUME CallsInv, NEW s \in Requests, ServerStep(s)
  PROVE  \A r \in Requests : Live(r)' => Live(r)
<1> SUFFICES ASSUME NEW r \in Requests, Live(r)' PROVE Live(r)  OBVIOUS
<1>1. /\ caller' = caller
      /\ \E new : request' = [request EXCEPT ![s] = new] /\ new # "transit"
      /\ request[s] = "transit" \/ request'[s] \in {"running", "answered", "gone"}
  BY DEF ServerStep, Arrive, Enter, Leave, Disconnect, CallsInv, CallsTyped
<1>2. IsPaced(r) /\ OnItsWay(r)' /\ \A c : Current(c)' = Current(c)
  BY <1>1 DEF Live, IsPaced, Current
<1>3. CASE r = s  BY <1>1, <1>2, <1>3 DEF Live, OnItsWay
<1>4. CASE r # s
  <2>1. request'[r] = request[r]  BY <1>1, <1>4 DEF CallsInv, CallsTyped
  <2>2. QED  BY <1>1, <1>2, <2>1 DEF Live, OnItsWay
<1>5. QED  BY <1>3, <1>4


\* The ledger after a step without pacing and without the passing of time: an
\* admission that is still in the deque keeps its number, and a new one takes
\* the number of the call that has arrived.
LEMMA LedgerMoves ==
  ASSUME NEW h \in Seq(Nat), NEW num \in [Requests -> Nat], NEW nr \in Seq(Nat),
         Ledger(h, num, nr), RateInv, lag' = lag, paced' = paced,
         \A r \in Requests : Live(r)' => Live(r),
         NEW k \in 0 .. Len(recent), NEW s \in Requests, NEW next \in Seq(Nat),
         Len(next) = Len(recent'),
         \A i \in 1 .. Len(recent') :
           \/ /\ k + i \in 1 .. Len(recent)
              /\ recent'[i] = recent[k + i] /\ next[i] = nr[k + i]
           \/ /\ i = Len(recent') /\ next[i] = num[s]
              /\ recent'[i] = [age |-> 0, lag |-> lag[s], paced |-> IsPaced(s)]
              /\ request[s] = "transit" /\ ~Live(s)'
  PROVE  Ledger(h, num, next)'
<1> DEFINE old(i) == /\ k + i \in 1 .. Len(recent)
                     /\ recent'[i] = recent[k + i] /\ next[i] = nr[k + i]
           new(i) == /\ i = Len(recent') /\ next[i] = num[s]
                     /\ recent'[i] = [age |-> 0, lag |-> lag[s], paced |-> IsPaced(s)]
                     /\ request[s] = "transit" /\ ~Live(s)'
<1>1. \A i \in 1 .. Len(recent') : old(i) \/ new(i)  OBVIOUS
<1>2. lag \in [Requests -> Nat]  BY DEF RateInv
<1>3. ASSUME NEW i \in 1 .. Len(recent'), FreshEntry(i)', old(i)
      PROVE  /\ FreshEntry(k + i) /\ k + i \in 1 .. Len(recent) /\ next[i] = nr[k + i]
             /\ recent'[i] = recent[k + i]
  BY <1>3 DEF FreshEntry
<1>4. ASSUME NEW i \in 1 .. Len(recent'), FreshEntry(i)', new(i)
      PROVE  /\ Live(s) /\ next[i] = num[s] /\ i = Len(recent') /\ ~Live(s)'
             /\ recent'[i].age = 0 /\ recent'[i].lag = lag[s]
  BY <1>4 DEF FreshEntry, Live, OnItsWay
<1> HIDE DEF old, new
<1>5. Spaced(h)' /\ Remembered(h)'  BY DEF Ledger, Spaced, Remembered
<1>6. LiveNumbered(h, num)'  BY DEF Ledger, LiveNumbered
<1>7. FreshNumbered(h, next)'
  <2>1. ASSUME NEW i \in 1 .. Len(recent'), FreshEntry(i)'
        PROVE  next[i] \in 1 .. Len(h) /\ h[next[i]] = recent'[i].age + recent'[i].lag
    <3>1. CASE old(i)
      <4>1. /\ FreshEntry(k + i) /\ k + i \in 1 .. Len(recent) /\ next[i] = nr[k + i]
            /\ recent'[i] = recent[k + i]
        BY <1>3, <2>1, <3>1
      <4>2. /\ nr[k + i] \in 1 .. Len(h)
            /\ h[nr[k + i]] = recent[k + i].age + recent[k + i].lag
        BY <4>1 DEF Ledger, FreshNumbered
      <4>3. QED  BY <4>1, <4>2
    <3>2. CASE new(i)
      <4>1. num[s] \in 1 .. Len(h) /\ h[num[s]] = lag[s]
        BY <1>4, <2>1, <3>2 DEF Ledger, LiveNumbered
      <4>2. lag[s] = 0 + lag[s]  BY <1>2
      <4>3. QED  BY <1>4, <2>1, <3>2, <4>1, <4>2
    <3>3. QED  BY <1>1, <3>1, <3>2
  <2>2. ASSUME NEW i \in 1 .. Len(recent'), NEW j \in 1 .. Len(recent'),
               FreshEntry(i)', FreshEntry(j)', next[i] = next[j]
        PROVE  i = j
    <3>1. CASE old(i) /\ old(j)
      <4>1. k + i = k + j  BY <1>3, <2>2, <3>1 DEF Ledger, FreshNumbered
      <4>2. i \in Int /\ j \in Int /\ k \in Int  OBVIOUS
      <4>3. QED  BY <4>1, <4>2
    <3>2. ASSUME NEW x \in 1 .. Len(recent'), NEW y \in 1 .. Len(recent'),
                 FreshEntry(x)', FreshEntry(y)', old(x), new(y)
          PROVE  next[x] # next[y]
      <4>1. FreshEntry(k + x) /\ k + x \in 1 .. Len(recent) /\ next[x] = nr[k + x]
        BY <1>3, <3>2
      <4>2. Live(s) /\ next[y] = num[s]  BY <1>4, <3>2
      <4>3. num[s] # nr[k + x]  BY <4>1, <4>2 DEF Ledger, Apart
      <4>4. QED  BY <4>1, <4>2, <4>3
    <3>3. ~(old(i) /\ new(j)) /\ ~(new(i) /\ old(j))  BY <2>2, <3>2
    <3>4. CASE new(i) /\ new(j)  BY <1>4, <2>2, <3>4
    <3>5. QED  BY <1>1, <3>1, <3>3, <3>4
  <2>3. QED  BY <2>1, <2>2 DEF FreshNumbered
<1>8. Apart(num, next)'
  <2> SUFFICES ASSUME NEW r \in Requests, NEW i \in 1 .. Len(recent'),
                      Live(r)', FreshEntry(i)'
               PROVE  num[r] # next[i]
    BY DEF Apart
  <2>1. Live(r)  OBVIOUS
  <2>2. CASE old(i)  BY <1>3, <2>1, <2>2 DEF Ledger, Apart
  <2>3. CASE new(i)
    <3>1. Live(s) /\ next[i] = num[s] /\ ~Live(s)'  BY <1>4, <2>3
    <3>2. r # s  BY <3>1
    <3>3. QED  BY <2>1, <3>1, <3>2 DEF Ledger, LiveNumbered
  <2>4. QED  BY <1>1, <2>2, <2>3
<1>9. QED  BY <1>5, <1>6, <1>7, <1>8 DEF Ledger


\* A step that leaves both deques as they are keeps the ledger.
LEMMA LedgerStill ==
  ASSUME LedgerInv, lag' = lag, paced' = paced, recent' = recent,
         \A r \in Requests : Live(r)' => Live(r)
  PROVE  LedgerInv'
<1>1. PICK h \in Seq(Nat), num \in [Requests -> Nat], nr \in Seq(Nat) : Ledger(h, num, nr)
  BY DEF LedgerInv
<1>2. \A i : FreshEntry(i)' = FreshEntry(i)  BY DEF FreshEntry
<1>3. Spaced(h)' /\ Remembered(h)'  BY <1>1 DEF Ledger, Spaced, Remembered
<1>4. LiveNumbered(h, num)'  BY <1>1 DEF Ledger, LiveNumbered
<1>5. FreshNumbered(h, nr)'  BY <1>1, <1>2 DEF Ledger, FreshNumbered
<1>6. Apart(num, nr)'  BY <1>1, <1>2 DEF Ledger, Apart
<1>7. Ledger(h, num, nr)'  BY <1>3, <1>4, <1>5, <1>6 DEF Ledger
<1>8. QED  BY <1>1, <1>7 DEF LedgerInv

\* An arrival prunes the deque, and may add to it.
LEMMA LedgerArrive ==
  ASSUME CallsInv, RateInv, AgesInv, LedgerInv, NEW s \in Requests, Arrive(s)
  PROVE  LedgerInv'
<1> DEFINE w == WithinWindow(recent)
           e == [age |-> 0, lag |-> lag[s], paced |-> IsPaced(s)]
<1>1. PICK h \in Seq(Nat), num \in [Requests -> Nat], nr \in Seq(Nat) : Ledger(h, num, nr)
  BY DEF LedgerInv
<1>2. /\ lag' = lag /\ paced' = paced /\ request[s] = "transit"
      /\ \/ recent' = recent
         \/ recent' = w
         \/ recent' = Append(w, e) /\ request' = [request EXCEPT ![s] = "queued"]
  BY DEF Arrive
<1>3. \A r \in Requests : Live(r)' => Live(r)  BY ServerLive DEF ServerStep
<1>4. /\ Len(nr) = Len(recent) /\ Len(recent) \in Nat
  BY <1>1 DEF Ledger, FreshNumbered, RateInv
<1>5. PICK k \in 0 .. Len(recent) :
        /\ w \in Seq(Entries) /\ Len(w) = Len(recent) - k
        /\ \A i \in 1 .. Len(recent) - k : w[i] = recent[k + i]
  BY WindowFront
<1> DEFINE nrw == SubSeq(nr, k + 1, Len(nr))
<1>6. /\ nrw \in Seq(Nat) /\ Len(nrw) = Len(recent) - k
      /\ \A i \in 1 .. Len(recent) - k : nrw[i] = nr[k + i]
  BY <1>1, <1>4, <1>5
<1> HIDE DEF w, e, nrw
<1>7. \A i \in 1 .. Len(recent) - k : k + i \in 1 .. Len(recent)  BY <1>4, <1>5
<1>8. CASE recent' = recent  BY <1>2, <1>3, <1>8, LedgerStill
<1>9. CASE recent' = w
  <2>1. ASSUME NEW i \in 1 .. Len(recent')
        PROVE  \/ /\ k + i \in 1 .. Len(recent)
                  /\ recent'[i] = recent[k + i] /\ nrw[i] = nr[k + i]
               \/ /\ i = Len(recent') /\ nrw[i] = num[s]
                  /\ recent'[i] = [age |-> 0, lag |-> lag[s], paced |-> IsPaced(s)]
                  /\ request[s] = "transit" /\ ~Live(s)'
    BY <1>5, <1>6, <1>7, <1>9
  <2>2. Len(nrw) = Len(recent')  BY <1>5, <1>6, <1>9
  <2>3. Ledger(h, num, nrw)'  BY <1>1, <1>2, <1>3, <1>5, <1>6, <2>1, <2>2, LedgerMoves
  <2>4. QED  BY <1>1, <1>6, <2>3 DEF LedgerInv
<1>10. CASE recent' = Append(w, e) /\ request' = [request EXCEPT ![s] = "queued"]
  <2> DEFINE next == Append(nrw, num[s])
             L == Len(recent) - k
  <2>1. L \in Nat /\ Len(w) = L /\ Len(nrw) = L  BY <1>4, <1>5, <1>6
  <2>2. /\ Len(recent') = L + 1 /\ recent'[L + 1] = e
        /\ \A i \in 1 .. L : recent'[i] = w[i]
    BY <1>5, <1>10, <2>1
  <2>3. num[s] \in Nat  BY <1>1
  <2>4. /\ next \in Seq(Nat) /\ Len(next) = L + 1 /\ next[L + 1] = num[s]
        /\ \A i \in 1 .. L : next[i] = nrw[i]
    BY <1>6, <2>1, <2>3
  <2>5. ~Live(s)'
    <3>1. request'[s] = "queued"  BY <1>10 DEF CallsInv, CallsTyped
    <3>2. QED  BY <3>1 DEF Live, OnItsWay
  <2>6. /\ \A i \in 1 .. L : k + i \in 1 .. Len(recent)
        /\ \A i \in 1 .. L : w[i] = recent[k + i]
        /\ \A i \in 1 .. L : nrw[i] = nr[k + i]
    BY <1>5, <1>6, <1>7
  <2> HIDE DEF next, L
  <2>7. \A i \in 1 .. L + 1 : i \in 1 .. L \/ i = L + 1  BY <2>1
  <2>8. ASSUME NEW i \in 1 .. Len(recent')
        PROVE  \/ /\ k + i \in 1 .. Len(recent)
                  /\ recent'[i] = recent[k + i] /\ next[i] = nr[k + i]
               \/ /\ i = Len(recent') /\ next[i] = num[s]
                  /\ recent'[i] = [age |-> 0, lag |-> lag[s], paced |-> IsPaced(s)]
                  /\ request[s] = "transit" /\ ~Live(s)'
    <3>1. CASE i \in 1 .. L  BY <2>2, <2>4, <2>6, <3>1
    <3>2. CASE i = L + 1  BY <1>2, <2>2, <2>4, <2>5, <3>2 DEF e
    <3>3. QED  BY <2>2, <2>7, <3>1, <3>2
  <2>9. Len(next) = Len(recent')  BY <2>2, <2>4
  <2>10. Ledger(h, num, next)'  BY <1>1, <1>2, <1>3, <1>5, <2>4, <2>8, <2>9, LedgerMoves
  <2>11. QED  BY <1>1, <2>4, <2>10 DEF LedgerInv
<1>11. QED  BY <1>2, <1>8, <1>9, <1>10


\* As time passes every age of the history grows with it.
LEMMA LedgerTick ==
  ASSUME CallsInv, RateInv, AgesInv, LedgerInv, Tick
  PROVE  LedgerInv'
<1>1. PICK h \in Seq(Nat), num \in [Requests -> Nat], nr \in Seq(Nat) : Ledger(h, num, nr)
  BY DEF LedgerInv
<1> DEFINE N == Len(h)
           next == [j \in 1 .. N |-> h[j] + 1]
<1>2. Window \in Nat /\ Rate \in Nat  BY LimitsAssumption
<1>3. N \in Nat /\ \A j \in 1 .. N : h[j] \in Nat  BY <1>1
<1>4. /\ next \in Seq(Nat) /\ Len(next) = N
      /\ \A j \in 1 .. N : next[j] = h[j] + 1
  BY <1>3
<1> HIDE DEF next
<1>5. /\ \A r \in Requests : Live(r)' <=> Live(r)
      /\ \A r \in Requests : Live(r) => lag'[r] = lag[r] + 1
  <2>1. /\ request' = request
        /\ \A c \in Callers : caller'[c].at = caller[c].at /\ caller'[c].made = caller[c].made
        /\ lag' = [r \in Requests |-> IF OnItsWay(r) THEN lag[r] + 1 ELSE lag[r]]
    BY DEF Tick, CallsInv, CallsTyped
  <2>2. \A r \in Requests : r[1] \in Callers  BY DEF Requests
  <2>3. \A r \in Requests : Current(r[1])' = Current(r[1])  BY <2>1, <2>2 DEF Current
  <2>4. \A r \in Requests : OnItsWay(r)' <=> OnItsWay(r)
    BY <2>1, <2>2, <2>3 DEF OnItsWay
  <2>5. QED  BY <2>1, <2>4 DEF Live, IsPaced
<1>6. /\ Len(recent') = Len(recent)
      /\ \A i \in 1 .. Len(recent) : FreshEntry(i)' =>
           /\ FreshEntry(i)
           /\ recent'[i].age + recent'[i].lag = (recent[i].age + recent[i].lag) + 1
  <2>1. /\ recent' = [i \in 1 .. Len(recent) |-> [recent[i] EXCEPT !.age = Older(@)]]
        /\ \A i \in 1 .. Len(recent) : recent[i] \in Entries
        /\ Len(recent) \in Nat
    BY DEF Tick, RateInv
  <2>2. Len(recent') = Len(recent)  BY <2>1
  <2>3. \A i \in 1 .. Len(recent) :
          /\ recent[i].age \in Nat /\ recent[i].lag \in Nat
          /\ recent'[i].age = Older(recent[i].age)
          /\ recent'[i].lag = recent[i].lag /\ recent'[i].paced = recent[i].paced
    BY <2>1 DEF Entries
  <2>4. ASSUME NEW i \in 1 .. Len(recent), FreshEntry(i)'
        PROVE  /\ FreshEntry(i)
               /\ recent'[i].age + recent'[i].lag = (recent[i].age + recent[i].lag) + 1
    <3>1. recent'[i].paced /\ recent'[i].age <= Window  BY <2>4 DEF FreshEntry
    <3>2. recent[i].age <= Window /\ recent'[i].age = recent[i].age + 1
      <4>1. /\ recent[i].age \in Nat
            /\ recent'[i].age = IF recent[i].age > Window THEN recent[i].age
                                ELSE recent[i].age + 1
        BY <2>3 DEF Older
      <4>2. QED  BY <1>2, <3>1, <4>1
    <3>3. FreshEntry(i)  BY <2>3, <3>1, <3>2 DEF FreshEntry
    <3>4. QED  BY <2>3, <3>2, <3>3
  <2>5. QED  BY <2>2, <2>4
<1>7. Spaced(next)
  <2> SUFFICES ASSUME NEW i \in 1 .. N, NEW j \in 1 .. N
               PROVE  i + Rate <= j => next[i] > next[j] + Window
    BY <1>4 DEF Spaced
  <2>1. i + Rate <= j => h[i] > h[j] + Window
    BY <1>1 DEF Ledger, Spaced
  <2>2. next[i] = h[i] + 1 /\ next[j] = h[j] + 1 /\ h[i] \in Nat /\ h[j] \in Nat
    BY <1>3, <1>4
  <2>3. QED  BY <1>2, <2>1, <2>2
<1>8. Remembered(next)'
  <2> DEFINE M == Len(paced)
  <2>1. /\ M \in Nat /\ M <= N
        /\ \A j \in 1 .. N - M : h[j] > Window
        /\ \A i \in 1 .. M : h[N - M + i] >= paced[i]
        /\ \A i \in 1 .. M : paced[i] \in Nat
    BY <1>1 DEF Ledger, Remembered, AgesInv
  <2>2. paced' = [i \in 1 .. M |-> Older(paced[i])]  BY DEF Tick, AgesInv
  <2>3. Len(paced') = M /\ \A i \in 1 .. M : paced'[i] = Older(paced[i])  BY <2>1, <2>2
  <2> HIDE DEF M, N
  <2>4. \A j \in 1 .. N - M : next[j] > Window
    <3> SUFFICES ASSUME NEW j \in 1 .. N - M PROVE next[j] > Window  OBVIOUS
    <3>1. j \in 1 .. N  BY <1>3, <2>1
    <3>2. next[j] = h[j] + 1 /\ h[j] \in Nat /\ h[j] > Window  BY <1>3, <1>4, <2>1, <3>1
    <3>3. QED  BY <1>2, <3>2
  <2>5. \A i \in 1 .. M : next[N - M + i] >= paced'[i]
    <3> SUFFICES ASSUME NEW i \in 1 .. M PROVE next[N - M + i] >= paced'[i]  OBVIOUS
    <3>1. N - M + i \in 1 .. N  BY <1>3, <2>1
    <3>2. /\ next[N - M + i] = h[N - M + i] + 1 /\ h[N - M + i] \in Nat
          /\ h[N - M + i] >= paced[i] /\ paced[i] \in Nat
      BY <1>3, <1>4, <2>1, <3>1
    <3>3. paced'[i] <= paced[i] + 1  BY <1>2, <2>3, <3>2 DEF Older
    <3>4. paced'[i] \in Nat  BY <1>2, <2>3, <3>2 DEF Older
    <3>5. QED  BY <3>2, <3>3, <3>4
  <2>6. QED  BY <1>4, <2>1, <2>3, <2>4, <2>5 DEF Remembered
<1>9. LiveNumbered(next, num)'
  <2>1. ASSUME NEW r \in Requests, Live(r)'
        PROVE  num[r] \in 1 .. Len(next) /\ next[num[r]] = lag'[r]
    <3>1. Live(r) /\ lag'[r] = lag[r] + 1  BY <1>5, <2>1
    <3>2. num[r] \in 1 .. N /\ h[num[r]] = lag[r]
      BY <1>1, <3>1 DEF Ledger, LiveNumbered
    <3>3. QED  BY <1>4, <3>1, <3>2
  <2>2. \A r, s \in Requests : Live(r)' /\ Live(s)' /\ num[r] = num[s] => r = s
    BY <1>1, <1>5 DEF Ledger, LiveNumbered
  <2>3. QED  BY <2>1, <2>2 DEF LiveNumbered
<1>10. FreshNumbered(next, nr)'
  <2>1. ASSUME NEW i \in 1 .. Len(recent'), FreshEntry(i)'
        PROVE  nr[i] \in 1 .. Len(next) /\ next[nr[i]] = recent'[i].age + recent'[i].lag
    <3>1. /\ i \in 1 .. Len(recent) /\ FreshEntry(i)
          /\ recent'[i].age + recent'[i].lag = (recent[i].age + recent[i].lag) + 1
      BY <1>6, <2>1
    <3>2. nr[i] \in 1 .. N /\ h[nr[i]] = recent[i].age + recent[i].lag
      BY <1>1, <3>1 DEF Ledger, FreshNumbered
    <3>3. QED  BY <1>4, <3>1, <3>2
  <2>2. /\ Len(nr) = Len(recent')
        /\ \A i, j \in 1 .. Len(recent') :
             FreshEntry(i)' /\ FreshEntry(j)' /\ nr[i] = nr[j] => i = j
    BY <1>1, <1>6 DEF Ledger, FreshNumbered
  <2>3. QED  BY <2>1, <2>2 DEF FreshNumbered
<1>11. Apart(num, nr)'  BY <1>1, <1>5, <1>6 DEF Ledger, Apart
<1>12. Spaced(next)'  BY <1>7 DEF Spaced
<1>13. Ledger(next, num, nr)'  BY <1>8, <1>9, <1>10, <1>11, <1>12 DEF Ledger
<1>14. QED  BY <1>1, <1>4, <1>13 DEF LedgerInv


\* A call that takes its place in the pacer's window is the last of the history, and
\* the call Rate places before it has left the window.
LEMMA LedgerPace ==
  ASSUME CallsInv, RateInv, AgesInv, LedgerInv, NEW d \in Callers, AwaitRateSlot(d)
  PROVE  LedgerInv'
<1>1. PICK h \in Seq(Nat), num \in [Requests -> Nat], nr \in Seq(Nat) : Ledger(h, num, nr)
  BY DEF LedgerInv
<1> DEFINE N == Len(h)
           M == Len(paced)
           next == Append(h, 0)
<1>2. Window \in Nat /\ Rate \in Nat \ {0}  BY LimitsAssumption
<1>3. N \in Nat /\ \A j \in 1 .. N : h[j] \in Nat  BY <1>1
<1>4. /\ next \in Seq(Nat) /\ Len(next) = N + 1 /\ next[N + 1] = 0
      /\ \A j \in 1 .. N : next[j] = h[j]
  BY <1>1, <1>3
<1>5. /\ lag' = lag /\ recent' = recent /\ request' = request
      /\ caller' = [caller EXCEPT ![d].at = "slot"] /\ caller[d].at = "rate"
      /\ Len(Pruned(paced)) < Rate /\ paced' = Append(Pruned(paced), 0)
  BY DEF AwaitRateSlot, serverVars
<1>6. PICK p \in Requests : p = Current(d) /\ p[1] = d /\ lag[p] = 0
  <2>1. caller[d].made # 0  BY <1>5 DEF CallsInv, CallerInv, InCall
  <2>2. Current(d) \in Requests /\ Current(d) = <<d, caller[d].made>>
    BY <2>1, CurrentRequest DEF CallsInv
  <2>3. caller[d].made \in 1 .. Calls  BY <2>2 DEF Requests
  <2>4. Unpaced(d, caller[d].made)  BY <1>5 DEF Unpaced
  <2>5. lag[<<d, caller[d].made>>] = 0  BY <2>3, <2>4 DEF AgesInv
  <2>6. QED  BY <2>2, <2>5
<1> DEFINE num2 == [num EXCEPT ![p] = N + 1]
<1>7. /\ num2 \in [Requests -> Nat] /\ num2[p] = N + 1
      /\ \A r \in Requests : r # p => num2[r] = num[r]
  BY <1>1, <1>3, <1>6
<1> HIDE DEF next, num2
<1>8. \A r \in Requests : Live(r)' => Live(r) \/ r = p
  <2> SUFFICES ASSUME NEW r \in Requests, Live(r)', r # p PROVE Live(r)  OBVIOUS
  <2>1. r[1] \in Callers /\ IsPaced(r) /\ OnItsWay(r)'  BY DEF Requests, Live, IsPaced
  <2>2. CASE r[1] = d
    <3>1. Current(d)' = p  BY <1>5, <1>6 DEF Current, CallsInv, CallsTyped
    <3>2. request[r] = "transit"  BY <1>5, <2>1, <2>2, <3>1 DEF OnItsWay
    <3>3. QED  BY <2>1, <3>2 DEF Live, OnItsWay
  <2>3. CASE r[1] # d
    <3>1. caller'[r[1]] = caller[r[1]]  BY <1>5, <2>1, <2>3 DEF CallsInv, CallsTyped
    <3>2. QED  BY <1>5, <2>1, <3>1 DEF Live, OnItsWay, Current
  <2>4. QED  BY <2>2, <2>3
<1>9. PICK k \in 0 .. M :
        /\ Pruned(paced) \in Seq(Nat) /\ Len(Pruned(paced)) = M - k
        /\ \A i \in 1 .. M - k : Pruned(paced)[i] = paced[k + i]
        /\ \A i \in 1 .. k : paced[i] > Window
  BY PacerFront
<1>10. /\ M \in Nat /\ M <= N
       /\ \A j \in 1 .. N - M : h[j] > Window
       /\ \A i \in 1 .. M : h[N - M + i] >= paced[i]
       /\ \A i \in 1 .. M : paced[i] \in Nat
  <2>1. M \in Nat /\ \A i \in 1 .. M : paced[i] \in Nat  BY DEF AgesInv
  <2>2. Remembered(h)  BY <1>1 DEF Ledger
  <2>3. QED  BY <2>1, <2>2, Zenon DEF Remembered
<1>11. Spaced(h)  BY <1>1 DEF Ledger
<1>12. /\ Len(paced') = (M - k) + 1 /\ paced'[(M - k) + 1] = 0
       /\ \A i \in 1 .. M - k : paced'[i] = paced[k + i]
  <2>1. M - k \in Nat  BY <1>9, <1>10
  <2>2. QED  BY <1>5, <1>9, <2>1
<1>13. k \in 0 .. M /\ M - k < Rate  BY <1>5, <1>9
<1> HIDE DEF M, N
<1>14. ASSUME NEW j \in 1 .. (N - M) + k
       PROVE  j \in 1 .. N /\ h[j] > Window
  <2>1. j \in 1 .. N  BY <1>3, <1>10, <1>13
  <2>2. CASE j <= N - M  BY <1>3, <1>10, <2>1, <2>2
  <2>3. CASE j > N - M
    <3> DEFINE x == j - (N - M)
    <3>1. x \in 1 .. k /\ x \in 1 .. M /\ (N - M) + x = j  BY <1>3, <1>10, <1>13, <2>1, <2>3
    <3> HIDE DEF x
    <3>2. paced[x] > Window /\ paced[x] \in Nat  BY <1>9, <1>10, <3>1
    <3>3. h[j] >= paced[x]  BY <1>10, <3>1
    <3>4. h[j] \in Nat  BY <1>3, <2>1
    <3>5. QED  BY <1>2, <2>1, <3>2, <3>3, <3>4
  <2>4. QED  BY <1>3, <1>10, <2>1, <2>2, <2>3
<1>15. Spaced(next)
  <2> SUFFICES ASSUME NEW i \in 1 .. N + 1, NEW j \in 1 .. N + 1
               PROVE  i + Rate <= j => next[i] > next[j] + Window
    BY <1>4 DEF Spaced
  <2>1. CASE i \in 1 .. N /\ j \in 1 .. N
    <3>1. i + Rate <= j => h[i] > h[j] + Window
      BY <1>11, <2>1 DEF Spaced, N
    <3>2. QED  BY <1>4, <2>1, <3>1
  <2>2. CASE i \in 1 .. N /\ j = N + 1
    <3>1. next[i] = h[i] /\ next[j] = 0 /\ h[i] \in Nat  BY <1>3, <1>4, <2>2
    <3>2. ASSUME i + Rate <= j PROVE h[i] > Window
      <4>1. i \in 1 .. (N - M) + k  BY <1>2, <1>3, <1>10, <1>13, <2>2, <3>2
      <4>2. QED  BY <1>14, <4>1
    <3>3. QED  BY <1>2, <3>1, <3>2
  <2>3. CASE i = N + 1  BY <1>2, <1>3, <2>3
  <2>4. i \in 1 .. N \/ i = N + 1  BY <1>3
  <2>5. j \in 1 .. N \/ j = N + 1  BY <1>3
  <2>6. QED  BY <2>1, <2>2, <2>3, <2>4, <2>5
<1>16. Remembered(next)'
  <2>1. /\ Len(paced') <= Len(next)
        /\ Len(next) - Len(paced') = (N - M) + k
        /\ Len(next) - Len(paced') \in Nat
    BY <1>3, <1>4, <1>10, <1>12, <1>13
  <2>2. ASSUME NEW j \in 1 .. (N - M) + k PROVE next[j] > Window  BY <1>4, <1>14
  <2>3. ASSUME NEW i \in 1 .. Len(paced') PROVE next[(N - M) + k + i] >= paced'[i]
    <3>1. CASE i \in 1 .. M - k
      <4>1. /\ k + i \in 1 .. M /\ (N - M) + k + i = N - M + (k + i)
            /\ (N - M) + k + i \in 1 .. N
        BY <1>3, <1>10, <1>13, <3>1
      <4>2. h[N - M + (k + i)] >= paced[k + i]  BY <1>10, <4>1
      <4>3. QED  BY <1>4, <1>12, <3>1, <4>1, <4>2
    <3>2. CASE i = (M - k) + 1
      <4>1. (N - M) + k + i = N + 1  BY <1>3, <1>10, <1>13, <3>2
      <4>2. QED  BY <1>4, <1>12, <3>2, <4>1
    <3>3. i \in 1 .. M - k \/ i = (M - k) + 1  BY <1>10, <1>12, <1>13
    <3>4. QED  BY <3>1, <3>2, <3>3
  <2>4. QED  BY <2>1, <2>2, <2>3 DEF Remembered
<1>17. LiveNumbered(next, num2)'
  <2>1. ASSUME NEW r \in Requests, Live(r)'
        PROVE  /\ num2[r] \in 1 .. Len(next) /\ next[num2[r]] = lag'[r]
               /\ r # p => num2[r] \in 1 .. N
    <3>1. CASE r = p  BY <1>3, <1>4, <1>5, <1>6, <1>7, <3>1
    <3>2. CASE r # p
      <4>1. num[r] \in 1 .. N /\ h[num[r]] = lag[r]
        BY <1>1, <1>8, <2>1, <3>2 DEF Ledger, LiveNumbered, N
      <4>2. num[r] \in 1 .. N + 1 /\ next[num[r]] = h[num[r]]  BY <1>3, <1>4, <4>1
      <4>3. QED  BY <1>4, <1>5, <1>7, <3>2, <4>1, <4>2
    <3>3. QED  BY <3>1, <3>2
  <2>2. ASSUME NEW r \in Requests, NEW s \in Requests, Live(r)', Live(s)', num2[r] = num2[s]
        PROVE  r = s
    <3>1. N + 1 \notin 1 .. N  BY <1>3
    <3>2. CASE r # p /\ s # p
      BY <1>1, <1>7, <1>8, <2>2, <3>2 DEF Ledger, LiveNumbered
    <3>3. CASE r = p \/ s = p  BY <1>7, <2>1, <2>2, <3>1, <3>3
    <3>4. QED  BY <3>2, <3>3
  <2>3. /\ \A r \in Requests :
             Live(r)' => num2[r] \in 1 .. Len(next) /\ next[num2[r]] = lag'[r]
        /\ \A r, s \in Requests : Live(r)' /\ Live(s)' /\ num2[r] = num2[s] => r = s
    BY <2>1, <2>2
  <2>4. QED  BY <2>3, Zenon DEF LiveNumbered
<1>18. \A i \in 1 .. Len(recent) :
         FreshEntry(i) => nr[i] \in 1 .. N /\ h[nr[i]] = recent[i].age + recent[i].lag
  BY <1>1 DEF Ledger, FreshNumbered, N
<1>19. FreshNumbered(next, nr)'
  <2>1. ASSUME NEW i \in 1 .. Len(recent), FreshEntry(i)
        PROVE  nr[i] \in 1 .. Len(next) /\ next[nr[i]] = recent[i].age + recent[i].lag
    <3>1. nr[i] \in 1 .. N /\ h[nr[i]] = recent[i].age + recent[i].lag  BY <1>18, <2>1
    <3>2. nr[i] \in 1 .. N + 1 /\ next[nr[i]] = h[nr[i]]  BY <1>3, <1>4, <3>1
    <3>3. QED  BY <1>4, <3>1, <3>2
  <2>2. /\ Len(nr) = Len(recent)
        /\ \A i, j \in 1 .. Len(recent) :
             FreshEntry(i) /\ FreshEntry(j) /\ nr[i] = nr[j] => i = j
    BY <1>1 DEF Ledger, FreshNumbered
  <2>3. \A i : FreshEntry(i)' = FreshEntry(i)  BY <1>5 DEF FreshEntry
  <2>4. QED  BY <1>5, <2>1, <2>2, <2>3 DEF FreshNumbered
<1>20. Apart(num2, nr)'
  <2> SUFFICES ASSUME NEW r \in Requests, NEW i \in 1 .. Len(recent), Live(r)', FreshEntry(i)
               PROVE  num2[r] # nr[i]
    <3>1. \A i : FreshEntry(i)' = FreshEntry(i)  BY <1>5 DEF FreshEntry
    <3>2. QED  BY <1>5, <3>1 DEF Apart
  <2>1. CASE r = p
    <3>1. N + 1 \notin 1 .. N  BY <1>3
    <3>2. QED  BY <1>7, <1>18, <2>1, <3>1
  <2>2. CASE r # p  BY <1>1, <1>7, <1>8, <2>2 DEF Ledger, Apart
  <2>3. QED  BY <2>1, <2>2
<1>21. Spaced(next)'  BY <1>15 DEF Spaced
<1>22. Ledger(next, num2, nr)'  BY <1>16, <1>17, <1>19, <1>20, <1>21 DEF Ledger
<1>23. next \in Seq(Nat) /\ num2 \in [Requests -> Nat]  BY <1>4, <1>7
<1>24. QED  BY <1>1, <1>22, <1>23, Zenon DEF LedgerInv


\* At first there is nothing to number.
LEMMA LedgerInit == Init => AgesInv /\ LedgerInv
<1> SUFFICES ASSUME Init PROVE AgesInv /\ LedgerInv  OBVIOUS
<1>1. /\ paced = <<>> /\ recent = <<>>
      /\ \A r \in Requests : lag[r] = 0 /\ request[r] = "none"
      /\ \A c \in Callers : caller[c].at = "idle"
  BY DEF Init
<1>2. AgesInv
  <2>1. \A c \in Callers : \A n \in 1 .. Calls : <<c, n>> \in Requests  BY DEF Requests
  <2>2. QED  BY <1>1, <2>1 DEF AgesInv
<1>3. \A r \in Requests : ~Live(r)
  <2>1. \A r \in Requests : r[1] \in Callers  BY DEF Requests
  <2>2. QED  BY <1>1, <2>1 DEF Live, OnItsWay
<1>4. PICK num \in [Requests -> Nat] : TRUE
  <2>1. [r \in Requests |-> 0] \in [Requests -> Nat]  OBVIOUS
  <2>2. QED  BY <2>1
<1>5. Len(recent) = 0 /\ Len(paced) = 0 /\ Len(<<>>) = 0 /\ <<>> \in Seq(Nat)  BY <1>1
<1>6. Spaced(<<>>) /\ Remembered(<<>>)  BY <1>5 DEF Spaced, Remembered
<1>7. LiveNumbered(<<>>, num) /\ FreshNumbered(<<>>, <<>>) /\ Apart(num, <<>>)
  BY <1>3, <1>5 DEF LiveNumbered, FreshNumbered, Apart
<1>8. Ledger(<<>>, num, <<>>)  BY <1>6, <1>7 DEF Ledger
<1>9. LedgerInv  BY <1>4, <1>5, <1>8, Zenon DEF LedgerInv
<1>10. QED  BY <1>2, <1>9

\* Every step keeps the ledger.
LEMMA LedgerStep == CallsInv /\ RateInv /\ AgesInv /\ LedgerInv /\ [Next]_vars => LedgerInv'
<1> SUFFICES ASSUME CallsInv, RateInv, AgesInv, LedgerInv, [Next]_vars PROVE LedgerInv'
  OBVIOUS
<1>1. ASSUME NEW c \in Callers, CallerStep(c) PROVE LedgerInv'
  <2>1. CASE AwaitRateSlot(c)  BY <2>1, LedgerPace
  <2>2. CASE ~AwaitRateSlot(c)
    <3>1. lag' = lag /\ paced' = paced /\ recent' = recent
      BY <1>1, <2>2 DEF CallerStep, Begin, TakeSlot, Answered, Unreachable, Overloaded,
                        Retry, CancelCall, serverVars
    <3>2. QED  BY <1>1, <2>2, <3>1, CallerLive, LedgerStill
  <2>3. QED  BY <2>1, <2>2
<1>2. ASSUME NEW r \in Requests, ServerStep(r) PROVE LedgerInv'
  <2>1. CASE Arrive(r)  BY <2>1, LedgerArrive
  <2>2. CASE ~Arrive(r)
    <3>1. lag' = lag /\ paced' = paced /\ recent' = recent
      BY <1>2, <2>2 DEF ServerStep, Enter, Leave, Disconnect
    <3>2. QED  BY <1>2, <3>1, ServerLive, LedgerStill
  <2>3. QED  BY <2>1, <2>2
<1>3. CASE Tick  BY <1>3, LedgerTick
<1>4. CASE UNCHANGED vars
  <2>1. /\ lag' = lag /\ paced' = paced /\ recent' = recent
        /\ \A r \in Requests : Live(r)' => Live(r)
    BY <1>4 DEF vars, Live, OnItsWay, Current, IsPaced
  <2>2. QED  BY <2>1, LedgerStill
<1>5. QED  BY <1>1, <1>2, <1>3, <1>4 DEF Next


\* No Rate + 1 calls of the history lie within one window.
LEMMA WindowHoldsRate ==
  ASSUME NEW h \in Seq(Nat), Spaced(h), NEW f \in [0 .. Rate -> 1 .. Len(h)],
         \A x, y \in 0 .. Rate : f[x] = f[y] => x = y,
         NEW L \in Nat, \A x \in 0 .. Rate : L <= h[f[x]] /\ h[f[x]] <= L + Window
  PROVE  FALSE
<1>1. Window \in Nat /\ Rate \in Nat \ {0}  BY LimitsAssumption
<1> DEFINE I == {f[x] : x \in 0 .. Rate}
           m == Min(I)
<1>2. I \subseteq 1 .. Len(h) /\ I \subseteq Nat /\ f[0] \in I  BY <1>1
<1>3. m \in I /\ \A i \in I : m <= i
  <2> HIDE DEF I
  <2>1. QED  BY <1>2, FirstFresh
<1>4. m \in 1 .. Len(h) /\ L <= h[m] /\ h[m] <= L + Window  BY <1>2, <1>3
<1>5. \A x \in 0 .. Rate : m <= f[x] /\ f[x] \in 1 .. Len(h)  BY <1>3
<1> HIDE DEF I, m
<1>6. ASSUME NEW x \in 0 .. Rate PROVE f[x] \in m .. (m + Rate) - 1
  <2>1. h[f[x]] \in Nat /\ h[m] \in Nat  BY <1>4, <1>5
  <2>2. ~(m + Rate <= f[x])
    <3> SUFFICES ASSUME m + Rate <= f[x] PROVE FALSE  OBVIOUS
    <3>1. h[m] > h[f[x]] + Window  BY <1>4, <1>5 DEF Spaced
    <3>2. L <= h[f[x]]  OBVIOUS
    <3>3. \A a, b \in Nat : a > b + Window /\ L <= b => ~(a <= L + Window)  BY <1>1
    <3>4. QED  BY <1>4, <2>1, <3>1, <3>2, <3>3, Zenon
  <2>3. m \in Nat /\ f[x] \in Nat /\ m <= f[x]  BY <1>4, <1>5
  <2>4. QED  BY <1>1, <2>2, <2>3
<1> DEFINE S == 0 .. Rate
           T == m .. (m + Rate) - 1
<1>7. m \in Nat  BY <1>4
<1>8. IsFiniteSet(S) /\ Cardinality(S) = Rate + 1
  <2>1. 0 \in Int /\ Rate \in Int /\ ~(0 > Rate) /\ Rate - 0 + 1 = Rate + 1  BY <1>1
  <2>2. QED  BY <2>1, FS_Interval
<1>9. IsFiniteSet(T) /\ Cardinality(T) = Rate
  <2>1. /\ m \in Int /\ (m + Rate) - 1 \in Int /\ ~(m > (m + Rate) - 1)
        /\ ((m + Rate) - 1) - m + 1 = Rate
    BY <1>1, <1>7
  <2>2. QED  BY <2>1, FS_Interval
<1>10. f \in [S -> T]  BY <1>6
<1>11. Cardinality(T) < Cardinality(S)
  <2>1. Rate < Rate + 1  BY <1>1
  <2>2. QED  BY <1>8, <1>9, <2>1, Zenon
<1>12. \A x, y \in S : f[x] = f[y] => x = y  OBVIOUS
<1> HIDE DEF S, T
<1>13. \E x, y \in S : x # y /\ f[x] = f[y]
  <2>1. IsFiniteSet(S) /\ IsFiniteSet(T)  BY <1>8, <1>9
  <2>2. QED  BY <1>10, <1>11, <2>1, FS_PigeonHole, Zenon
<1>14. QED  BY <1>12, <1>13

\* The refusal of a paced call by the rate of the receiver, in the words of the ledger.
LEMMA RejectionHasCause ==
  ASSUME CallsInv, RateInv, AgesInv, LedgerInv, NEW r \in Requests, IsPaced(r),
         request[r] = "transit", ~(Len(WithinWindow(recent)) < Rate)
  PROVE  \E i \in DOMAIN WithinWindow(recent) :
           ~WithinWindow(recent)[i].paced \/ WithinWindow(recent)[i].lag # lag[r]
<1> DEFINE w == WithinWindow(recent)
<1> SUFFICES ASSUME \A i \in DOMAIN w : w[i].paced /\ w[i].lag = lag[r] PROVE FALSE
  OBVIOUS
<1>1. PICK h \in Seq(Nat), num \in [Requests -> Nat], nr \in Seq(Nat) : Ledger(h, num, nr)
  BY DEF LedgerInv
<1>2. Rate \in Nat \ {0} /\ Window \in Nat /\ lag[r] \in Nat
  <2>1. Rate \in Nat \ {0} /\ Window \in Nat  BY LimitsAssumption
  <2>2. lag[r] \in Nat  BY DEF RateInv
  <2>3. QED  BY <2>1, <2>2
<1>3. PICK k \in 0 .. Len(recent) :
        /\ w \in Seq(Entries) /\ Len(w) = Len(recent) - k
        /\ \A i \in 1 .. Len(recent) - k : w[i] = recent[k + i]
        /\ \A i \in 1 .. Len(recent) - k : recent[k + i].age <= Window
  BY WindowFront
<1>4. Len(w) \in Nat /\ ~(Len(w) < Rate) /\ DOMAIN w = 1 .. Len(w) /\ Len(recent) \in Nat
  BY <1>3 DEF RateInv
<1> HIDE DEF w
<1>5. ASSUME NEW x \in 1 .. Rate
      PROVE  /\ k + x \in 1 .. Len(recent) /\ FreshEntry(k + x)
             /\ nr[k + x] \in 1 .. Len(h)
             /\ lag[r] <= h[nr[k + x]] /\ h[nr[k + x]] <= lag[r] + Window
  <2>1. x \in 1 .. Len(w)  BY <1>2, <1>4
  <2>2. k + x \in 1 .. Len(recent)  BY <1>3, <1>4, <2>1
  <2>3. w[x] = recent[k + x] /\ recent[k + x].age <= Window  BY <1>3, <2>1
  <2>4. recent[k + x].paced /\ recent[k + x].lag = lag[r]  BY <1>4, <2>1, <2>3
  <2>5. recent[k + x].age \in Nat
    <3>1. recent[k + x] \in Entries  BY <2>2 DEF RateInv
    <3>2. QED  BY <3>1 DEF Entries
  <2>6. FreshEntry(k + x)  BY <2>3, <2>4 DEF FreshEntry
  <2>7. nr[k + x] \in 1 .. Len(h) /\ h[nr[k + x]] = recent[k + x].age + recent[k + x].lag
    BY <1>1, <2>2, <2>6 DEF Ledger, FreshNumbered
  <2>8. \A a \in Nat : a <= Window => lag[r] <= a + lag[r] /\ a + lag[r] <= lag[r] + Window
    BY <1>2
  <2>9. h[nr[k + x]] = recent[k + x].age + lag[r]  BY <2>4, <2>7
  <2>10. lag[r] <= h[nr[k + x]] /\ h[nr[k + x]] <= lag[r] + Window
    BY <2>3, <2>5, <2>8, <2>9, Zenon
  <2>11. QED  BY <2>2, <2>6, <2>7, <2>10
<1>6. Live(r)  BY DEF Live, OnItsWay
<1>7. num[r] \in 1 .. Len(h) /\ h[num[r]] = lag[r]
  BY <1>1, <1>6 DEF Ledger, LiveNumbered
<1> DEFINE f == [x \in 0 .. Rate |-> IF x = 0 THEN num[r] ELSE nr[k + x]]
<1>8. \A x \in 0 .. Rate : x = 0 \/ x \in 1 .. Rate  BY <1>2
<1>9. f \in [0 .. Rate -> 1 .. Len(h)]  BY <1>5, <1>7, <1>8
<1>10. \A x \in 0 .. Rate : lag[r] <= h[f[x]] /\ h[f[x]] <= lag[r] + Window
  <2>1. lag[r] <= lag[r] /\ lag[r] <= lag[r] + Window  BY <1>2
  <2>2. QED  BY <1>5, <1>7, <1>8, <2>1
<1>11. ASSUME NEW x \in 0 .. Rate, NEW y \in 0 .. Rate, f[x] = f[y] PROVE x = y
  <2>1. CASE x = 0 /\ y = 0  BY <2>1
  <2>2. CASE x = 0 /\ y \in 1 .. Rate
    BY <1>1, <1>5, <1>6, <1>11, <2>2 DEF Ledger, Apart
  <2>3. CASE x \in 1 .. Rate /\ y = 0
    BY <1>1, <1>5, <1>6, <1>11, <2>3 DEF Ledger, Apart
  <2>4. CASE x \in 1 .. Rate /\ y \in 1 .. Rate
    <3>1. nr[k + x] = nr[k + y]  BY <1>11, <2>4
    <3>2. k + x = k + y  BY <1>1, <1>5, <2>4, <3>1 DEF Ledger, FreshNumbered
    <3>3. k \in Int /\ x \in Int /\ y \in Int  BY <1>3
    <3>4. QED  BY <3>2, <3>3
  <2>5. QED  BY <1>8, <2>1, <2>2, <2>3, <2>4
<1>12. Spaced(h)  BY <1>1 DEF Ledger
<1> HIDE DEF f
<1>13. QED  BY <1>1, <1>2, <1>9, <1>10, <1>11, <1>12, WindowHoldsRate


\* A paced call that the receiver refuses for its rate shares the receiver's window
\* with a call that was not paced, or with one that took a different time from its
\* pacing to its admission: with even delays the caller's pacer is enough.
THEOREM CallsRejectionExplained == Spec => RejectionExplained
<1> DEFINE Step == \A r \in Requests :
                     request[r] = "transit" /\ request'[r] = "rejected"
                       /\ depth < QueueDepth /\ IsPaced(r)
                       => \E i \in DOMAIN recent' :
                            ~recent'[i].paced \/ recent'[i].lag # lag[r]
<1>1. CallsInv /\ RateInv /\ AgesInv /\ LedgerInv /\ LimitsHonest /\ Next => Step
  <2> SUFFICES ASSUME CallsInv, RateInv, AgesInv, LedgerInv, LimitsHonest, Next,
                      NEW r \in Requests, request[r] = "transit", request'[r] = "rejected",
                      depth < QueueDepth, IsPaced(r)
               PROVE  \E i \in DOMAIN recent' :
                        ~recent'[i].paced \/ recent'[i].lag # lag[r]
    OBVIOUS
  <2>1. depth \in Nat /\ QueueDepth \in Nat
    <3>1. depth = Cardinality(In({"queued", "running"}))  BY DEF LimitsHonest, In
    <3>2. IsFiniteSet(In({"queued", "running"}))  BY CountedFinite
    <3>3. depth \in Nat  BY <3>1, <3>2, FS_CardinalityType
    <3>4. QED  BY <3>3, LimitsAssumption
  <2>2. ASSUME NEW c \in Callers, CallerStep(c) PROVE FALSE
    <3>1. \/ request' = request
          \/ \E q, new : request' = [request EXCEPT ![q] = new] /\ new \in {"none", "transit"}
      BY <2>2 DEF CallerStep, Begin, AwaitRateSlot, TakeSlot, Answered, Unreachable,
                  Overloaded, Retry, CancelCall
    <3>2. QED  BY <3>1 DEF CallsInv, CallsTyped
  <2>3. request' # request  OBVIOUS
  <2>4. PICK s \in Requests : ServerStep(s)  BY <2>2, <2>3 DEF Next, Tick
  <2>5. Arrive(r)
    <3>1. s = r
      <4>1. \E new : request' = [request EXCEPT ![s] = new]
        BY <2>4 DEF ServerStep, Arrive, Enter, Leave, Disconnect
      <4>2. QED  BY <4>1 DEF CallsInv, CallsTyped
    <3>2. QED  BY <2>4, <3>1 DEF ServerStep, Enter, Leave, Disconnect, CallsInv, CallsTyped
  <2>6. ~(depth >= QueueDepth)  BY <2>1
  <2>7. /\ ~(Len(WithinWindow(recent)) < Rate)
        /\ recent' = WithinWindow(recent)
    <3>1. /\ request' = [request EXCEPT ![r] =
                           IF Len(WithinWindow(recent)) < Rate THEN "queued" ELSE "rejected"]
          /\ recent' = IF ~(Len(WithinWindow(recent)) < Rate) THEN WithinWindow(recent)
                       ELSE Append(WithinWindow(recent),
                                   [age |-> 0, lag |-> lag[r], paced |-> IsPaced(r)])
      BY <2>5, <2>6, Zenon DEF Arrive
    <3>2. ~(Len(WithinWindow(recent)) < Rate)  BY <3>1 DEF CallsInv, CallsTyped
    <3>3. QED  BY <3>1, <3>2
  <2>8. QED  BY <2>7, RejectionHasCause
<1>2. CallsInv /\ RateInv /\ AgesInv /\ LedgerInv /\ LimitsHonest /\ [Next]_vars => [Step]_vars
  BY <1>1
<1>3. QED
  <2> HIDE DEF Step
  <2>1. Spec => [][Step]_vars
    BY <1>2, CallsInvariant, LimitsAreHonest, LimitsInit, RateStep, AgesStep, LedgerInit,
       LedgerStep, PTL DEF Spec
  <2>2. QED  BY <2>1, PTL DEF RejectionExplained, Step

=============================================================================
