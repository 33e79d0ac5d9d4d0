# A TLA+ model of the thief peer

The repository is one of two independently built peers of a commit-reveal chase
game: a thief and a police agent play a series of sub-games on a grid over MCP
tool calls, without a referee. This directory models the thief peer: the runtime
that plays a series, the exchange with the opponent, the limits and retries of
the calls, the agreement on the result, the process around it all, and what
becomes of the artifacts afterwards. TLC checks the models on small instances;
TLAPS proves the central properties for every value of the constants.

Paths below are relative to `src/src/thief_peer/`.

## Inventory

| Component | State | Operations | Interacts with | What makes it correct |
|---|---|---|---|---|
| Lifecycle machine (`domain/state_machine/`) | current `PeerState` | `apply`, `force_error` | driven by the runtimes, read by the router | no runtime path ever applies an illegal event |
| Board and rules (`domain/positions.py`, `board.py`, `rules.py`, `services/capture_resolution.py`) | barriers | `legal_move_directions`, `apply_move`, `resolve_capture` | turn loop | the thief never walks onto a barrier; captures are detected |
| Turn loop (`services/turn_loop.py`, `turn_exchange.py`, `turn_prep.py`, `domain/sealing/exchange.py`) | position, step, sealed records, exchange phases, pending claim answer | `run_turn` | gateway (awaits), machine | the sealed records replay the game; answers are honest although given a step late |
| Sub-game and series runtime (`services/subgame_runtime.py`, `series_runtime.py`) | turn count, results of sub-games | `run`, `abort`, `_finalize`, `run_series` | turn loop, machine, health endpoint | one justified, scored entry per sub-game; every exit consistent |
| Sealing and audit (`domain/sealing/`) | none of its own | `seal`, `audit_sealed_records` | turn loop, runtime, verifier | repeated nonces void a result; a replay recomputes every hash |
| Router (`infrastructure/turn_router.py`, `sequence.py`, `inbox.py`, `game_tools.py`) | cursor per sub-game, seen messages, bounded queues | `receive_turn`, `receive_move`, `submit_audit`, `receive_control` | called by the opponent on worker threads; drained by the gateway | no equivocation, commit before reveal, exactly once, nothing acknowledged is lost |
| Gateway (`services/gateway.py`) | none of its own | `deliver_turn`, polling, pruning | MCP client, turn inbox | an acknowledged reveal reaches the turn loop; two gateways cannot wait for each other forever |
| Result agreement (`services/result_agreement.py`, `series_scoring.py`) | agreement status, totals | `finalize_series_agreement` | `submit_audit` of the opponent, own audit inbox | agreed means identical; verdicts never contradict |
| MCP client (`infrastructure/mcp_client.py`) | retry counter | `_call`, `wait_for_health` | opponent's server | every call ends; a retried call does not run twice |
| Rate limiting (`services/incoming_gatekeeper.py`, `infrastructure/mcp_rate_limit_middleware.py`, `outbound_pacer.py`) | windows, queue depth, semaphores | `slot`, `_await_rate_slot` | server middleware, gateway | limits kept, slots never leaked, a paced caller gets through |
| Game and negotiation runners (`sdk/game_runner.py`, `negotiation_runner.py`), server lifecycle (`infrastructure/server_lifecycle.py`) | server task, exit flags, summary | `start`, `stop`, one coroutine per command | uvicorn, event loop | the server is stopped on the way out, with an honest outcome |
| Background runner and live window (`gui/background_runner.py`, `peer_app.py`, `live_*`, `view_model.py`) | loop, task, result; event queue, view | `start`, `stop`, polling, folding of events | Tk main thread, turn loop | a stop is never lost, the window closes after its last event, the view shows the game that is played |
| Artifacts (`services/series_artifacts.py`, `artifact_models.py`, `game_ids.py`) | files in a directory | `write_*` | runner, verifier | the files of one series belong together |
| Replay verification and viewer (`services/replay_*.py`, `bilateral_verify.py`, `gui/replay_*`) | playback state | checks over artifacts, navigation | artifacts | verifies exactly honest trails; the banner says so |
| Gmail reporting (`sdk/report_runner.py`, `infrastructure/gmail_gatekeeper.py`) | sent keys, attempts | `submit` | verifier, Google API | only verified results, at most once |
| Watchdog, deadline (`domain/watchdog.py`, `deadline.py`) | escalations, start time | `check`, `child` | nobody (not wired into the runtime) | bounded escalation |
| Strategy, belief, scent (`strategy/`, `domain/belief_*`, `scent*`) | belief map, trust | `decide`, updates | turn loop | always a legal direction |
| Negotiation, configuration, access, command line | none | parse, validate, dispatch | files, processes | formats, exit codes |

What is hard here: the turn coroutine gives up control in the middle of every turn
and meets failures, cancellations and late evidence there; the router runs on
worker threads without a lock and shares its inbox with the polling event loop;
deliveries are lost, repeated and reordered; the bounded inbox rejects after
state has changed; a window measured at the sender is not the window measured at
the receiver; a stop escalates on timeouts that race the task it stops, and may
itself be cancelled; the window, the background thread and the coroutine end in
any order; files are written one by one; and two peers end a series
independently. `PROJECT.json` lists these hazards at their lines.

## Modules

| Module | Models | State and actions |
|---|---|---|
| `PeerLifecycle` | `domain/state_machine` | constant operators: `Transitions`, `Resolve`, `After` (`apply`), `ForceError`. An `IllegalTransitionError` is the absorbing value `Rejected`, which no type invariant admits |
| `ThiefBoard` | board, rules, capture resolution | constant operators |
| `ThiefSeries` | turn loop, sub-game runtime, series runtime | one variable per piece of runtime state; an action runs from one await to the next |
| `SeriesContract` | what `run_series` promises | `ScoreGame`, `ForfeitGame`, `AbandonSeries` |
| `LiveView` | the events the turn loop publishes and the view folded from them | each action of `ThiefSeries` with the events it publishes, in order |
| `RouterCore` | router, sequence tracker, inbox as operators on one record | `AckCode` is the ladder of checks of `_handle_turn`, `RouterAfter` its effect, `Consumed` is `pop_matching` plus pruning |
| `TurnRouter` | the inbound side, one call at a time | `HandleTurn(m)` for any message, `ConsumeReveal`, `NextSubGame`, `CloseDoor` |
| `RouterThreads` | the same handler on worker threads, against the polling gateway | one action per access to shared state |
| `Duel` | two peers with a `RouterCore` each, playing each other | `SealTurn`, `Handle` (the other's router), the accepted, rejected or lost call, the poll |
| `CallLimits` | pacer, `_call`, middleware and gatekeeper around one tool call | caller steps, receiver steps, `Tick` |
| `ResultAgreement` | both peers at the end of a series | per-peer coroutine actions, and a network that loses, repeats and delays |
| `PeerProcess` | one process: command line, coroutine of the runner, server task, background thread, window | one action per await, callback or poll of each of them |
| `ReplayVerifier` | artifact set and every check on it | constant operators over a directory |
| `PostGame` | writing, altering, verifying, replaying and reporting a directory | `StartSeries` to `SaveNext` (writer), `WriterDies`, `AlterFile`, the commands |
| `*Proofs` | the theorems | |
| `MC*` | instances for TLC | |

`LiveView` extends `ThiefSeries`; `PostGame` extends `SeriesContract`, so its series
are those that `ThiefSeries` is shown to implement; `TurnRouter`, `RouterThreads` and
`Duel` share `RouterCore`; `PeerProcess` takes the series as one step with the exits it
has in `ThiefSeries`.

`ThiefSeries`, action by action: `StartSubGame` is the loop head of `run_series`
with the construction of the sub-game state and, for the first one, the lifecycle
fast-forward; `HealthDone` ends the health wait; `BeginTurn` is `_run_turn` up to
its first await (decide, seal, commit, send); `CommitAcked` is the accepted
commitment; the disjuncts of `RevealOutcome` are what follows the accepted reveal
and the opponent's reveal: confirmation of an earlier capture, capture, an
ordinary move, survival, a move blocked by the barrier just absorbed, a reveal
that cannot be read. `Finalize` holds everything up to the next await: self-audit,
log entry, end of the series or advance of the machine. `ExchangeFails`, `RpcRaises`
and `Cancel` are the three ways an await can fail. The strategy may choose any
legal direction, so the results do not depend on it. A nonce is fresh or repeats
an earlier one, so that the self-audit can fail. Claims and barriers off the board
are left out: such a claim is one more wrong claim, such a barrier blocks nothing.

`RouterThreads` treats `check_and_advance` as one step: between its comparison and
its assignments there is no call, so the interpreter does not switch threads
there. The handler's reads of the two dictionaries of seen messages are one step as
well; the hand-over to `feed`, `put` and `remember` is where threads interleave.

`CallLimits` has a clock: a rolling window is a sequence of ages, a `Tick` ages them.
It does not tick past a wake-up that is due. The semaphore of the pacer never blocks
in the program, where one coroutine makes all calls; the module allows several.

`PeerProcess` runs one of four commands. The coroutine's `left` remembers where it was
when it was interrupted, which is what decides whether the server is stopped. A
bounded wait of the stop ladder ends in the server's end, in a timeout or in a
cancellation. The window polls: `PollDrain` draws, `PollCheck` looks whether the
thread is done and counts the grace polls down.

In `ReplayVerifier` a hash is the thing it was computed from; a file carries the
series that wrote it as a field no check reads. A config file's terms are a field of
their own: grid size and scoring are read from those of the first config file
(`TermsRead`, `replay_verifier.py:96-100`), and nothing compares them with
`config_sha256`. The `Terms` a series is played under therefore differ only in what no
check reads. What verify_replay meets and does not catch is `VerifyRaises`: no grid size,
a step without a field, a result of no known kind (`replay_checks.py:156`).

`PostGame` alters one file of a set that verified, in one of four ways:

- `ContentEdits`, which some check covers: a missing config, log or result; another
  uid or config hash; a step changed, dropped, doubled or swapped; an entry's result, steps or
  score; a total; a scoring value in the first config's terms that a score was made of;
- `UncheckedEdits`, which no check covers: the declaration's presence; the number in a
  config, a log or an entry; the grid size of any config; a scoring value no score was
  made of, or in another config than the first; an entry rewritten together with its
  scores and totals; a step sealed again (the hash has no key, and the log is not compared
  with what the opponent was sent); an agreement status;
- `SchemaEdits`, a first step that claims the old schema, for which the viewer skips its
  checks;
- `MalformedEdits`, after which `VerifyRaises` holds.

Fields that no check reads (`winner`, `audit_ok`, `agreed`, `git_commit`, `group_id`,
`tie_score` and the other sections of the terms) are not in the model; altering them is
one more unchecked edit. Two files altered at once are not modelled.

Definitions called "mutant" are deliberately wrong variants of one definition each,
used to show that the property named with them in `PROJECT.json` can fail.

## Runs

| Run | Question | Bounds |
|---|---|---|
| `series_safety` | do the trail, the answers, the outcomes, the lifecycle and the contract survive every failure, cancellation and late barrier? | 2x2 board, threshold 3, two sub-games, a turn cap of 3 |
| `live_view` | does the window show the game that is played and logged, and does the series always end within its default turn cap? | 2x2 board, threshold 2, two sub-games |
| `router` | what does the router promise under arbitrary delivery? | two sub-games, two steps, two payloads per key, an auxiliary type, a faulty variant, capacity 2 |
| `router_threads` | what is left of it on unlocked worker threads? | two threads, five messages, capacity 2 |
| `duel` | do two peers that advance on their own play the same game, without refusing each other's messages, and end? | two sub-games of two steps, two payloads, capacity 4, one fault |
| `calls` | do limits, retries and timeouts of the two sides fit together? | a handshake and two paced calls, rate 1 in a window of 2 ticks, one retry |
| `agreement` | can two peers end with contradicting results? | two sub-games, two polls |
| `process` | what is left behind when a command ends, in any way and at any step? | 2 health polls, 3 events, a log of 2 lines, 2 grace polls |
| `post_game` | what do the verdict, the banner and a mailed report mean? | two series of two sub-games, two terms, one alteration, one retry, two pending ticks |
| `series_blocked_move`, `paced_overload`, `artifacts_mixed` | three places where the code departs from what its documentation says | as above |

Why the bounds are enough. On a 2x2 board every cell has legal and illegal
directions and a barrier can block the sealed move or hit the thief; threshold 2
has a first, a last and a confirming turn past the last, threshold 3 an ordinary one
between them; two sub-games reset the local state once and share the machine. The
default turn cap, which the program uses, is checked by `live_view`; `series_safety`
has an explicit one that a capture in the last step exceeds. A capacity of
two makes the inbox full inside one step. In `duel` the capacity is 4 because a peer
one exchange ahead leaves four messages with the other; with 3 even an undisturbed
duel ends in BACKPRESSURE (the code's capacity is 100). Two threads are enough for
every pairwise race of the handler with itself, and the gateway is a third actor.
Two paced calls and the handshake exceed a rate of 1 within a window, so the pacer
waits and the receiver refuses. More events than log lines, and more than one grace
poll, separate what was published, drawn and listed. With two sub-games two
different series can have equal totals, the case the digest is there for, and two
series in one directory can leave every mixture of files a dying writer leaves.

Fairness, and what in the code justifies it:

- `LiveSpec` is weak fairness of the series' own progress: every await is bounded by
  a call timeout, a retry count or a poll budget, so it ends in an answer or an error.
- `RouterThreads` assumes that started worker threads and the event loop keep
  running, and nothing about the opponent; its poll budget of 300 is not counted, any
  empty poll may be the last.
- `DuelSpec` lets each peer's own steps happen, and bounds the faults; a poll gives up
  only once the other side has failed or a fault is spent.
- `CallLimits` assumes that time passes, that a caller's timers fire, that a request
  arrives or is dropped, and that the receiver's tasks run.
- `ResultAgreement` assumes that each peer's own coroutine goes on and nothing of the
  network.
- `PeerProcess` assumes that event loop, threads and main thread are scheduled, and that
  a starting server comes up or fails; that a running server stops is *not* assumed.
  Strong fairness of the timer's close is the one exception: the Tk callback is
  enabled at every poll after the grace period and alternates with the draws.

`router`, `router_threads`, `calls`, `paced_overload`, `agreement` and `process` do not
check for deadlock: the opponent may stop sending at any time, and a finished call,
agreement or process has no successor.

### What the runs show beyond "it holds"

`FailureReported` (`series_safety`) relates the reported reason to the machine. It covers
what the handlers cover: ERROR is never reported as a completed series, a failure that
`run_turn` or `abort` catches ends in ERROR with the forfeit logged, a cancellation inside
the turn loop ends in ERROR, and completion means that every sub-game was logged. Four exits lie outside
the handlers: a raw `McpError`, a claim that is not a pair, a blocked move, and a
cancellation in the health wait. The property claims nothing of the machine after them; the
documents do, and the code does not keep it: `series_blocked_move` shows it for one of
the four, and the next section lists the others.

`ViewShowsGame` and `BannerMatchesLog` (`live_view`) have exemptions of their own. The first is about a
sub-game that goes on: the cell announced by a turn that failed or was blocked may stay on
the view. The second leaves out a self-audit that fails after the banner was published, and
an exhausted turn cap.

`SeriesStopsServer` (`process`) states exactly which exits stop the server: `__main__.py:14-17`
says that `server.stop()` always runs, but the server is started at
`sdk/game_runner.py:101` and readiness and negotiation are awaited (109-110) before
the `try` at 130, so an interrupt or a raw error there leaves it to the end of the
process; the same goes for an interrupt in the linger of `negotiate-smoke`
(`sdk/negotiation_runner.py:94`) and for a cancellation inside the bounded waits of
`stop`. A cancellation in the last rung is suppressed (`server_lifecycle.py:157`).
The outcome that `stop` returns is honest, but the runners discard it. The window's
event panel stays silent after 200 lines, though the view goes on.

`VerifiedIffOneSeries` (`post_game`) holds for directories no writer died in: an
untouched set verifies exactly when its files are of one series and its logs reuse no
nonce. A shorter second series leaves old files behind (`series_artifacts.py:48-51`),
which the count checks find. `OneEditVerdict` says of each kind of alteration whether
`verify-replay` finds it (exit code 2), passes over it (0) or ends with a traceback (1).
The viewer turns its checks off for a legacy schema version in the first step of a log
(PARTIAL, exit code 0), and the two sides' uids and results are
never compared with each other. `ReportGated` is what the gate of the report guarantees:
one series, clean audits and no alteration that a check covers, unless a writer died; and,
whatever the files are, a report whose outcomes, steps and scores fit together. It does
not say that a report of altered or mixed files is never mailed: it can be, see below.
A gatekeeper lives as long as one command, so the
idempotency key does not outlive it: `DeliverOnce` is about one command, and the
duplicate suppression of `docs/SECURITY.md:118` does not reach from one to the next. The real `send_fn` never raises
`RateLimitedError` and cannot time out, so the retries of `docs/GMAIL_REPORTING.md:86`
happen only with another one. Pressing play twice leaves two tick chains, which
play twice as fast but never stall.

`CompletesUndisturbed` (`duel`) is the reason the poll budget matters: with no fault both
peers complete, though either may be a whole exchange ahead of the other.

### What the violated properties show

1. `series_blocked_move`: the move is sealed before the opponent's barrier of the
   same step is known and played after it. If the barrier is on the destination,
   `apply_move` raises `IllegalActionError`, which `run_turn` does not catch; the series
   ends with an exception and the machine in VERIFYING, against "Every exit leaves
   the state machine in a legal state" (`services/subgame_runtime.py:75`).
2. `paced_overload`: the handshake is sent before the pacer exists, and the receiver
   meters it. A client that paces the rest of its calls is refused, retries for less
   time than the window lasts, and gives up, against "it never needs the receiver to
   reject anything" (`infrastructure/outbound_pacer.py:6-8`). `RejectionExplained` says
   what does hold: such a refusal always has an unpaced call, or a difference of
   delays, behind it.
3. `artifacts_mixed`: identifiers and file names are functions of groups and terms. A
   second series under the same terms whose writer dies between two files leaves a
   log of one series and the result of the other under one uid. The set verifies, and a
   report is built from it, against "files from different
   games cannot be mixed" (`services/artifacts.py:3-4`) and "a report is never built, let
   alone sent, from tampered or incomplete evidence" (`docs/GMAIL_REPORTING.md:63-64`).

Six more departures are in the models without a run of their own. A cancellation in
the health wait (`services/subgame_runtime.py:99`) lies before the `try` whose handler records
cancellations and leaves the machine in WAITING, against lines 92-95 and
`docs/ARCHITECTURE.md:59`. An `McpError` that is neither overload nor timeout
(`infrastructure/mcp_client.py:153`) passes `run_turn` and `run_series` and leaves the machine
where it is, and a claim or barrier that is not a pair raises `TypeError` or `IndexError`
(`services/capture_resolution.py:33`) and leaves it in VERIFYING, both against
"Any technical failure ... becomes an explicit TECHNICAL_LOSS via the ERROR path"
(`services/turn_loop.py:5-7`). Nothing hashes the terms of a config file again
(`services/replay_verifier.py:96`): a set whose grid size was altered passes the gate and a
report is built from it, against the same sentence of `docs/GMAIL_REPORTING.md`; the
other `UncheckedEdits` pass it as well, though without a declaration the second read
of the files raises. The sequence cursor moves before the inbox can reject (`infrastructure/turn_router.py:114`,
against `sequence.py:3-5`): the rejected commitment cannot be resent and its reveal is
accepted, which is why `CommittedOrBounced` has its second half. A resend racing its
first delivery passes the duplicate filter (`turn_router.py:107`, against
`sequence.py:5-6`); `CoreNoEquivocation` still holds.

## Proofs

Assumptions: a board of at least one cell with the start cell on it, a positive
threshold and series length, any turn cap (`GridAssumption`, `SeriesAssumption`);
any sets of sub-games, bodies, auxiliary types and correlation ids and a positive
capacity (`RouterAssumption`); any length of the series, step counts and poll budget;
positive limits, any retries, transit times and timeouts and any finite set of
callers (`LimitsAssumption`); positive poll counts and log limit and any number of
events (`ProcessAssumption`); two different peers, at least one sub-game, any number
of faults (`DuelAssumption`); a positive series length, any threshold, any non-empty
set of terms, any number of series, retries and pending ticks (`PostGameAssumption`).
Two theorems have a hypothesis of their own: `DuelNothingRefused` a capacity of at
least 4 (the code's is 100), and three of `PostGameProofs` that the scores of two
different results differ (`DistinctScores`; the shipped scoring is 20/5, 5/10, 0/0).

`ThiefSeriesProofs`. The safety properties are not inductive by themselves. `SealedTrail`
speaks of finished records, so a step that appends one needs to know where the
thief stands relative to the last record (`TrailEndInv`) and that the draft in flight
was sealed from the present state and names a move legal at the time (`LockstepInv`).
`LockstepInv` also ties turns, step, number of records and exchange phases together,
which gives the turn cap. `LifecycleInv` fixes the machine's state at every await,
so that no event is rejected; `LogInv` ties the log to the sub-game index. Their
conjunction with the properties is `SeriesInv`. `LifecycleSteps` computes the machine
along each path of the turn loop, `LegalStaysOnBoard` and `LegalAvoidsBarriers` are
the board facts, `FinalizeInv` and `RevealInv` carry the parts shared by several
actions, and there is one lemma per action or group of actions. From
`SeriesInvariant` follow `TypeOK`, `SealedTrail`, `HonestAnswer`, `OutcomeJustified`,
`NeverOnBarrier`, `DefaultCapSuffices` and `FailureReported`;
`FrozenOnceCaptured` (no run of its own) follows from the actions alone. `SeriesImplementsContract` shows
that every step maps to a contract step or a stutter; `PlayedAppend` and
`FinalizeRefines` do the work. The second half of the module is about `LiveView`: its
steps are steps of the series (`LiveStepIsStep`), so `SeriesInv` is at hand. `KeyInv`
says which sub-game and step the view has last folded, `EarlierInv` that everything
shown of earlier sub-games is what their log entries say, `CurrentInv` the same of the
one being played; with the properties they are `LiveInv`.

`TurnRouterProofs`. `KeysInv` says that what was acknowledged is remembered, under one
payload per key; `CursorInv` says that for every step behind the cursor both core
messages were acknowledged or bounced, and that nothing acknowledged is ahead of it.
From `RouterInvariant` follow `NoEquivocation`, `CommittedOrBounced` and `ResendIsSafe`.
`ConsumedOnce` needs the contents of the queue as well: `QueueInv` says that a message is
in the queue once, or handed over once, and never both.

`RouterThreadsProofs`. On threads what was acknowledged is not yet remembered, so
`KeysInv` fails; the tracker alone has to do. `PassedInv` says that the cursor is past
every core message that was let through and that each core key was let through once:
it is acknowledged, or exactly one thread has it in hand. `CoreNoEquivocation` follows
for any number of threads. For `AckedNotLost`, `KeptInv` follows a message from the
moment it is queued, which is before it is acknowledged, through the pops and puts of
the concurrent poll (`PollInv`) to the turn loop.

`ResultAgreementProofs`. `TraceInv`: whatever is on the wire or in an inbox is the
submission of the series its sender has completed and still holds. `VerdictInv`: a
verdict other than a technical one is the resolution of the two submissions. The
symmetry of the resolution (`ResolveOutcome`) then gives `AgreedMeansIdentical`,
`NoContradiction` and `DisputeIsReal`, whatever the network does.

`CallLimitsProofs`. A request is sent again only when it was rejected, and a rejected
request has not run (`CallerInv`, `RunsInv`); so a tool body runs at most once for a
call and as the caller is told (`RunsMatchOutcome`), for any number of concurrent
callers and any limits. `HeldInv` counts the holders of the two semaphores and of the
queue, with the cardinality facts of finite sets; `RateInv` says that the deque of
admissions never outgrows the rate. Together they give `LimitsHonest`.
`RejectionExplained` compares two windows measured at two places, so its invariant needs
what neither side keeps: the history of all pacings. `LedgerInv` says that such a history
exists: a sequence of ages with at most `Rate` of them in any window (`Spaced`), whose end
is the pacer's deque (`Remembered`), and a number in it for each call on its way and each
fresh admission, no two the same (`LiveNumbered`, `FreshNumbered`, `Apart`). `AgesInv` keeps
the admissions in order, so that all that pruning leaves is fresh (`WindowFront`). Were a
paced call refused by a window of paced calls with its own delay, `Rate` + 1 numbers would
lie in one window of the history, which the pigeonhole principle excludes
(`WindowHoldsRate`).

`DuelProofs`. `DuelInv` says that what waits in an inbox and what was read from it is what
the other peer sealed for that exchange; `SameGame` follows for any loss and delay.
`LockstepInv` is much stronger and holds until the first fault: it fixes, for each pair
of positions the two turn loops can be in, the cursor, the memory and the queue of each
router, message by message. `NothingRefused` follows: without a fault, neither the
sequence check nor the bounded inbox ever turns a message away.

`PostGameProofs`. `SendInv` alone gives `DeliverOnce`. The others rest on `PostInv`: each file
of an unaltered directory is one that some series wrote (`FileInv`), a writer has saved
exactly the files before its position (`WriteInv`), once it has finished, the last set
is complete and what else there is belongs to older series (`LatestInv`), an altered
directory was the honest set of one series and verified (`EditInv`), and what a command
shows was computed from the directory that is still there (`ShownInv`).
`VerifiedIffOneSeries` then is two lemmas: an honest set without a repeated nonce passes
every check (`HonestVerifies`), and a directory that passes them holds nothing beside
the last set, since the counts agree (`VerifiedIsLatest`). `OneEditVerdict` goes by what an
edit leaves true. An unchecked edit leaves every check's condition (`Accepted`), shown for the
edits of a config, a log and the result in turn (`UncheckedIsAccepted`); every other edit but a
malformed one leaves the set `Readable`, so that there is a verdict; a content edit has one lemma for
each kind of alteration, naming the check that fails; a malformed one makes `VerifyRaises`
true (`MalformedRaises`). `EditFacts` collects them. The theorem needs `DistinctScores`, without which a rewritten
result could score the same, and it speaks of the edits listed above, no others. For
`BannerHonest` a content change must not hide behind
the legacy schema (`ContentIsCurrent`). `ReportGated` and `PlaybackAlive` hold for mixed
files too: the logs present are those of the first sub-games, so when the counts agree
the entries account for them one by one (`WrittenIsAccounted`).
`PlaybackInv` keeps the viewer on a step of a sub-game there is.

`PeerProcessProofs`. `ServerInv` ties the server task to the place of the coroutine,
`ResultInv` the result to a coroutine that returned, `WindowInv` the grace countdown to
what has been drawn. With the properties themselves they are inductive
(`ProcessInv`); the theorems are `SeriesStopsServer`, `OutcomeHonest`, `CleanExitHonest`
and `NothingUnseen`.

Only model-checked: all liveness (`Terminates`, `RevealReachesLoop`, `BothEnd`, `CallsEnd`,
`ProcessEnds`, `DuelEnds`, `CompletesUndisturbed`), which is beyond the prover. Every safety
invariant and action property that a passing run checks is a theorem as well.

## Not modelled

Belief, scent, hints and traces inside a turn only feed the strategy or an output, and
the strategy is any legal move. The watchdog is not wired into the runtime, and the
response deadline is created and passed on but enforced by nothing: neither takes
part in a behaviour. Hashing is perfect; canonical JSON, configuration and
declaration validation, MIME building, OAuth files and argument parsing are
conversions of static documents. Except in `CallLimits` time is not modelled: a
timeout is a choice. `mcp_server.py`'s `negotiate` and `propose_config` inbox belongs
to the smoke command only and is read by nothing that decides; the access middleware
compares a token per request and keeps no state. The control inbox is never drained
and shares no state with the turn path. `friendly_external.py` converts another
team's log format. `AuditEvent`, `ConnectionEvent` and `StateMachineEvent` are defined and
never published. Drawing and the playback speed have no state a property could be
about. `QUIT_REQUESTED` is never applied by the runtime; it is in the table only.

## Plan

1. `RouterThreads` restricted to core messages as an implementation of the sequence
   discipline of `TurnRouter`.
2. The handshake inbox, the access middleware and the watchdog, should the runtime
   come to depend on them.
