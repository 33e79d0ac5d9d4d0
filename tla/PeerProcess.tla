---------------------------- MODULE PeerProcess ----------------------------
(***************************************************************************)
(* One run of the peer's process: the command line, the coroutine that     *)
(* serves, waits for the opponent, plays and writes the artifacts, the     *)
(* uvicorn server task beside it, and for "peer --gui" the Tk main thread  *)
(* that polls the event queue and stops the background thread the          *)
(* coroutine runs on.  The series itself is ThiefSeries; here it is one    *)
(* step, with the exits it has there.  negotiate-smoke only greets the     *)
(* opponent and lingers.                                                   *)
(***************************************************************************)
EXTENDS Integers

CONSTANTS HealthAttempts,   \* polls of wait_for_health
          MaxEvents,        \* events the series publishes to the window
          LogLimit,         \* lines event_log keeps
          GracePolls        \* polls of the window inside AUTO_CLOSE_GRACE_MS

ASSUME ProcessAssumption ==
  /\ HealthAttempts \in Nat \ {0} /\ LogLimit \in Nat \ {0} /\ GracePolls \in Nat \ {0}
  /\ MaxEvents \in Nat

VARIABLES
  command,    \* the subcommand that was given
  main,       \* where the main thread is
  code,       \* the exit code, -1 while running
  thread,     \* what the background thread has set up: its loop, then its task
  cancel,     \* a cancellation is scheduled on the loop
  coro,       \* where the coroutine is
  left,       \* history: where an interruption caught it
  unwinding,  \* the exception that its finally clause will raise again
  polls,      \* health polls left
  server,     \* the uvicorn server and its task
  exitFlag,   \* should_exit or force_exit is set on it
  stopped,    \* ShutdownResult.outcome
  summary,    \* what the series came to
  result,     \* BackgroundRunner.result, or what asyncio.run returned
  written,    \* the artifacts are on disk
  published,  \* events put on the queue while the sink was set
  rendered,   \* events folded into the view and drawn
  listed,     \* lines the event panel has inserted
  grace,      \* polls left until the window closes by itself, -1 before that
  closedBy    \* who closed the window

window == <<published, rendered, listed, grace, closedBy>>
vars == <<command, main, code, thread, cancel, coro, left, unwinding, polls, server,
          exitFlag, stopped, summary, result, written, window>>

Commands == {"peer-gui", "run-series", "run-subgame", "negotiate-smoke"}
Interrupted == 130   \* main's exit code for a KeyboardInterrupt
Gui == command = "peer-gui"
WritesArtifacts == command \in {"peer-gui", "run-series"}
Startup == {"start", "ready", "negotiate", "grace"}
Ladder == {"graceful", "forced", "cancelling"}
Alive == Startup \union {"play", "agree", "greet", "linger"} \union Ladder
Summaries == {"agreed", "disputed", "technical_loss"}
Greetings == {"negotiated", "config_mismatch", "opponent_unavailable"}

Places ==
  /\ command \in Commands
  /\ main \in {"begin", "loop", "polled", "check", "signal", "wait", "check2", "signal2",
               "wait2", "report", "exited"}
  /\ thread \in {"none", "started", "loop", "task", "done", "killed"}
  /\ coro \in Alive \union {"unborn", "write", "returned", "raised", "cancelled", "died"}
  /\ left \in Alive \union {"none", "unborn", "load", "write"}
  /\ unwinding \in {"no", "raised", "cancelled"}
  /\ server \in {"none", "starting", "up", "closed", "failed", "leaked"}
  /\ stopped \in {"none", "graceful", "forced", "cancelled", "already_stopped"}
  /\ {summary, result} \subseteq Summaries \union Greetings \union {"none"}
  /\ closedBy \in {"nobody", "user", "timer"}

Flags == cancel \in BOOLEAN /\ exitFlag \in BOOLEAN /\ written \in BOOLEAN

Counters ==
  /\ code \in (-1 .. 2) \union {Interrupted}
  /\ polls \in 0 .. HealthAttempts
  /\ published \in 0 .. MaxEvents /\ rendered \in 0 .. published
  /\ listed \in 0 .. LogLimit
  /\ grace \in -1 .. GracePolls

TypeOK == Places /\ Flags /\ Counters

Init ==
  /\ command \in Commands
  /\ main = "begin" /\ code = -1
  /\ thread = "none" /\ cancel = FALSE
  /\ coro = "unborn" /\ left = "none" /\ unwinding = "no" /\ polls = HealthAttempts
  /\ server = "none" /\ exitFlag = FALSE /\ stopped = "none"
  /\ summary = "none" /\ result = "none" /\ written = FALSE
  /\ published = 0 /\ rendered = 0 /\ listed = 0 /\ grace = -1 /\ closedBy = "nobody"

coroVars == <<coro, left, unwinding, polls, server, exitFlag, stopped, summary, written>>

-----------------------------------------------------------------------------
(* The command line and, without a window, asyncio.run.                    *)

\* --public without a token is refused before anything starts; negotiate-smoke
\* has no such option.
RefusedAtStart ==
  /\ main = "begin" /\ command # "negotiate-smoke"
  /\ main' = "exited" /\ code' = 2
  /\ UNCHANGED <<command, thread, cancel, coroVars, result, window>>

\* run_gui sets the sink, starts the background thread and enters the Tk loop.
LaunchGui ==
  /\ main = "begin" /\ Gui
  /\ main' = "loop"
  /\ thread' = "started"
  /\ UNCHANGED <<command, code, cancel, coroVars, result, window>>

\* The other commands run the coroutine on the main thread (asyncio.run).
LaunchHeadless ==
  /\ main = "begin" /\ ~Gui
  /\ main' = "wait2"
  /\ thread' = "task"
  /\ UNCHANGED <<command, code, cancel, coroVars, result, window>>

\* _run publishes the loop, then the task, without a lock.
PublishLoop ==
  /\ thread = "started"
  /\ thread' = "loop"
  /\ UNCHANGED <<command, main, code, cancel, coroVars, result, window>>

PublishTask ==
  /\ thread = "loop"
  /\ thread' = "task"
  /\ UNCHANGED <<command, main, code, cancel, coroVars, result, window>>

CoroOver == coro \in {"returned", "raised", "cancelled", "died"}

\* The loop ends with the coroutine, whatever other tasks it still has: a server
\* task that has not ended is abandoned with its socket (asyncio.run cancels it,
\* which does not close the socket either).
LoopEnds ==
  /\ thread = "task" /\ CoroOver
  /\ thread' = "done" /\ cancel' = FALSE
  /\ server' = IF server \in {"starting", "up"} THEN "leaked" ELSE server
  /\ UNCHANGED <<command, main, code, coro, left, unwinding, polls, exitFlag, stopped,
                 summary, written, result, window>>

\* The first Ctrl+C of a headless command: asyncio.run cancels the coroutine.
Interrupt ==
  /\ main = "wait2" /\ ~Gui
  /\ thread = "task" /\ ~CoroOver /\ ~cancel /\ left = "none"
  /\ cancel' = TRUE
  /\ UNCHANGED <<command, main, code, thread, coroVars, result, window>>

-----------------------------------------------------------------------------
(* run_series_headless, run_subgame_headless and run_negotiation_smoke.    *)

OnLoop(at) == thread = "task" /\ coro = at /\ ~cancel
unchangedAround == <<command, main, code, thread, cancel>>

Goto(at) == coro' = at /\ UNCHANGED left
Fail(at, how) == coro' = how /\ left' = at

\* _load: a bad configuration raises before there is a server.
Load ==
  /\ OnLoop("unborn")
  /\ Goto("start") \/ Fail("load", "raised")
  /\ server' = IF coro' = "start" THEN "starting" ELSE "none"
  /\ UNCHANGED <<unchangedAround, unwinding, polls, exitFlag, stopped, summary, written,
                 result, window>>

\* The server binds and listens.
ServerUp ==
  /\ thread = "task" /\ server = "starting"
  /\ server' = "up"
  /\ UNCHANGED <<unchangedAround, coro, left, unwinding, polls, exitFlag, stopped, summary,
                 written, result, window>>

\* A bind error: uvicorn raises SystemExit, which ends the whole loop.
BindError ==
  /\ thread = "task" /\ server = "starting" /\ ~CoroOver
  /\ server' = "failed"
  /\ Fail(coro, "died")
  /\ UNCHANGED <<unchangedAround, unwinding, polls, exitFlag, stopped, summary, written,
                 result, window>>

\* ManagedServer.start returns once the server listens, and raises the error of a
\* server task that has ended.
Started ==
  /\ OnLoop("start")
  /\ \/ server = "up" /\ Goto(IF command = "negotiate-smoke" THEN "grace" ELSE "ready")
     \/ server = "failed" /\ Fail("start", "raised")
  /\ UNCHANGED <<unchangedAround, unwinding, polls, server, exitFlag, stopped, summary,
                 written, result, window>>

AfterReady == IF command = "run-subgame" THEN "play" ELSE "negotiate"

\* One poll of wait_for_health: an answer or the last failure goes on, a protocol
\* error that is not a timeout is not suppressed.  None of this is inside the try.
HealthPoll ==
  /\ OnLoop("ready")
  /\ \/ Goto(AfterReady) /\ UNCHANGED polls
     \/ /\ polls > 0
        /\ polls' = polls - 1
        /\ IF polls = 1 THEN Goto(AfterReady) ELSE UNCHANGED <<coro, left>>
     \/ Fail("ready", "raised") /\ UNCHANGED polls
  /\ UNCHANGED <<unchangedAround, unwinding, server, exitFlag, stopped, summary, written,
                 result, window>>

\* push_negotiate suppresses every Exception, and no cancellation.
Negotiate ==
  /\ OnLoop("negotiate")
  /\ Goto("play")
  /\ UNCHANGED <<unchangedAround, unwinding, polls, server, exitFlag, stopped, summary,
                 written, result, window>>

\* The series publishes to the sink, which the window sets and clears.
Publish ==
  /\ OnLoop("play") /\ published < MaxEvents
  /\ Gui /\ closedBy = "nobody"
  /\ published' = published + 1
  /\ UNCHANGED <<unchangedAround, coroVars, result, rendered, listed, grace, closedBy>>

\* ManagedServer.stop: nothing to do when the task has ended, else should_exit.
EnterStop ==
  /\ IF server \in {"closed", "failed", "leaked"}
     THEN /\ stopped' = "already_stopped"
          /\ Goto(IF unwinding' = "no" THEN "write" ELSE unwinding')
          /\ UNCHANGED exitFlag
     ELSE /\ exitFlag' = TRUE
          /\ Goto("graceful")
          /\ UNCHANGED stopped

\* The series ends with a result, or an error nobody catches.
Play ==
  /\ OnLoop("play")
  /\ \/ /\ summary' \in {"technical_loss"} \union
                          (IF command = "run-subgame" THEN {"agreed"} ELSE {})
        /\ unwinding' = "no"
        /\ EnterStop
     \/ /\ command # "run-subgame"
        /\ summary' = "disputed" /\ unwinding' = "no"
        /\ Goto("agree")
        /\ UNCHANGED <<exitFlag, stopped>>
     \/ /\ unwinding' = "raised"
        /\ EnterStop
        /\ UNCHANGED summary
  /\ UNCHANGED <<unchangedAround, polls, server, written, result, window>>

\* finalize_series_agreement, for a series that was completed.
Agree ==
  /\ OnLoop("agree")
  /\ \/ summary' \in {"agreed", "disputed"} /\ unwinding' = "no"
     \/ unwinding' = "raised" /\ UNCHANGED summary
  /\ EnterStop
  /\ UNCHANGED <<unchangedAround, polls, server, written, result, window>>

\* negotiate-smoke sleeps once more before its try statement.
StartupGrace ==
  /\ OnLoop("grace")
  /\ Goto("greet")
  /\ UNCHANGED <<unchangedAround, unwinding, polls, server, exitFlag, stopped, summary,
                 written, result, window>>

\* Inside it: the health polls, negotiate and propose_config.  An unavailable
\* opponent is an outcome, any other error goes up after the finally clause.
Greet ==
  /\ OnLoop("greet")
  /\ \/ summary' \in Greetings /\ unwinding' = "no"
     \/ unwinding' = "raised" /\ UNCHANGED summary
  /\ Goto("linger")
  /\ UNCHANGED <<unchangedAround, polls, server, exitFlag, stopped, written, result, window>>

\* The finally clause lets a slower opponent reach this server before it stops it.
Linger ==
  /\ OnLoop("linger")
  /\ UNCHANGED unwinding
  /\ EnterStop
  /\ UNCHANGED <<unchangedAround, polls, server, summary, written, result, window>>

\* uvicorn leaves its main loop after it saw should_exit and closes the socket.
ServerCloses ==
  /\ thread = "task" /\ server = "up" /\ exitFlag
  /\ server' = "closed"
  /\ UNCHANGED <<unchangedAround, coro, left, unwinding, polls, exitFlag, stopped, summary,
                 written, result, window>>

\* The server task ends by itself with an error.
ServerFails ==
  /\ thread = "task" /\ server = "up"
  /\ server' = "failed"
  /\ UNCHANGED <<unchangedAround, coro, left, unwinding, polls, exitFlag, stopped, summary,
                 written, result, window>>

AfterStop == IF unwinding = "no" THEN "write" ELSE unwinding

\* Mutant of AwaitBounded: the wait without shield cancels the server on a timeout.
AwaitBoundedUnshielded(rung, outcome, next) ==
  /\ OnLoop(rung)
  /\ \/ /\ server \in {"closed", "leaked"}
        /\ stopped' = outcome
        /\ Goto(AfterStop)
        /\ UNCHANGED server
     \/ /\ server = "up"
        /\ server' = "leaked"
        /\ Goto(next)
        /\ UNCHANGED stopped
  /\ UNCHANGED <<unchangedAround, unwinding, polls, exitFlag, summary, written, result,
                 window>>

\* One rung of the ladder: the server task ends in time, raises its own error out
\* of stop, or the wait times out and the next rung follows.
AwaitBounded(rung, outcome, next) ==
  /\ OnLoop(rung)
  /\ \/ /\ server = "closed"
        /\ stopped' = outcome
        /\ Goto(AfterStop)
     \/ /\ server = "failed"
        /\ Fail(rung, "raised")
        /\ UNCHANGED stopped
     \/ /\ server = "up"
        /\ Goto(next)
        /\ UNCHANGED stopped
  /\ UNCHANGED <<unchangedAround, unwinding, polls, server, exitFlag, summary, written,
                 result, window>>

StopGraceful == AwaitBounded("graceful", "graceful", "forced")
StopForced == AwaitBounded("forced", "forced", "cancelling")

\* The last resort: the task is cancelled, which leaves the socket as it is.
StopCancelling ==
  /\ OnLoop("cancelling")
  /\ \/ /\ server \in {"up", "closed"}
        /\ server' = IF server = "up" THEN "leaked" ELSE server
        /\ stopped' = "cancelled"
        /\ Goto(AfterStop)
     \/ /\ server = "failed"
        /\ Fail("cancelling", "raised")
        /\ UNCHANGED <<server, stopped>>
  /\ UNCHANGED <<unchangedAround, unwinding, polls, exitFlag, summary, written, result,
                 window>>

\* The artifacts of a series (its artifacts directory is given) are written after
\* the server is down; then the coroutine returns its summary.
Write ==
  /\ thread = "task" /\ coro = "write"
  /\ \/ /\ Goto("returned")
        /\ written' = WritesArtifacts
        /\ result' = summary
     \/ WritesArtifacts /\ Fail("write", "raised") /\ UNCHANGED <<written, result>>
  /\ UNCHANGED <<unchangedAround, unwinding, polls, server, exitFlag, stopped, summary,
                 window>>

\* Mutant of Cancelled: a cancellation during the series skips the finally clause.
CancelledNoFinally ==
  /\ thread = "task" /\ cancel
  /\ cancel' = FALSE
  /\ coro \in Alive \union {"unborn"}
  /\ left' = coro
  /\ coro' = "cancelled"
  /\ UNCHANGED <<command, main, code, thread, polls, server, exitFlag, stopped, unwinding,
                 summary, written, result, window>>

\* The loop delivers the cancellation at the await the coroutine is at.  Inside
\* the try the finally clause stops the server first; before it, in the finally's
\* own linger or in the bounded waits of stop, the coroutine ends at once.  The last wait of stop
\* suppresses it like the cancellation of the server, and the peer goes on.
Cancelled ==
  /\ thread = "task" /\ cancel
  /\ cancel' = FALSE
  /\ \/ /\ coro \in {"play", "agree"}
        /\ unwinding' = "cancelled"
        /\ left' = coro
        /\ IF server \in {"closed", "failed", "leaked"}
           THEN coro' = "cancelled" /\ stopped' = "already_stopped" /\ UNCHANGED exitFlag
           ELSE coro' = "graceful" /\ exitFlag' = TRUE /\ UNCHANGED stopped
        /\ UNCHANGED server
     \/ /\ coro = "greet"
        /\ unwinding' = "cancelled"
        /\ left' = coro
        /\ coro' = "linger"
        /\ UNCHANGED <<server, exitFlag, stopped>>
     \/ /\ coro \in (Startup \union Ladder \union {"unborn", "linger"}) \ {"cancelling"}
        /\ left' = coro
        /\ coro' = "cancelled"
        /\ UNCHANGED <<unwinding, server, exitFlag, stopped>>
     \/ /\ coro = "cancelling"
        /\ server' = IF server = "up" THEN "leaked" ELSE server
        /\ stopped' = "cancelled"
        /\ Goto(AfterStop)
        /\ UNCHANGED <<unwinding, exitFlag>>
     \/ /\ CoroOver
        /\ UNCHANGED <<coro, left, unwinding, server, exitFlag, stopped>>
  /\ UNCHANGED <<command, main, code, thread, polls, summary, written, result, window>>

-----------------------------------------------------------------------------
(* The Tk main thread.                                                     *)

threadVars == <<thread, cancel>>

\* The lines of event_log after n events.
LogLines(n) == IF n < LogLimit THEN n ELSE LogLimit

\* _poll first drains the queue (at most 500 events, more than a poll interval
\* brings) into the view model and renders it.  The panel
\* inserts the lines past the length the log had when it was last rendered, and
\* that length does not grow any more once the log is full.
PollDrain ==
  /\ main = "loop"
  /\ main' = "polled"
  /\ rendered' = published
  /\ listed' = listed + (LogLines(published) - LogLines(rendered))
  /\ UNCHANGED <<command, code, threadVars, coroVars, result, published, grace, closedBy>>

\* Mutant of PollCheck: the window closes as soon as the game is found finished.
PollCheckNoGrace ==
  /\ main = "polled"
  /\ IF thread = "done"
     THEN main' = "check" /\ closedBy' = "timer"
     ELSE main' = "loop" /\ UNCHANGED closedBy
  /\ UNCHANGED <<command, code, threadVars, coroVars, result, published, rendered, listed, grace>>

\* Mutant of PollCheck: the window waits for its user.
PollCheckManual ==
  /\ main = "polled"
  /\ main' = "loop"
  /\ UNCHANGED <<command, code, threadVars, coroVars, result, window>>

\* Then it looks whether the game has finished, and schedules the closing once.
PollCheck ==
  /\ main = "polled"
  /\ main' = "loop"
  /\ grace' = IF grace > 0 THEN grace - 1
              ELSE IF grace = -1 /\ thread = "done" THEN GracePolls ELSE grace
  /\ UNCHANGED <<command, code, threadVars, coroVars, result, published, rendered, listed, closedBy>>

\* _close, from the button or SIGINT at any time, or from the timer; the sink is
\* cleared first.
Close(who) ==
  /\ main = "loop"
  /\ who = "timer" => grace = 0
  /\ main' = "check"
  /\ closedBy' = who
  /\ UNCHANGED <<command, code, threadVars, coroVars, result, published, rendered, listed, grace>>

\* BackgroundRunner.stop, called by on_close and again by run_gui's finally: it
\* reads loop, task and task.done(), and only then schedules the cancellation.
StopCheck(at, signal, wait) ==
  /\ main = at
  /\ main' = IF thread = "task" /\ ~CoroOver THEN signal ELSE wait
  /\ UNCHANGED <<command, code, threadVars, coroVars, result, window>>

\* The loop may have been closed since.  Then call_soon_threadsafe raises: inside
\* on_close Tk reports it and goes on, at the end of run_gui it ends the process.
StopSignal(at, wait) ==
  /\ main = at
  /\ IF thread = "done"
     THEN /\ main' = IF at = "signal" THEN "check2" ELSE "exited"
          /\ code' = IF at = "signal" THEN code ELSE 1
          /\ UNCHANGED cancel
     ELSE cancel' = TRUE /\ main' = wait /\ UNCHANGED code
  /\ UNCHANGED <<command, thread, coroVars, result, window>>

\* The wait for the thread is bounded; on the main thread alone it is not.
StopWait(at, next) ==
  /\ main = at
  /\ thread = "done" \/ Gui
  /\ main' = next
  /\ UNCHANGED <<command, code, threadVars, coroVars, result, window>>

SummaryExitCode(s) == IF s = "agreed" THEN 0 ELSE 1

SmokeExitCode(s) == IF s = "negotiated" THEN 0 ELSE 1

\* Mutant of Report: a run without a result counts as clean.
ReportOptimistic ==
  /\ main = "report"
  /\ main' = "exited"
  /\ code' = IF result \in {"agreed", "negotiated", "none"} THEN 0 ELSE 1
  /\ thread' = IF thread = "done" THEN "done" ELSE "killed"
  /\ UNCHANGED <<command, cancel, coroVars, result, window>>

\* The exit code of the result if there is one by now; else 130 for an interrupted
\* headless run, 1 for the rest.  A daemon thread still running ends with the process.
Report ==
  /\ main = "report"
  /\ main' = "exited"
  /\ code' = IF result \in Greetings THEN SmokeExitCode(result)
              ELSE IF result # "none" THEN SummaryExitCode(result)
              ELSE IF ~Gui /\ coro = "cancelled" THEN Interrupted ELSE 1
  /\ thread' = IF thread = "done" THEN "done" ELSE "killed"
  /\ UNCHANGED <<command, cancel, coroVars, result, window>>

-----------------------------------------------------------------------------
Coroutine ==
  \/ Load \/ Started \/ HealthPoll \/ Negotiate \/ Publish \/ Play \/ Agree
  \/ StartupGrace \/ Greet \/ Linger
  \/ StopGraceful \/ StopForced \/ StopCancelling \/ Write \/ Cancelled

Background == PublishLoop \/ PublishTask \/ LoopEnds

ServerTask == ServerUp \/ BindError \/ ServerCloses \/ ServerFails

MainThread ==
  \/ RefusedAtStart \/ LaunchGui \/ LaunchHeadless
  \/ PollDrain \/ PollCheck
  \/ \E who \in {"user", "timer"} : Close(who)
  \/ StopCheck("check", "signal", "wait") \/ StopSignal("signal", "wait")
  \/ StopWait("wait", "check2")
  \/ StopCheck("check2", "signal2", "wait2") \/ StopSignal("signal2", "wait2")
  \/ StopWait("wait2", "report")
  \/ Report

Next == Coroutine \/ Background \/ ServerTask \/ MainThread \/ Interrupt

Spec == Init /\ [][Next]_vars

\* Every thread is scheduled, the coroutine's waits are all bounded, and a server
\* that is starting comes up or fails.  Nobody has to close the window or
\* interrupt, and a server that was asked to exit need not do it.
FairSpec ==
  /\ Spec
  /\ WF_vars(Coroutine)
  /\ WF_vars(Background)
  /\ WF_vars(ServerUp \/ BindError)
  /\ WF_vars(MainThread)
  /\ SF_vars(Close("timer"))

-----------------------------------------------------------------------------
\* When the coroutine is over the listening socket is closed, or the ladder had
\* to cancel the server, unless the interruption came before the try statement
\* (start, health poll, handshake), in negotiate-smoke's linger or inside the stop
\* itself: a cancelled or failing series never leaves its server behind.
SeriesStopsServer ==
  CoroOver =>
    \/ server \in {"none", "closed", "failed"}
    \/ stopped = "cancelled"
    \/ left \in Startup \union Ladder \union {"linger"}

\* ShutdownOutcome is honest: a graceful or forced stop has closed the socket,
\* and a leaked one is never reported as anything but a cancellation.
OutcomeHonest ==
  /\ stopped \in {"graceful", "forced"} => server = "closed"
  /\ server = "leaked" => stopped \in {"none", "cancelled"}

\* The exit code is 0 only for an agreed (or negotiated) result, after the server was stopped
\* and, for a series, with the artifacts on disk, however the closing of the
\* window, the end of the background thread and its bounded wait interleave.
CleanExitHonest ==
  code = 0 =>
    /\ coro = "returned" /\ summary \in {"agreed", "negotiated"}
    /\ stopped # "none"
    /\ written <=> WritesArtifacts

\* A window that closes by itself has drawn every event of the series, though the
\* queue is drained before the end of the background thread is looked at; its
\* event panel lists all of them only as long as the log is not full.
NothingUnseen ==
  closedBy = "timer" => rendered = published /\ listed = LogLines(published)

\* The process ends: with nobody to close it, the window closes itself after the
\* series, and no stop waits for ever.
ProcessEnds == <>(main = "exited")
=============================================================================
