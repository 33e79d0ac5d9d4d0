------------------------- MODULE PeerProcessProofs -------------------------
(***************************************************************************)
(* Proofs about PeerProcess for every number of health polls, events, log  *)
(* lines and grace polls.                                                  *)
(***************************************************************************)
EXTENDS PeerProcess, TLAPS

\* The server against the coroutine: it exists once the configuration is loaded,
\* a stop is over when it reports, and its task is abandoned only by the ladder
\* or with the loop.
ServerInv ==
  /\ coro = "unborn" => server = "none"
  /\ server = "none" => coro \in {"unborn", "raised", "cancelled"}
  /\ server = "starting" => coro = "start" \/ CoroOver
  /\ server \in {"none", "starting", "up"} => stopped = "none"
  /\ stopped # "none" => coro \in {"write", "returned", "raised", "cancelled"}
  /\ server = "leaked" => stopped = "cancelled" \/ thread = "done"
  /\ thread = "done" => CoroOver
  /\ coro = "write" => server \in {"closed", "failed"} \/ stopped = "cancelled"
  /\ coro \in {"write", "returned"} => stopped # "none"

\* A result is the summary of a coroutine that has returned.
ResultInv ==
  /\ result # "none" =>
       /\ coro = "returned" /\ result = summary
       /\ written <=> WritesArtifacts
  /\ main # "exited" => code = -1

\* The window counts down only after the series: from its second poll on it has
\* drawn everything.
WindowInv ==
  /\ main = "begin" => thread = "none"
  /\ grace # -1 => thread = "done"
  /\ grace \in 0 .. GracePolls - 1 \/ (grace # -1 /\ main = "polled") =>
       rendered = published
  /\ closedBy = "timer" => grace = 0
  /\ listed = LogLines(rendered)

\* The inductive invariant of the process.
ProcessInv ==
  TypeOK /\ ServerInv /\ ResultInv /\ WindowInv
  /\ SeriesStopsServer /\ OutcomeHonest /\ CleanExitHonest

-----------------------------------------------------------------------------
\* Before the command line is read nothing has happened.
LEMMA ProcessInit == Init => ProcessInv
<1> SUFFICES ASSUME Init PROVE ProcessInv  OBVIOUS
<1> USE ProcessAssumption DEF Init
<1>1. TypeOK
  <2>1. Places  BY DEF Places
  <2>2. Flags  BY DEF Flags
  <2>3. Counters  BY DEF Counters
  <2>4. QED  BY <2>1, <2>2, <2>3 DEF TypeOK
<1>2. ServerInv  BY DEF ServerInv, CoroOver
<1>3. ResultInv  BY DEF ResultInv
<1>4. WindowInv  BY DEF WindowInv, LogLines
<1>5. SeriesStopsServer /\ OutcomeHonest /\ CleanExitHonest
  BY DEF SeriesStopsServer, OutcomeHonest, CleanExitHonest, CoroOver
<1>6. QED  BY <1>1, <1>2, <1>3, <1>4, <1>5 DEF ProcessInv

\* What the coroutine, the server and an interruption leave alone.
LEMMA LoopFrame ==
  ASSUME Coroutine \/ ServerTask \/ Interrupt
  PROVE  /\ UNCHANGED <<command, main, code, thread, rendered, listed, grace, closedBy>>
         /\ thread = "task"
<1> USE DEF unchangedAround, coroVars, window, OnLoop
<1>1. CASE Load \/ Started \/ HealthPoll \/ Negotiate \/ Publish
  BY <1>1 DEF Load, Started, HealthPoll, Negotiate, Publish
<1>2. CASE Play \/ Agree \/ StartupGrace \/ Greet \/ Linger
  BY <1>2 DEF Play, Agree, StartupGrace, Greet, Linger
<1>3. CASE StopGraceful \/ StopForced \/ StopCancelling \/ Write \/ Cancelled
  BY <1>3 DEF StopGraceful, StopForced, AwaitBounded, StopCancelling, Write, Cancelled
<1>4. CASE ServerTask \/ Interrupt
  BY <1>4 DEF ServerTask, ServerUp, BindError, ServerCloses, ServerFails, Interrupt
<1>5. QED  BY <1>1, <1>2, <1>3, <1>4 DEF Coroutine

\* Apart from Publish they leave the event count alone.
LEMMA LoopPublished ==
  ASSUME Coroutine \/ ServerTask \/ Interrupt, ~Publish
  PROVE  published' = published
<1> USE DEF unchangedAround, coroVars, window, OnLoop
<1>1. CASE Load \/ Started \/ HealthPoll \/ Negotiate
  BY <1>1 DEF Load, Started, HealthPoll, Negotiate
<1>2. CASE Play \/ Agree \/ StartupGrace \/ Greet \/ Linger
  BY <1>2 DEF Play, Agree, StartupGrace, Greet, Linger
<1>3. CASE StopGraceful \/ StopForced \/ StopCancelling \/ Write \/ Cancelled
  BY <1>3 DEF StopGraceful, StopForced, AwaitBounded, StopCancelling, Write, Cancelled
<1>4. CASE ServerTask \/ Interrupt
  BY <1>4 DEF ServerTask, ServerUp, BindError, ServerCloses, ServerFails, Interrupt
<1>5. QED  BY <1>1, <1>2, <1>3, <1>4 DEF Coroutine

\* The main and the background thread change nothing of the coroutine's, except
\* that the end of the loop abandons a server.
LEMMA ThreadFrame ==
  ASSUME MainThread \/ Background
  PROVE  /\ UNCHANGED <<command, coro, left, unwinding, polls, exitFlag, stopped, summary,
                        written, result, published>>
         /\ UNCHANGED server \/ LoopEnds
<1> USE DEF coroVars, window, threadVars
<1>1. CASE RefusedAtStart \/ LaunchGui \/ LaunchHeadless \/ PollDrain \/ PollCheck
  BY <1>1 DEF RefusedAtStart, LaunchGui, LaunchHeadless, PollDrain, PollCheck
<1>2. ASSUME NEW who, Close(who)
      PROVE  UNCHANGED <<command, coroVars, result, published>>
  BY <1>2 DEF Close
<1>3. ASSUME NEW a, NEW b, NEW c,
             StopCheck(a, b, c) \/ StopSignal(a, c) \/ StopWait(a, c)
      PROVE  UNCHANGED <<command, coroVars, result, published>>
  BY <1>3 DEF StopCheck, StopSignal, StopWait
<1>4. CASE Report  BY <1>4 DEF Report
<1>5. CASE Background  BY <1>5 DEF Background, PublishLoop, PublishTask, LoopEnds
<1>6. QED  BY <1>1, <1>2, <1>3, <1>4, <1>5 DEF MainThread

-----------------------------------------------------------------------------
\* Every step keeps the places in the control.
LEMMA PlacesStep ==
  ASSUME ProcessInv, Next
  PROVE  Places'
<1> USE DEF ProcessInv, TypeOK, Places, Alive, Startup, Ladder, unchangedAround, coroVars,
            window, OnLoop, Goto, Fail
<1>1. CASE MainThread \/ Background
  <2>1. UNCHANGED <<command, coro, left, unwinding, stopped, summary, result>>
    BY <1>1, ThreadFrame
  <2>2. server' \in {server, "leaked"}
    BY <1>1, ThreadFrame DEF LoopEnds
  <2>3. main' \in {"begin", "loop", "polled", "check", "signal", "wait", "check2", "signal2",
                   "wait2", "report", "exited"}
    BY <1>1 DEF MainThread, Background, PublishLoop, PublishTask, LoopEnds, RefusedAtStart,
       LaunchGui, LaunchHeadless, PollDrain, PollCheck, Close, StopCheck, StopSignal,
       StopWait, Report
  <2>4. thread' \in {"none", "started", "loop", "task", "done", "killed"}
    BY <1>1 DEF MainThread, Background, PublishLoop, PublishTask, LoopEnds, RefusedAtStart,
       LaunchGui, LaunchHeadless, PollDrain, PollCheck, Close, StopCheck, StopSignal,
       StopWait, Report, threadVars
  <2>5. closedBy' \in {"nobody", "user", "timer"}
    BY <1>1 DEF MainThread, Background, PublishLoop, PublishTask, LoopEnds, RefusedAtStart,
       LaunchGui, LaunchHeadless, PollDrain, PollCheck, Close, StopCheck, StopSignal,
       StopWait, Report
  <2>6. QED  BY <2>1, <2>2, <2>3, <2>4, <2>5
<1>2. CASE Load \/ Started \/ HealthPoll \/ Negotiate \/ StartupGrace \/ Greet \/ Publish
  BY <1>2 DEF Load, Started, HealthPoll, Negotiate, StartupGrace, Greet, Publish, AfterReady
<1>3. CASE Play \/ Agree \/ Linger
  BY <1>3 DEF Play, Agree, Linger, EnterStop, Summaries
<1>4. CASE StopGraceful \/ StopForced \/ StopCancelling
  BY <1>4 DEF StopGraceful, StopForced, AwaitBounded, StopCancelling, AfterStop
<1>5. CASE Write \/ Cancelled  BY <1>5 DEF Write, Cancelled, AfterStop
<1>6. CASE ServerTask \/ Interrupt
  BY <1>6 DEF ServerTask, ServerUp, BindError, ServerCloses, ServerFails, Interrupt, CoroOver
<1>7. QED  BY <1>1, <1>2, <1>3, <1>4, <1>5, <1>6 DEF Next, Coroutine

\* Every step keeps the flags.
LEMMA FlagsStep ==
  ASSUME ProcessInv, Next
  PROVE  Flags'
<1> USE DEF ProcessInv, TypeOK, Flags, unchangedAround, coroVars, window, OnLoop
<1>1. CASE MainThread \/ Background
  <2>1. UNCHANGED <<exitFlag, written>>  BY <1>1, ThreadFrame
  <2>2. cancel' \in BOOLEAN
    BY <1>1 DEF MainThread, Background, PublishLoop, PublishTask, LoopEnds, RefusedAtStart,
       LaunchGui, LaunchHeadless, PollDrain, PollCheck, Close, StopCheck, StopSignal,
       StopWait, Report, threadVars
  <2>3. QED  BY <2>1, <2>2
<1>2. CASE Load \/ Started \/ HealthPoll \/ Negotiate \/ StartupGrace \/ Greet \/ Publish
  BY <1>2 DEF Load, Started, HealthPoll, Negotiate, StartupGrace, Greet, Publish
<1>3. CASE Play \/ Agree \/ Linger  BY <1>3 DEF Play, Agree, Linger, EnterStop
<1>4. CASE StopGraceful \/ StopForced \/ StopCancelling
  BY <1>4 DEF StopGraceful, StopForced, AwaitBounded, StopCancelling
<1>5. CASE Write \/ Cancelled
  <2>1. CASE Cancelled  BY <2>1 DEF Cancelled, Goto
  <2>2. CASE Write
    <3>1. WritesArtifacts \in BOOLEAN  BY DEF WritesArtifacts
    <3>2. QED  BY <2>2, <3>1 DEF Write
  <2>3. QED  BY <1>5, <2>1, <2>2
<1>6. CASE ServerTask \/ Interrupt
  BY <1>6 DEF ServerTask, ServerUp, BindError, ServerCloses, ServerFails, Interrupt
<1>7. QED  BY <1>1, <1>2, <1>3, <1>4, <1>5, <1>6 DEF Next, Coroutine

\* The lines of the log for a number of events.
LEMMA LogLinesType ==
  ASSUME NEW n \in Nat
  PROVE  LogLines(n) \in 0 .. LogLimit
  BY ProcessAssumption DEF LogLines

\* Every step keeps the counters in their bounds.
LEMMA CountersStep ==
  ASSUME ProcessInv, Next
  PROVE  Counters'
<1> USE ProcessAssumption DEF ProcessInv, TypeOK, Counters
<1>1. CASE Coroutine \/ ServerTask \/ Interrupt
  <2>1. UNCHANGED <<code, rendered, listed, grace>>  BY <1>1, LoopFrame
  <2>2. published' \in 0 .. MaxEvents /\ published <= published'
    BY <1>1, LoopPublished DEF Publish
  <2>3. polls' \in 0 .. HealthAttempts
    <3> USE DEF unchangedAround, coroVars, OnLoop
    <3>1. CASE Load \/ Started \/ HealthPoll \/ Negotiate \/ Publish
      BY <3>1 DEF Load, Started, HealthPoll, Negotiate, Publish
    <3>2. CASE Play \/ Agree \/ StartupGrace \/ Greet \/ Linger
      BY <3>2 DEF Play, Agree, StartupGrace, Greet, Linger
    <3>3. CASE StopGraceful \/ StopForced \/ StopCancelling \/ Write \/ Cancelled
      BY <3>3 DEF StopGraceful, StopForced, AwaitBounded, StopCancelling, Write, Cancelled
    <3>4. CASE ServerTask \/ Interrupt
      BY <3>4 DEF ServerTask, ServerUp, BindError, ServerCloses, ServerFails, Interrupt
    <3>5. QED  BY <1>1, <3>1, <3>2, <3>3, <3>4 DEF Coroutine
  <2>4. QED  BY <2>1, <2>2, <2>3
<1>2. CASE MainThread \/ Background
  <2> USE DEF coroVars, window
  <2>1. UNCHANGED <<polls, published>>  BY <1>2, ThreadFrame
  <2>2. CASE PollDrain
    <3>1. listed' = LogLines(published) + 0
      BY <2>2, LogLinesType DEF PollDrain, WindowInv
    <3>2. QED  BY <2>1, <2>2, <3>1, LogLinesType DEF PollDrain
  <2>3. CASE PollCheck  BY <2>1, <2>3 DEF PollCheck
  <2>4. CASE Report
    BY <2>1, <2>4 DEF Report, SmokeExitCode, SummaryExitCode, Interrupted
  <2>5. CASE RefusedAtStart \/ LaunchGui \/ LaunchHeadless
    BY <2>1, <2>5 DEF RefusedAtStart, LaunchGui, LaunchHeadless
  <2>6. CASE Background
    BY <2>1, <2>6 DEF Background, PublishLoop, PublishTask, LoopEnds
  <2>7. ASSUME NEW who, Close(who) PROVE Counters'  BY <2>1, <2>7 DEF Close
  <2>8. ASSUME NEW a, NEW b, NEW c,
               StopCheck(a, b, c) \/ StopSignal(a, c) \/ StopWait(a, c)
        PROVE  Counters'
    BY <2>1, <2>8 DEF StopCheck, StopSignal, StopWait
  <2>9. QED  BY <1>2, <2>2, <2>3, <2>4, <2>5, <2>6, <2>7, <2>8 DEF MainThread
<1>3. QED  BY <1>1, <1>2 DEF Next

\* Every step keeps the server and the coroutine together.
LEMMA ServerStep ==
  ASSUME ProcessInv, Next
  PROVE  ServerInv' /\ SeriesStopsServer' /\ OutcomeHonest'
<1> USE DEF ProcessInv, TypeOK, Places, ServerInv, SeriesStopsServer, OutcomeHonest, CoroOver,
            Alive, Startup, Ladder, OnLoop, Goto, Fail
<1>1. CASE MainThread \/ Background
  <2>1. UNCHANGED <<coro, left, stopped>>  BY <1>1, ThreadFrame
  <2>2. CASE LoopEnds  BY <2>1, <2>2 DEF LoopEnds
  <2>3. CASE ~LoopEnds
    <3>1. UNCHANGED server  BY <1>1, <2>3, ThreadFrame
    <3>2. (thread = "done") = (thread' = "done")
      BY <1>1, <2>3 DEF MainThread, Background, PublishLoop, PublishTask, RefusedAtStart,
         LaunchGui, LaunchHeadless, PollDrain, PollCheck, Close, StopCheck, StopSignal,
         StopWait, Report, threadVars, WindowInv
    <3>3. QED  BY <2>1, <3>1, <3>2
  <2>4. QED  BY <2>2, <2>3
<1>2. CASE Coroutine \/ ServerTask \/ Interrupt
  <2>1. thread = "task" /\ thread' = "task"  BY <1>2, LoopFrame
  <2>2. CASE Load  BY <2>1, <2>2 DEF Load
  <2>3. CASE Started \/ HealthPoll \/ Negotiate
    BY <2>1, <2>3 DEF Started, HealthPoll, Negotiate, AfterReady
  <2>4. CASE StartupGrace \/ Greet \/ Publish
    BY <2>1, <2>4 DEF StartupGrace, Greet, Publish, coroVars
  <2>5. CASE Play  BY <2>1, <2>5 DEF Play, EnterStop
  <2>6. CASE Agree \/ Linger  BY <2>1, <2>6 DEF Agree, Linger, EnterStop
  <2>7. CASE StopGraceful \/ StopForced
    BY <2>1, <2>7 DEF StopGraceful, StopForced, AwaitBounded, AfterStop
  <2>8. CASE StopCancelling  BY <2>1, <2>8 DEF StopCancelling, AfterStop
  <2>9. CASE Write  BY <2>1, <2>9 DEF Write
  <2>10. CASE Cancelled  BY <2>1, <2>10 DEF Cancelled, AfterStop
  <2>11. CASE ServerTask \/ Interrupt
    BY <2>1, <2>11 DEF ServerTask, ServerUp, BindError, ServerCloses, ServerFails, Interrupt,
       coroVars
  <2>12. QED
    BY <1>2, <2>2, <2>3, <2>4, <2>5, <2>6, <2>7, <2>8, <2>9, <2>10, <2>11 DEF Coroutine
<1>3. QED  BY <1>1, <1>2 DEF Next

\* Every step keeps the result honest.
LEMMA ResultStep ==
  ASSUME ProcessInv, Next
  PROVE  ResultInv' /\ CleanExitHonest'
<1> USE DEF ProcessInv, TypeOK, ServerInv, ResultInv, CleanExitHonest, WritesArtifacts
<1>1. CASE MainThread \/ Background
  <2>1. UNCHANGED <<command, coro, stopped, summary, written, result>>  BY <1>1, ThreadFrame
  <2>2. CASE Report
    BY <2>1, <2>2 DEF Report, SmokeExitCode, SummaryExitCode, Greetings, Interrupted
  <2>3. CASE ~Report
    <3>1. \/ code' = code /\ (main' # "exited" => main # "exited")
          \/ code' # 0 /\ main' = "exited"
      BY <1>1, <2>3 DEF MainThread, Background, PublishLoop, PublishTask, LoopEnds,
         RefusedAtStart, LaunchGui, LaunchHeadless, PollDrain, PollCheck, Close, StopCheck,
         StopSignal, StopWait
    <3>2. QED  BY <2>1, <3>1
  <2>4. QED  BY <2>2, <2>3
<1>2. CASE Coroutine \/ ServerTask \/ Interrupt
  <2> USE DEF OnLoop, Goto, Fail
  <2>1. UNCHANGED <<command, main, code>>  BY <1>2, LoopFrame
  <2>2. CASE Write  BY <2>1, <2>2 DEF Write
  <2>3. CASE ~Write
    <3>1. coro = "returned" => UNCHANGED <<coro, stopped, summary, written, result>>
      BY <1>2, <2>3 DEF Coroutine, Load, Started, HealthPoll, Negotiate, Publish, Play, Agree,
         StartupGrace, Greet, Linger, StopGraceful, StopForced, AwaitBounded, StopCancelling,
         Cancelled, ServerTask, ServerUp, BindError, ServerCloses, ServerFails, Interrupt,
         coroVars, CoroOver, Alive, Startup, Ladder
    <3>2. result' = result
      BY <1>2, <2>3 DEF Coroutine, Load, Started, HealthPoll, Negotiate, Publish, Play, Agree,
         StartupGrace, Greet, Linger, StopGraceful, StopForced, AwaitBounded, StopCancelling,
         Cancelled, ServerTask, ServerUp, BindError, ServerCloses, ServerFails, Interrupt
    <3>3. QED  BY <2>1, <3>1, <3>2
  <2>4. QED  BY <2>2, <2>3
<1>3. QED  BY <1>1, <1>2 DEF Next

\* Every step keeps the window's countdown behind the series.
LEMMA WindowStep ==
  ASSUME ProcessInv, Next
  PROVE  WindowInv'
<1> USE ProcessAssumption DEF ProcessInv, TypeOK, Counters, WindowInv
<1>1. CASE Coroutine \/ ServerTask \/ Interrupt
  <2>1. /\ UNCHANGED <<main, thread, rendered, listed, grace, closedBy>>
        /\ thread = "task"
    BY <1>1, LoopFrame
  <2>2. QED  BY <2>1 DEF LogLines
<1>2. CASE MainThread \/ Background
  <2> USE DEF coroVars, window, threadVars
  <2>1. published' = published  BY <1>2, ThreadFrame
  <2>2. CASE PollDrain
    <3>1. /\ LogLines(published) \in Int /\ listed = LogLines(rendered)
          /\ rendered' = published
          /\ listed' = listed + (LogLines(published) - LogLines(rendered))
      BY <2>2, LogLinesType DEF PollDrain
    <3>2. LogLines(rendered') = LogLines(published)  BY <3>1
    <3>3. listed' = LogLines(rendered')  BY <3>1, <3>2
    <3>4. QED  BY <2>1, <2>2, <3>3 DEF PollDrain, LogLines
  <2>3. CASE PollCheck  BY <2>1, <2>3 DEF PollCheck, LogLines
  <2>4. ASSUME NEW who, Close(who) PROVE WindowInv'  BY <2>1, <2>4 DEF Close, LogLines
  <2>5. CASE Report  BY <2>1, <2>5 DEF Report, LogLines
  <2>6. CASE RefusedAtStart \/ LaunchGui \/ LaunchHeadless
    BY <2>1, <2>6 DEF RefusedAtStart, LaunchGui, LaunchHeadless, LogLines
  <2>7. CASE Background
    BY <2>1, <2>7 DEF Background, PublishLoop, PublishTask, LoopEnds, LogLines
  <2>8. CASE \/ StopCheck("check", "signal", "wait") \/ StopSignal("signal", "wait")
             \/ StopWait("wait", "check2")
             \/ StopCheck("check2", "signal2", "wait2") \/ StopSignal("signal2", "wait2")
             \/ StopWait("wait2", "report")
    BY <2>1, <2>8 DEF StopCheck, StopSignal, StopWait, LogLines
  <2>9. QED  BY <1>2, <2>2, <2>3, <2>4, <2>5, <2>6, <2>7, <2>8 DEF MainThread
<1>3. QED  BY <1>1, <1>2 DEF Next

-----------------------------------------------------------------------------
\* The inductive invariant of one run of the process, for every command and every
\* moment at which its window is closed, it is interrupted or its server fails.
THEOREM ProcessInvariant == Spec => []ProcessInv
<1>1. ProcessInv /\ [Next]_vars => ProcessInv'
  <2> SUFFICES ASSUME ProcessInv, [Next]_vars PROVE ProcessInv'  OBVIOUS
  <2>1. CASE Next
    BY <2>1, PlacesStep, FlagsStep, CountersStep, ServerStep, ResultStep, WindowStep
    DEF ProcessInv, TypeOK
  <2>2. CASE UNCHANGED vars
    BY <2>2 DEF vars, window, ProcessInv, TypeOK, Places, Flags, Counters, ServerInv,
       ResultInv, WindowInv, SeriesStopsServer, OutcomeHonest, CleanExitHonest, CoroOver,
       WritesArtifacts, LogLines
  <2>3. QED  BY <2>1, <2>2
<1>2. QED  BY <1>1, ProcessInit, PTL DEF Spec

\* A coroutine that is over has stopped its server, except for the interruptions
\* before the try statement, in the linger and inside ManagedServer.stop.
THEOREM ServerIsStopped == Spec => []SeriesStopsServer
<1>1. ProcessInv => SeriesStopsServer  BY DEF ProcessInv
<1>2. QED  BY <1>1, ProcessInvariant, PTL

\* ShutdownOutcome tells the truth about the listening socket.
THEOREM ShutdownIsHonest == Spec => []OutcomeHonest
<1>1. ProcessInv => OutcomeHonest  BY DEF ProcessInv
<1>2. QED  BY <1>1, ProcessInvariant, PTL

\* Exit code 0 means an agreed or negotiated result, a stop that was reported and,
\* for a series, artifacts on disk.
THEOREM ExitCodeIsHonest == Spec => []CleanExitHonest
<1>1. ProcessInv => CleanExitHonest  BY DEF ProcessInv
<1>2. QED  BY <1>1, ProcessInvariant, PTL

\* A window that closes by itself has drawn every event, for every length of the
\* event log and of the grace period.
THEOREM TimerClosesAfterLastEvent == Spec => []NothingUnseen
<1>1. ProcessInv => NothingUnseen
  BY ProcessAssumption DEF ProcessInv, WindowInv, NothingUnseen, LogLines
<1>2. QED  BY <1>1, ProcessInvariant, PTL
=============================================================================
