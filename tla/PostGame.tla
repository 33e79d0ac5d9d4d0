------------------------------ MODULE PostGame ------------------------------
(***************************************************************************)
(* What happens to a peer's artifact directory: one or more series write   *)
(* their files into it, one by one; a file may be altered afterwards; then *)
(* the operator runs verify-replay, the replay viewer or the report on it. *)
(* The series is the one SeriesContract describes, which ThiefSeries       *)
(* implements.  The game_uid and the config hash are functions of the      *)
(* groups and the terms, so two series of the same pairing share them.     *)
(***************************************************************************)
EXTENDS SeriesContract, ReplayVerifier

CONSTANTS Terms,        \* the negotiated terms a series may be played under
          MaxSeries,    \* bound: series written into the directory
          MaxRetries,   \* rate_limits.json: retries of a rejected send
          MaxTicks      \* bound: pending playback ticks

ASSUME PostGameAssumption ==
  /\ Games \in Nat \ {0} /\ Threshold \in Nat /\ Slots = 1 .. Games
  /\ Terms # {} /\ "other" \notin Terms
  /\ MaxSeries \in Nat /\ MaxRetries \in Nat /\ MaxTicks \in Nat \ {0}

VARIABLES
  dir,        \* the files of the directory
  runs,       \* series started so far
  plan,       \* the artifact set being written
  next,       \* files of it already saved
  torn,       \* history: a writer died between two files
  edit,       \* history: the kind of the alteration made, or "none"
  cmd,        \* what is running
  shown,      \* what the last command reported
  report,     \* the report being sent
  playback    \* PlaybackState, with the ticks scheduled

dirVars == <<dir, runs, plan, next, torn, edit>>
postVars == <<played, status, dirVars, cmd, shown, report, playback>>

NotShown == [exit |-> 0, banner |-> "none", opponent |-> "none"]
NoReport == [attempts |-> 0, sent |-> 0, body |-> NoFile]
Paused == [sub_game_index |-> 1, step |-> 0, playing |-> FALSE, ticks |-> 0]

-----------------------------------------------------------------------------
(* The artifacts of a series (series_artifacts, artifact_builders).        *)

\* A sealed record as a log step: the canonical fields and the commit hash.
LogStep(payload) ==
  LET c == CanonicalDict(payload)
  IN [step |-> c.step, nonce |-> c.nonce, schema |-> c.schema, fields |-> c.fields,
      cell |-> c.cell, commit_hash |-> c, unknown |-> FALSE]

\* The sealed steps of a log.  A nonce that was drawn twice fails the audit.
LogSteps(count, reused, schema, fields) ==
  [k \in 1 .. count |->
     LogStep(SealedTurnPayload(k - 1, IF reused THEN 0 ELSE k, schema, fields))]

ResultEntries(games) ==
  [n \in DOMAIN games |->
     [sub_game_number |-> n, result |-> games[n].result, steps |-> games[n].steps,
      scores |-> Score(games[n].result)]]

\* Mutant of ResultArtifact: the totals of a disputed series are kept.
ResultArtifactUnzeroed(games, agreement, terms, by) ==
  [by |-> by, game_uid |-> terms, config_sha256 |-> terms,
   sub_games |-> ResultEntries(games), agreement_status |-> agreement,
   totals |-> Totals(ResultEntries(games))]

\* The agreement zeroes the totals of a disputed series.
ResultArtifact(games, agreement, terms, by) ==
  [by |-> by, game_uid |-> terms, config_sha256 |-> terms,
   sub_games |-> ResultEntries(games), agreement_status |-> agreement,
   totals |-> IF agreement = "disputed_zeroed" THEN <<0, 0>>
              ELSE Totals(ResultEntries(games))]

ConfigArtifact(n, terms, by) ==
  [by |-> by, game_uid |-> terms, config_sha256 |-> terms, sub_game_number |-> n,
   terms |-> AgreedTerms]

LogArtifact(n, steps, terms, by) ==
  [by |-> by, game_uid |-> terms, sub_game_number |-> n, steps |-> steps]

\* One declaration, a config and a log per sub-game played, one result.
Artifacts(games, logs, agreement, terms, by) ==
  [declaration |-> [by |-> by, game_uid |-> terms],
   configs |-> [n \in Slots |-> IF n \in DOMAIN games
                                THEN ConfigArtifact(n, terms, by) ELSE NoFile],
   logs |-> [n \in Slots |-> IF n \in DOMAIN games
                             THEN LogArtifact(n, logs[n], terms, by) ELSE NoFile],
   result |-> ResultArtifact(games, agreement, terms, by)]

\* A completed series reports how the result exchange ended, another one why
\* it ended.
AgreementStatuses ==
  IF status = "completed" THEN {"agreed", "unverified_self_play", "disputed_zeroed"}
  ELSE {status}

Natural(n) == n < Len(played) \/ status = "completed"

\* The sub-games whose nonces repeat: a played one exactly when its audit
\* failed, a forfeited one was not audited.
ReuseSets ==
  {R \in SUBSET {n \in DOMAIN played : played[n].result = "technical_loss"
                                         /\ played[n].steps > 1} :
     \A n \in DOMAIN played : played[n].result = "technical_loss"
                                /\ played[n].steps > 1 /\ Natural(n) => n \in R}

-----------------------------------------------------------------------------
PostInit ==
  /\ ContractInit
  /\ dir = EmptyDir /\ plan = EmptyDir
  /\ runs = 0 /\ next = 0
  /\ torn = FALSE /\ edit = "none"
  /\ cmd = "idle"
  /\ shown = NotShown /\ report = NoReport /\ playback = Paused

StartSeries ==
  /\ cmd = "idle" /\ runs < MaxSeries /\ edit = "none"
  /\ runs' = runs + 1
  /\ cmd' = "series"
  /\ UNCHANGED <<played, status, dir, plan, next, torn, edit, shown, report, playback>>

PlaySeries ==
  /\ cmd = "series"
  /\ ContractNext
  /\ UNCHANGED <<dirVars, cmd, shown, report, playback>>

\* An exception out of the series: nothing is written.
SeriesRaised ==
  /\ cmd = "series" /\ status = "raised"
  /\ cmd' = "idle"
  /\ played' = <<>> /\ status' = "open"
  /\ UNCHANGED <<dirVars, shown, report, playback>>

\* write_series_artifacts, up to the first save.
BeginWrite ==
  /\ cmd = "series" /\ status \in {"completed", "technical_loss_ended_series"}
  /\ \E terms \in Terms, agreement \in AgreementStatuses, reused \in ReuseSets :
       plan' = Artifacts(played,
                 [n \in DOMAIN played |->
                    LogSteps(played[n].steps, n \in reused, "current", "own")],
                 agreement, terms, runs)
  /\ next' = 0
  /\ cmd' = "writing"
  /\ played' = <<>> /\ status' = "open"
  /\ UNCHANGED <<dir, runs, torn, edit, shown, report, playback>>

PlanFiles == 2 + 2 * Cardinality(Files(plan.configs))

\* The directory after file number k of the plan is saved: the declaration,
\* config and log of each sub-game in turn, the result last.
Saved(k) ==
  IF k = 1 THEN [dir EXCEPT !.declaration = plan.declaration]
  ELSE IF k = PlanFiles THEN [dir EXCEPT !.result = plan.result]
  ELSE IF k % 2 = 0 THEN [dir EXCEPT !.configs[k \div 2] = plan.configs[k \div 2]]
  ELSE [dir EXCEPT !.logs[k \div 2] = plan.logs[k \div 2]]

SaveNext ==
  /\ cmd = "writing"
  /\ dir' = Saved(next + 1)
  /\ IF next + 1 = PlanFiles
     THEN cmd' = "idle" /\ next' = 0 /\ plan' = EmptyDir
     ELSE cmd' = cmd /\ next' = next + 1 /\ plan' = plan
  /\ UNCHANGED <<played, status, runs, torn, edit, shown, report, playback>>

\* The process is killed, or save_artifact raises: what was saved stays.
WriterDies ==
  /\ cmd = "writing"
  /\ torn' = TRUE
  /\ cmd' = "idle" /\ next' = 0 /\ plan' = EmptyDir
  /\ UNCHANGED <<played, status, dir, runs, edit, shown, report, playback>>

-----------------------------------------------------------------------------
(* Alterations of one file.                                                *)

\* A step with one changed field, a changed hash or an unknown field.
StepEdits(s) ==
  {[s EXCEPT !.nonce = -1], [s EXCEPT !.fields = "wrong_role"],
   [s EXCEPT !.commit_hash.nonce = -1], [s EXCEPT !.unknown = TRUE]}

\* A log's steps with one of them changed, dropped or doubled, or two swapped.
StepsEdited(q) ==
  (UNION {{[q EXCEPT ![k] = s] : s \in StepEdits(q[k])} : k \in DOMAIN q})
  \union {SubSeq(q, 1, k - 1) \o SubSeq(q, k + 1, Len(q)) : k \in DOMAIN q}
  \union {SubSeq(q, 1, k) \o SubSeq(q, k, Len(q)) : k \in DOMAIN q}
  \union {[q EXCEPT ![1] = q[k], ![k] = q[1]] : k \in DOMAIN q \ {1}}

EntryEdits(e) ==
  {[e EXCEPT !.steps = @ + 1], [e EXCEPT !.scores[1] = @ + 1]}
  \union {[e EXCEPT !.result = r] : r \in {"capture", "survival"} \ {e.result}}

\* The fields of the scoring that the score of a result is made of.
ScoreFields(result) ==
  CASE result = "capture"        -> {"capture_cop", "capture_thief"}
    [] result = "survival"       -> {"survival_cop", "survival_thief"}
    [] result = "technical_loss" -> {"technical_loss"}

ScoresUsed(d) ==
  UNION {ScoreFields(d.result.sub_games[i].result) : i \in DOMAIN d.result.sub_games}

ScoringEdit(d, n, f) == [d EXCEPT !.configs[n].terms.scoring[f] = @ + 1]

\* The edits that some check covers.
ContentEdits(d) ==
  {[d EXCEPT !.result = NoFile], [d EXCEPT !.declaration.game_uid = "other"],
   [d EXCEPT !.result.game_uid = "other"]}
  \union {[d EXCEPT !.result.totals[2] = t] : t \in {0, 1} \ {d.result.totals[2]}}
  \union {ScoringEdit(d, 1, f) : f \in ScoresUsed(d)}
  \union UNION {
    {[d EXCEPT !.configs[n] = NoFile], [d EXCEPT !.logs[n] = NoFile],
     [d EXCEPT !.logs[n].game_uid = "other"],
     [d EXCEPT !.configs[n].config_sha256 = "other"]}
    \union {[d EXCEPT !.logs[n].steps = q] : q \in StepsEdited(d.logs[n].steps)}
    \union {[d EXCEPT !.result.sub_games[n] = e] : e \in EntryEdits(d.result.sub_games[n])}
    : n \in Files(d.logs)}

\* Entry n rewritten together with the scores that follow from it.
Rewritten(r, n, result) ==
  LET entries == [r.sub_games EXCEPT ![n].result = result, ![n].scores = Score(result)]
  IN [r EXCEPT !.sub_games = entries,
               !.totals = IF r.agreement_status = "disputed_zeroed" THEN <<0, 0>>
                          ELSE Totals(entries)]

\* Step k sealed again: the hash has no key and no check compares it with what
\* the opponent was sent.
Resealed(q, k) == [q EXCEPT ![k] = LogStep(SealedTurnPayload(k - 1, -1, "current", "own"))]

\* The edits that no check covers: the declaration's presence, the numbers that
\* tie config, log and entry together, the terms beside the scores that are used,
\* a log or a result rewritten consistently, a status.
UncheckedEdits(d) ==
  {[d EXCEPT !.declaration = NoFile]}
  \union {ScoringEdit(d, 1, f) : f \in DOMAIN AgreedScoring \ ScoresUsed(d)}
  \union {ScoringEdit(d, n, f) : n \in Files(d.configs) \ {1}, f \in DOMAIN AgreedScoring}
  \union (UNION {
    {[d EXCEPT !.logs[n].sub_game_number = Games + 1],
     [d EXCEPT !.result.sub_games[n].sub_game_number = Games + 1],
     [d EXCEPT !.configs[n].sub_game_number = Games + 1],
     [d EXCEPT !.configs[n].terms.grid = "larger"]}
    \union {[d EXCEPT !.logs[n].steps = Resealed(@, k)] : k \in DOMAIN d.logs[n].steps}
    \union {[d EXCEPT !.result = Rewritten(@, n, r)] :
              r \in {"capture", "survival"} \ {d.result.sub_games[n].result}}
    : n \in Files(d.logs)})
  \union (IF d.result.agreement_status # "agreed" THEN {}
          ELSE {[d EXCEPT !.result.agreement_status = "unverified_self_play"]})

\* The edits after which a check meets what it does not expect.
MalformedEdits(d) ==
  {[d EXCEPT !.configs[1].terms.grid = "missing"]}
  \union UNION {
    {[d EXCEPT !.result.sub_games[n].result = "unknown"]}
    \union {[d EXCEPT !.logs[n].steps[k].fields = "missing"] : k \in DOMAIN d.logs[n].steps}
    : n \in Files(d.logs)}

\* A first step that claims the old schema.
SchemaEdits(d) ==
  {[d EXCEPT !.logs[n].steps[1].schema = "legacy"] :
     n \in {m \in Files(d.logs) \intersect {1} : d.logs[m].steps # <<>>}}

AlterFile ==
  /\ cmd = "idle" /\ runs = 1 /\ ~torn /\ edit = "none"
  /\ VerifyReplay(dir)
  /\ \/ edit' = "content" /\ dir' \in ContentEdits(dir)
     \/ edit' = "unchecked" /\ dir' \in UncheckedEdits(dir)
     \/ edit' = "schema" /\ dir' \in SchemaEdits(dir)
     \/ edit' = "malformed" /\ dir' \in MalformedEdits(dir)
  /\ UNCHANGED <<played, status, runs, plan, next, torn, cmd, shown, report, playback>>

-----------------------------------------------------------------------------
(* The commands.                                                           *)

\* The directory the opponent publishes: sound, in the old schema, sealed with a
\* barrier off the board, the same with a larger grid in its config file, or
\* altered after it was sealed.
Opponents == {"sound", "legacy", "misplayed", "regridded", "altered"}

OpponentDir(kind) ==
  LET steps == LogSteps(2, FALSE, IF kind = "legacy" THEN "legacy" ELSE "current",
                        IF kind \in {"misplayed", "regridded"} THEN "out_of_bounds" ELSE "own")
      log   == IF kind = "altered" THEN [steps EXCEPT ![1].nonce = -1] ELSE steps
      files == Artifacts(<<[result |-> "capture", steps |-> 2]>>, <<log>>, "agreed",
                         CHOOSE t \in Terms : TRUE, MaxSeries + 1)
  IN IF kind = "regridded" THEN [files EXCEPT !.configs[1].terms.grid = "larger"] ELSE files

\* verify-replay: a verdict, or a traceback.
RunVerify ==
  /\ cmd = "idle"
  /\ shown' = [NotShown EXCEPT !.exit = IF VerifyRaises(dir) THEN 1
                                        ELSE IF VerifyReplay(dir) THEN 0 ELSE 2]
  /\ cmd' = "verified"
  /\ UNCHANGED <<played, status, dirVars, report, playback>>

ReplayRaises ==
  /\ cmd = "idle" /\ SideRaises(dir)
  /\ shown' = [NotShown EXCEPT !.exit = 1]
  /\ cmd' = "raised"
  /\ UNCHANGED <<played, status, dirVars, report, playback>>

\* replay: the verdict, then, with --gui, the viewer.
OpenReplay ==
  /\ cmd = "idle" /\ ~SideRaises(dir)
  /\ \E kind \in Opponents :
       shown' = [exit   |-> IF VerificationOk(OpponentDir(kind), dir) THEN 0 ELSE 2,
                 banner |-> Banner(OpponentDir(kind), dir),
                 opponent |-> kind]
  /\ cmd' = "viewer"
  /\ UNCHANGED <<played, status, dirVars, report, playback>>

SubGames == ReplaySubGames(OpponentDir("sound"), dir)

MaxStep ==
  IF SubGames = <<>> THEN 0 ELSE Max({0, SubGames[playback.sub_game_index].steps_total - 1})

SetPlayback(p) ==
  /\ cmd = "viewer"
  /\ playback' = p
  /\ UNCHANGED <<played, status, dirVars, cmd, shown, report>>

\* Mutant of Select: the step of the last sub-game is kept.
SelectKeepsStep ==
  \E i \in DOMAIN SubGames : SetPlayback([playback EXCEPT !.sub_game_index = i])

Select ==
  \E i \in DOMAIN SubGames :
    SetPlayback([playback EXCEPT !.sub_game_index = i, !.step = 0])

\* jump_start, jump_end, prev, next
Navigate ==
  \E s \in {0, MaxStep, Max({0, playback.step - 1}), Min({MaxStep, playback.step + 1})} :
    SetPlayback([playback EXCEPT !.step = s])

\* advance_if_playing and the next tick scheduled by _tick.
AfterTick(p) ==
  IF ~p.playing THEN p
  ELSE IF p.step >= MaxStep THEN [p EXCEPT !.playing = FALSE]
  ELSE [p EXCEPT !.step = @ + 1, !.ticks = @ + 1]

\* Starting to play ticks at once, whether or not an older tick is pending.
TogglePlay ==
  /\ playback.playing \/ playback.ticks < MaxTicks
  /\ SetPlayback(IF playback.playing THEN [playback EXCEPT !.playing = FALSE]
                 ELSE AfterTick([playback EXCEPT !.playing = TRUE]))

Tick == playback.ticks > 0 /\ SetPlayback(AfterTick([playback EXCEPT !.ticks = @ - 1]))

-----------------------------------------------------------------------------
(* The report (report_runner, gmail_sender, gmail_gatekeeper).             *)

\* _require_verified, with or without the opponent's directory.
GatePasses(opponent) ==
  IF opponent = "none" THEN VerifyReplay(dir) ELSE FullBilateral(dir, OpponentDir(opponent))

GateRaises(opponent) == IF opponent = "none" THEN VerifyRaises(dir) ELSE SideRaises(dir)

Exit(code) == cmd' = "reported" /\ shown' = [shown EXCEPT !.exit = code]

RefuseReport ==
  /\ cmd = "idle"
  /\ \E opponent \in Opponents \union {"none"} :
       /\ ~GateRaises(opponent) /\ ~GatePasses(opponent)
       /\ shown' = [NotShown EXCEPT !.exit = 3, !.opponent = opponent]
  /\ cmd' = "reported"
  /\ UNCHANGED <<played, status, dirVars, report, playback>>

\* The report, copied from the files; the steps are those of the logs.
ReportBody(d) ==
  [game_uid          |-> d.declaration.game_uid,
   sub_game_outcomes |-> d.result.sub_games,
   scores            |-> d.result.totals,
   agreement_status  |-> d.result.agreement_status,
   total_steps       |-> MapThenSumSet(LAMBDA n : Len(d.logs[n].steps), Files(d.logs))]

\* The report is built from a second read of the files.
BuildReport ==
  /\ cmd = "idle"
  /\ \E opponent \in Opponents \union {"none"} :
       /\ GatePasses(opponent)
       /\ shown' = [NotShown EXCEPT !.opponent = opponent]
  /\ dir.declaration # NoFile
  /\ report' = [report EXCEPT !.body = ReportBody(dir)]
  /\ cmd' = "built"
  /\ UNCHANGED <<played, status, dirVars, playback>>

\* What the gate does not catch.  A missing declaration only shows at that second
\* read.
LoadRaises ==
  /\ cmd = "idle"
  /\ \E opponent \in Opponents \union {"none"} :
       /\ GateRaises(opponent) \/ (GatePasses(opponent) /\ dir.declaration = NoFile)
       /\ shown' = [NotShown EXCEPT !.exit = 1, !.opponent = opponent]
  /\ cmd' = "reported"
  /\ UNCHANGED <<played, status, dirVars, report, playback>>

\* The default: the plan is printed and nothing is sent.
DryRun ==
  /\ cmd = "built"
  /\ cmd' = "dry_run"
  /\ UNCHANGED <<played, status, dirVars, shown, report, playback>>

NoCredentials ==
  /\ cmd = "built"
  /\ Exit(1)
  /\ UNCHANGED <<played, status, dirVars, report, playback>>

\* The Google libraries are not installed, or the token file is not one.
ClientFails ==
  /\ cmd = "built"
  /\ Exit(1)
  /\ UNCHANGED <<played, status, dirVars, report, playback>>

\* The scope and the recipient that send checks are constants.  A new Gatekeeper
\* has sent nothing, so its key, queue and rate checks pass and its first attempt
\* begins.
Submit ==
  /\ cmd = "built"
  /\ cmd' = "sending"
  /\ report' = [report EXCEPT !.attempts = 1]
  /\ UNCHANGED <<played, status, dirVars, shown, playback>>

SendOk ==
  /\ cmd = "sending"
  /\ report' = [report EXCEPT !.sent = @ + 1]
  /\ Exit(0)
  /\ UNCHANGED <<played, status, dirVars, playback>>

\* RateLimitedError: another attempt after a growing pause, or the end.
SendLimited ==
  /\ cmd = "sending"
  /\ IF report.attempts > MaxRetries
     THEN Exit(1) /\ report' = report
     ELSE cmd' = cmd /\ shown' = shown /\ report' = [report EXCEPT !.attempts = @ + 1]
  /\ UNCHANGED <<played, status, dirVars, playback>>

\* Mutant of SendFails: a failed attempt is retried like a rejected one.
SendFailsRetried ==
  /\ cmd = "sending"
  /\ \E delivered \in {0, 1} :
       report' = [report EXCEPT !.attempts = @ + 1, !.sent = @ + delivered]
  /\ IF report.attempts > MaxRetries THEN Exit(1) ELSE cmd' = cmd /\ shown' = shown
  /\ UNCHANGED <<played, status, dirVars, playback>>

\* A timeout, or any other error of the client, which nothing catches.  The
\* message may have been delivered.
SendFails ==
  /\ cmd = "sending"
  /\ \E delivered \in {0, 1} : report' = [report EXCEPT !.sent = @ + delivered]
  /\ Exit(1)
  /\ UNCHANGED <<played, status, dirVars, playback>>

-----------------------------------------------------------------------------
Done == cmd \in {"verified", "raised", "reported", "dry_run", "viewer"} /\ UNCHANGED postVars

PostNext ==
  \/ StartSeries \/ PlaySeries \/ SeriesRaised \/ BeginWrite \/ SaveNext \/ WriterDies
  \/ AlterFile
  \/ RunVerify
  \/ ReplayRaises \/ OpenReplay \/ Select \/ Navigate \/ TogglePlay \/ Tick
  \/ RefuseReport \/ BuildReport \/ LoadRaises \/ DryRun \/ NoCredentials \/ ClientFails
  \/ Submit \/ SendOk \/ SendLimited \/ SendFails
  \/ Done

PostSpec == PostInit /\ [][PostNext]_postVars

-----------------------------------------------------------------------------
FilesPresent ==
  ({dir.declaration, dir.result} \union {dir.configs[n] : n \in Slots}
     \union {dir.logs[n] : n \in Slots}) \ {NoFile}

OneSeries == Cardinality({f.by : f \in FilesPresent}) = 1

\* A log whose nonces repeat, which the series itself did not accept.
NonceReused == \E f \in Bundle(dir).logs : ~AuditClean(f.steps)

\* When every writer finished and no file was altered, verify-replay accepts the
\* directory exactly when it holds one series whose audits were clean: an honest
\* series passes, whatever its length, results and agreement, and the files an
\* earlier and longer series left behind are found out.
VerifiedIffOneSeries ==
  cmd = "verified" /\ ~torn /\ edit = "none" =>
    (shown.exit = 0 <=> dir # EmptyDir /\ OneSeries /\ ~NonceReused)

\* What verify-replay says of a set that verified and of which one file was then
\* altered: which edits are found out is exactly known.  An edit that some check
\* covers is found whatever else is in the set, the schema of a step included; the
\* ones listed at UncheckedEdits are not found, the renumbered log that the step
\* count passes over and the terms that nothing hashes again among them; and one
\* that leaves a file malformed ends the command without a verdict.
OneEditVerdict ==
  cmd = "verified" /\ edit # "none" =>
    /\ shown.exit = 2 <=> edit \in {"content", "schema"}
    /\ shown.exit = 1 <=> edit = "malformed"
    /\ shown.exit = 0 <=> edit = "unchecked"

\* The viewer's banner and exit code tell of both sides what the checks can: green
\* only when neither was altered in a way the checks cover and both use the current
\* schema, red whenever a side in the current schema was.  An opponent that played
\* off the board and enlarged the grid in its own config file is shown green.
BannerHonest ==
  cmd = "viewer" /\ ~torn =>
    /\ shown.banner = "VERIFIED" =>
         /\ shown.opponent \in {"sound", "regridded"}
         /\ edit \in {"none", "unchecked"} /\ OneSeries
    /\ shown.opponent \in {"misplayed", "altered"} \/ edit = "content" =>
         shown.banner = "TAMPERED" /\ shown.exit = 2
    /\ shown.banner = "TAMPERED" <=> shown.exit = 2

\* One report command mails at most one report, none when it was refused, and
\* exits with 0 from a send only if the report was delivered.
DeliverOnce ==
  /\ report.sent <= 1
  /\ cmd = "reported" /\ shown.exit = 0 => report.sent = 1
  /\ cmd = "reported" /\ shown.exit = 3 => report.sent = 0

\* What the gate of the report guarantees.  Unless a writer died, the files it is
\* made of are those of one series, its audits were clean, and no file was altered
\* in a way that a check covers; the opponent's files, when at hand, passed too.
\* That is less than the documentation promises: reports of sets altered by one of
\* the UncheckedEdits are mailed, with an opponent's enlarged grid, too, and, after
\* a writer died, reports of files of two series (ReportFromOneSeries).  Whatever
\* the files are, a mailed report is coherent: its outcomes account for the steps
\* of the logs, its scores for the outcomes, or they are the zeros of a dispute.
ReportGated ==
  report.sent > 0 =>
    /\ torn \/ (edit \in {"none", "unchecked"} /\ OneSeries /\ ~NonceReused)
    /\ shown.opponent \in {"none", "sound", "regridded"}
    /\ LET b == report.body IN
         /\ b.total_steps = MapThenSumSet(LAMBDA i : b.sub_game_outcomes[i].steps,
                                          DOMAIN b.sub_game_outcomes)
         /\ b.scores = IF b.agreement_status = "disputed_zeroed" THEN <<0, 0>>
                       ELSE Totals(b.sub_game_outcomes)

\* A playing viewer always has a tick pending, so it cannot stall, and the step
\* shown exists in the selected sub-game, however clicks and ticks interleave;
\* under a green banner the thief's log has a record for it.
PlaybackAlive ==
  /\ playback.playing => playback.ticks > 0
  /\ cmd = "viewer" => playback.step \in 0 .. MaxStep
  /\ cmd = "viewer" /\ shown.banner = "VERIFIED" /\ edit = "none" =>
       LET game == SubGames[playback.sub_game_index]
       IN game.steps_total > 0 => playback.step + 1 \in DOMAIN game.thief_steps

\* What the artifact layer says of its file names, that files of different games
\* cannot be mixed, and the documentation of the report, that it is never built
\* from incomplete evidence: when no file was altered, a report that was built
\* summarises the series whose sealed steps passed the verifier.
ReportFromOneSeries ==
  report.body # NoFile /\ edit = "none" =>
    \A f \in Bundle(dir).logs : f.steps # <<>> => f.by = dir.result.by
=============================================================================
