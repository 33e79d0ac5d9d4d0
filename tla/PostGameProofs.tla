--------------------------- MODULE PostGameProofs ---------------------------
(***************************************************************************)
(* Proofs about PostGame: what verify-replay, the viewer and the report    *)
(* say of a directory, for every number of series, sub-games and steps.    *)
(***************************************************************************)
EXTENDS PostGame, FiniteSetTheorems, WellFoundedInduction, TLAPS

-----------------------------------------------------------------------------
(* The sending of the report.                                              *)

\* Nothing is sent before the command reported, and the exit code says what
\* was: part of every invariant below.
SendInv ==
  /\ report = [attempts |-> report.attempts, sent |-> report.sent, body |-> report.body]
  /\ shown = [exit |-> shown.exit, banner |-> shown.banner, opponent |-> shown.opponent]
  /\ report.sent \in {0, 1}
  /\ cmd # "reported" => report.sent = 0
  /\ cmd = "reported" /\ shown.exit = 0 => report.sent = 1
  /\ cmd = "reported" /\ shown.exit = 3 => report.sent = 0

\* The initial states satisfy SendInv.
LEMMA InitSend == PostInit => SendInv
  BY DEF PostInit, SendInv, NotShown, NoReport

\* Every step preserves SendInv: a report command takes one of its exits, and
\* only the step that takes it can have mailed the report.
LEMMA NextSend == SendInv /\ [PostNext]_postVars => SendInv'
  <1> SUFFICES ASSUME SendInv, [PostNext]_postVars  PROVE SendInv'
    OBVIOUS
  <1> USE DEF SendInv
  <1>1. CASE StartSeries \/ PlaySeries \/ SeriesRaised \/ BeginWrite
    BY <1>1 DEF StartSeries, PlaySeries, SeriesRaised, BeginWrite
  <1>2. CASE SaveNext \/ WriterDies \/ AlterFile
    <2>1. CASE SaveNext
      BY <2>1 DEF SaveNext
    <2>2. CASE WriterDies \/ AlterFile
      BY <2>2 DEF WriterDies, AlterFile
    <2> QED  BY <1>2, <2>1, <2>2
  <1>3. CASE RunVerify \/ ReplayRaises \/ OpenReplay
    <2>1. CASE RunVerify
      BY <2>1 DEF RunVerify, NotShown
    <2>2. CASE ReplayRaises
      BY <2>2 DEF ReplayRaises, NotShown
    <2>3. CASE OpenReplay
      BY <2>3 DEF OpenReplay
    <2> QED  BY <1>3, <2>1, <2>2, <2>3
  <1>4. CASE Select \/ Navigate \/ TogglePlay \/ Tick
    BY <1>4 DEF Select, Navigate, TogglePlay, Tick, SetPlayback
  <1>5. CASE RefuseReport \/ LoadRaises
    <2>1. PICK opponent : \/ shown' = [exit |-> 3, banner |-> "none", opponent |-> opponent]
                          \/ shown' = [exit |-> 1, banner |-> "none", opponent |-> opponent]
      BY <1>5 DEF RefuseReport, LoadRaises, NotShown
    <2>2. cmd = "idle" /\ cmd' = "reported" /\ report' = report
      BY <1>5 DEF RefuseReport, LoadRaises
    <2> QED  BY <2>1, <2>2
  <1>6. CASE BuildReport
    BY <1>6 DEF BuildReport, NotShown
  <1>7. CASE DryRun \/ NoCredentials \/ ClientFails \/ Submit
    BY <1>7 DEF DryRun, NoCredentials, ClientFails, Submit, Exit
  <1>8. CASE SendOk
    BY <1>8 DEF SendOk, Exit
  <1>9. CASE SendLimited
    BY <1>9 DEF SendLimited, Exit
  <1>10. CASE SendFails
    BY <1>10 DEF SendFails, Exit
  <1>11. CASE Done \/ UNCHANGED postVars
    BY <1>11 DEF Done, postVars
  <1> QED
    BY <1>1, <1>2, <1>3, <1>4, <1>5, <1>6, <1>7, <1>8, <1>9, <1>10, <1>11 DEF PostNext

\* One report command mails at most one report, none when it was refused, and
\* a send that exits with 0 delivered it, for every number of retries.
THEOREM PostDeliverOnce == PostSpec => []DeliverOnce
  <1>1. SendInv => DeliverOnce
    BY DEF SendInv, DeliverOnce
  <1> QED
    BY <1>1, InitSend, NextSend, PTL DEF PostSpec

-----------------------------------------------------------------------------
(* The files of an honest series.                                          *)

GameRec == [result : Results, steps : 0 .. Threshold + 1]

\* What a series that returned can have played.
GameSeqs == UNION {[1 .. k -> GameRec] : k \in 1 .. Games}

AgreementSet ==
  {"agreed", "unverified_self_play", "disputed_zeroed", "technical_loss_ended_series"}

\* The artifact set of series number b; R are the sub-games with a reused nonce.
HonestSet(g, R, a, t, b) ==
  Artifacts(g, [n \in DOMAIN g |-> LogSteps(g[n].steps, n \in R, "current", "own")], a, t, b)

\* The sealed steps of an honest log with c steps, whatever its nonces.
HonestSteps(q, c) ==
  /\ q \in Seq({q[k] : k \in 1 .. c}) /\ Len(q) = c /\ DOMAIN q = 1 .. c
  /\ \A k \in 1 .. c :
       /\ q[k].nonce \in Nat
       /\ q[k].commit_hash = [step |-> k - 1, nonce |-> q[k].nonce, schema |-> "current",
                              fields |-> "own", cell |-> "position"]
       /\ q[k] = [step |-> k - 1, nonce |-> q[k].nonce, schema |-> "current",
                  fields |-> "own", cell |-> "position",
                  commit_hash |-> q[k].commit_hash, unknown |-> FALSE]

HonestConfig(f, n, t, b) ==
  /\ f # NoFile
  /\ f = [by |-> b, game_uid |-> t, config_sha256 |-> t, sub_game_number |-> n,
          terms |-> AgreedTerms]

HonestLog(f, n, c, t, b) ==
  /\ f # NoFile
  /\ f = [by |-> b, game_uid |-> t, sub_game_number |-> n, steps |-> f.steps]
  /\ HonestSteps(f.steps, c)

\* The entries of a result, one for each sub-game, with its number.
HonestEntries(e, g) ==
  /\ e \in Seq({e[i] : i \in 1 .. Len(g)}) /\ Len(e) = Len(g) /\ DOMAIN e = 1 .. Len(g)
  /\ \A i \in 1 .. Len(g) :
       /\ g[i].steps \in 0 .. Threshold + 1 /\ g[i].result \in Results
       /\ e[i] = [sub_game_number |-> i, result |-> g[i].result,
                  steps |-> g[i].steps, scores |-> Score(g[i].result)]

HonestResult(f, g, a, t, b) ==
  /\ f # NoFile
  /\ f = [by |-> b, game_uid |-> t, config_sha256 |-> t, sub_games |-> f.sub_games,
          agreement_status |-> a, totals |-> f.totals]
  /\ HonestEntries(f.sub_games, g)
  /\ f.totals = IF a = "disputed_zeroed" THEN <<0, 0>> ELSE Totals(f.sub_games)

\* A directory is a record of two files and two functions of files.
DirShape(d) ==
  /\ d = [declaration |-> d.declaration, configs |-> d.configs,
          logs |-> d.logs, result |-> d.result]
  /\ d.configs = [n \in Slots |-> d.configs[n]]
  /\ d.logs = [n \in Slots |-> d.logs[n]]

\* h is the set of files of series b, which played the sub-games g.
IsHonest(h, g, a, t, b) ==
  /\ g \in Seq(GameRec) /\ Len(g) \in 1 .. Games /\ Len(g) \in Nat \ {0}
  /\ 1 .. Len(g) \subseteq Slots /\ Cardinality(1 .. Len(g)) = Len(g)
  /\ DirShape(h)
  /\ h.declaration # NoFile /\ h.declaration = [by |-> b, game_uid |-> t]
  /\ HonestResult(h.result, g, a, t, b)
  /\ Files(h.configs) = 1 .. Len(g) /\ Files(h.logs) = 1 .. Len(g)
  /\ \A n \in 1 .. Len(g) : /\ HonestConfig(h.configs[n], n, t, b)
                            /\ HonestLog(h.logs[n], n, g[n].steps, t, b)

\* Every file of d is one that one of the first r series wrote, and the logs
\* there are, are those of the first sub-games.
WrittenBy(d, r) ==
  /\ DirShape(d)
  /\ d.declaration = NoFile \/
       \E t \in Terms, b \in 1 .. r : d.declaration = [by |-> b, game_uid |-> t]
  /\ d.result = NoFile \/
       \E g \in GameSeqs, a \in AgreementSet, t \in Terms, b \in 1 .. r :
         HonestResult(d.result, g, a, t, b)
  /\ \A n \in Slots : d.configs[n] = NoFile \/
       \E t \in Terms, b \in 1 .. r : HonestConfig(d.configs[n], n, t, b)
  /\ \A n \in Slots : d.logs[n] = NoFile \/
       \E c \in 0 .. Threshold + 1, t \in Terms, b \in 1 .. r :
         HonestLog(d.logs[n], n, c, t, b)
  /\ \A n \in Slots : d.logs[n] # NoFile => \A m \in 1 .. n : d.logs[m] # NoFile

\* The files after the first m sub-games are older than series b.
Older(d, m, b) ==
  \A n \in Slots \ (1 .. m) : d.configs[n].by \in 0 .. b - 1 /\ d.logs[n].by \in 0 .. b - 1

\* d holds all of the set p of series b, which has m sub-games.
Holds(d, p, m, b) ==
  /\ d.declaration = p.declaration /\ d.result = p.result
  /\ \A n \in 1 .. m : d.configs[n] = p.configs[n] /\ d.logs[n] = p.logs[n]
  /\ Older(d, m, b)

\* d holds the first k files of the set p of series b, which has m sub-games.
PartlySaved(d, p, m, b, k) ==
  /\ k >= 1 => d.declaration = p.declaration
  /\ \A n \in 1 .. m :
       /\ 2 * n <= k => d.configs[n] = p.configs[n]
       /\ 2 * n + 1 <= k => d.logs[n] = p.logs[n]
  /\ Older(d, m, b)

RunsWritten == IF cmd = "series" THEN runs - 1 ELSE runs

\* The series in progress.
PlayedInv ==
  /\ played \in Seq(GameRec) /\ Len(played) <= Games
  /\ status \in {"open", "completed", "technical_loss_ended_series", "raised"}
  /\ status = "open" => Len(played) < Games
  /\ status \in {"completed", "technical_loss_ended_series"} => Len(played) >= 1
  /\ cmd # "series" => played = <<>> /\ status = "open"

\* Whatever writer died, each file is one some series wrote.
FileInv ==
  /\ runs \in Nat /\ (cmd \in {"series", "writing"} => runs >= 1 /\ edit = "none")
  /\ edit = "none" => WrittenBy(dir, RunsWritten)

\* A writer works on the set of the last series, file by file.
WriteInv ==
  cmd = "writing" =>
    \E g \in GameSeqs, R \in SUBSET Slots, a \in AgreementSet, t \in Terms :
      /\ plan = HonestSet(g, R, a, t, runs)
      /\ next \in 0 .. 2 * Len(g) + 1
      /\ PartlySaved(dir, plan, Len(g), runs, next)

\* When every writer finished, the last set written is complete.
LatestInv ==
  ~torn /\ edit = "none" /\ cmd # "writing" =>
    \/ dir = EmptyDir
    \/ \E g \in GameSeqs, R \in SUBSET Slots, a \in AgreementSet, t \in Terms,
          b \in 1 .. RunsWritten : Holds(dir, HonestSet(g, R, a, t, b), Len(g), b)

\* An altered directory was the honest set of one series, which verified.
EditInv ==
  edit # "none" =>
    \E g \in GameSeqs, R \in SUBSET Slots, a \in AgreementSet, t \in Terms, b \in 1 .. runs :
      LET h == HonestSet(g, R, a, t, b)
      IN /\ VerifyReplay(h)
         /\ \/ edit = "content" /\ dir \in ContentEdits(h)
            \/ edit = "unchecked" /\ dir \in UncheckedEdits(h)
            \/ edit = "schema" /\ dir \in SchemaEdits(h)
            \/ edit = "malformed" /\ dir \in MalformedEdits(h)

DirInv == PlayedInv /\ FileInv /\ WriteInv /\ LatestInv /\ EditInv

\* What a command showed is what it computed from the directory it still sees.
ShownInv ==
  /\ cmd = "verified" =>
       shown.exit = IF VerifyRaises(dir) THEN 1 ELSE IF VerifyReplay(dir) THEN 0 ELSE 2
  /\ cmd = "viewer" =>
       /\ shown.opponent \in Opponents
       /\ shown.exit = IF VerificationOk(OpponentDir(shown.opponent), dir) THEN 0 ELSE 2
       /\ shown.banner = Banner(OpponentDir(shown.opponent), dir)
  /\ cmd \in {"built", "dry_run", "sending"} \/ report.sent > 0 =>
       /\ shown.opponent \in Opponents \union {"none"}
       /\ GatePasses(shown.opponent)
       /\ report.body = ReportBody(dir)

-----------------------------------------------------------------------------
(* What the files of an honest set are.                                    *)

\* A played series is a sequence of one to Games sub-games.
LEMMA GamesAreSequences ==
  ASSUME NEW g \in GameSeqs
  PROVE  /\ g \in Seq(GameRec) /\ Len(g) \in 1 .. Games /\ DOMAIN g = 1 .. Len(g)
         /\ Len(g) \in Nat \ {0}
  <1>1. PICK k \in 1 .. Games : g \in [1 .. k -> GameRec]
    BY DEF GameSeqs
  <1>2. k \in Nat \ {0} /\ k <= Games
    BY <1>1, PostGameAssumption
  <1> QED  BY <1>1, <1>2

\* A sequence of one to Games sub-games is a played series.
LEMMA SequencesAreGames ==
  ASSUME NEW g \in Seq(GameRec), Len(g) \in 1 .. Games
  PROVE  g \in GameSeqs
  BY DEF GameSeqs

\* The slots are finitely many.
LEMMA SlotsFinite ==
  /\ Slots = 1 .. Games /\ IsFiniteSet(Slots) /\ Slots \subseteq Nat \ {0}
  /\ \A S \in SUBSET Slots : IsFiniteSet(S)
  <1>1. Slots = 1 .. Games /\ Games \in Nat \ {0}
    BY PostGameAssumption
  <1>2. IsFiniteSet(Slots)
    BY <1>1, FS_Interval
  <1>3. Slots \subseteq Nat \ {0}
    BY <1>1
  <1>4. \A S \in SUBSET Slots : IsFiniteSet(S)
    BY <1>2, FS_Subset
  <1> QED  BY <1>1, <1>2, <1>3, <1>4

\* A file some series wrote is a file.
LEMMA FilesAreFiles ==
  ASSUME NEW f, f.by \in Nat \ {0}
  PROVE  f # NoFile
  BY DEF NoFile

\* The fields of an honest configuration file.
LEMMA ConfigFields ==
  ASSUME NEW f, NEW n, NEW t, NEW b, HonestConfig(f, n, t, b)
  PROVE  f # NoFile /\ f.by = b /\ f.game_uid = t /\ f.config_sha256 = t
           /\ f.sub_game_number = n /\ f.terms = AgreedTerms
  BY DEF HonestConfig

\* The fields of an honest log.
LEMMA LogFields ==
  ASSUME NEW f, NEW n, NEW c, NEW t, NEW b, HonestLog(f, n, c, t, b)
  PROVE  f # NoFile /\ f.by = b /\ f.game_uid = t /\ f.sub_game_number = n
           /\ HonestSteps(f.steps, c)
  <1>1. f = [by |-> b, game_uid |-> t, sub_game_number |-> n, steps |-> f.steps]
          /\ HonestSteps(f.steps, c) /\ f # NoFile
    BY DEF HonestLog
  <1> QED  BY <1>1

\* The fields of one step of an honest log.
LEMMA StepFields ==
  ASSUME NEW q, NEW c, HonestSteps(q, c), NEW k \in 1 .. c
  PROVE  /\ q[k].step = k - 1 /\ q[k].nonce \in Nat /\ q[k].schema = "current"
         /\ q[k].fields = "own" /\ q[k].unknown = FALSE
         /\ q[k].commit_hash = [step |-> k - 1, nonce |-> q[k].nonce, schema |-> "current",
                                fields |-> "own", cell |-> "position"]
  <1>1. /\ q[k].nonce \in Nat
        /\ q[k].commit_hash = [step |-> k - 1, nonce |-> q[k].nonce, schema |-> "current",
                              fields |-> "own", cell |-> "position"]
        /\ q[k] = [step |-> k - 1, nonce |-> q[k].nonce, schema |-> "current",
                  fields |-> "own", cell |-> "position",
                  commit_hash |-> q[k].commit_hash, unknown |-> FALSE]
    BY DEF HonestSteps
  <1> QED  BY <1>1

\* The fields of one entry of an honest result.
LEMMA EntryFields ==
  ASSUME NEW e, NEW g, HonestEntries(e, g), NEW i \in 1 .. Len(g)
  PROVE  /\ e[i].sub_game_number = i /\ e[i].result = g[i].result
         /\ e[i].steps = g[i].steps /\ e[i].scores = Score(g[i].result)
         /\ g[i].steps \in Nat /\ g[i].result \in Results
  <1>1. /\ g[i].steps \in 0 .. Threshold + 1 /\ g[i].result \in Results
        /\ e[i] = [sub_game_number |-> i, result |-> g[i].result,
                  steps |-> g[i].steps, scores |-> Score(g[i].result)]
    BY DEF HonestEntries
  <1> QED  BY <1>1, PostGameAssumption

LEMMA ConfigIsHonest ==
  ASSUME NEW n, NEW t, NEW b \in Nat \ {0}
  PROVE  HonestConfig(ConfigArtifact(n, t, b), n, t, b)
  BY FilesAreFiles DEF ConfigArtifact, HonestConfig

\* The steps of a log are sealed under their own fields.
LEMMA StepsAreHonest ==
  ASSUME NEW c \in Nat, NEW n, NEW R
  PROVE  HonestSteps(LogSteps(c, n \in R, "current", "own"), c)
  <1> DEFINE q == LogSteps(c, n \in R, "current", "own")
             N(k) == IF n \in R THEN 0 ELSE k
  <1>1. q = [k \in 1 .. c |-> q[k]]
    BY DEF LogSteps
  <1>2. ASSUME NEW k \in 1 .. c
        PROVE  q[k] = LogStep(SealedTurnPayload(k - 1, N(k), "current", "own"))
    BY DEF LogSteps
  <1>3. \A k \in 1 .. c : N(k) \in Nat
    OBVIOUS
  <1>4. ASSUME NEW s, NEW o
        PROVE  LET p == LogStep(SealedTurnPayload(s, o, "current", "own"))
               IN /\ p.nonce = o
                  /\ p = [step |-> s, nonce |-> o,
                          schema |-> "current", fields |-> "own", cell |-> "position",
                          commit_hash |-> p.commit_hash, unknown |-> FALSE]
                  /\ p.commit_hash = [step |-> s, nonce |-> o, schema |-> "current",
                                      fields |-> "own", cell |-> "position"]
    BY DEF LogStep, SealedTurnPayload, CanonicalDict
  <1> HIDE DEF q, N
  <1>5. q \in Seq({q[k] : k \in 1 .. c}) /\ Len(q) = c /\ DOMAIN q = 1 .. c
    BY <1>1
  <1>6. ASSUME NEW k \in 1 .. c
        PROVE  /\ q[k].nonce \in Nat
               /\ q[k].commit_hash = [step |-> k - 1, nonce |-> q[k].nonce,
                    schema |-> "current", fields |-> "own", cell |-> "position"]
               /\ q[k] = [step |-> k - 1, nonce |-> q[k].nonce, schema |-> "current",
                    fields |-> "own", cell |-> "position",
                    commit_hash |-> q[k].commit_hash, unknown |-> FALSE]
    <2> DEFINE p == LogStep(SealedTurnPayload(k - 1, N(k), "current", "own"))
    <2>1. /\ p.nonce = N(k)
          /\ p = [step |-> k - 1, nonce |-> N(k),
                  schema |-> "current", fields |-> "own", cell |-> "position",
                  commit_hash |-> p.commit_hash, unknown |-> FALSE]
          /\ p.commit_hash = [step |-> k - 1, nonce |-> N(k), schema |-> "current",
                              fields |-> "own", cell |-> "position"]
      BY <1>4
    <2>2. q[k] = p
      BY <1>2
    <2>3. q[k].nonce = N(k) /\ N(k) \in Nat
      BY <2>1, <2>2, <1>3
    <2> HIDE DEF p
    <2> QED  BY <2>1, <2>2, <2>3
  <1>7. HonestSteps(q, c)
    BY <1>5, <1>6 DEF HonestSteps
  <1> QED  BY <1>7 DEF q

LEMMA LogIsHonest ==
  ASSUME NEW n, NEW c \in Nat, NEW R, NEW t, NEW b \in Nat \ {0}
  PROVE  HonestLog(LogArtifact(n, LogSteps(c, n \in R, "current", "own"), t, b), n, c, t, b)
  <1> DEFINE q == LogSteps(c, n \in R, "current", "own")
             f == LogArtifact(n, q, t, b)
  <1>1. HonestSteps(q, c)
    BY StepsAreHonest
  <1> HIDE DEF q
  <1>2. f = [by |-> b, game_uid |-> t, sub_game_number |-> n, steps |-> f.steps]
          /\ f.steps = q /\ f.by = b
    BY DEF LogArtifact
  <1>3. HonestLog(f, n, c, t, b)
    BY <1>1, <1>2, FilesAreFiles DEF HonestLog
  <1> QED  BY <1>3 DEF q

LEMMA EntriesAreHonest ==
  ASSUME NEW g \in GameSeqs
  PROVE  HonestEntries(ResultEntries(g), g)
  <1> DEFINE e == ResultEntries(g)
  <1>1. g \in Seq(GameRec) /\ Len(g) \in Nat /\ DOMAIN g = 1 .. Len(g)
    BY GamesAreSequences
  <1>2. /\ e = [i \in 1 .. Len(g) |-> e[i]]
        /\ \A i \in 1 .. Len(g) :
             e[i] = [sub_game_number |-> i, result |-> g[i].result,
                     steps |-> g[i].steps, scores |-> Score(g[i].result)]
    BY <1>1 DEF ResultEntries
  <1>3. \A i \in 1 .. Len(g) : g[i].steps \in 0 .. Threshold + 1 /\ g[i].result \in Results
    <2>1. \A i \in 1 .. Len(g) : g[i] \in GameRec
      BY <1>1
    <2> QED  BY <2>1 DEF GameRec
  <1> HIDE DEF e
  <1>4. e \in Seq({e[i] : i \in 1 .. Len(g)}) /\ Len(e) = Len(g) /\ DOMAIN e = 1 .. Len(g)
    BY <1>1, <1>2
  <1>5. HonestEntries(e, g)
    BY <1>2, <1>3, <1>4 DEF HonestEntries
  <1> QED  BY <1>5 DEF e

LEMMA ResultIsHonest ==
  ASSUME NEW g \in GameSeqs, NEW a, NEW t, NEW b \in Nat \ {0}
  PROVE  HonestResult(ResultArtifact(g, a, t, b), g, a, t, b)
  <1> DEFINE f == ResultArtifact(g, a, t, b)
  <1>1. /\ f.by = b /\ f.sub_games = ResultEntries(g)
        /\ f = [by |-> b, game_uid |-> t, config_sha256 |-> t, sub_games |-> f.sub_games,
                agreement_status |-> a, totals |-> f.totals]
        /\ f.totals = IF a = "disputed_zeroed" THEN <<0, 0>> ELSE Totals(f.sub_games)
    BY DEF ResultArtifact
  <1>2. HonestEntries(f.sub_games, g)
    BY <1>1, EntriesAreHonest
  <1> HIDE DEF f
  <1>3. HonestResult(f, g, a, t, b)
    BY <1>1, <1>2, FilesAreFiles DEF HonestResult
  <1> QED  BY <1>3 DEF f

\* The artifact set that BeginWrite plans is honest in the sense of IsHonest.
LEMMA SetIsHonest ==
  ASSUME NEW g \in GameSeqs, NEW R, NEW a, NEW t, NEW b \in Nat \ {0}
  PROVE  IsHonest(HonestSet(g, R, a, t, b), g, a, t, b)
  <1> DEFINE h == HonestSet(g, R, a, t, b)
             m == Len(g)
  <1>1. /\ g \in Seq(GameRec) /\ m \in 1 .. Games /\ m \in Nat \ {0}
        /\ DOMAIN g = 1 .. m /\ 1 .. m \subseteq Slots
    BY GamesAreSequences, PostGameAssumption
  <1>2. Cardinality(1 .. m) = m
    BY <1>1, FS_Interval
  <1>3. /\ DirShape(h)
        /\ h.declaration = [by |-> b, game_uid |-> t] /\ h.declaration.by = b
        /\ h.result = ResultArtifact(g, a, t, b)
    BY DEF HonestSet, Artifacts, DirShape
  <1>4. \A n \in Slots : n \notin 1 .. m => h.configs[n] = NoFile /\ h.logs[n] = NoFile
    BY <1>1 DEF HonestSet, Artifacts
  <1>5. \A n \in 1 .. m :
          /\ h.configs[n] = ConfigArtifact(n, t, b)
          /\ h.logs[n] = LogArtifact(n, LogSteps(g[n].steps, n \in R, "current", "own"), t, b)
    BY <1>1 DEF HonestSet, Artifacts
  <1>6. \A n \in 1 .. m : g[n].steps \in Nat
    <2>1. \A n \in 1 .. m : g[n] \in GameRec
      BY <1>1
    <2> QED  BY <2>1, PostGameAssumption DEF GameRec
  <1>7. \A n \in 1 .. m : HonestConfig(h.configs[n], n, t, b)
    BY <1>5, ConfigIsHonest
  <1>8. ASSUME NEW n \in 1 .. m  PROVE HonestLog(h.logs[n], n, g[n].steps, t, b)
    <2>1. HonestLog(LogArtifact(n, LogSteps(g[n].steps, n \in R, "current", "own"), t, b),
                    n, g[n].steps, t, b)
      BY <1>6, LogIsHonest
    <2> QED  BY <1>5, <2>1
  <1>9. HonestResult(h.result, g, a, t, b)
    BY <1>3, ResultIsHonest
  <1> HIDE DEF h, m
  <1>10. Files(h.configs) = 1 .. m /\ Files(h.logs) = 1 .. m
    <2>1. \A n \in 1 .. m : h.configs[n] # NoFile
      BY <1>7 DEF HonestConfig
    <2>2. \A n \in 1 .. m : h.logs[n] # NoFile
      BY <1>8 DEF HonestLog
    <2>3. 1 .. m \subseteq Slots
      BY <1>1
    <2>4. Files(h.configs) = 1 .. m
      BY <1>4, <2>1, <2>3 DEF Files
    <2>5. Files(h.logs) = 1 .. m
      BY <1>4, <2>2, <2>3 DEF Files
    <2> QED  BY <2>4, <2>5
  <1>11. h.declaration # NoFile
    BY <1>3, FilesAreFiles
  <1>12. IsHonest(h, g, a, t, b)
    BY <1>1, <1>2, <1>3, <1>7, <1>8, <1>9, <1>10, <1>11 DEF IsHonest, m
  <1> QED  BY <1>12 DEF h

\* Two directories with the same files are the same.
LEMMA SameDir ==
  ASSUME NEW d, NEW h, DirShape(d), DirShape(h),
         d.declaration = h.declaration, d.result = h.result,
         \A n \in Slots : d.configs[n] = h.configs[n] /\ d.logs[n] = h.logs[n]
  PROVE  d = h
  <1>1. d.configs = h.configs /\ d.logs = h.logs
    BY DEF DirShape
  <1> QED  BY <1>1 DEF DirShape

\* A directory that verifies holds nothing beside the last set written: a file
\* of an earlier and longer series makes the counts differ.
LEMMA VerifiedIsLatest ==
  ASSUME NEW d, NEW h, DirShape(d), VerifyReplay(d),
         NEW g, NEW a, NEW t, NEW b, IsHonest(h, g, a, t, b), Holds(d, h, Len(g), b)
  PROVE  d = h
  <1> DEFINE m == Len(g)
  <1>1. /\ DirShape(h) /\ 1 .. m \subseteq Slots
        /\ Files(h.configs) = 1 .. m /\ Files(h.logs) = 1 .. m
        /\ Cardinality(1 .. m) = m /\ Len(h.result.sub_games) = m
    BY DEF IsHonest, HonestResult, HonestEntries
  <1>2. /\ d.declaration = h.declaration /\ d.result = h.result
        /\ \A n \in 1 .. m : d.configs[n] = h.configs[n] /\ d.logs[n] = h.logs[n]
    BY DEF Holds
  <1>3. Cardinality(Files(d.configs)) = m /\ Cardinality(Files(d.logs)) = m
    BY <1>1, <1>2 DEF VerifyReplay, CountsAgree
  <1> HIDE DEF m
  <1>4. 1 .. m \subseteq Files(d.configs) /\ 1 .. m \subseteq Files(d.logs)
    BY <1>1, <1>2 DEF Files
  <1>5. IsFiniteSet(Files(d.configs)) /\ IsFiniteSet(Files(d.logs))
    BY SlotsFinite DEF Files
  <1>6. Files(d.configs) = 1 .. m /\ Files(d.logs) = 1 .. m
    BY <1>1, <1>3, <1>4, <1>5, FS_Subset
  <1>7. \A n \in Slots : d.configs[n] = h.configs[n] /\ d.logs[n] = h.logs[n]
    BY <1>1, <1>2, <1>6 DEF Files
  <1> QED  BY <1>1, <1>2, <1>7, SameDir

\* A set of slots that is not empty has a first one.
LEMMA FirstSlot ==
  ASSUME NEW I, I \subseteq Nat, I # {}
  PROVE  Min(I) \in I /\ \A y \in I : Min(I) <= y
  <1>1. PICK x \in I : \A y \in I : ~(<<y, x>> \in OpToRel(<, Nat))
    BY WFMin, NatLessThanWellFounded
  <1>2. \A y \in I : x <= y
    <2> SUFFICES ASSUME NEW y \in I, y < x  PROVE FALSE
      OBVIOUS
    <2>1. <<y, x>> \in OpToRel(<, Nat)
      BY DEF OpToRel
    <2> QED  BY <1>1, <2>1
  <1> QED  BY <1>2 DEF Min

\* The terms that the checks read are those of the first sub-game.
LEMMA TermsOfFirst ==
  ASSUME NEW d, NEW m \in Nat \ {0}, Files(d.configs) = 1 .. m
  PROVE  TermsRead(d) = d.configs[1].terms
  <1> DEFINE I == 1 .. m
  <1>1. I \subseteq Nat /\ I # {} /\ 1 \in I /\ \A y \in I : 1 <= y
    OBVIOUS
  <1>2. Files(d.configs) = I
    OBVIOUS
  <1> HIDE DEF I
  <1>3. Min(I) \in I /\ Min(I) <= 1
    BY <1>1, FirstSlot
  <1> DEFINE z == Min(I)
  <1>4. z \in Nat /\ 1 <= z /\ z <= 1
    BY <1>1, <1>3
  <1> HIDE DEF z
  <1>5. z = 1
    BY <1>4
  <1> QED  BY <1>2, <1>5 DEF TermsRead, z

-----------------------------------------------------------------------------
(* What the checks accept.                                                 *)

\* A configuration, a log and a result that the checks have nothing to say against.
\* A number may be that of no sub-game, and the terms are as good as any.
AcceptedConfig(f, n, t, b) ==
  /\ f # NoFile /\ f.by = b /\ f.game_uid = t /\ f.config_sha256 = t
  /\ f.sub_game_number \in {n, Games + 1}
  /\ f.terms.grid \in {"agreed", "larger"}

AcceptedLog(f, n, c, t, b) ==
  /\ f # NoFile /\ f.by = b /\ f.game_uid = t
  /\ f.sub_game_number \in {n, Games + 1}
  /\ Len(f.steps) = c /\ DOMAIN f.steps = 1 .. c
  /\ AuditClean(f.steps)
  /\ \A k \in 1 .. c :
       f.steps[k].step = k - 1 /\ f.steps[k].fields = "own" /\ f.steps[k].unknown = FALSE

AcceptedResult(r, g, t, b) ==
  /\ r # NoFile /\ r.by = b /\ r.game_uid = t /\ r.config_sha256 = t
  /\ Len(r.sub_games) = Len(g) /\ DOMAIN r.sub_games = 1 .. Len(g)
  /\ \A i \in 1 .. Len(g) :
       /\ r.sub_games[i].sub_game_number \in {i, Games + 1}
       /\ r.sub_games[i].steps = g[i].steps /\ g[i].steps \in Nat
       /\ r.sub_games[i].result \in Results

\* No number occurs twice among the configs or the logs of d, and none of a log is
\* that of another sub-game's entry.
NumbersApart(d, m) ==
  \A i, n \in 1 .. m :
    /\ d.configs[i].sub_game_number = d.configs[n].sub_game_number => i = n
    /\ d.logs[i].sub_game_number = d.logs[n].sub_game_number => i = n
    /\ d.result.sub_games[i].sub_game_number = d.logs[n].sub_game_number => i = n

Accepted(d, g, t, b) ==
  /\ Len(g) \in Nat \ {0} /\ 1 .. Len(g) \subseteq Slots
  /\ d.declaration = NoFile \/ (d.declaration.by = b /\ d.declaration.game_uid = t)
  /\ AcceptedResult(d.result, g, t, b)
  /\ Files(d.configs) = 1 .. Len(g) /\ Files(d.logs) = 1 .. Len(g)
  /\ \A n \in 1 .. Len(g) : /\ AcceptedConfig(d.configs[n], n, t, b)
                            /\ AcceptedLog(d.logs[n], n, g[n].steps, t, b)
  /\ NumbersApart(d, Len(g))
  /\ VerifyScores(d.result, d.configs[1].terms.scoring)

\* Such a set verifies.
LEMMA AcceptedVerifies ==
  ASSUME NEW d, NEW g, NEW t, NEW b, Accepted(d, g, t, b)
  PROVE  VerifyReplay(d) /\ ~VerifyRaises(d)
  <1> DEFINE m == Len(g)
             e == d.result.sub_games
  <1>1. /\ m \in Nat \ {0} /\ 1 \in 1 .. m /\ 1 .. m \subseteq Slots
        /\ Files(d.configs) = 1 .. m /\ Files(d.logs) = 1 .. m
        /\ d.declaration = NoFile \/ d.declaration.game_uid = t
        /\ AcceptedResult(d.result, g, t, b)
        /\ NumbersApart(d, m) /\ VerifyScores(d.result, d.configs[1].terms.scoring)
        /\ \A n \in 1 .. m : /\ AcceptedConfig(d.configs[n], n, t, b)
                             /\ AcceptedLog(d.logs[n], n, g[n].steps, t, b)
    BY DEF Accepted
  <1>2. /\ d.result # NoFile /\ d.result.game_uid = t /\ d.result.config_sha256 = t
        /\ Len(e) = m /\ DOMAIN e = 1 .. m
        /\ \A i \in 1 .. m : e[i].steps = g[i].steps /\ e[i].result \in Results
    BY <1>1 DEF AcceptedResult
  <1>3. \A n \in 1 .. m : /\ d.configs[n].game_uid = t /\ d.configs[n].config_sha256 = t
                          /\ d.configs[n].terms.grid \in {"agreed", "larger"}
    BY <1>1 DEF AcceptedConfig
  <1>4. \A n \in 1 .. m : d.logs[n].game_uid = t /\ Len(d.logs[n].steps) = g[n].steps
    BY <1>1 DEF AcceptedLog
  <1>5. \A f \in Bundle(d).logs : \E n \in 1 .. m : f = d.logs[n]
    BY <1>1 DEF Bundle
  <1>6. TermsRead(d) = d.configs[1].terms
    BY <1>1, TermsOfFirst
  <1>7. Cardinality(1 .. m) = m
    BY <1>1, FS_Interval
  <1> HIDE DEF m, e
  <1>8. HasRequired(d)
    BY <1>1, <1>2 DEF HasRequired
  <1>9. GameUidConsistent(d)
    <2>1. d.result \in AllDicts(d)
      BY <1>2 DEF AllDicts, Bundle
    <2>2. \A f \in AllDicts(d) : f.game_uid = t
      BY <1>1, <1>2, <1>3, <1>4 DEF AllDicts, Bundle
    <2>3. {f.game_uid : f \in AllDicts(d)} = {t}
      BY <2>1, <2>2, <1>2
    <2> QED  BY <2>3, FS_Singleton DEF GameUidConsistent
  <1>10. ConfigHashesConsistent(d)
    <2>1. {f.config_sha256 : f \in Bundle(d).configs \union {d.result}} = {t}
      BY <1>1, <1>2, <1>3 DEF Bundle
    <2> QED  BY <2>1, FS_Singleton DEF ConfigHashesConsistent
  <1>11. CountsAgree(d)
    BY <1>1, <1>2, <1>7 DEF CountsAgree, e
  <1>12. NoDuplicateSubGames(d)
    BY <1>1 DEF NoDuplicateSubGames, NumbersApart
  <1>13. StepCountsAgree(d)
    <2> SUFFICES ASSUME NEW i \in DOMAIN e, NEW f \in Bundle(d).logs,
                        f.sub_game_number = e[i].sub_game_number
                 PROVE  Len(f.steps) = e[i].steps
      BY DEF StepCountsAgree, e
    <2>1. PICK n \in 1 .. m : f = d.logs[n]
      BY <1>5
    <2>2. i \in 1 .. m /\ i = n
      BY <1>1, <1>2, <2>1 DEF NumbersApart, e
    <2> QED  BY <1>2, <1>4, <2>1, <2>2
  <1>14. ASSUME NEW f \in Bundle(d).logs, NEW grid
         PROVE  VerifyLog(f, grid) /\ \A k \in DOMAIN f.steps : f.steps[k].fields # "missing"
    <2>1. PICK n \in 1 .. m : f = d.logs[n]
      BY <1>5
    <2>2. /\ AuditClean(f.steps) /\ DOMAIN f.steps = 1 .. g[n].steps
          /\ \A k \in 1 .. g[n].steps : /\ f.steps[k].step = k - 1 /\ f.steps[k].fields = "own"
                                        /\ f.steps[k].unknown = FALSE
      BY <1>1, <2>1 DEF AcceptedLog
    <2>3. StepsInOrder(f.steps)
      BY <2>2 DEF StepsInOrder
    <2>4. \A k \in DOMAIN f.steps : FieldsAllowed(f.steps[k], grid)
      BY <2>2 DEF FieldsAllowed
    <2>5. \A k \in DOMAIN f.steps : f.steps[k].fields # "missing"
      BY <2>2
    <2> QED  BY <2>2, <2>3, <2>4, <2>5 DEF VerifyLog
  <1>15. ~VerifyRaises(d)
    <2>1. TermsRead(d).grid # "missing"
      BY <1>1, <1>3, <1>6
    <2>2. \A i \in DOMAIN d.result.sub_games : d.result.sub_games[i].result \in Results
      BY <1>2 DEF e
    <2> QED  BY <1>14, <2>1, <2>2 DEF VerifyRaises
  <1>16. VerifyScores(d.result, TermsRead(d).scoring)
    BY <1>1, <1>6
  <1> QED
    BY <1>8, <1>9, <1>10, <1>11, <1>12, <1>13, <1>14, <1>15, <1>16 DEF VerifyReplay

\* The parts of an honest set.
LEMMA HonestConfigAccepted ==
  ASSUME NEW f, NEW n, NEW t, NEW b, HonestConfig(f, n, t, b)
  PROVE  AcceptedConfig(f, n, t, b) /\ f.sub_game_number = n /\ f.terms = AgreedTerms
  BY ConfigFields DEF AcceptedConfig, AgreedTerms

LEMMA HonestLogAccepted ==
  ASSUME NEW f, NEW n, NEW c, NEW t, NEW b, HonestLog(f, n, c, t, b), AuditClean(f.steps)
  PROVE  AcceptedLog(f, n, c, t, b) /\ f.sub_game_number = n
  <1>1. /\ f # NoFile /\ f.by = b /\ f.game_uid = t /\ f.sub_game_number = n
        /\ HonestSteps(f.steps, c)
    BY LogFields
  <1>2. Len(f.steps) = c /\ DOMAIN f.steps = 1 .. c
    BY <1>1 DEF HonestSteps
  <1>3. \A k \in 1 .. c :
          f.steps[k].step = k - 1 /\ f.steps[k].fields = "own" /\ f.steps[k].unknown = FALSE
    BY <1>1, StepFields
  <1> QED  BY <1>1, <1>2, <1>3 DEF AcceptedLog

LEMMA HonestResultAccepted ==
  ASSUME NEW r, NEW g, NEW a, NEW t, NEW b, HonestResult(r, g, a, t, b)
  PROVE  /\ AcceptedResult(r, g, t, b) /\ VerifyScores(r, AgreedScoring)
         /\ \A i \in 1 .. Len(g) : r.sub_games[i].sub_game_number = i
  <1>1. /\ r # NoFile /\ HonestEntries(r.sub_games, g)
        /\ r = [by |-> b, game_uid |-> t, config_sha256 |-> t, sub_games |-> r.sub_games,
                agreement_status |-> a, totals |-> r.totals]
        /\ r.totals = IF a = "disputed_zeroed" THEN <<0, 0>> ELSE Totals(r.sub_games)
    BY DEF HonestResult
  <1>2. r.by = b /\ r.game_uid = t /\ r.config_sha256 = t /\ r.agreement_status = a
    BY <1>1
  <1>3. Len(r.sub_games) = Len(g) /\ DOMAIN r.sub_games = 1 .. Len(g)
    BY <1>1 DEF HonestEntries
  <1>4. \A i \in 1 .. Len(g) :
          /\ r.sub_games[i].sub_game_number = i /\ r.sub_games[i].steps = g[i].steps
          /\ g[i].steps \in Nat /\ r.sub_games[i].result \in Results
          /\ r.sub_games[i].scores = Score(r.sub_games[i].result)
    BY <1>1, EntryFields
  <1>5. AcceptedResult(r, g, t, b)
    BY <1>1, <1>2, <1>3, <1>4 DEF AcceptedResult
  <1>6. VerifyScores(r, AgreedScoring)
    BY <1>1, <1>2, <1>3, <1>4 DEF VerifyScores, Score
  <1> QED  BY <1>4, <1>5, <1>6

\* The files of an honest set are accepted when no nonce repeats.
LEMMA HonestIsAccepted ==
  ASSUME NEW h, NEW g, NEW a, NEW t, NEW b, IsHonest(h, g, a, t, b),
         \A f \in Bundle(h).logs : AuditClean(f.steps)
  PROVE  Accepted(h, g, t, b)
  <1>1. /\ Len(g) \in Nat \ {0} /\ 1 \in 1 .. Len(g) /\ 1 .. Len(g) \subseteq Slots
        /\ Files(h.configs) = 1 .. Len(g) /\ Files(h.logs) = 1 .. Len(g)
        /\ h.declaration.by = b /\ h.declaration.game_uid = t
        /\ HonestResult(h.result, g, a, t, b)
        /\ \A n \in 1 .. Len(g) : /\ HonestConfig(h.configs[n], n, t, b)
                                  /\ HonestLog(h.logs[n], n, g[n].steps, t, b)
    BY DEF IsHonest
  <1>2. \A n \in 1 .. Len(g) : AuditClean(h.logs[n].steps)
    BY <1>1 DEF Bundle
  <1>3. \A n \in 1 .. Len(g) :
          /\ AcceptedConfig(h.configs[n], n, t, b) /\ h.configs[n].sub_game_number = n
          /\ AcceptedLog(h.logs[n], n, g[n].steps, t, b) /\ h.logs[n].sub_game_number = n
          /\ h.configs[n].terms = AgreedTerms
    BY <1>1, <1>2, HonestConfigAccepted, HonestLogAccepted
  <1>4. /\ AcceptedResult(h.result, g, t, b) /\ VerifyScores(h.result, AgreedScoring)
        /\ \A i \in 1 .. Len(g) : h.result.sub_games[i].sub_game_number = i
    BY <1>1, HonestResultAccepted
  <1>5. NumbersApart(h, Len(g))
    BY <1>3, <1>4 DEF NumbersApart
  <1>6. h.configs[1].terms.scoring = AgreedScoring
    BY <1>1, <1>3 DEF AgreedTerms
  <1> QED  BY <1>1, <1>3, <1>4, <1>5, <1>6 DEF Accepted

\* The files of an honest set verify when no nonce repeats.
LEMMA HonestVerifies ==
  ASSUME NEW h, NEW g, NEW a, NEW t, NEW b, IsHonest(h, g, a, t, b),
         \A f \in Bundle(h).logs : AuditClean(f.steps)
  PROVE  VerifyReplay(h)
  BY HonestIsAccepted, AcceptedVerifies

-----------------------------------------------------------------------------
(* One series or several.                                                  *)

\* Files that all are of one series are files of one series.
LEMMA AllOfOne ==
  ASSUME NEW b, FilesPresent # {}, \A f \in FilesPresent : f.by = b
  PROVE  OneSeries
  <1>1. {f.by : f \in FilesPresent} = {b}
    OBVIOUS
  <1> QED  BY <1>1, FS_Singleton DEF OneSeries

\* The files of the last complete set, with what older ones were left.
LEMMA OneSeriesIsLatest ==
  ASSUME NEW h, NEW g, NEW a, NEW t, NEW b \in Nat \ {0}, IsHonest(h, g, a, t, b),
         DirShape(dir), Holds(dir, h, Len(g), b)
  PROVE  OneSeries <=> dir = h
  <1> DEFINE m == Len(g)
             B == {f.by : f \in FilesPresent}
  <1>1. /\ DirShape(h) /\ m \in Nat /\ 1 .. m \subseteq Slots
        /\ Files(h.configs) = 1 .. m /\ Files(h.logs) = 1 .. m
        /\ h.declaration # NoFile /\ h.declaration = [by |-> b, game_uid |-> t]
        /\ h.result # NoFile /\ h.result.by = b
    BY DEF IsHonest, HonestResult
  <1>2. \A n \in 1 .. m : h.configs[n].by = b /\ h.logs[n].by = b
    BY ConfigFields, LogFields DEF IsHonest
  <1>3. /\ dir.declaration = h.declaration /\ dir.result = h.result
        /\ \A n \in 1 .. m : dir.configs[n] = h.configs[n] /\ dir.logs[n] = h.logs[n]
        /\ \A n \in Slots \ (1 .. m) :
             dir.configs[n].by \in 0 .. b - 1 /\ dir.logs[n].by \in 0 .. b - 1
    BY DEF Holds, Older
  <1> HIDE DEF m
  <1>4. \A n \in Slots \ (1 .. m) : h.configs[n] = NoFile /\ h.logs[n] = NoFile
    BY <1>1 DEF Files
  <1>5. dir.result \in FilesPresent /\ b \in B
    BY <1>1, <1>3 DEF FilesPresent
  <1>6. ASSUME OneSeries  PROVE dir = h
    <2>1. \A f \in FilesPresent : f.by \in 0 .. b
      <3>1. h.declaration.by = b
        BY <1>1
      <3>2. \A n \in Slots : dir.configs[n].by \in 0 .. b /\ dir.logs[n].by \in 0 .. b
        BY <1>2, <1>3
      <3> QED  BY <1>1, <1>3, <3>1, <3>2 DEF FilesPresent
    <2>2. IsFiniteSet(B)
      <3>1. B \in SUBSET (0 .. b)
        BY <2>1
      <3>2. IsFiniteSet(0 .. b)
        BY FS_Interval
      <3> QED  BY <3>1, <3>2, FS_Subset
    <2>3. PICK x : B = {x}
      BY <2>2, <1>6, FS_Singleton DEF OneSeries
    <2>4. \A f \in FilesPresent : f.by = b
      BY <2>3, <1>5
    <2>5. \A n \in Slots \ (1 .. m) : dir.configs[n] = NoFile /\ dir.logs[n] = NoFile
      <3> SUFFICES ASSUME NEW n \in Slots \ (1 .. m)
                   PROVE  dir.configs[n] = NoFile /\ dir.logs[n] = NoFile
        OBVIOUS
      <3>1. dir.configs[n].by # b /\ dir.logs[n].by # b
        BY <1>3
      <3> QED  BY <3>1, <2>4 DEF FilesPresent
    <2>6. \A n \in Slots : dir.configs[n] = h.configs[n] /\ dir.logs[n] = h.logs[n]
      BY <1>3, <1>4, <2>5
    <2> QED  BY <1>1, <1>3, <2>6, SameDir
  <1>7. ASSUME dir = h  PROVE OneSeries
    <2>1. h.declaration.by = b
      BY <1>1
    <2>2. \A f \in FilesPresent : f.by = b
      BY <1>1, <1>2, <1>4, <1>7, <2>1 DEF FilesPresent
    <2> QED  BY <2>2, <1>5, AllOfOne
  <1> QED  BY <1>6, <1>7

\* What the directory says when the last set written is complete.
LEMMA VerifiedWhenComplete ==
  ASSUME NEW h, NEW g, NEW a, NEW t, NEW b \in Nat \ {0}, IsHonest(h, g, a, t, b),
         DirShape(dir), Holds(dir, h, Len(g), b)
  PROVE  VerifyReplay(dir) <=> OneSeries /\ ~NonceReused
  <1>1. ASSUME VerifyReplay(dir)  PROVE OneSeries /\ ~NonceReused
    <2>1. OneSeries
      BY <1>1, VerifiedIsLatest, OneSeriesIsLatest
    <2>2. ~NonceReused
      BY <1>1 DEF VerifyReplay, VerifyLog, NonceReused
    <2> QED  BY <2>1, <2>2
  <1>2. ASSUME OneSeries, ~NonceReused  PROVE VerifyReplay(dir)
    <2>1. dir = h
      BY <1>2, OneSeriesIsLatest
    <2>2. \A f \in Bundle(h).logs : AuditClean(f.steps)
      BY <1>2, <2>1 DEF NonceReused
    <2> QED  BY <2>1, <2>2, HonestVerifies
  <1> QED  BY <1>1, <1>2

-----------------------------------------------------------------------------
(* The directory: every step preserves DirInv.                             *)

\* What r series wrote is among what more series wrote.
LEMMA WrittenByMore ==
  ASSUME NEW d, NEW r \in Int, NEW s \in Int, r <= s, WrittenBy(d, r)
  PROVE  WrittenBy(d, s)
  <1>1. 1 .. r \subseteq 1 .. s
    OBVIOUS
  <1> QED  BY <1>1 DEF WrittenBy

\* All that r series wrote is older than the next series.
LEMMA WrittenIsOlder ==
  ASSUME NEW d, NEW r \in Nat, WrittenBy(d, r), NEW m
  PROVE  Older(d, m, r + 1)
  <1> SUFFICES ASSUME NEW n \in Slots \ (1 .. m)
               PROVE  d.configs[n].by \in 0 .. r /\ d.logs[n].by \in 0 .. r
    BY DEF Older
  <1>1. NoFile.by = 0
    BY DEF NoFile
  <1>2. d.configs[n].by \in 0 .. r
    <2>1. CASE d.configs[n] = NoFile
      BY <1>1, <2>1
    <2>2. CASE d.configs[n] # NoFile
      <3>1. PICK t \in Terms, b \in 1 .. r : HonestConfig(d.configs[n], n, t, b)
        BY <2>2 DEF WrittenBy
      <3> QED  BY <3>1, ConfigFields
    <2> QED  BY <2>1, <2>2
  <1>3. d.logs[n].by \in 0 .. r
    <2>1. CASE d.logs[n] = NoFile
      BY <1>1, <2>1
    <2>2. CASE d.logs[n] # NoFile
      <3>1. PICK c \in 0 .. Threshold + 1, t \in Terms, b \in 1 .. r :
              HonestLog(d.logs[n], n, c, t, b)
        BY <2>2 DEF WrittenBy
      <3> QED  BY <3>1, LogFields
    <2> QED  BY <2>1, <2>2
  <1> QED  BY <1>2, <1>3

\* The initial states satisfy DirInv.
LEMMA InitDir == PostInit => DirInv
  <1> SUFFICES ASSUME PostInit  PROVE DirInv
    OBVIOUS
  <1>1. /\ played = <<>> /\ status = "open" /\ cmd = "idle" /\ runs = 0
        /\ edit = "none" /\ torn = FALSE /\ dir = EmptyDir
    BY DEF PostInit, ContractInit
  <1>2. WrittenBy(EmptyDir, 0)
    BY DEF WrittenBy, EmptyDir, DirShape
  <1>3. PlayedInv
    BY <1>1, PostGameAssumption DEF PlayedInv
  <1> QED
    BY <1>1, <1>2, <1>3 DEF DirInv, FileInv, WriteInv, LatestInv, EditInv, RunsWritten

\* A step that neither plays nor writes.
LEMMA QuietDir ==
  ASSUME DirInv, UNCHANGED <<played, status, dirVars>>,
         cmd' = cmd \/ (cmd \notin {"series", "writing"} /\ cmd' \notin {"series", "writing"})
  PROVE  DirInv'
  <1>1. UNCHANGED <<played, status, dir, runs, plan, next, torn, edit>>
    BY DEF dirVars
  <1>2. RunsWritten' = RunsWritten
    BY <1>1 DEF RunsWritten
  <1>3. PlayedInv'
    BY <1>1 DEF DirInv, PlayedInv
  <1>4. FileInv'
    BY <1>1, <1>2 DEF DirInv, FileInv
  <1>5. WriteInv'
    BY <1>1 DEF DirInv, WriteInv
  <1>6. LatestInv'
    BY <1>1, <1>2 DEF DirInv, LatestInv
  <1>7. EditInv'
    BY <1>1 DEF DirInv, EditInv
  <1> QED  BY <1>3, <1>4, <1>5, <1>6, <1>7 DEF DirInv

LEMMA StartSeriesDir ==
  ASSUME DirInv, StartSeries  PROVE DirInv'
  <1>1. /\ UNCHANGED <<played, status, dir, plan, next, torn, edit>>
        /\ cmd = "idle" /\ cmd' = "series" /\ runs' = runs + 1 /\ edit = "none"
    BY DEF StartSeries
  <1>2. runs \in Nat
    BY DEF DirInv, FileInv
  <1>3. RunsWritten' = RunsWritten
    BY <1>1, <1>2 DEF RunsWritten
  <1>4. PlayedInv'
    BY <1>1 DEF DirInv, PlayedInv
  <1>5. FileInv'
    BY <1>1, <1>2, <1>3 DEF DirInv, FileInv
  <1>6. WriteInv' /\ EditInv'
    BY <1>1 DEF WriteInv, EditInv
  <1>7. LatestInv'
    BY <1>1, <1>3 DEF DirInv, LatestInv
  <1> QED  BY <1>4, <1>5, <1>6, <1>7 DEF DirInv

LEMMA PlaySeriesDir ==
  ASSUME DirInv, PlaySeries  PROVE DirInv'
  <1>1. UNCHANGED <<dir, runs, plan, next, torn, edit, cmd>> /\ cmd = "series"
    BY DEF PlaySeries, dirVars
  <1>2. RunsWritten' = RunsWritten
    BY <1>1 DEF RunsWritten
  <1>3. PlayedInv'
    <2>1. /\ played \in Seq(GameRec) /\ Len(played) <= Games
          /\ status = "open" => Len(played) < Games
          /\ Games \in Nat /\ Threshold \in Nat
      BY PostGameAssumption DEF DirInv, PlayedInv
    <2>2. CASE ScoreGame
      <3>1. PlayedResults \subseteq GameRec
        BY <2>1 DEF PlayedResults, GameRec, Results
      <3>2. PICK game \in GameRec : played' = Append(played, game)
        BY <2>2, <3>1 DEF ScoreGame
      <3>3. played' \in Seq(GameRec) /\ Len(played') = Len(played) + 1
        BY <2>1, <3>2
      <3> QED  BY <1>1, <2>1, <2>2, <3>3 DEF ScoreGame, PlayedInv
    <2>3. CASE ForfeitGame
      <3>1. PICK n \in 0 .. Threshold :
              played' = Append(played, [result |-> "technical_loss", steps |-> n])
        BY <2>3 DEF ForfeitGame
      <3>2. [result |-> "technical_loss", steps |-> n] \in GameRec
        BY <2>1 DEF GameRec, Results
      <3>3. played' \in Seq(GameRec) /\ Len(played') = Len(played) + 1
        BY <2>1, <3>1, <3>2
      <3> QED  BY <1>1, <2>1, <2>3, <3>3 DEF ForfeitGame, PlayedInv
    <2>4. CASE AbandonSeries
      BY <1>1, <2>1, <2>4 DEF AbandonSeries, PlayedInv
    <2> QED  BY <2>2, <2>3, <2>4 DEF PlaySeries, ContractNext
  <1>4. FileInv'
    BY <1>1, <1>2 DEF DirInv, FileInv
  <1>5. WriteInv'
    BY <1>1 DEF WriteInv
  <1>6. LatestInv'
    BY <1>1, <1>2 DEF DirInv, LatestInv
  <1>7. EditInv'
    BY <1>1 DEF DirInv, EditInv
  <1> QED  BY <1>3, <1>4, <1>5, <1>6, <1>7 DEF DirInv

LEMMA SeriesRaisedDir ==
  ASSUME DirInv, SeriesRaised  PROVE DirInv'
  <1>1. /\ UNCHANGED <<dir, runs, plan, next, torn, edit>>
        /\ cmd = "series" /\ cmd' = "idle" /\ played' = <<>> /\ status' = "open"
    BY DEF SeriesRaised, dirVars
  <1>2. runs \in Nat /\ runs >= 1 /\ edit = "none" /\ WrittenBy(dir, runs - 1)
    BY <1>1 DEF DirInv, FileInv, RunsWritten
  <1>3. RunsWritten = runs - 1 /\ RunsWritten' = runs
    BY <1>1 DEF RunsWritten
  <1>4. PlayedInv'
    BY <1>1, PostGameAssumption DEF PlayedInv
  <1>5. FileInv'
    <2>1. WrittenBy(dir, runs)
      BY <1>2, WrittenByMore
    <2> QED  BY <1>1, <1>2, <1>3, <2>1 DEF FileInv
  <1>6. WriteInv' /\ EditInv'
    BY <1>1, <1>2 DEF WriteInv, EditInv
  <1>7. LatestInv'
    <2>1. 1 .. runs - 1 \subseteq 1 .. runs
      BY <1>2
    <2> QED  BY <1>1, <1>3, <2>1 DEF DirInv, LatestInv
  <1> QED  BY <1>4, <1>5, <1>6, <1>7 DEF DirInv

\* The plan is an honest set of the series just played, and all that is in the
\* directory is older.
LEMMA BeginWriteDir ==
  ASSUME DirInv, BeginWrite  PROVE DirInv'
  <1>1. /\ UNCHANGED <<dir, runs, torn, edit>> /\ next' = 0
        /\ cmd = "series" /\ cmd' = "writing" /\ played' = <<>> /\ status' = "open"
        /\ status \in {"completed", "technical_loss_ended_series"}
    BY DEF BeginWrite
  <1>2. PICK t \in Terms, a \in AgreementStatuses, R \in ReuseSets :
          plan' = HonestSet(played, R, a, t, runs)
    BY DEF BeginWrite, HonestSet
  <1>3. runs \in Nat /\ runs >= 1 /\ edit = "none" /\ WrittenBy(dir, runs - 1)
    BY <1>1 DEF DirInv, FileInv, RunsWritten
  <1>4. played \in Seq(GameRec) /\ Len(played) \in 1 .. Games
    BY <1>1, PostGameAssumption DEF DirInv, PlayedInv
  <1>5. a \in AgreementSet /\ R \in SUBSET Slots
    <2>1. a \in AgreementSet
      BY <1>1 DEF AgreementStatuses, AgreementSet
    <2>2. DOMAIN played \subseteq Slots
      BY <1>4, PostGameAssumption
    <2>3. R \subseteq DOMAIN played
      BY DEF ReuseSets
    <2> QED  BY <2>1, <2>2, <2>3
  <1>6. PlayedInv'
    BY <1>1, PostGameAssumption DEF PlayedInv
  <1>7. FileInv'
    <2>1. WrittenBy(dir, runs)
      BY <1>3, WrittenByMore
    <2> QED  BY <1>1, <1>3, <2>1 DEF FileInv, RunsWritten
  <1>8. WriteInv'
    <2>1. played \in GameSeqs
      BY <1>4, SequencesAreGames
    <2>2. Older(dir, Len(played), runs)
      <3>1. Older(dir, Len(played), (runs - 1) + 1)
        BY <1>3, WrittenIsOlder
      <3>2. (runs - 1) + 1 = runs
        BY <1>3
      <3> QED  BY <3>1, <3>2
    <2>3. PartlySaved(dir, plan', Len(played), runs, 0)
      BY <2>2, <1>4 DEF PartlySaved
    <2>4. 0 \in 0 .. 2 * Len(played) + 1
      BY <1>4
    <2> QED  BY <1>1, <1>2, <1>5, <2>1, <2>3, <2>4 DEF WriteInv
  <1>9. LatestInv' /\ EditInv'
    BY <1>1, <1>3 DEF LatestInv, EditInv
  <1> QED  BY <1>6, <1>7, <1>8, <1>9 DEF DirInv

LEMMA WriterDiesDir ==
  ASSUME DirInv, WriterDies  PROVE DirInv'
  <1>1. /\ UNCHANGED <<played, status, dir, runs, edit>> /\ torn' = TRUE
        /\ cmd = "writing" /\ cmd' = "idle"
    BY DEF WriterDies
  <1>2. RunsWritten' = RunsWritten
    BY <1>1 DEF RunsWritten
  <1>3. PlayedInv'
    BY <1>1 DEF DirInv, PlayedInv
  <1>4. FileInv'
    BY <1>1, <1>2 DEF DirInv, FileInv
  <1>5. WriteInv' /\ LatestInv'
    BY <1>1 DEF WriteInv, LatestInv
  <1>6. EditInv'
    BY <1>1 DEF DirInv, EditInv
  <1> QED  BY <1>3, <1>4, <1>5, <1>6 DEF DirInv

\* A directory is altered when it verified: it was one honest set.
LEMMA AlterFileDir ==
  ASSUME DirInv, AlterFile  PROVE DirInv'
  <1>1. /\ UNCHANGED <<played, status, runs, plan, next, torn, cmd>>
        /\ cmd = "idle" /\ ~torn /\ edit = "none" /\ VerifyReplay(dir)
        /\ \/ edit' = "content" /\ dir' \in ContentEdits(dir)
           \/ edit' = "unchecked" /\ dir' \in UncheckedEdits(dir)
           \/ edit' = "schema" /\ dir' \in SchemaEdits(dir)
           \/ edit' = "malformed" /\ dir' \in MalformedEdits(dir)
    BY DEF AlterFile
  <1>2. edit' # "none" /\ cmd' = "idle"
    BY <1>1
  <1>3. runs \in Nat /\ RunsWritten = runs /\ DirShape(dir)
    BY <1>1 DEF DirInv, FileInv, RunsWritten, WrittenBy
  <1>4. dir # EmptyDir
    <2>1. EmptyDir.result = NoFile
      BY DEF EmptyDir
    <2> QED  BY <1>1, <2>1 DEF VerifyReplay, HasRequired
  <1>5. PICK g \in GameSeqs, R \in SUBSET Slots, a \in AgreementSet, t \in Terms, b \in 1 .. runs :
          Holds(dir, HonestSet(g, R, a, t, b), Len(g), b)
    BY <1>1, <1>3, <1>4 DEF DirInv, LatestInv
  <1>6. b \in Nat \ {0} /\ IsHonest(HonestSet(g, R, a, t, b), g, a, t, b)
    BY <1>3, SetIsHonest
  <1>7. dir = HonestSet(g, R, a, t, b)
    BY <1>1, <1>3, <1>5, <1>6, VerifiedIsLatest
  <1>8. EditInv'
    BY <1>1, <1>7 DEF EditInv
  <1>9. PlayedInv'
    BY <1>1 DEF DirInv, PlayedInv
  <1>10. FileInv' /\ WriteInv' /\ LatestInv'
    BY <1>1, <1>2, <1>3 DEF FileInv, WriteInv, LatestInv
  <1> QED  BY <1>8, <1>9, <1>10 DEF DirInv

\* The number of files of the plan.
LEMMA PlanFilesCount ==
  ASSUME NEW g, NEW a, NEW t, NEW b, IsHonest(plan, g, a, t, b)
  PROVE  PlanFiles = 2 + 2 * Len(g)
  BY DEF IsHonest, PlanFiles

\* A file number after the first is that of a config or that of a log.
LEMMA Halves ==
  ASSUME NEW k \in Nat, NEW m \in Nat, 2 <= k, k <= 2 * m + 1
  PROVE  /\ k \div 2 \in 1 .. m
         /\ k % 2 = 0 => k = 2 * (k \div 2)
         /\ k % 2 # 0 => k = 2 * (k \div 2) + 1
  <1>1. k = 2 * (k \div 2) + (k % 2) /\ k % 2 \in 0 .. 1 /\ k \div 2 \in Int
    OBVIOUS
  <1> QED  BY <1>1

LEMMA SavedDeclaration ==
  ASSUME NEW d, NEW h, NEW g, NEW a, NEW t \in Terms, NEW b \in Nat \ {0},
         WrittenBy(d, b), IsHonest(h, g, a, t, b), PartlySaved(d, h, Len(g), b, 0)
  PROVE  LET e == [d EXCEPT !.declaration = h.declaration]
         IN WrittenBy(e, b) /\ PartlySaved(e, h, Len(g), b, 1)
  <1> DEFINE e == [d EXCEPT !.declaration = h.declaration]
  <1>1. /\ DirShape(e) /\ e.declaration = h.declaration
        /\ e.result = d.result /\ e.configs = d.configs /\ e.logs = d.logs
    BY DEF WrittenBy, DirShape
  <1>2. h.declaration = [by |-> b, game_uid |-> t] /\ b \in 1 .. b
    BY DEF IsHonest
  <1> HIDE DEF e
  <1>3. WrittenBy(e, b)
    BY <1>1, <1>2 DEF WrittenBy
  <1>4. Len(g) \in Nat
    BY DEF IsHonest
  <1>5. PartlySaved(e, h, Len(g), b, 1)
    BY <1>1, <1>4 DEF PartlySaved, Older
  <1> QED  BY <1>3, <1>5 DEF e

LEMMA SavedResult ==
  ASSUME NEW d, NEW h, NEW g \in GameSeqs, NEW a \in AgreementSet, NEW t \in Terms,
         NEW b \in Nat \ {0}, WrittenBy(d, b), IsHonest(h, g, a, t, b),
         PartlySaved(d, h, Len(g), b, 2 * Len(g) + 1)
  PROVE  LET e == [d EXCEPT !.result = h.result]
         IN WrittenBy(e, b) /\ Holds(e, h, Len(g), b)
  <1> DEFINE e == [d EXCEPT !.result = h.result]
  <1>1. /\ DirShape(e) /\ e.declaration = d.declaration
        /\ e.result = h.result /\ e.configs = d.configs /\ e.logs = d.logs
    BY DEF WrittenBy, DirShape
  <1>2. HonestResult(h.result, g, a, t, b) /\ b \in 1 .. b
    BY DEF IsHonest
  <1> HIDE DEF e
  <1>3. WrittenBy(e, b)
    BY <1>1, <1>2 DEF WrittenBy
  <1>4. Len(g) \in Nat
    BY DEF IsHonest
  <1>5. Holds(e, h, Len(g), b)
    <2>1. \A n \in 1 .. Len(g) : 2 * n <= 2 * Len(g) + 1 /\ 2 * n + 1 <= 2 * Len(g) + 1
      BY <1>4
    <2>2. 2 * Len(g) + 1 >= 1
      BY <1>4
    <2> QED  BY <1>1, <2>1, <2>2 DEF PartlySaved, Holds, Older
  <1> QED  BY <1>3, <1>5 DEF e

LEMMA SavedConfig ==
  ASSUME NEW d, NEW h, NEW g, NEW a, NEW t \in Terms, NEW b \in Nat \ {0},
         WrittenBy(d, b), IsHonest(h, g, a, t, b), NEW j \in 1 .. Len(g),
         PartlySaved(d, h, Len(g), b, 2 * j - 1)
  PROVE  LET e == [d EXCEPT !.configs[j] = h.configs[j]]
         IN WrittenBy(e, b) /\ PartlySaved(e, h, Len(g), b, 2 * j)
  <1> DEFINE e == [d EXCEPT !.configs[j] = h.configs[j]]
  <1>1. Len(g) \in Nat /\ 1 .. Len(g) \subseteq Slots /\ j \in Slots
    BY DEF IsHonest
  <1>2. /\ DirShape(e) /\ e.declaration = d.declaration
        /\ e.result = d.result /\ e.logs = d.logs
        /\ e.configs = [d.configs EXCEPT ![j] = h.configs[j]]
    <2> DEFINE c == [d.configs EXCEPT ![j] = h.configs[j]]
    <2>1. DirShape(d)
      BY DEF WrittenBy
    <2>2. e = [declaration |-> d.declaration, configs |-> c, logs |-> d.logs,
               result |-> d.result]
      BY <2>1 DEF DirShape
    <2>3. c = [n \in Slots |-> c[n]]
      BY <2>1 DEF DirShape
    <2> HIDE DEF e, c
    <2> QED  BY <2>1, <2>2, <2>3 DEF DirShape, c
  <1>3. \A n \in Slots : e.configs[n] = IF n = j THEN h.configs[j] ELSE d.configs[n]
    BY <1>1, <1>2 DEF WrittenBy, DirShape
  <1>4. HonestConfig(h.configs[j], j, t, b) /\ b \in 1 .. b
    BY DEF IsHonest
  <1> HIDE DEF e
  <1>5. WrittenBy(e, b)
    BY <1>2, <1>3, <1>4 DEF WrittenBy
  <1>6. PartlySaved(e, h, Len(g), b, 2 * j)
    <2>1. Older(e, Len(g), b)
      BY <1>2, <1>3 DEF PartlySaved, Older
    <2>2. 2 * j - 1 >= 1 /\ e.declaration = h.declaration
      BY <1>1, <1>2 DEF PartlySaved
    <2>3. ASSUME NEW n \in 1 .. Len(g)
          PROVE  /\ 2 * n <= 2 * j => e.configs[n] = h.configs[n]
                 /\ 2 * n + 1 <= 2 * j => e.logs[n] = h.logs[n]
      <3>1. /\ 2 * n <= 2 * j => n = j \/ 2 * n <= 2 * j - 1
            /\ 2 * n + 1 <= 2 * j => 2 * n + 1 <= 2 * j - 1
        BY <1>1
      <3> QED  BY <1>1, <1>2, <1>3, <3>1 DEF PartlySaved
    <2> QED  BY <2>1, <2>2, <2>3 DEF PartlySaved
  <1> QED  BY <1>5, <1>6 DEF e

\* The logs are saved in the order of their sub-games.
LEMMA SavedLog ==
  ASSUME NEW d, NEW h, NEW g, NEW a, NEW t \in Terms, NEW b \in Nat \ {0},
         WrittenBy(d, b), IsHonest(h, g, a, t, b), NEW j \in 1 .. Len(g),
         PartlySaved(d, h, Len(g), b, 2 * j)
  PROVE  LET e == [d EXCEPT !.logs[j] = h.logs[j]]
         IN WrittenBy(e, b) /\ PartlySaved(e, h, Len(g), b, 2 * j + 1)
  <1> DEFINE e == [d EXCEPT !.logs[j] = h.logs[j]]
  <1>1. Len(g) \in Nat /\ 1 .. Len(g) \subseteq Slots /\ j \in Slots
    BY DEF IsHonest
  <1>2. /\ DirShape(e) /\ e.declaration = d.declaration
        /\ e.result = d.result /\ e.configs = d.configs
        /\ e.logs = [d.logs EXCEPT ![j] = h.logs[j]]
    BY DEF WrittenBy, DirShape
  <1>3. \A n \in Slots : e.logs[n] = IF n = j THEN h.logs[j] ELSE d.logs[n]
    BY <1>1, <1>2 DEF WrittenBy, DirShape
  <1>4. /\ HonestLog(h.logs[j], j, g[j].steps, t, b) /\ b \in 1 .. b
        /\ g[j].steps \in 0 .. Threshold + 1
    <2>1. HonestEntries(h.result.sub_games, g)
      BY DEF IsHonest, HonestResult
    <2>2. g[j].steps \in 0 .. Threshold + 1
      BY <2>1 DEF HonestEntries
    <2>3. HonestLog(h.logs[j], j, g[j].steps, t, b)
      BY DEF IsHonest
    <2> QED  BY <2>2, <2>3
  <1> HIDE DEF e
  <1>5. \A n \in 1 .. j : e.logs[n] # NoFile
    <2> SUFFICES ASSUME NEW n \in 1 .. j, n # j  PROVE d.logs[n] # NoFile
      BY <1>1, <1>3, <1>4, LogFields
    <2>1. n \in 1 .. Len(g) /\ 2 * n + 1 <= 2 * j
      BY <1>1
    <2>2. d.logs[n] = h.logs[n]
      BY <2>1 DEF PartlySaved
    <2> QED  BY <2>1, <2>2, LogFields DEF IsHonest
  <1>6. WrittenBy(e, b)
    <2>1. \A n \in Slots : e.logs[n] = NoFile \/
            \E c \in 0 .. Threshold + 1, u \in Terms, s \in 1 .. b :
              HonestLog(e.logs[n], n, c, u, s)
      BY <1>3, <1>4 DEF WrittenBy
    <2>2. ASSUME NEW n \in Slots, e.logs[n] # NoFile, NEW m \in 1 .. n
          PROVE  e.logs[m] # NoFile
      <3>1. m \in Slots
        BY PostGameAssumption
      <3>2. CASE n = j
        BY <1>5, <3>2
      <3>3. CASE n # j
        <4>1. d.logs[m] # NoFile
          BY <1>3, <2>2, <3>3 DEF WrittenBy
        <4>2. h.logs[j] # NoFile
          BY <1>4, LogFields
        <4> QED  BY <1>3, <3>1, <4>1, <4>2
      <3> QED  BY <3>2, <3>3
    <2> QED  BY <1>2, <2>1, <2>2 DEF WrittenBy
  <1>7. PartlySaved(e, h, Len(g), b, 2 * j + 1)
    <2>1. Older(e, Len(g), b)
      BY <1>2, <1>3 DEF PartlySaved, Older
    <2>2. 2 * j >= 1 /\ e.declaration = h.declaration
      BY <1>1, <1>2 DEF PartlySaved
    <2>3. ASSUME NEW n \in 1 .. Len(g)
          PROVE  /\ 2 * n <= 2 * j + 1 => e.configs[n] = h.configs[n]
                 /\ 2 * n + 1 <= 2 * j + 1 => e.logs[n] = h.logs[n]
      <3>1. /\ 2 * n <= 2 * j + 1 => 2 * n <= 2 * j
            /\ 2 * n + 1 <= 2 * j + 1 => n = j \/ 2 * n + 1 <= 2 * j
        BY <1>1
      <3> QED  BY <1>1, <1>2, <1>3, <3>1 DEF PartlySaved
    <2> QED  BY <2>1, <2>2, <2>3 DEF PartlySaved
  <1> QED  BY <1>6, <1>7 DEF e

\* One file of the plan is saved; with the last one the set is complete.
LEMMA SaveNextDir ==
  ASSUME DirInv, SaveNext  PROVE DirInv'
  <1>1. /\ UNCHANGED <<played, status, runs, torn, edit>>
        /\ cmd = "writing" /\ dir' = Saved(next + 1)
        /\ next + 1 = PlanFiles => cmd' = "idle"
        /\ next + 1 # PlanFiles => cmd' = "writing" /\ next' = next + 1 /\ plan' = plan
    BY DEF SaveNext
  <1>2. PICK g \in GameSeqs, R \in SUBSET Slots, a \in AgreementSet, t \in Terms :
          /\ plan = HonestSet(g, R, a, t, runs)
          /\ next \in 0 .. 2 * Len(g) + 1
          /\ PartlySaved(dir, plan, Len(g), runs, next)
    BY <1>1 DEF DirInv, WriteInv
  <1>3. runs \in Nat \ {0} /\ edit = "none" /\ WrittenBy(dir, runs)
    BY <1>1 DEF DirInv, FileInv, RunsWritten
  <1>4. IsHonest(plan, g, a, t, runs)
    BY <1>2, <1>3, SetIsHonest
  <1>5. PlanFiles = 2 + 2 * Len(g) /\ Len(g) \in Nat \ {0}
    BY <1>4, PlanFilesCount DEF IsHonest
  <1>6. PlayedInv'
    <2>1. played = <<>> /\ status = "open"
      BY <1>1 DEF DirInv, PlayedInv
    <2> QED  BY <1>1, <2>1, PostGameAssumption DEF PlayedInv
  <1>7. EditInv'
    BY <1>1, <1>3 DEF EditInv
  <1>8. CASE next + 1 = PlanFiles
    <2>1. dir' = [dir EXCEPT !.result = plan.result]
      BY <1>1, <1>5, <1>8 DEF Saved
    <2>2. PartlySaved(dir, plan, Len(g), runs, 2 * Len(g) + 1)
      <3>1. next = 2 * Len(g) + 1
        BY <1>2, <1>5, <1>8
      <3> QED  BY <1>2, <3>1
    <2>3. WrittenBy(dir', runs) /\ Holds(dir', plan, Len(g), runs)
      BY <1>3, <1>4, <2>1, <2>2, SavedResult
    <2>4. cmd' = "idle" /\ RunsWritten' = runs
      BY <1>1, <1>8 DEF RunsWritten
    <2>5. FileInv' /\ WriteInv'
      BY <1>1, <1>3, <2>3, <2>4 DEF FileInv, WriteInv
    <2>6. LatestInv'
      <3>1. runs \in 1 .. runs
        BY <1>3
      <3> QED  BY <1>2, <2>3, <2>4, <3>1 DEF LatestInv
    <2> QED  BY <1>6, <1>7, <2>5, <2>6 DEF DirInv
  <1>9. CASE next + 1 # PlanFiles
    <2>1. next + 1 \in 1 .. 2 * Len(g) + 1
      BY <1>2, <1>5, <1>9
    <2>2. WrittenBy(dir', runs) /\ PartlySaved(dir', plan, Len(g), runs, next + 1)
      <3>1. CASE next + 1 = 1
        <4>1. next = 0
          BY <1>2, <3>1
        <4>2. dir' = [dir EXCEPT !.declaration = plan.declaration]
          BY <1>1, <3>1 DEF Saved
        <4> QED  BY <1>2, <1>3, <1>4, <3>1, <4>1, <4>2, SavedDeclaration
      <3>2. CASE next + 1 # 1 /\ (next + 1) % 2 = 0
        <4> DEFINE j == (next + 1) \div 2
        <4>1. j \in 1 .. Len(g) /\ next + 1 = 2 * j /\ next = 2 * j - 1
          BY <1>2, <1>5, <2>1, <3>2, Halves
        <4>2. dir' = [dir EXCEPT !.configs[j] = plan.configs[j]]
          BY <1>1, <1>9, <3>2 DEF Saved
        <4> HIDE DEF j
        <4> QED  BY <1>2, <1>3, <1>4, <4>1, <4>2, SavedConfig
      <3>3. CASE next + 1 # 1 /\ (next + 1) % 2 # 0
        <4> DEFINE j == (next + 1) \div 2
        <4>1. j \in 1 .. Len(g) /\ next + 1 = 2 * j + 1 /\ next = 2 * j
          BY <1>2, <1>5, <2>1, <3>3, Halves
        <4>2. dir' = [dir EXCEPT !.logs[j] = plan.logs[j]]
          BY <1>1, <1>9, <3>3 DEF Saved
        <4> HIDE DEF j
        <4> QED  BY <1>2, <1>3, <1>4, <4>1, <4>2, SavedLog
      <3> QED  BY <3>1, <3>2, <3>3
    <2>3. cmd' = "writing" /\ RunsWritten' = runs
      BY <1>1, <1>9 DEF RunsWritten
    <2>4. FileInv' /\ LatestInv'
      BY <1>1, <1>3, <2>2, <2>3 DEF FileInv, LatestInv
    <2>5. WriteInv'
      <3>1. next + 1 \in 0 .. 2 * Len(g) + 1
        BY <2>1, <1>5
      <3> QED  BY <1>1, <1>2, <1>9, <2>2, <3>1 DEF WriteInv
    <2> QED  BY <1>6, <1>7, <2>4, <2>5 DEF DirInv
  <1> QED  BY <1>8, <1>9

\* Every step preserves DirInv.
LEMMA NextDir == DirInv /\ [PostNext]_postVars => DirInv'
  <1> SUFFICES ASSUME DirInv, [PostNext]_postVars  PROVE DirInv'
    OBVIOUS
  <1>1. CASE StartSeries \/ PlaySeries \/ SeriesRaised \/ BeginWrite
    BY <1>1, StartSeriesDir, PlaySeriesDir, SeriesRaisedDir, BeginWriteDir
  <1>2. CASE SaveNext \/ WriterDies \/ AlterFile
    BY <1>2, SaveNextDir, WriterDiesDir, AlterFileDir
  <1>3. CASE RunVerify \/ ReplayRaises \/ OpenReplay
    BY <1>3, QuietDir DEF RunVerify, ReplayRaises, OpenReplay
  <1>4. CASE Select \/ Navigate \/ TogglePlay \/ Tick
    BY <1>4, QuietDir DEF Select, Navigate, TogglePlay, Tick, SetPlayback
  <1>5. CASE RefuseReport \/ BuildReport \/ LoadRaises
    BY <1>5, QuietDir DEF RefuseReport, BuildReport, LoadRaises
  <1>6. CASE DryRun \/ NoCredentials \/ ClientFails \/ Submit
    BY <1>6, QuietDir DEF DryRun, NoCredentials, ClientFails, Submit, Exit
  <1>7. CASE SendOk \/ SendLimited \/ SendFails
    BY <1>7, QuietDir DEF SendOk, SendLimited, SendFails, Exit
  <1>8. CASE Done \/ UNCHANGED postVars
    BY <1>8, QuietDir DEF Done, postVars
  <1> QED
    BY <1>1, <1>2, <1>3, <1>4, <1>5, <1>6, <1>7, <1>8 DEF PostNext

-----------------------------------------------------------------------------
(* What the commands show.                                                 *)

LEMMA InitShown == PostInit => ShownInv
  BY DEF PostInit, ShownInv, NoReport

\* A step after which no command has shown anything.
LEMMA NothingShown ==
  ASSUME SendInv', cmd' \in {"idle", "series", "writing"}
  PROVE  ShownInv'
  BY DEF SendInv, ShownInv

\* A step that keeps what a report was built from.
LEMMA ReportKept ==
  ASSUME ShownInv, dir' = dir, shown'.opponent = shown.opponent, report'.body = report.body,
         cmd \in {"built", "dry_run", "sending"} \/ report.sent > 0,
         cmd' \in {"built", "dry_run", "sending", "reported"}
  PROVE  ShownInv'
  BY DEF ShownInv, GatePasses

\* Every step preserves ShownInv.
LEMMA NextShown == SendInv /\ ShownInv /\ [PostNext]_postVars => ShownInv'
  <1> SUFFICES ASSUME SendInv, ShownInv, [PostNext]_postVars  PROVE ShownInv'
    OBVIOUS
  <1>0. SendInv'
    BY NextSend
  <1>1. CASE StartSeries \/ PlaySeries \/ SeriesRaised \/ BeginWrite
    BY <1>0, <1>1, NothingShown DEF StartSeries, PlaySeries, SeriesRaised, BeginWrite
  <1>2. CASE SaveNext \/ WriterDies \/ AlterFile
    BY <1>0, <1>2, NothingShown DEF SaveNext, WriterDies, AlterFile
  <1>3. CASE RunVerify
    <2>1. cmd' = "verified" /\ dir' = dir /\ report' = report /\ cmd = "idle"
            /\ shown'.exit = IF VerifyRaises(dir) THEN 1
                             ELSE IF VerifyReplay(dir) THEN 0 ELSE 2
      BY <1>3 DEF RunVerify, NotShown, dirVars
    <2>2. report'.sent = 0
      BY <2>1 DEF SendInv
    <2> QED  BY <2>1, <2>2 DEF ShownInv
  <1>4. CASE OpenReplay
    <2>1. PICK kind \in Opponents :
            shown' = [exit   |-> IF VerificationOk(OpponentDir(kind), dir) THEN 0 ELSE 2,
                      banner |-> Banner(OpponentDir(kind), dir),
                      opponent |-> kind]
      BY <1>4 DEF OpenReplay
    <2>2. cmd' = "viewer" /\ dir' = dir /\ report' = report /\ cmd = "idle"
      BY <1>4 DEF OpenReplay, dirVars
    <2>3. report'.sent = 0
      BY <2>2 DEF SendInv
    <2>4. /\ shown'.opponent = kind
          /\ shown'.exit = IF VerificationOk(OpponentDir(kind), dir) THEN 0 ELSE 2
          /\ shown'.banner = Banner(OpponentDir(kind), dir)
      BY <2>1
    <2> QED  BY <2>2, <2>3, <2>4 DEF ShownInv
  <1>5. CASE Select \/ Navigate \/ TogglePlay \/ Tick
    <2>1. cmd' = cmd /\ dir' = dir /\ shown' = shown /\ report' = report /\ cmd = "viewer"
      BY <1>5 DEF Select, Navigate, TogglePlay, Tick, SetPlayback, dirVars
    <2>2. report.sent = 0
      BY <2>1 DEF SendInv
    <2> QED  BY <2>1, <2>2 DEF ShownInv
  <1>6. CASE RefuseReport \/ LoadRaises
    <2>1. cmd' = "reported" /\ cmd = "idle" /\ report' = report
      BY <1>6 DEF RefuseReport, LoadRaises
    <2>2. report.sent = 0
      BY <2>1 DEF SendInv
    <2> QED  BY <2>1, <2>2 DEF ShownInv
  <1>7. CASE BuildReport
    <2>1. PICK opponent \in Opponents \union {"none"} :
            GatePasses(opponent) /\ shown' = [NotShown EXCEPT !.opponent = opponent]
      BY <1>7 DEF BuildReport
    <2>2. cmd' = "built" /\ dir' = dir /\ report' = [report EXCEPT !.body = ReportBody(dir)]
      BY <1>7 DEF BuildReport, dirVars
    <2>3. shown'.opponent = opponent /\ report'.body = ReportBody(dir)
      BY <2>1, <2>2 DEF NotShown, SendInv
    <2> QED  BY <2>1, <2>2, <2>3 DEF ShownInv, GatePasses
  <1>8. CASE DryRun \/ NoCredentials \/ ClientFails \/ Submit
    <2>1. /\ cmd = "built" /\ dir' = dir /\ report'.body = report.body
          /\ shown'.opponent = shown.opponent /\ cmd' \in {"dry_run", "sending", "reported"}
      BY <1>8 DEF DryRun, NoCredentials, ClientFails, Submit, Exit, dirVars, SendInv
    <2> QED  BY <2>1, ReportKept
  <1>9. CASE SendOk \/ SendFails
    <2>1. /\ cmd = "sending" /\ dir' = dir /\ report'.body = report.body
          /\ shown'.opponent = shown.opponent /\ cmd' = "reported"
      BY <1>9 DEF SendOk, SendFails, Exit, dirVars, SendInv
    <2> QED  BY <2>1, ReportKept
  <1>10. CASE SendLimited
    <2>1. /\ cmd = "sending" /\ dir' = dir /\ report'.body = report.body
          /\ shown'.opponent = shown.opponent /\ cmd' \in {"sending", "reported"}
      BY <1>10 DEF SendLimited, Exit, dirVars, SendInv
    <2> QED  BY <2>1, ReportKept
  <1>11. CASE ReplayRaises
    <2>1. cmd' = "raised" /\ cmd = "idle" /\ report' = report
      BY <1>11 DEF ReplayRaises
    <2>2. report.sent = 0
      BY <2>1 DEF SendInv
    <2> QED  BY <2>1, <2>2 DEF ShownInv
  <1>12. CASE Done \/ UNCHANGED postVars
    BY <1>12 DEF Done, postVars, dirVars, ShownInv, GatePasses
  <1> QED
    BY <1>1, <1>2, <1>3, <1>4, <1>5, <1>6, <1>7, <1>8, <1>9, <1>10, <1>11, <1>12
    DEF PostNext

PostInv == SendInv /\ DirInv /\ ShownInv

\* Every reachable state satisfies PostInv: a mailed report was built from a
\* directory that passed the gate, every file of the directory is one some series
\* wrote, and a complete set hides nothing but files of older series.
THEOREM PostInvariant == PostSpec => []PostInv
  <1>1. PostInit => PostInv
    BY InitSend, InitDir, InitShown DEF PostInv
  <1>2. PostInv /\ [PostNext]_postVars => PostInv'
    BY NextSend, NextDir, NextShown DEF PostInv
  <1> QED  BY <1>1, <1>2, PTL DEF PostSpec

\* When every writer finished and nothing was altered, verify-replay accepts a
\* directory exactly when all its files are of one series with clean audits,
\* however many series of whatever lengths were written into it before.
THEOREM PostVerifiedIffOneSeries == PostSpec => []VerifiedIffOneSeries
  <1>1. PostInv => VerifiedIffOneSeries
    <2> SUFFICES ASSUME PostInv, cmd = "verified", ~torn, edit = "none"
                 PROVE  shown.exit = 0 <=> dir # EmptyDir /\ OneSeries /\ ~NonceReused
      BY DEF VerifiedIffOneSeries
    <2>1. shown.exit = 0 <=> VerifyReplay(dir)
      BY DEF PostInv, ShownInv, VerifyReplay
    <2>2. runs \in Nat /\ DirShape(dir) /\ RunsWritten = runs
      BY DEF PostInv, DirInv, FileInv, WrittenBy, RunsWritten
    <2>3. CASE dir = EmptyDir
      <3>1. ~VerifyReplay(dir)
        BY <2>3 DEF EmptyDir, VerifyReplay, HasRequired
      <3> QED  BY <2>1, <2>3, <3>1
    <2>4. CASE dir # EmptyDir
      <3>1. PICK g \in GameSeqs, R \in SUBSET Slots, a \in AgreementSet, t \in Terms,
                 b \in 1 .. runs : Holds(dir, HonestSet(g, R, a, t, b), Len(g), b)
        BY <2>2, <2>4 DEF PostInv, DirInv, LatestInv
      <3>2. b \in Nat \ {0} /\ IsHonest(HonestSet(g, R, a, t, b), g, a, t, b)
        BY <2>2, SetIsHonest
      <3>3. VerifyReplay(dir) <=> OneSeries /\ ~NonceReused
        BY <2>2, <3>1, <3>2, VerifiedWhenComplete
      <3> QED  BY <2>1, <2>4, <3>3
    <2> QED  BY <2>3, <2>4
  <1> QED  BY <1>1, PostInvariant, PTL

-----------------------------------------------------------------------------
(* Alterations of one file.                                                *)

\* The scores tell the results apart.
DistinctScores ==
  \A r, s \in Results : Score(r) = Score(s) => r = s

\* A set with two members has not one.
LEMMA TwoValues ==
  ASSUME NEW S, NEW t, NEW u, t # u, t \in S, u \in S, S \subseteq {t, u}
  PROVE  Cardinality(S) # 1
  <1>1. IsFiniteSet({t, u})
    <2>1. IsFiniteSet({t})
      BY FS_Singleton
    <2>2. IsFiniteSet({t} \cup {u})
      BY <2>1, FS_AddElement
    <2>3. {t} \cup {u} = {t, u}
      OBVIOUS
    <2> QED  BY <2>2, <2>3
  <1>2. IsFiniteSet(S)
    BY <1>1, FS_Subset
  <1> QED  BY <1>2, FS_Singleton

\* The scores of a sub-game are numbers.
LEMMA ScoreType ==
  ASSUME NEW r \in Results
  PROVE  Score(r) \in Nat \X Nat
  BY VerifierAssumption DEF Score, ScoreUnder, AgreedScoring, Results

\* The ways a log's steps are altered.
LEMMA StepsCases ==
  ASSUME NEW p, NEW q \in StepsEdited(p)
  PROVE  \/ \E k \in DOMAIN p : \E s \in StepEdits(p[k]) : q = [p EXCEPT ![k] = s]
         \/ \E k \in DOMAIN p : q = SubSeq(p, 1, k - 1) \o SubSeq(p, k + 1, Len(p))
         \/ \E k \in DOMAIN p : q = SubSeq(p, 1, k) \o SubSeq(p, k, Len(p))
         \/ \E k \in DOMAIN p \ {1} : q = [p EXCEPT ![1] = p[k], ![k] = p[1]]
  <1> DEFINE E(k, s) == [p EXCEPT ![k] = s]
             L(k) == SubSeq(p, 1, k - 1) \o SubSeq(p, k + 1, Len(p))
             M(k) == SubSeq(p, 1, k) \o SubSeq(p, k, Len(p))
             X(k) == [p EXCEPT ![1] = p[k], ![k] = p[1]]
             A == UNION {{E(k, s) : s \in StepEdits(p[k])} : k \in DOMAIN p}
             B == {L(k) : k \in DOMAIN p}
             C == {M(k) : k \in DOMAIN p}
             D == {X(k) : k \in DOMAIN p \ {1}}
  <1>1. q \in A \/ q \in B \/ q \in C \/ q \in D
    <2>1. StepsEdited(p) = A \union B \union C \union D
      BY DEF StepsEdited
    <2> HIDE DEF A, B, C, D
    <2> QED  BY <2>1
  <1> HIDE DEF E, L, M, X
  <1>2. \/ \E k \in DOMAIN p : \E s \in StepEdits(p[k]) : q = E(k, s)
        \/ \E k \in DOMAIN p : q = L(k)
        \/ \E k \in DOMAIN p : q = M(k)
        \/ \E k \in DOMAIN p \ {1} : q = X(k)
    <2>1. CASE q \in A
      <3>1. PICK k \in DOMAIN p : q \in {E(k, s) : s \in StepEdits(p[k])}
        BY <2>1, Zenon
      <3>2. \E s \in StepEdits(p[k]) : q = E(k, s)
        BY <3>1, Zenon
      <3> QED  BY <3>2, Zenon
    <2>2. CASE q \in B
      BY <2>2, Zenon
    <2>3. CASE q \in C
      BY <2>3, Zenon
    <2>4. CASE q \in D
      BY <2>4, Zenon
    <2> HIDE DEF A, B, C, D
    <2> QED  BY <1>1, <2>1, <2>2, <2>3, <2>4, Zenon
  <1> QED  BY <1>2, Zenon DEF E, L, M, X

\* A log whose steps were altered has another length or fails its checks.
LEMMA EditedSteps ==
  ASSUME NEW p, NEW c \in Nat, HonestSteps(p, c), NEW q \in StepsEdited(p), NEW f, NEW grid, f.steps = q
  PROVE  Len(q) # c \/ ~VerifyLog(f, grid)
  <1>1. p \in Seq({p[k] : k \in 1 .. c}) /\ Len(p) = c /\ DOMAIN p = 1 .. c
    BY DEF HonestSteps
  <1>2. \/ \E k \in 1 .. c : \E s \in StepEdits(p[k]) : q = [p EXCEPT ![k] = s]
        \/ \E k \in 1 .. c : q = SubSeq(p, 1, k - 1) \o SubSeq(p, k + 1, Len(p))
        \/ \E k \in 1 .. c : q = SubSeq(p, 1, k) \o SubSeq(p, k, Len(p))
        \/ \E k \in (1 .. c) \ {1} : q = [p EXCEPT ![1] = p[k], ![k] = p[1]]
    <2>1. DOMAIN p = 1 .. c
      BY <1>1
    <2>2. \/ \E k \in DOMAIN p : \E s \in StepEdits(p[k]) : q = [p EXCEPT ![k] = s]
          \/ \E k \in DOMAIN p : q = SubSeq(p, 1, k - 1) \o SubSeq(p, k + 1, Len(p))
          \/ \E k \in DOMAIN p : q = SubSeq(p, 1, k) \o SubSeq(p, k, Len(p))
          \/ \E k \in DOMAIN p \ {1} : q = [p EXCEPT ![1] = p[k], ![k] = p[1]]
      BY StepsCases, Zenon
    <2> QED  BY <2>1, <2>2, Zenon
  <1>3. ASSUME NEW k \in 1 .. c, NEW s \in StepEdits(p[k]), q = [p EXCEPT ![k] = s]
        PROVE  ~VerifyLog(f, grid)
    <2>1. q[k] = s /\ k \in DOMAIN q
      BY <1>1, <1>3
    <2>2. /\ p[k].nonce \in Nat
          /\ p[k].commit_hash = [step |-> k - 1, nonce |-> p[k].nonce, schema |-> "current",
                                 fields |-> "own", cell |-> "position"]
          /\ p[k] = [step |-> k - 1, nonce |-> p[k].nonce, schema |-> "current",
                     fields |-> "own", cell |-> "position",
                     commit_hash |-> p[k].commit_hash, unknown |-> FALSE]
      BY DEF HonestSteps
    <2>3. -1 \notin Nat
      OBVIOUS
    <2>4. CASE s = [p[k] EXCEPT !.nonce = -1]
      <3>1. s.commit_hash.nonce # s.nonce
        BY <2>2, <2>3, <2>4
      <3>2. CanonicalDict(PayloadFromStep(s)).nonce = s.nonce
        BY DEF CanonicalDict, PayloadFromStep, SealedTurnPayload
      <3> QED  BY <2>1, <3>1, <3>2 DEF VerifyLog, AuditClean
    <2>5. CASE s = [p[k] EXCEPT !.fields = "wrong_role"]
      <3>1. s.fields = "wrong_role"
        BY <2>2, <2>5
      <3> QED  BY <2>1, <3>1 DEF VerifyLog, FieldsAllowed
    <2>6. CASE s = [p[k] EXCEPT !.commit_hash.nonce = -1]
      <3>1. s.commit_hash.nonce = -1 /\ s.nonce \in Nat
        BY <2>2, <2>6
      <3>2. CanonicalDict(PayloadFromStep(s)).nonce = s.nonce
        BY DEF CanonicalDict, PayloadFromStep, SealedTurnPayload
      <3> QED  BY <2>1, <2>3, <3>1, <3>2 DEF VerifyLog, AuditClean
    <2>7. CASE s = [p[k] EXCEPT !.unknown = TRUE]
      <3>1. s.unknown = TRUE /\ s.schema = "current"
        BY <2>2, <2>7
      <3> QED  BY <2>1, <3>1 DEF VerifyLog, FieldsAllowed
    <2> QED  BY <2>4, <2>5, <2>6, <2>7 DEF StepEdits
  <1>4. ASSUME NEW k \in 1 .. c, q = SubSeq(p, 1, k - 1) \o SubSeq(p, k + 1, Len(p))
        PROVE  Len(q) # c
    BY <1>1, <1>4
  <1>5. ASSUME NEW k \in 1 .. c, q = SubSeq(p, 1, k) \o SubSeq(p, k, Len(p))
        PROVE  Len(q) # c
    BY <1>1, <1>5
  <1>6. ASSUME NEW k \in (1 .. c) \ {1}, q = [p EXCEPT ![1] = p[k], ![k] = p[1]]
        PROVE  ~VerifyLog(f, grid)
    <2>1. q[1] = p[k] /\ 1 \in DOMAIN q
      BY <1>1, <1>6
    <2>2. p[k].step = k - 1
      BY StepFields
    <2> QED  BY <2>1, <2>2 DEF VerifyLog, StepsInOrder
  <1> QED  BY <1>2, <1>3, <1>4, <1>5, <1>6

\* The files an honest set is altered from, as the proofs below use them.
LEMMA HonestView ==
  ASSUME NEW h, NEW g, NEW a, NEW t, NEW b, IsHonest(h, g, a, t, b)
  PROVE  /\ Len(g) \in Nat \ {0} /\ 1 \in 1 .. Len(g) /\ 1 .. Len(g) \subseteq Slots
         /\ DirShape(h) /\ Files(h.configs) = 1 .. Len(g) /\ Files(h.logs) = 1 .. Len(g)
         /\ h.declaration = [by |-> b, game_uid |-> t] /\ h.declaration # NoFile
         /\ HonestResult(h.result, g, a, t, b) /\ HonestEntries(h.result.sub_games, g)
         /\ h.result = [by |-> b, game_uid |-> t, config_sha256 |-> t,
                        sub_games |-> h.result.sub_games,
                        agreement_status |-> a, totals |-> h.result.totals]
         /\ h.result # NoFile
         /\ \A n \in 1 .. Len(g) : /\ HonestConfig(h.configs[n], n, t, b)
                                   /\ HonestLog(h.logs[n], n, g[n].steps, t, b)
  BY DEF IsHonest, HonestResult

\* One identifier that differs is found.
LEMMA UidDetected ==
  ASSUME NEW e, NEW t, t # "other", \A f \in AllDicts(e) : f.game_uid \in {t, "other"},
         NEW x \in AllDicts(e), NEW y \in AllDicts(e), x.game_uid = "other", y.game_uid = t
  PROVE  ~VerifyReplay(e)
  <1> DEFINE S == {f.game_uid : f \in AllDicts(e)}
  <1>1. t \in S /\ "other" \in S /\ S \subseteq {t, "other"}
    OBVIOUS
  <1> HIDE DEF S
  <1>2. Cardinality(S) # 1
    BY <1>1, TwoValues
  <1> QED  BY <1>2 DEF VerifyReplay, GameUidConsistent, S

\* An altered declaration or result.
LEMMA SingleDetected ==
  ASSUME NEW h, NEW g, NEW a, NEW t \in Terms, NEW b \in Nat \ {0}, IsHonest(h, g, a, t, b),
         NEW e, \/ e = [h EXCEPT !.result = NoFile]
                \/ e = [h EXCEPT !.declaration.game_uid = "other"]
                \/ e = [h EXCEPT !.result.game_uid = "other"]
                \/ \E x \in {0, 1} \ {h.result.totals[2]} : e = [h EXCEPT !.result.totals[2] = x]
  PROVE  ~VerifyReplay(e)
  <1>1. /\ DirShape(h) /\ h.declaration = [by |-> b, game_uid |-> t] /\ h.declaration # NoFile
        /\ h.result = [by |-> b, game_uid |-> t, config_sha256 |-> t,
                       sub_games |-> h.result.sub_games,
                       agreement_status |-> a, totals |-> h.result.totals]
        /\ h.result # NoFile /\ h.result.game_uid = t
        /\ 1 \in 1 .. Len(g) /\ 1 .. Len(g) \subseteq Slots
        /\ Files(h.configs) = 1 .. Len(g) /\ Files(h.logs) = 1 .. Len(g)
        /\ HonestResult(h.result, g, a, t, b)
    BY HonestView
  <1>2. \A n \in 1 .. Len(g) : h.configs[n].game_uid = t /\ h.logs[n].game_uid = t
    BY ConfigFields, LogFields DEF IsHonest
  <1>3. t # "other"
    BY PostGameAssumption
  <1>4. CASE e = [h EXCEPT !.result = NoFile]
    <2>1. e.result = NoFile
      BY <1>1, <1>4 DEF DirShape
    <2> QED  BY <2>1 DEF VerifyReplay, HasRequired
  <1>5. CASE e = [h EXCEPT !.declaration.game_uid = "other"]
    <2>1. /\ e.declaration = [by |-> b, game_uid |-> "other"]
          /\ e.configs = h.configs /\ e.logs = h.logs /\ e.result = h.result
      BY <1>1, <1>5 DEF DirShape
    <2>2. e.declaration.by = b /\ e.declaration.game_uid = "other"
      BY <2>1
    <2>3. e.declaration # NoFile
      BY <2>2, FilesAreFiles
    <2>4. e.declaration \in AllDicts(e) /\ e.result \in AllDicts(e)
      BY <1>1, <2>1, <2>3 DEF AllDicts, Bundle
    <2>5. \A f \in AllDicts(e) : f.game_uid \in {t, "other"}
      BY <1>1, <1>2, <2>1, <2>2 DEF AllDicts, Bundle
    <2> QED  BY <1>1, <1>3, <2>1, <2>2, <2>4, <2>5, UidDetected
  <1>6. CASE e = [h EXCEPT !.result.game_uid = "other"]
    <2>1. /\ e.result = [h.result EXCEPT !.game_uid = "other"]
          /\ e.configs = h.configs /\ e.logs = h.logs /\ e.declaration = h.declaration
      BY <1>1, <1>6 DEF DirShape
    <2>2. e.result.by = b /\ e.result.game_uid = "other" /\ e.declaration.game_uid = t
      BY <1>1, <2>1
    <2>3. e.result # NoFile
      BY <2>2, FilesAreFiles
    <2>4. e.declaration \in AllDicts(e) /\ e.result \in AllDicts(e)
      BY <1>1, <2>1, <2>3 DEF AllDicts, Bundle
    <2>5. \A f \in AllDicts(e) : f.game_uid \in {t, "other"}
      BY <1>1, <1>2, <2>1, <2>2 DEF AllDicts, Bundle
    <2> QED  BY <1>3, <2>2, <2>4, <2>5, UidDetected
  <1>7. ASSUME NEW x \in {0, 1} \ {h.result.totals[2]}, e = [h EXCEPT !.result.totals[2] = x]
        PROVE  ~VerifyReplay(e)
    <2>1. h.result.totals = IF a = "disputed_zeroed" THEN <<0, 0>>
                            ELSE Totals(h.result.sub_games)
      BY <1>1 DEF HonestResult
    <2>2. 2 \in DOMAIN h.result.totals
      BY <2>1 DEF Totals
    <2>3. e.result = [h.result EXCEPT !.totals[2] = x]
      BY <1>1, <1>7 DEF DirShape
    <2>4. /\ e.result.totals = [h.result.totals EXCEPT ![2] = x]
          /\ e.result.sub_games = h.result.sub_games /\ e.result.agreement_status = a
      BY <1>1, <2>3
    <2>5. e.result.totals[2] = x /\ e.result.totals # h.result.totals
      BY <2>2, <2>4
    <2> QED  BY <2>1, <2>4, <2>5 DEF VerifyReplay, VerifyScores
  <1> QED  BY <1>4, <1>5, <1>6, <1>7

\* A configuration or log that is missing or names another game.
LEMMA FileDetected ==
  ASSUME NEW h, NEW g, NEW a, NEW t \in Terms, NEW b \in Nat \ {0}, IsHonest(h, g, a, t, b),
         NEW n \in 1 .. Len(g),
         NEW e, \/ e = [h EXCEPT !.configs[n] = NoFile]
                \/ e = [h EXCEPT !.logs[n] = NoFile]
                \/ e = [h EXCEPT !.logs[n].game_uid = "other"]
                \/ e = [h EXCEPT !.configs[n].config_sha256 = "other"]
  PROVE  ~VerifyReplay(e)
  <1>1. /\ DirShape(h) /\ h.result # NoFile
        /\ h.result.game_uid = t /\ h.result.config_sha256 = t
        /\ 1 \in 1 .. Len(g) /\ 1 .. Len(g) \subseteq Slots /\ n \in Slots
        /\ Files(h.configs) = 1 .. Len(g) /\ Files(h.logs) = 1 .. Len(g)
        /\ h.declaration = [by |-> b, game_uid |-> t] /\ h.declaration.game_uid = t
        /\ Len(g) \in Nat \ {0}
    <2>1. /\ h.result = [by |-> b, game_uid |-> t, config_sha256 |-> t,
                         sub_games |-> h.result.sub_games,
                         agreement_status |-> a, totals |-> h.result.totals]
          /\ h.declaration = [by |-> b, game_uid |-> t]
      BY HonestView
    <2>2. h.result.game_uid = t /\ h.result.config_sha256 = t /\ h.declaration.game_uid = t
      BY <2>1
    <2> QED  BY <2>1, <2>2 DEF IsHonest, HonestResult
  <1>2. \A k \in 1 .. Len(g) : /\ h.configs[k].game_uid = t /\ h.configs[k].config_sha256 = t
                               /\ h.logs[k].game_uid = t /\ h.logs[k].by = b
    BY ConfigFields, LogFields DEF IsHonest
  <1>3. t # "other" /\ Cardinality(1 .. Len(g)) = Len(g) /\ Len(h.result.sub_games) = Len(g)
          /\ IsFiniteSet(1 .. Len(g))
    <2>1. HonestEntries(h.result.sub_games, g) /\ Cardinality(1 .. Len(g)) = Len(g)
      BY DEF IsHonest, HonestResult
    <2>2. IsFiniteSet(1 .. Len(g))
      BY <1>1, FS_Interval
    <2>3. Len(h.result.sub_games) = Len(g)
      BY <2>1 DEF HonestEntries
    <2>4. t # "other"
      BY PostGameAssumption
    <2> QED  BY <2>1, <2>2, <2>3, <2>4
  <1>4. Cardinality((1 .. Len(g)) \ {n}) = Len(g) - 1
    <2> DEFINE S == 1 .. Len(g)
    <2>1. IsFiniteSet(S) /\ n \in S /\ Cardinality(S) = Len(g)
      BY <1>3
    <2> HIDE DEF S
    <2>2. Cardinality(S \ {n}) = Cardinality(S) - 1
      BY <2>1, FS_RemoveElement
    <2> QED  BY <2>1, <2>2 DEF S
  <1>5. CASE e = [h EXCEPT !.configs[n] = NoFile]
    <2>1. e.result = h.result /\ \A k \in Slots : e.configs[k] = IF k = n THEN NoFile ELSE h.configs[k]
      BY <1>1, <1>5 DEF DirShape
    <2>2. Files(e.configs) = (1 .. Len(g)) \ {n}
      BY <1>1, <2>1 DEF Files
    <2> QED  BY <1>1, <1>3, <1>4, <2>1, <2>2 DEF VerifyReplay, CountsAgree
  <1>6. CASE e = [h EXCEPT !.logs[n] = NoFile]
    <2>1. /\ e.result = h.result /\ e.configs = h.configs
          /\ \A k \in Slots : e.logs[k] = IF k = n THEN NoFile ELSE h.logs[k]
      BY <1>1, <1>6 DEF DirShape
    <2>2. Files(e.logs) = (1 .. Len(g)) \ {n}
      BY <1>1, <2>1 DEF Files
    <2> QED  BY <1>1, <1>3, <1>4, <2>1, <2>2 DEF VerifyReplay, CountsAgree
  <1>7. CASE e = [h EXCEPT !.logs[n].game_uid = "other"]
    <2> DEFINE x == [h.logs[n] EXCEPT !.game_uid = "other"]
    <2>1. /\ e.result = h.result /\ e.configs = h.configs /\ e.declaration = h.declaration
          /\ \A k \in Slots : e.logs[k] = IF k = n THEN x ELSE h.logs[k]
      BY <1>1, <1>7 DEF DirShape
    <2>2. x.game_uid = "other" /\ x.by = b
      <3>1. h.logs[n] = [by |-> b, game_uid |-> t, sub_game_number |-> n,
                         steps |-> h.logs[n].steps]
        BY DEF IsHonest, HonestLog
      <3> QED  BY <3>1
    <2> HIDE DEF x
    <2>3. x # NoFile
      BY <2>2, FilesAreFiles
    <2>4. Files(e.logs) = 1 .. Len(g)
      BY <1>1, <2>1, <2>3 DEF Files
    <2>5. x \in AllDicts(e) /\ e.result \in AllDicts(e)
      BY <1>1, <2>1, <2>4 DEF AllDicts, Bundle
    <2>6. \A f \in AllDicts(e) : f.game_uid \in {t, "other"}
      BY <1>1, <1>2, <2>1, <2>2, <2>4 DEF AllDicts, Bundle
    <2> QED  BY <1>1, <1>3, <2>1, <2>2, <2>5, <2>6, UidDetected
  <1>8. CASE e = [h EXCEPT !.configs[n].config_sha256 = "other"]
    <2> DEFINE x == [h.configs[n] EXCEPT !.config_sha256 = "other"]
               S == {f.config_sha256 : f \in Bundle(e).configs \union {e.result}}
    <2>1. e.result = h.result /\ \A k \in Slots : e.configs[k] = IF k = n THEN x ELSE h.configs[k]
      BY <1>1, <1>8 DEF DirShape
    <2>2. x.config_sha256 = "other" /\ x.by = b
      <3>1. h.configs[n] = [by |-> b, game_uid |-> t, config_sha256 |-> t,
                            sub_game_number |-> n, terms |-> AgreedTerms]
        BY DEF IsHonest, HonestConfig
      <3> QED  BY <3>1
    <2> HIDE DEF x
    <2>3. x # NoFile
      BY <2>2, FilesAreFiles
    <2>4. Files(e.configs) = 1 .. Len(g)
      BY <1>1, <2>1, <2>3 DEF Files
    <2>5. "other" \in S /\ t \in S /\ S \subseteq {t, "other"}
      BY <1>1, <1>2, <2>1, <2>2, <2>4 DEF Bundle
    <2> HIDE DEF S
    <2>6. Cardinality(S) # 1
      BY <1>3, <2>5, TwoValues
    <2> QED  BY <2>6 DEF VerifyReplay, ConfigHashesConsistent, S
  <1> QED  BY <1>5, <1>6, <1>7, <1>8

\* A log with altered steps.
LEMMA StepsDetected ==
  ASSUME NEW h, NEW g, NEW a, NEW t \in Terms, NEW b \in Nat \ {0}, IsHonest(h, g, a, t, b),
         NEW n \in 1 .. Len(g), NEW q \in StepsEdited(h.logs[n].steps),
         NEW e, e = [h EXCEPT !.logs[n].steps = q]
  PROVE  ~VerifyReplay(e)
  <1>1. /\ DirShape(h) /\ 1 .. Len(g) \subseteq Slots /\ n \in Slots
        /\ HonestLog(h.logs[n], n, g[n].steps, t, b) /\ HonestEntries(h.result.sub_games, g)
    BY HonestView
  <1> DEFINE x == [h.logs[n] EXCEPT !.steps = q]
  <1>2. e.result = h.result /\ e.logs[n] = x
    BY <1>1 DEF DirShape
  <1>3. x.steps = q /\ x.sub_game_number = n /\ x.by = b
    <2>1. h.logs[n] = [by |-> b, game_uid |-> t, sub_game_number |-> n,
                       steps |-> h.logs[n].steps]
      BY <1>1 DEF HonestLog
    <2> QED  BY <2>1
  <1> HIDE DEF x
  <1>4. x \in Bundle(e).logs
    <2>1. x # NoFile
      BY <1>3, FilesAreFiles
    <2> QED  BY <1>1, <1>2, <2>1 DEF Bundle, Files
  <1>5. /\ HonestSteps(h.logs[n].steps, g[n].steps) /\ g[n].steps \in Nat
        /\ e.result.sub_games[n].sub_game_number = n
        /\ e.result.sub_games[n].steps = g[n].steps /\ n \in DOMAIN e.result.sub_games
    <2>1. HonestSteps(h.logs[n].steps, g[n].steps)
      BY <1>1, LogFields
    <2>2. /\ h.result.sub_games[n].sub_game_number = n /\ g[n].steps \in Nat
          /\ h.result.sub_games[n].steps = g[n].steps
      BY <1>1, EntryFields
    <2>3. n \in DOMAIN h.result.sub_games
      BY <1>1 DEF HonestEntries
    <2> QED  BY <1>2, <2>1, <2>2, <2>3
  <1>6. Len(q) # g[n].steps \/ ~VerifyLog(x, TermsRead(e).grid)
    BY <1>3, <1>5, EditedSteps
  <1> QED  BY <1>3, <1>4, <1>5, <1>6 DEF VerifyReplay, StepCountsAgree

\* As long as no configuration is altered, the terms read are the agreed ones.
LEMMA HonestTerms ==
  ASSUME NEW h, NEW g, NEW a, NEW t, NEW b, IsHonest(h, g, a, t, b),
         NEW e, e.configs = h.configs
  PROVE  TermsRead(e).grid = "agreed" /\ TermsRead(e).scoring = AgreedScoring
  <1>1. /\ Len(g) \in Nat \ {0} /\ 1 \in 1 .. Len(g) /\ Files(e.configs) = 1 .. Len(g)
        /\ HonestConfig(e.configs[1], 1, t, b)
    BY HonestView
  <1>2. TermsRead(e) = e.configs[1].terms /\ e.configs[1].terms = AgreedTerms
    BY <1>1, TermsOfFirst, ConfigFields
  <1> QED  BY <1>2 DEF AgreedTerms

\* An altered scoring field changes a score exactly when the score is made of it.
LEMMA ScoringChanged ==
  ASSUME NEW r \in Results, NEW f \in DOMAIN AgreedScoring
  PROVE  f \in ScoreFields(r) <=> ScoreUnder([AgreedScoring EXCEPT ![f] = @ + 1], r) # Score(r)
  <1> DEFINE s == [AgreedScoring EXCEPT ![f] = @ + 1]
  <1>1. f \in {"capture_cop", "capture_thief", "survival_cop", "survival_thief",
               "technical_loss"}
    BY DEF AgreedScoring
  <1>2. /\ CaptureCop + 1 # CaptureCop /\ CaptureThief + 1 # CaptureThief
        /\ SurvivalCop + 1 # SurvivalCop /\ SurvivalThief + 1 # SurvivalThief
        /\ TechnicalLoss + 1 # TechnicalLoss
    BY VerifierAssumption
  <1>3. /\ s.capture_cop = IF f = "capture_cop" THEN CaptureCop + 1 ELSE CaptureCop
        /\ s.capture_thief = IF f = "capture_thief" THEN CaptureThief + 1 ELSE CaptureThief
        /\ s.survival_cop = IF f = "survival_cop" THEN SurvivalCop + 1 ELSE SurvivalCop
        /\ s.survival_thief = IF f = "survival_thief" THEN SurvivalThief + 1 ELSE SurvivalThief
        /\ s.technical_loss = IF f = "technical_loss" THEN TechnicalLoss + 1 ELSE TechnicalLoss
    BY <1>1 DEF AgreedScoring
  <1> HIDE DEF s
  <1>4. /\ Score("capture") = <<CaptureCop, CaptureThief>>
        /\ Score("survival") = <<SurvivalCop, SurvivalThief>>
        /\ Score("technical_loss") = <<TechnicalLoss, TechnicalLoss>>
    BY DEF Score, ScoreUnder, AgreedScoring
  <1>5. /\ ScoreUnder(s, "capture") = <<s.capture_cop, s.capture_thief>>
        /\ ScoreUnder(s, "survival") = <<s.survival_cop, s.survival_thief>>
        /\ ScoreUnder(s, "technical_loss") = <<s.technical_loss, s.technical_loss>>
    BY DEF ScoreUnder
  <1>6. /\ ScoreFields("capture") = {"capture_cop", "capture_thief"}
        /\ ScoreFields("survival") = {"survival_cop", "survival_thief"}
        /\ ScoreFields("technical_loss") = {"technical_loss"}
    BY DEF ScoreFields
  <1>7. CASE r = "capture"
    BY <1>1, <1>2, <1>3, <1>4, <1>5, <1>6, <1>7 DEF s
  <1>8. CASE r = "survival"
    BY <1>1, <1>2, <1>3, <1>4, <1>5, <1>6, <1>8 DEF s
  <1>9. CASE r = "technical_loss"
    BY <1>1, <1>2, <1>3, <1>4, <1>5, <1>6, <1>9 DEF s
  <1> QED  BY <1>7, <1>8, <1>9 DEF Results

\* The fields that scores are made of are fields of the scoring.
LEMMA ScoresUsedAreFields ==
  ASSUME NEW h, NEW g, NEW a, NEW t, NEW b, IsHonest(h, g, a, t, b)
  PROVE  /\ ScoresUsed(h) \subseteq DOMAIN AgreedScoring
         /\ \A f \in DOMAIN AgreedScoring :
              f \in ScoresUsed(h) <=>
                \E i \in 1 .. Len(g) : f \in ScoreFields(h.result.sub_games[i].result)
  <1>1. HonestEntries(h.result.sub_games, g)
    BY HonestView
  <1>2. DOMAIN h.result.sub_games = 1 .. Len(g)
    BY <1>1 DEF HonestEntries
  <1>3. \A i \in 1 .. Len(g) : h.result.sub_games[i].result \in Results
    BY <1>1, EntryFields
  <1>4. ASSUME NEW r \in Results  PROVE ScoreFields(r) \subseteq DOMAIN AgreedScoring
    BY DEF Results, ScoreFields, AgreedScoring
  <1> QED  BY <1>2, <1>3, <1>4 DEF ScoresUsed

\* A scoring field altered in configuration n.
LEMMA ScoringShape ==
  ASSUME NEW h, NEW g, NEW a, NEW t, NEW b \in Nat \ {0}, IsHonest(h, g, a, t, b),
         NEW n \in 1 .. Len(g), NEW f \in DOMAIN AgreedScoring, NEW e, e = ScoringEdit(h, n, f)
  PROVE  LET s == [AgreedScoring EXCEPT ![f] = @ + 1]
             x == [by |-> b, game_uid |-> t, config_sha256 |-> t, sub_game_number |-> n,
                   terms |-> [grid |-> "agreed", scoring |-> s]]
         IN e = [h EXCEPT !.configs[n] = x]
  <1>1. DirShape(h) /\ n \in Slots
    BY HonestView
  <1>2. h.configs[n] = [by |-> b, game_uid |-> t, config_sha256 |-> t, sub_game_number |-> n,
                        terms |-> [grid |-> "agreed", scoring |-> AgreedScoring]]
    BY DEF IsHonest, HonestConfig, AgreedTerms
  <1> DEFINE s == [AgreedScoring EXCEPT ![f] = @ + 1]
             x == [by |-> b, game_uid |-> t, config_sha256 |-> t, sub_game_number |-> n,
                   terms |-> [grid |-> "agreed", scoring |-> s]]
  <1>3. [h.configs[n] EXCEPT !.terms.scoring[f] = @ + 1] = x
    BY <1>2
  <1>4. e = [h EXCEPT !.configs[n] = [h.configs[n] EXCEPT !.terms.scoring[f] = @ + 1]]
    BY <1>1 DEF ScoringEdit, DirShape
  <1> QED  BY <1>3, <1>4

\* A directory with another configuration n.
LEMMA ConfigReplaced ==
  ASSUME NEW h, DirShape(h), NEW n \in Slots, NEW x, NEW e, e = [h EXCEPT !.configs[n] = x]
  PROVE  /\ e.declaration = h.declaration /\ e.logs = h.logs /\ e.result = h.result
         /\ \A k \in Slots : e.configs[k] = IF k = n THEN x ELSE h.configs[k]
         /\ x # NoFile /\ h.configs[n] # NoFile => Files(e.configs) = Files(h.configs)
  <1>1. /\ e.declaration = h.declaration /\ e.logs = h.logs /\ e.result = h.result
        /\ \A k \in Slots : e.configs[k] = IF k = n THEN x ELSE h.configs[k]
    BY DEF DirShape
  <1> QED  BY <1>1 DEF Files

\* A scoring field that a score is made of.
LEMMA ScoringDetected ==
  ASSUME NEW h, NEW g, NEW a, NEW t, NEW b \in Nat \ {0}, IsHonest(h, g, a, t, b),
         NEW f \in ScoresUsed(h), NEW e, e = ScoringEdit(h, 1, f)
  PROVE  ~VerifyReplay(e)
  <1>1. /\ DirShape(h) /\ Len(g) \in Nat \ {0} /\ 1 \in 1 .. Len(g) /\ 1 \in Slots
        /\ Files(h.configs) = 1 .. Len(g) /\ HonestEntries(h.result.sub_games, g)
        /\ h.configs[1] # NoFile
    BY HonestView DEF HonestConfig
  <1>2. PICK i \in 1 .. Len(g) : f \in ScoreFields(h.result.sub_games[i].result)
    BY ScoresUsedAreFields
  <1>3. f \in DOMAIN AgreedScoring
    BY ScoresUsedAreFields
  <1> DEFINE s == [AgreedScoring EXCEPT ![f] = @ + 1]
             x == [by |-> b, game_uid |-> t, config_sha256 |-> t, sub_game_number |-> 1,
                   terms |-> [grid |-> "agreed", scoring |-> s]]
             r == h.result.sub_games[i].result
  <1>4. e = [h EXCEPT !.configs[1] = x]
    BY <1>1, <1>3, ScoringShape
  <1>5. x.by = b /\ x.terms.scoring = s
    OBVIOUS
  <1>6. r \in Results /\ h.result.sub_games[i].scores = Score(r) /\ i \in DOMAIN h.result.sub_games
    <2>1. /\ h.result.sub_games[i].result = g[i].result /\ g[i].result \in Results
          /\ h.result.sub_games[i].scores = Score(g[i].result)
      BY <1>1, EntryFields
    <2>2. i \in DOMAIN h.result.sub_games
      BY <1>1 DEF HonestEntries
    <2> QED  BY <2>1, <2>2
  <1>7. ScoreUnder(s, r) # Score(r)
    BY <1>2, <1>3, <1>6, ScoringChanged
  <1> HIDE DEF s, x, r
  <1>8. x # NoFile
    BY <1>5, FilesAreFiles
  <1>9. e.result = h.result /\ e.configs[1] = x /\ Files(e.configs) = 1 .. Len(g)
    <2>1. /\ e.result = h.result
          /\ \A k \in Slots : e.configs[k] = IF k = 1 THEN x ELSE h.configs[k]
          /\ x # NoFile /\ h.configs[1] # NoFile => Files(e.configs) = Files(h.configs)
      BY <1>1, <1>4, ConfigReplaced
    <2> QED  BY <1>1, <1>8, <2>1
  <1>10. TermsRead(e).scoring = s
    BY <1>1, <1>5, <1>9, TermsOfFirst
  <1>11. e.result.sub_games[i].scores # ScoreUnder(s, e.result.sub_games[i].result)
    BY <1>6, <1>7, <1>9 DEF r
  <1> QED  BY <1>6, <1>9, <1>10, <1>11 DEF VerifyReplay, VerifyScores

\* A result with an altered entry.
LEMMA EntryDetected ==
  ASSUME DistinctScores,
         NEW h, NEW g, NEW a, NEW t \in Terms, NEW b \in Nat \ {0}, IsHonest(h, g, a, t, b),
         NEW n \in 1 .. Len(g), NEW x \in EntryEdits(h.result.sub_games[n]),
         NEW e, e = [h EXCEPT !.result.sub_games[n] = x]
  PROVE  ~VerifyReplay(e)
  <1>1. /\ DirShape(h) /\ 1 .. Len(g) \subseteq Slots /\ n \in Slots
        /\ HonestLog(h.logs[n], n, g[n].steps, t, b) /\ HonestEntries(h.result.sub_games, g)
        /\ h.result = [by |-> b, game_uid |-> t, config_sha256 |-> t,
                       sub_games |-> h.result.sub_games,
                       agreement_status |-> a, totals |-> h.result.totals]
        /\ Files(h.logs) = 1 .. Len(g)
    BY DEF IsHonest, HonestResult
  <1>2. DOMAIN h.result.sub_games = 1 .. Len(g)
    BY <1>1 DEF HonestEntries
  <1>3. e.logs = h.logs /\ e.result = [h.result EXCEPT !.sub_games[n] = x]
    BY <1>1 DEF DirShape
  <1>11. TermsRead(e).scoring = AgreedScoring
    <2>1. e.configs = h.configs
      BY <1>1 DEF DirShape
    <2> QED  BY <2>1, HonestTerms
  <1>4. n \in DOMAIN e.result.sub_games /\ e.result.sub_games[n] = x
    BY <1>1, <1>2, <1>3
  <1>5. /\ h.logs[n] \in Bundle(e).logs /\ h.logs[n].sub_game_number = n
        /\ Len(h.logs[n].steps) = g[n].steps
    <2>1. h.logs[n].sub_game_number = n /\ HonestSteps(h.logs[n].steps, g[n].steps)
      BY <1>1, LogFields
    <2> QED  BY <1>1, <1>3, <2>1 DEF Bundle, HonestSteps
  <1> DEFINE y == h.result.sub_games[n]
  <1>6. /\ y = [sub_game_number |-> n, result |-> g[n].result,
                steps |-> g[n].steps, scores |-> Score(g[n].result)]
        /\ g[n].steps \in Nat /\ g[n].result \in Results
    BY <1>1, EntryFields DEF HonestEntries
  <1>7. \/ x = [y EXCEPT !.steps = @ + 1]
        \/ x = [y EXCEPT !.scores[1] = @ + 1]
        \/ \E r \in {"capture", "survival"} \ {y.result} : x = [y EXCEPT !.result = r]
    BY DEF EntryEdits
  <1> HIDE DEF y
  <1>8. CASE x = [y EXCEPT !.steps = @ + 1]
    <2>1. x.steps = g[n].steps + 1 /\ x.sub_game_number = n
      BY <1>6, <1>8
    <2>2. Len(h.logs[n].steps) # x.steps
      BY <1>5, <1>6, <2>1
    <2>3. ~StepCountsAgree(e)
      BY <1>4, <1>5, <2>1, <2>2 DEF StepCountsAgree
    <2> QED  BY <2>3 DEF VerifyReplay
  <1>9. CASE x = [y EXCEPT !.scores[1] = @ + 1]
    <2>1. Score(g[n].result) \in Nat \X Nat
      BY <1>6, ScoreType
    <2>2. x.result = g[n].result /\ x.scores = [Score(g[n].result) EXCEPT ![1] = @ + 1]
      BY <1>6, <1>9
    <2>3. x.scores[1] # Score(g[n].result)[1]
      BY <2>1, <2>2
    <2> QED  BY <1>4, <1>11, <2>2, <2>3 DEF VerifyReplay, VerifyScores, Score
  <1>10. ASSUME NEW r \in {"capture", "survival"} \ {y.result}, x = [y EXCEPT !.result = r]
         PROVE  ~VerifyReplay(e)
    <2>1. x.result = r /\ x.scores = Score(g[n].result) /\ r # g[n].result
      BY <1>6, <1>10
    <2>2. Score(r) # Score(g[n].result)
      BY <1>6, <2>1 DEF DistinctScores, Results
    <2> QED  BY <1>4, <1>11, <2>1, <2>2 DEF VerifyReplay, VerifyScores, Score
  <1> QED  BY <1>7, <1>8, <1>9, <1>10

\* The alterations that no honest set can contain, one by one.
LEMMA ContentCases ==
  ASSUME NEW h, NEW e \in ContentEdits(h)
  PROVE  \/ e = [h EXCEPT !.result = NoFile]
         \/ e = [h EXCEPT !.declaration.game_uid = "other"]
         \/ e = [h EXCEPT !.result.game_uid = "other"]
         \/ \E x \in {0, 1} \ {h.result.totals[2]} : e = [h EXCEPT !.result.totals[2] = x]
         \/ \E f \in ScoresUsed(h) : e = ScoringEdit(h, 1, f)
         \/ \E n \in Files(h.logs) :
              \/ e = [h EXCEPT !.configs[n] = NoFile]
              \/ e = [h EXCEPT !.logs[n] = NoFile]
              \/ e = [h EXCEPT !.logs[n].game_uid = "other"]
              \/ e = [h EXCEPT !.configs[n].config_sha256 = "other"]
              \/ \E q \in StepsEdited(h.logs[n].steps) : e = [h EXCEPT !.logs[n].steps = q]
              \/ \E x \in EntryEdits(h.result.sub_games[n]) :
                   e = [h EXCEPT !.result.sub_games[n] = x]
  <1> DEFINE A1 == [h EXCEPT !.result = NoFile]
             A2 == [h EXCEPT !.declaration.game_uid = "other"]
             A3 == [h EXCEPT !.result.game_uid = "other"]
             T(x) == [h EXCEPT !.result.totals[2] = x]
             B1(n) == [h EXCEPT !.configs[n] = NoFile]
             B2(n) == [h EXCEPT !.logs[n] = NoFile]
             B3(n) == [h EXCEPT !.logs[n].game_uid = "other"]
             B4(n) == [h EXCEPT !.configs[n].config_sha256 = "other"]
             Q(n, q) == [h EXCEPT !.logs[n].steps = q]
             X(n, x) == [h EXCEPT !.result.sub_games[n] = x]
             A == {A1, A2, A3}
             B == {T(x) : x \in {0, 1} \ {h.result.totals[2]}}
             S == {ScoringEdit(h, 1, f) : f \in ScoresUsed(h)}
             C(n) == {B1(n), B2(n), B3(n), B4(n)}
             D(n) == {Q(n, q) : q \in StepsEdited(h.logs[n].steps)}
             E(n) == {X(n, x) : x \in EntryEdits(h.result.sub_games[n])}
  <1>1. ContentEdits(h) = A \union B \union S
                            \union UNION {C(n) \union D(n) \union E(n) : n \in Files(h.logs)}
    BY DEF ContentEdits
  <1> HIDE DEF A1, A2, A3, T, B1, B2, B3, B4, Q, X
  <1>2. \/ e \in A \/ e \in B \/ e \in S
        \/ \E n \in Files(h.logs) : e \in C(n) \/ e \in D(n) \/ e \in E(n)
    <2> HIDE DEF A, B, C, D, E, S
    <2> QED  BY <1>1, Zenon
  <1>3. \/ e = A1 \/ e = A2 \/ e = A3
        \/ \E x \in {0, 1} \ {h.result.totals[2]} : e = T(x)
        \/ \E f \in ScoresUsed(h) : e = ScoringEdit(h, 1, f)
        \/ \E n \in Files(h.logs) :
             \/ e = B1(n) \/ e = B2(n) \/ e = B3(n) \/ e = B4(n)
             \/ \E q \in StepsEdited(h.logs[n].steps) : e = Q(n, q)
             \/ \E x \in EntryEdits(h.result.sub_games[n]) : e = X(n, x)
    <2>1. CASE e \in A
      BY <2>1
    <2>2. CASE e \in B
      BY <2>2, Zenon
    <2>3. ASSUME NEW n \in Files(h.logs), e \in C(n) \/ e \in D(n) \/ e \in E(n)
          PROVE  \/ e = B1(n) \/ e = B2(n) \/ e = B3(n) \/ e = B4(n)
                 \/ \E q \in StepsEdited(h.logs[n].steps) : e = Q(n, q)
                 \/ \E x \in EntryEdits(h.result.sub_games[n]) : e = X(n, x)
      BY <2>3, Zenon
    <2>4. CASE e \in S
      BY <2>4, Zenon
    <2> HIDE DEF A, B, C, D, E, S
    <2> QED  BY <1>2, <2>1, <2>2, <2>3, <2>4, Zenon
  <1> QED  BY <1>3, Zenon DEF A1, A2, A3, T, B1, B2, B3, B4, Q, X

\* Whatever file of an honest set is altered so, it is found.
LEMMA ContentDetected ==
  ASSUME DistinctScores,
         NEW h, NEW g, NEW a, NEW t \in Terms, NEW b \in Nat \ {0}, IsHonest(h, g, a, t, b),
         NEW e \in ContentEdits(h)
  PROVE  ~VerifyReplay(e)
  <1>1. Files(h.logs) = 1 .. Len(g)
    BY HonestView
  <1>2. CASE \/ e = [h EXCEPT !.result = NoFile]
             \/ e = [h EXCEPT !.declaration.game_uid = "other"]
             \/ e = [h EXCEPT !.result.game_uid = "other"]
             \/ \E x \in {0, 1} \ {h.result.totals[2]} : e = [h EXCEPT !.result.totals[2] = x]
    BY <1>2, SingleDetected, Zenon
  <1>3. ASSUME NEW n \in 1 .. Len(g),
               \/ e = [h EXCEPT !.configs[n] = NoFile]
               \/ e = [h EXCEPT !.logs[n] = NoFile]
               \/ e = [h EXCEPT !.logs[n].game_uid = "other"]
               \/ e = [h EXCEPT !.configs[n].config_sha256 = "other"]
        PROVE  ~VerifyReplay(e)
    BY <1>3, FileDetected, Zenon
  <1>4. ASSUME NEW n \in 1 .. Len(g), NEW q \in StepsEdited(h.logs[n].steps),
               e = [h EXCEPT !.logs[n].steps = q]
        PROVE  ~VerifyReplay(e)
    BY <1>4, StepsDetected, Zenon
  <1>5. ASSUME NEW n \in 1 .. Len(g), NEW x \in EntryEdits(h.result.sub_games[n]),
               e = [h EXCEPT !.result.sub_games[n] = x]
        PROVE  ~VerifyReplay(e)
    BY <1>5, EntryDetected, Zenon
  <1>6. ASSUME NEW f \in ScoresUsed(h), e = ScoringEdit(h, 1, f)  PROVE ~VerifyReplay(e)
    BY <1>6, ScoringDetected, Zenon
  <1> QED  BY <1>1, <1>2, <1>3, <1>4, <1>5, <1>6, ContentCases, Zenon

-----------------------------------------------------------------------------
(* Both sides: schemas, verdicts and the banner.                           *)

\* Every log there is starts in the current schema.
AllCurrent(d) ==
  \A n \in Files(d.logs) : d.logs[n].steps = <<>> \/ d.logs[n].steps[1].schema = "current"

\* A directory in the current schema is verified by its own checks.
LEMMA CurrentIsVerified ==
  ASSUME NEW d, AllCurrent(d)
  PROVE  VerifySide(d).independently_verified /\ (VerifySide(d).ok <=> VerifyReplay(d))
  <1>1. PeekSchema(d) # "legacy"
    <2>1. CASE Files(d.logs) = {}
      BY <2>1 DEF PeekSchema
    <2>2. CASE Files(d.logs) # {}
      <3>1. Files(d.logs) \subseteq Nat
        BY SlotsFinite DEF Files
      <3>2. Min(Files(d.logs)) \in Files(d.logs)
        BY <2>2, <3>1, FirstSlot
      <3> DEFINE steps == d.logs[Min(Files(d.logs))].steps
      <3>3. steps = <<>> \/ steps[1].schema = "current"
        BY <3>2 DEF AllCurrent
      <3>4. PeekSchema(d) = IF steps = <<>> THEN "none" ELSE steps[1].schema
        BY <2>2 DEF PeekSchema
      <3> HIDE DEF steps
      <3> QED  BY <3>3, <3>4
    <2> QED  BY <2>1, <2>2
  <1> QED  BY <1>1 DEF VerifySide

\* No alteration of the steps changes the schema of the first one or takes a field
\* from one.
LEMMA EditedSchema ==
  ASSUME NEW p, NEW c \in Nat, HonestSteps(p, c), NEW q \in StepsEdited(p)
  PROVE  /\ q = <<>> \/ q[1].schema = "current"
         /\ \A k \in DOMAIN q : q[k].fields # "missing"
  <1>1. p \in Seq({p[k] : k \in 1 .. c}) /\ Len(p) = c /\ DOMAIN p = 1 .. c
    BY DEF HonestSteps
  <1>2. \A k \in 1 .. c : p[k].schema = "current" /\ p[k].fields # "missing"
    BY StepFields
  <1>3. ASSUME NEW k \in 1 .. c, NEW s \in StepEdits(p[k]), q = [p EXCEPT ![k] = s]
        PROVE  q[1].schema = "current" /\ \A j \in DOMAIN q : q[j].fields # "missing"
    <2>1. /\ p[k].commit_hash = [step |-> k - 1, nonce |-> p[k].nonce, schema |-> "current",
                                 fields |-> "own", cell |-> "position"]
          /\ p[k] = [step |-> k - 1, nonce |-> p[k].nonce, schema |-> "current",
                     fields |-> "own", cell |-> "position",
                     commit_hash |-> p[k].commit_hash, unknown |-> FALSE]
      BY DEF HonestSteps
    <2>2. s.schema = "current" /\ s.fields # "missing"
      BY <2>1 DEF StepEdits
    <2>3. DOMAIN q = 1 .. c /\ \A j \in 1 .. c : q[j] = IF j = k THEN s ELSE p[j]
      BY <1>1, <1>3
    <2>4. 1 \in 1 .. c
      OBVIOUS
    <2> QED  BY <1>2, <2>2, <2>3, <2>4
  <1>4. ASSUME NEW k \in 1 .. c, q = SubSeq(p, 1, k - 1) \o SubSeq(p, k + 1, Len(p)), q # <<>>
        PROVE  q[1].schema = "current" /\ \A j \in DOMAIN q : q[j].fields # "missing"
    <2> DEFINE S == {p[i] : i \in 1 .. c}
    <2>3. p \in Seq(S) /\ Len(p) = c
      BY <1>1
    <2> HIDE DEF S
    <2>4. SubSeq(p, 1, k - 1) \in Seq(S) /\ SubSeq(p, k + 1, Len(p)) \in Seq(S)
      BY <2>3
    <2>5. q \in Seq(S)
      BY <1>4, <2>4
    <2>6. q # <<>>
      BY <1>4
    <2>1. q \in Seq(S) /\ Len(q) \in Nat /\ Len(q) # 0
      BY <2>5, <2>6
    <2>2. q[1] \in S /\ \A j \in DOMAIN q : q[j] \in S
      BY <2>1
    <2> QED  BY <1>2, <2>2 DEF S
  <1>5. ASSUME NEW k \in 1 .. c, q = SubSeq(p, 1, k) \o SubSeq(p, k, Len(p))
        PROVE  q[1].schema = "current" /\ \A j \in DOMAIN q : q[j].fields # "missing"
    <2> DEFINE S == {p[i] : i \in 1 .. c}
    <2>3. p \in Seq(S) /\ Len(p) = c
      BY <1>1
    <2> HIDE DEF S
    <2>4. /\ SubSeq(p, 1, k) \in Seq(S) /\ SubSeq(p, k, Len(p)) \in Seq(S)
          /\ Len(SubSeq(p, 1, k)) = k
      BY <2>3
    <2>1. q \in Seq(S) /\ Len(q) \in Nat /\ Len(q) # 0
      BY <1>5, <2>4
    <2>2. q[1] \in S /\ \A j \in DOMAIN q : q[j] \in S
      BY <2>1
    <2> QED  BY <1>2, <2>2 DEF S
  <1>6. ASSUME NEW k \in (1 .. c) \ {1}, q = [p EXCEPT ![1] = p[k], ![k] = p[1]]
        PROVE  q[1].schema = "current" /\ \A j \in DOMAIN q : q[j].fields # "missing"
    <2>1. /\ DOMAIN q = 1 .. c /\ 1 \in 1 .. c
          /\ \A j \in 1 .. c : q[j] = IF j = k THEN p[1] ELSE IF j = 1 THEN p[k] ELSE p[j]
      BY <1>1, <1>6
    <2> QED  BY <1>2, <2>1
  <1>7. DOMAIN p = 1 .. c
    BY <1>1
  <1> DEFINE Fine == /\ q = <<>> \/ q[1].schema = "current"
                     /\ \A k \in DOMAIN q : q[k].fields # "missing"
  <1>8. q = <<>> => Fine
    OBVIOUS
  <1>9. q[1].schema = "current" /\ (\A j \in DOMAIN q : q[j].fields # "missing") => Fine
    OBVIOUS
  <1> HIDE DEF Fine
  <1>10. ASSUME NEW k \in DOMAIN p, NEW s \in StepEdits(p[k]), q = [p EXCEPT ![k] = s]
         PROVE  Fine
    BY <1>3, <1>7, <1>9, <1>10
  <1>11. ASSUME NEW k \in DOMAIN p, q = SubSeq(p, 1, k - 1) \o SubSeq(p, k + 1, Len(p))
         PROVE  Fine
    BY <1>4, <1>7, <1>8, <1>9, <1>11
  <1>12. ASSUME NEW k \in DOMAIN p, q = SubSeq(p, 1, k) \o SubSeq(p, k, Len(p))
         PROVE  Fine
    BY <1>5, <1>7, <1>9, <1>12
  <1>13. ASSUME NEW k \in DOMAIN p \ {1}, q = [p EXCEPT ![1] = p[k], ![k] = p[1]]
         PROVE  Fine
    BY <1>6, <1>7, <1>9, <1>13
  <1>14. Fine
    BY <1>10, <1>11, <1>12, <1>13, StepsCases, Zenon
  <1> QED  BY <1>14 DEF Fine

\* A result there is has an entry for a first sub-game, and every entry counts
\* steps.
HasEntries(r) ==
  \E m \in Nat \ {0} : /\ DOMAIN r.sub_games = 1 .. m
                       /\ \A i \in 1 .. m : r.sub_games[i].steps \in Nat

\* The result of an honest set has.
LEMMA HonestHasEntries ==
  ASSUME NEW r, NEW g, Len(g) \in Nat \ {0}, NEW a, NEW t, NEW b, HonestResult(r, g, a, t, b)
  PROVE  HasEntries(r)
  <1>1. HonestEntries(r.sub_games, g)
    BY DEF HonestResult
  <1>2. DOMAIN r.sub_games = 1 .. Len(g)
    BY <1>1 DEF HonestEntries
  <1>3. \A i \in 1 .. Len(g) : r.sub_games[i].steps \in Nat
    BY <1>1, EntryFields
  <1> QED  BY <1>2, <1>3 DEF HasEntries

\* Replacing one entry by one that counts steps leaves that so.
LEMMA EntryReplaced ==
  ASSUME NEW r, HasEntries(r), NEW e, NEW n \in DOMAIN r.sub_games, NEW x, x.steps \in Nat,
         e.sub_games = [r.sub_games EXCEPT ![n] = x]
  PROVE  HasEntries(e)
  <1>1. PICK m \in Nat \ {0} : /\ DOMAIN r.sub_games = 1 .. m
                               /\ \A i \in 1 .. m : r.sub_games[i].steps \in Nat
    BY DEF HasEntries
  <1>2. \A i \in 1 .. m : e.sub_games[i] = IF i = n THEN x ELSE r.sub_games[i]
    BY <1>1
  <1>3. DOMAIN e.sub_games = 1 .. m
    BY <1>1
  <1> QED  BY <1>1, <1>2, <1>3 DEF HasEntries

\* Nothing in the files makes a check raise.
ReadableConfigs(configs) == \A n \in Files(configs) : configs[n].terms.grid # "missing"

ReadableLogs(logs) ==
  \A n \in Files(logs) : \A k \in DOMAIN logs[n].steps : logs[n].steps[k].fields # "missing"

ReadableResult(r) ==
  r = NoFile \/ (HasEntries(r) /\ \A i \in DOMAIN r.sub_games : r.sub_games[i].result \in Results)

Readable(d) == ReadableConfigs(d.configs) /\ ReadableLogs(d.logs) /\ ReadableResult(d.result)

\* So verify-replay gives a verdict.
LEMMA ReadableHasVerdict ==
  ASSUME NEW d, Readable(d)
  PROVE  ~VerifyRaises(d) /\ (d.result = NoFile \/ HasEntries(d.result))
  <1>1. ASSUME HasRequired(d)  PROVE TermsRead(d).grid # "missing"
    <2>1. Files(d.configs) \subseteq Nat /\ Files(d.configs) # {}
      BY <1>1, SlotsFinite DEF Files, HasRequired
    <2>2. Min(Files(d.configs)) \in Files(d.configs)
      BY <2>1, FirstSlot
    <2> QED  BY <2>2 DEF Readable, ReadableConfigs, TermsRead
  <1>2. \A f \in Bundle(d).logs : \A k \in DOMAIN f.steps : f.steps[k].fields # "missing"
    BY DEF Readable, ReadableLogs, Bundle
  <1>3. HasRequired(d) =>
          \A i \in DOMAIN d.result.sub_games : d.result.sub_games[i].result \in Results
    BY DEF Readable, ReadableResult, HasRequired
  <1>4. d.result = NoFile \/ HasEntries(d.result)
    BY DEF Readable, ReadableResult
  <1> QED  BY <1>1, <1>2, <1>3, <1>4 DEF VerifyRaises

\* An honest set is in the current schema, and readable.
LEMMA HonestIsCurrent ==
  ASSUME NEW h, NEW g, NEW a, NEW t, NEW b, IsHonest(h, g, a, t, b)
  PROVE  AllCurrent(h) /\ Readable(h)
  <1>1. /\ Len(g) \in Nat \ {0} /\ Files(h.configs) = 1 .. Len(g) /\ Files(h.logs) = 1 .. Len(g)
        /\ HonestResult(h.result, g, a, t, b) /\ HonestEntries(h.result.sub_games, g)
        /\ \A n \in 1 .. Len(g) : /\ HonestConfig(h.configs[n], n, t, b)
                                  /\ HonestLog(h.logs[n], n, g[n].steps, t, b)
    BY HonestView
  <1>2. ASSUME NEW n \in 1 .. Len(g)
        PROVE  /\ h.logs[n].steps = <<>> \/ h.logs[n].steps[1].schema = "current"
               /\ \A k \in DOMAIN h.logs[n].steps : h.logs[n].steps[k].fields # "missing"
    <2>1. HonestSteps(h.logs[n].steps, g[n].steps) /\ g[n].steps \in Nat
      BY <1>1, LogFields, EntryFields
    <2> DEFINE q == h.logs[n].steps
               c == g[n].steps
    <2>2. HonestSteps(q, c) /\ c \in Nat
      BY <2>1
    <2> HIDE DEF q, c
    <2>3. q \in Seq({q[k] : k \in 1 .. c}) /\ Len(q) = c /\ DOMAIN q = 1 .. c
      BY <2>2 DEF HonestSteps
    <2>4. \A k \in 1 .. c : q[k].schema = "current" /\ q[k].fields = "own"
      BY <2>2, StepFields
    <2>5. CASE c = 0
      <3>1. q = <<>>
        BY <2>3, <2>5
      <3> QED  BY <2>3, <2>4, <3>1 DEF q
    <2>6. CASE c # 0
      <3>1. 1 \in 1 .. c
        BY <2>2, <2>6
      <3> QED  BY <2>3, <2>4, <3>1 DEF q
    <2> QED  BY <2>5, <2>6
  <1>3. ReadableConfigs(h.configs)
    <2>1. \A n \in 1 .. Len(g) : h.configs[n].terms = AgreedTerms
      BY <1>1, ConfigFields
    <2> QED  BY <1>1, <2>1 DEF ReadableConfigs, AgreedTerms
  <1>4. ReadableResult(h.result)
    <2>1. \A i \in 1 .. Len(g) : h.result.sub_games[i].result \in Results
      BY <1>1, EntryFields
    <2>2. DOMAIN h.result.sub_games = 1 .. Len(g)
      BY <1>1 DEF HonestEntries
    <2>3. HasEntries(h.result)
      BY <1>1, HonestHasEntries
    <2> QED  BY <2>1, <2>2, <2>3 DEF ReadableResult
  <1> QED  BY <1>1, <1>2, <1>3, <1>4 DEF AllCurrent, Readable, ReadableLogs

\* A result with an altered entry is readable.
LEMMA EntryIsReadable ==
  ASSUME NEW h, NEW g, NEW a, NEW t, NEW b, IsHonest(h, g, a, t, b),
         NEW n \in 1 .. Len(g), NEW x \in EntryEdits(h.result.sub_games[n]),
         NEW e, e = [h EXCEPT !.result.sub_games[n] = x]
  PROVE  ReadableResult(e.result)
  <1>1. /\ DirShape(h) /\ HonestEntries(h.result.sub_games, g) /\ ReadableResult(h.result)
        /\ h.result = [by |-> b, game_uid |-> t, config_sha256 |-> t,
                       sub_games |-> h.result.sub_games,
                       agreement_status |-> a, totals |-> h.result.totals]
        /\ h.result # NoFile
    <2>1. Readable(h)
      BY HonestIsCurrent
    <2>2. DirShape(h) /\ HonestResult(h.result, g, a, t, b)
      BY DEF IsHonest
    <2> QED  BY <2>1, <2>2 DEF Readable, HonestResult
  <1> DEFINE y == h.result.sub_games[n]
  <1>2. /\ y = [sub_game_number |-> n, result |-> g[n].result,
                steps |-> g[n].steps, scores |-> Score(g[n].result)]
        /\ g[n].steps \in Nat /\ g[n].result \in Results
    BY <1>1, EntryFields DEF HonestEntries
  <1>3. \/ x = [y EXCEPT !.steps = @ + 1]
        \/ x = [y EXCEPT !.scores[1] = @ + 1]
        \/ \E r \in {"capture", "survival"} \ {y.result} : x = [y EXCEPT !.result = r]
    BY DEF EntryEdits
  <1> HIDE DEF y
  <1>4. x.steps \in Nat
    BY <1>2, <1>3
  <1>5. x.result \in Results
    BY <1>2, <1>3 DEF Results
  <1>6. e.result = [h.result EXCEPT !.sub_games[n] = x]
    BY <1>1 DEF DirShape
  <1>7. e.result.sub_games = [h.result.sub_games EXCEPT ![n] = x]
    BY <1>1, <1>6
  <1>8. DOMAIN h.result.sub_games = 1 .. Len(g)
    BY <1>1 DEF HonestEntries
  <1>9. HasEntries(e.result)
    BY <1>1, <1>4, <1>7, <1>8, EntryReplaced DEF ReadableResult
  <1>10. \A i \in DOMAIN e.result.sub_games : e.result.sub_games[i].result \in Results
    BY <1>1, <1>5, <1>7 DEF ReadableResult
  <1> QED  BY <1>9, <1>10 DEF ReadableResult

\* A content error hides neither behind the old schema nor behind an exception.
LEMMA ContentIsCurrent ==
  ASSUME NEW h, NEW g, NEW a, NEW t, NEW b \in Nat \ {0}, IsHonest(h, g, a, t, b),
         NEW e \in ContentEdits(h)
  PROVE  AllCurrent(e) /\ Readable(e)
  <1>1. /\ DirShape(h) /\ Files(h.logs) = 1 .. Len(g) /\ 1 .. Len(g) \subseteq Slots
        /\ Files(h.configs) = 1 .. Len(g) /\ 1 \in 1 .. Len(g)
    BY HonestView
  <1>2. /\ AllCurrent(h) /\ ReadableConfigs(h.configs) /\ ReadableLogs(h.logs)
        /\ ReadableResult(h.result)
    BY HonestIsCurrent DEF Readable
  <1> DEFINE Fine == AllCurrent(e) /\ Readable(e)
  <1>3. ASSUME e.logs = h.logs, ReadableConfigs(e.configs), ReadableResult(e.result)
        PROVE  Fine
    BY <1>2, <1>3 DEF AllCurrent, Readable
  <1>4. ASSUME NEW n \in 1 .. Len(g), e = [h EXCEPT !.logs[n] = NoFile]
        PROVE  Fine
    <2>1. /\ \A k \in Slots : e.logs[k] = IF k = n THEN NoFile ELSE h.logs[k]
          /\ e.configs = h.configs /\ e.result = h.result
      BY <1>1, <1>4 DEF DirShape
    <2>2. Files(e.logs) \subseteq Files(h.logs) /\ \A k \in Files(e.logs) : e.logs[k] = h.logs[k]
      BY <2>1 DEF Files
    <2> QED  BY <1>2, <2>1, <2>2 DEF AllCurrent, Readable, ReadableLogs
  <1>5. ASSUME NEW n \in 1 .. Len(g), NEW x, NEW q, x.steps = q, x.by = b,
               q = <<>> \/ q[1].schema = "current",
               \A k \in DOMAIN q : q[k].fields # "missing", e = [h EXCEPT !.logs[n] = x]
        PROVE  Fine
    <2>1. /\ \A k \in Slots : e.logs[k] = IF k = n THEN x ELSE h.logs[k]
          /\ e.configs = h.configs /\ e.result = h.result
      BY <1>1, <1>5 DEF DirShape
    <2>2. \A k \in Files(e.logs) : k = n \/ (k \in Files(h.logs) /\ e.logs[k] = h.logs[k])
      BY <2>1 DEF Files
    <2>3. e.logs[n].steps = q
      BY <1>1, <1>5, <2>1
    <2>4. AllCurrent(e)
      BY <1>2, <1>5, <2>2, <2>3 DEF AllCurrent
    <2>5. ReadableLogs(e.logs)
      BY <1>2, <1>5, <2>2, <2>3 DEF ReadableLogs
    <2> QED  BY <1>2, <2>1, <2>4, <2>5 DEF Readable
  <1>6. ASSUME NEW n \in 1 .. Len(g)
        PROVE  /\ h.logs[n] = [by |-> b, game_uid |-> t, sub_game_number |-> n,
                               steps |-> h.logs[n].steps]
               /\ HonestSteps(h.logs[n].steps, g[n].steps) /\ g[n].steps \in Nat
    <2>1. HonestLog(h.logs[n], n, g[n].steps, t, b) /\ HonestEntries(h.result.sub_games, g)
      BY DEF IsHonest, HonestResult
    <2> QED  BY <2>1, LogFields, EntryFields DEF HonestLog
  <1>7. ASSUME NEW n \in 1 .. Len(g), e = [h EXCEPT !.logs[n].game_uid = "other"]
        PROVE  Fine
    <2> DEFINE x == [h.logs[n] EXCEPT !.game_uid = "other"]
    <2>1. e = [h EXCEPT !.logs[n] = x]
      BY <1>1, <1>7 DEF DirShape
    <2>2. x.steps = h.logs[n].steps /\ x.by = b
      <3>1. h.logs[n] = [by |-> b, game_uid |-> t, sub_game_number |-> n,
                         steps |-> h.logs[n].steps]
        BY <1>6
      <3> QED  BY <3>1
    <2> HIDE DEF x
    <2>3. n \in Files(h.logs)
      BY <1>1
    <2> QED  BY <1>2, <1>5, <2>1, <2>2, <2>3 DEF AllCurrent, ReadableLogs
  <1>8. ASSUME NEW n \in 1 .. Len(g), NEW q \in StepsEdited(h.logs[n].steps),
               e = [h EXCEPT !.logs[n].steps = q]
        PROVE  Fine
    <2> DEFINE x == [h.logs[n] EXCEPT !.steps = q]
    <2>1. e = [h EXCEPT !.logs[n] = x]
      BY <1>1, <1>8 DEF DirShape
    <2>2. x.steps = q /\ x.by = b
      <3>1. h.logs[n] = [by |-> b, game_uid |-> t, sub_game_number |-> n,
                         steps |-> h.logs[n].steps]
        BY <1>6
      <3> QED  BY <3>1
    <2>3. q = <<>> \/ q[1].schema = "current"
      BY <1>6, EditedSchema
    <2>4. \A k \in DOMAIN q : q[k].fields # "missing"
      BY <1>6, EditedSchema
    <2> HIDE DEF x
    <2> QED  BY <1>5, <2>1, <2>2, <2>3, <2>4
  <1>9. ASSUME e = [h EXCEPT !.result = NoFile]  PROVE Fine
    <2>1. e.logs = h.logs /\ e.configs = h.configs /\ e.result = NoFile
      BY <1>1, <1>9 DEF DirShape
    <2> QED  BY <1>2, <1>3, <2>1 DEF ReadableResult
  <1>10. ASSUME e = [h EXCEPT !.declaration.game_uid = "other"]  PROVE Fine
    <2>1. e.logs = h.logs /\ e.configs = h.configs /\ e.result = h.result
      BY <1>1, <1>10 DEF DirShape
    <2> QED  BY <1>2, <1>3, <2>1
  <1>11. ASSUME NEW r, r.sub_games = h.result.sub_games, e = [h EXCEPT !.result = r]
         PROVE  Fine
    <2>1. e.logs = h.logs /\ e.configs = h.configs /\ e.result = r
      BY <1>1, <1>11 DEF DirShape
    <2>2. h.result # NoFile
      BY HonestView
    <2>3. ReadableResult(r)
      BY <1>2, <1>11, <2>2 DEF ReadableResult, HasEntries
    <2> QED  BY <1>2, <1>3, <2>1, <2>3
  <1>12. h.result = [by |-> b, game_uid |-> t, config_sha256 |-> t,
                     sub_games |-> h.result.sub_games,
                     agreement_status |-> a, totals |-> h.result.totals]
    BY DEF IsHonest, HonestResult
  <1>13. ASSUME e = [h EXCEPT !.result.game_uid = "other"]  PROVE Fine
    <2>1. e = [h EXCEPT !.result = [h.result EXCEPT !.game_uid = "other"]]
      BY <1>1, <1>13 DEF DirShape
    <2>2. [h.result EXCEPT !.game_uid = "other"].sub_games = h.result.sub_games
      BY <1>12
    <2> QED  BY <1>11, <2>1, <2>2
  <1>14. ASSUME NEW x, e = [h EXCEPT !.result.totals[2] = x]  PROVE Fine
    <2>1. e = [h EXCEPT !.result = [h.result EXCEPT !.totals[2] = x]]
      BY <1>1, <1>14 DEF DirShape
    <2>2. [h.result EXCEPT !.totals[2] = x].sub_games = h.result.sub_games
      BY <1>12
    <2> QED  BY <1>11, <2>1, <2>2
  <1>15. ASSUME NEW n \in 1 .. Len(g), NEW x, x = NoFile \/ x.terms.grid # "missing",
                e = [h EXCEPT !.configs[n] = x]
         PROVE  Fine
    <2> DEFINE Replaced == /\ e.logs = h.logs /\ e.result = h.result
                           /\ \A k \in Slots : e.configs[k] = IF k = n THEN x ELSE h.configs[k]
    <2>0. n \in Slots /\ DirShape(h)
      BY <1>1
    <2>1. Replaced
      BY <1>15, <2>0, ConfigReplaced
    <2>2. ReadableConfigs(e.configs)
      BY <1>2, <1>15, <2>1 DEF ReadableConfigs, Files
    <2> QED  BY <1>2, <1>3, <2>1, <2>2
  <1>16. ASSUME NEW n \in 1 .. Len(g),
                \/ e = [h EXCEPT !.configs[n] = NoFile]
                \/ e = [h EXCEPT !.configs[n].config_sha256 = "other"]
         PROVE  Fine
    <2>1. CASE e = [h EXCEPT !.configs[n] = NoFile]
      BY <1>15, <2>1
    <2>2. CASE e = [h EXCEPT !.configs[n].config_sha256 = "other"]
      <3>1. e = [h EXCEPT !.configs[n] = [h.configs[n] EXCEPT !.config_sha256 = "other"]]
        BY <1>1, <2>2 DEF DirShape
      <3>2. [h.configs[n] EXCEPT !.config_sha256 = "other"].terms.grid # "missing"
        <4>1. h.configs[n] = [by |-> b, game_uid |-> t, config_sha256 |-> t,
                              sub_game_number |-> n,
                              terms |-> [grid |-> "agreed", scoring |-> AgreedScoring]]
          BY DEF IsHonest, HonestConfig, AgreedTerms
        <4> QED  BY <4>1
      <3> QED  BY <1>15, <3>1, <3>2
    <2> QED  BY <1>16, <2>1, <2>2
  <1>17. ASSUME NEW f \in ScoresUsed(h), e = ScoringEdit(h, 1, f)  PROVE Fine
    <2>1. f \in DOMAIN AgreedScoring
      BY ScoresUsedAreFields
    <2> DEFINE s == [AgreedScoring EXCEPT ![f] = @ + 1]
               x == [by |-> b, game_uid |-> t, config_sha256 |-> t, sub_game_number |-> 1,
                     terms |-> [grid |-> "agreed", scoring |-> s]]
    <2>2. e = [h EXCEPT !.configs[1] = x]
      BY <1>1, <1>17, <2>1, ScoringShape
    <2>3. x.terms.grid = "agreed"
      OBVIOUS
    <2> HIDE DEF x
    <2> QED  BY <1>1, <1>15, <2>2, <2>3
  <1>18. ASSUME NEW n \in 1 .. Len(g), NEW x \in EntryEdits(h.result.sub_games[n]),
                e = [h EXCEPT !.result.sub_games[n] = x]
         PROVE  Fine
    <2>1. e.logs = h.logs /\ e.configs = h.configs
      BY <1>1, <1>18 DEF DirShape
    <2> QED  BY <1>2, <1>3, <1>18, <2>1, EntryIsReadable
  <1>19. Files(h.logs) = 1 .. Len(g)
    BY <1>1
  <1> HIDE DEF Fine
  <1>20. ASSUME NEW n \in Files(h.logs),
                \/ e = [h EXCEPT !.configs[n] = NoFile]
                \/ e = [h EXCEPT !.logs[n] = NoFile]
                \/ e = [h EXCEPT !.logs[n].game_uid = "other"]
                \/ e = [h EXCEPT !.configs[n].config_sha256 = "other"]
                \/ \E q \in StepsEdited(h.logs[n].steps) : e = [h EXCEPT !.logs[n].steps = q]
                \/ \E x \in EntryEdits(h.result.sub_games[n]) :
                     e = [h EXCEPT !.result.sub_games[n] = x]
         PROVE  Fine
    BY <1>4, <1>7, <1>8, <1>16, <1>18, <1>19, <1>20, Zenon
  <1>21. \/ e = [h EXCEPT !.result = NoFile]
         \/ e = [h EXCEPT !.declaration.game_uid = "other"]
         \/ e = [h EXCEPT !.result.game_uid = "other"]
         => Fine
    BY <1>9, <1>10, <1>13, Zenon
  <1>22. \/ \E x \in {0, 1} \ {h.result.totals[2]} : e = [h EXCEPT !.result.totals[2] = x]
         \/ \E f \in ScoresUsed(h) : e = ScoringEdit(h, 1, f)
         => Fine
    BY <1>14, <1>17, Zenon
  <1>23. Fine
    BY <1>20, <1>21, <1>22, ContentCases, Zenon
  <1> QED  BY <1>23 DEF Fine

\* All the files there are, are those of series b, the result among them.
AllBy(d, b) ==
  /\ d.result # NoFile /\ d.result.by = b
  /\ d.declaration = NoFile \/ d.declaration.by = b
  /\ \A n \in Slots : /\ d.configs[n] = NoFile \/ d.configs[n].by = b
                      /\ d.logs[n] = NoFile \/ d.logs[n].by = b

\* The entries of the result count the steps of the logs.
StepsAccounted(d) ==
  /\ Files(d.logs) = DOMAIN d.result.sub_games
  /\ \A n \in Files(d.logs) : Len(d.logs[n].steps) = d.result.sub_games[n].steps

\* What is accepted is of one series, its entries count its steps and it has some.
LEMMA AcceptedIsAccounted ==
  ASSUME NEW d, NEW g, NEW t, NEW b, Accepted(d, g, t, b)
  PROVE  AllBy(d, b) /\ StepsAccounted(d) /\ HasEntries(d.result)
  <1>1. /\ Len(g) \in Nat \ {0} /\ 1 .. Len(g) \subseteq Slots
        /\ d.declaration = NoFile \/ d.declaration.by = b
        /\ AcceptedResult(d.result, g, t, b)
        /\ Files(d.configs) = 1 .. Len(g) /\ Files(d.logs) = 1 .. Len(g)
        /\ \A n \in 1 .. Len(g) : /\ AcceptedConfig(d.configs[n], n, t, b)
                                  /\ AcceptedLog(d.logs[n], n, g[n].steps, t, b)
    BY DEF Accepted
  <1>2. /\ d.result # NoFile /\ d.result.by = b /\ DOMAIN d.result.sub_games = 1 .. Len(g)
        /\ \A i \in 1 .. Len(g) : d.result.sub_games[i].steps = g[i].steps /\ g[i].steps \in Nat
    BY <1>1 DEF AcceptedResult
  <1>3. \A n \in 1 .. Len(g) : d.configs[n].by = b
    BY <1>1 DEF AcceptedConfig
  <1>4. \A n \in 1 .. Len(g) : d.logs[n].by = b /\ Len(d.logs[n].steps) = g[n].steps
    BY <1>1 DEF AcceptedLog
  <1>5. AllBy(d, b)
    BY <1>1, <1>2, <1>3, <1>4 DEF AllBy, Files
  <1>6. StepsAccounted(d)
    BY <1>1, <1>2, <1>4 DEF StepsAccounted
  <1>7. HasEntries(d.result)
    BY <1>1, <1>2 DEF HasEntries
  <1> QED  BY <1>5, <1>6, <1>7

\* The parts of a set that verified, and what their numbers are.
LEMMA VerifiedParts ==
  ASSUME NEW h, NEW g, NEW a, NEW t, NEW b, IsHonest(h, g, a, t, b), VerifyReplay(h)
  PROVE  /\ Accepted(h, g, t, b) /\ Games + 1 \notin 1 .. Len(g)
         /\ h.configs[1].terms.scoring = AgreedScoring
         /\ VerifyScores(h.result, AgreedScoring)
         /\ \A n \in 1 .. Len(g) :
              /\ h.configs[n].sub_game_number = n /\ h.logs[n].sub_game_number = n
              /\ h.result.sub_games[n].sub_game_number = n
              /\ AuditClean(h.logs[n].steps)
  <1>1. \A f \in Bundle(h).logs : AuditClean(f.steps)
    BY DEF VerifyReplay, VerifyLog
  <1>2. Accepted(h, g, t, b)
    BY <1>1, HonestIsAccepted
  <1>3. /\ HonestResult(h.result, g, a, t, b) /\ Files(h.logs) = 1 .. Len(g)
        /\ Len(g) \in Nat /\ 1 .. Len(g) \subseteq Slots /\ 1 \in 1 .. Len(g)
        /\ \A n \in 1 .. Len(g) : /\ HonestConfig(h.configs[n], n, t, b)
                                  /\ HonestLog(h.logs[n], n, g[n].steps, t, b)
    BY HonestView
  <1>4. \A n \in 1 .. Len(g) : AuditClean(h.logs[n].steps)
    BY <1>1, <1>3 DEF Bundle
  <1>5. \A n \in 1 .. Len(g) : /\ h.configs[n].sub_game_number = n
                               /\ h.logs[n].sub_game_number = n
                               /\ h.configs[n].terms = AgreedTerms
    BY <1>3, ConfigFields, LogFields
  <1>6. /\ VerifyScores(h.result, AgreedScoring)
        /\ \A n \in 1 .. Len(g) : h.result.sub_games[n].sub_game_number = n
    BY <1>3, HonestResultAccepted
  <1>7. Games + 1 \notin 1 .. Len(g)
    BY <1>3, PostGameAssumption
  <1>8. h.configs[1].terms.scoring = AgreedScoring
    BY <1>3, <1>5 DEF AgreedTerms
  <1> QED  BY <1>2, <1>4, <1>5, <1>6, <1>7, <1>8

\* Another configuration, log or result of the kind that is accepted.
LEMMA ConfigAccepted ==
  ASSUME NEW h, NEW g, NEW a, NEW t, NEW b, IsHonest(h, g, a, t, b), VerifyReplay(h),
         NEW n \in 1 .. Len(g), NEW x, AcceptedConfig(x, n, t, b),
         n = 1 => VerifyScores(h.result, x.terms.scoring),
         NEW e, e = [h EXCEPT !.configs[n] = x]
  PROVE  Accepted(e, g, t, b)
  <1>1. /\ Accepted(h, g, t, b) /\ Games + 1 \notin 1 .. Len(g)
        /\ h.configs[1].terms.scoring = AgreedScoring
        /\ VerifyScores(h.result, AgreedScoring)
        /\ \A k \in 1 .. Len(g) : h.configs[k].sub_game_number = k
    BY VerifiedParts
  <1>2. /\ DirShape(h) /\ n \in Slots /\ 1 .. Len(g) \subseteq Slots /\ 1 \in 1 .. Len(g)
        /\ h.configs[n] # NoFile
    <2>1. HonestConfig(h.configs[n], n, t, b)
      BY HonestView
    <2>2. DirShape(h) /\ n \in Slots /\ 1 .. Len(g) \subseteq Slots /\ 1 \in 1 .. Len(g)
      BY HonestView
    <2> QED  BY <2>1, <2>2, ConfigFields
  <1>3. x # NoFile /\ x.sub_game_number \in {n, Games + 1}
    BY DEF AcceptedConfig
  <1>4. /\ e.declaration = h.declaration /\ e.logs = h.logs /\ e.result = h.result
        /\ \A k \in Slots : e.configs[k] = IF k = n THEN x ELSE h.configs[k]
        /\ Files(e.configs) = Files(h.configs)
    <2>1. DirShape(h) /\ n \in Slots /\ x # NoFile /\ h.configs[n] # NoFile
      BY <1>2, <1>3
    <2> DEFINE Replaced ==
          /\ e.declaration = h.declaration /\ e.logs = h.logs /\ e.result = h.result
          /\ \A k \in Slots : e.configs[k] = IF k = n THEN x ELSE h.configs[k]
    <2>2. Replaced
      <3>1. /\ e.declaration = h.declaration /\ e.logs = h.logs /\ e.result = h.result
            /\ e.configs = [h.configs EXCEPT ![n] = x]
        BY <2>1 DEF DirShape
      <3>2. DOMAIN h.configs = Slots
        BY <2>1 DEF DirShape
      <3> QED  BY <3>1, <3>2
    <2>3. Files(e.configs) = Files(h.configs)
      BY <2>1, <2>2 DEF Files
    <2> QED  BY <2>2, <2>3
  <1>5. NumbersApart(e, Len(g))
    <2>1. NumbersApart(h, Len(g))
      BY <1>1 DEF Accepted
    <2>2. \A i, k \in 1 .. Len(g) :
            e.configs[i].sub_game_number = e.configs[k].sub_game_number => i = k
      BY <1>1, <1>2, <1>3, <1>4
    <2> QED  BY <1>4, <2>1, <2>2 DEF NumbersApart
  <1>6. VerifyScores(e.result, e.configs[1].terms.scoring)
    BY <1>1, <1>2, <1>4
  <1>7. \A k \in 1 .. Len(g) : AcceptedConfig(e.configs[k], k, t, b)
    BY <1>1, <1>2, <1>4 DEF Accepted
  <1> QED  BY <1>1, <1>4, <1>5, <1>6, <1>7 DEF Accepted

LEMMA LogAccepted ==
  ASSUME NEW h, NEW g, NEW a, NEW t, NEW b, IsHonest(h, g, a, t, b), VerifyReplay(h),
         NEW n \in 1 .. Len(g), NEW x, AcceptedLog(x, n, g[n].steps, t, b),
         NEW e, e = [h EXCEPT !.logs[n] = x]
  PROVE  Accepted(e, g, t, b)
  <1>1. /\ Accepted(h, g, t, b) /\ Games + 1 \notin 1 .. Len(g)
        /\ \A k \in 1 .. Len(g) : /\ h.logs[k].sub_game_number = k
                                  /\ h.result.sub_games[k].sub_game_number = k
    BY VerifiedParts
  <1>2. /\ DirShape(h) /\ n \in Slots /\ 1 .. Len(g) \subseteq Slots
        /\ Files(h.logs) = 1 .. Len(g)
    BY HonestView
  <1>3. x # NoFile /\ x.sub_game_number \in {n, Games + 1}
    BY DEF AcceptedLog
  <1>4. /\ e.declaration = h.declaration /\ e.configs = h.configs /\ e.result = h.result
        /\ \A k \in Slots : e.logs[k] = IF k = n THEN x ELSE h.logs[k]
    BY <1>2 DEF DirShape
  <1>5. Files(e.logs) = 1 .. Len(g)
    BY <1>2, <1>3, <1>4 DEF Files
  <1>6. NumbersApart(e, Len(g))
    <2>1. NumbersApart(h, Len(g))
      BY <1>1 DEF Accepted
    <2>2. \A i, k \in 1 .. Len(g) :
            e.logs[i].sub_game_number = e.logs[k].sub_game_number => i = k
      BY <1>1, <1>2, <1>3, <1>4
    <2>3. \A i, k \in 1 .. Len(g) :
            e.result.sub_games[i].sub_game_number = e.logs[k].sub_game_number => i = k
      BY <1>1, <1>2, <1>3, <1>4
    <2> QED  BY <1>4, <2>1, <2>2, <2>3 DEF NumbersApart
  <1>7. \A k \in 1 .. Len(g) : AcceptedLog(e.logs[k], k, g[k].steps, t, b)
    BY <1>1, <1>2, <1>4 DEF Accepted
  <1> QED  BY <1>1, <1>4, <1>5, <1>6, <1>7 DEF Accepted

LEMMA ResultAccepted ==
  ASSUME NEW h, NEW g, NEW a, NEW t, NEW b, IsHonest(h, g, a, t, b), VerifyReplay(h),
         NEW r, AcceptedResult(r, g, t, b), VerifyScores(r, AgreedScoring),
         NEW e, e = [h EXCEPT !.result = r]
  PROVE  Accepted(e, g, t, b)
  <1>1. /\ Accepted(h, g, t, b) /\ Games + 1 \notin 1 .. Len(g)
        /\ h.configs[1].terms.scoring = AgreedScoring
        /\ \A k \in 1 .. Len(g) : h.logs[k].sub_game_number = k
    BY VerifiedParts
  <1>2. DirShape(h)
    BY HonestView
  <1>3. \A i \in 1 .. Len(g) : r.sub_games[i].sub_game_number \in {i, Games + 1}
    BY DEF AcceptedResult
  <1>4. /\ e.declaration = h.declaration /\ e.configs = h.configs /\ e.logs = h.logs
        /\ e.result = r
    BY <1>2 DEF DirShape
  <1>5. NumbersApart(e, Len(g))
    <2>1. NumbersApart(h, Len(g))
      BY <1>1 DEF Accepted
    <2>2. \A i, k \in 1 .. Len(g) :
            e.result.sub_games[i].sub_game_number = e.logs[k].sub_game_number => i = k
      BY <1>1, <1>3, <1>4
    <2> QED  BY <1>4, <2>1, <2>2 DEF NumbersApart
  <1> QED  BY <1>1, <1>4, <1>5 DEF Accepted

\* The alterations that the checks do not look at, one by one.
LEMMA UncheckedCases ==
  ASSUME NEW h, NEW e \in UncheckedEdits(h)
  PROVE  \/ e = [h EXCEPT !.declaration = NoFile]
         \/ \E f \in DOMAIN AgreedScoring \ ScoresUsed(h) : e = ScoringEdit(h, 1, f)
         \/ \E n \in Files(h.configs) \ {1}, f \in DOMAIN AgreedScoring : e = ScoringEdit(h, n, f)
         \/ \E n \in Files(h.logs) :
              \/ e = [h EXCEPT !.logs[n].sub_game_number = Games + 1]
              \/ e = [h EXCEPT !.result.sub_games[n].sub_game_number = Games + 1]
              \/ e = [h EXCEPT !.configs[n].sub_game_number = Games + 1]
              \/ e = [h EXCEPT !.configs[n].terms.grid = "larger"]
              \/ \E k \in DOMAIN h.logs[n].steps :
                   e = [h EXCEPT !.logs[n].steps = Resealed(@, k)]
              \/ \E r \in {"capture", "survival"} \ {h.result.sub_games[n].result} :
                   e = [h EXCEPT !.result = Rewritten(@, n, r)]
         \/ /\ h.result.agreement_status = "agreed"
            /\ e = [h EXCEPT !.result.agreement_status = "unverified_self_play"]
  <1> DEFINE A == [h EXCEPT !.declaration = NoFile]
             L(n) == [h EXCEPT !.logs[n].sub_game_number = Games + 1]
             E(n) == [h EXCEPT !.result.sub_games[n].sub_game_number = Games + 1]
             C(n) == [h EXCEPT !.configs[n].sub_game_number = Games + 1]
             G(n) == [h EXCEPT !.configs[n].terms.grid = "larger"]
             K(n, k) == [h EXCEPT !.logs[n].steps = Resealed(@, k)]
             W(n, r) == [h EXCEPT !.result = Rewritten(@, n, r)]
             S == [h EXCEPT !.result.agreement_status = "unverified_self_play"]
             R(n) == {"capture", "survival"} \ {h.result.sub_games[n].result}
             N(n) == {L(n), E(n), C(n), G(n)}
             KS(n) == {K(n, k) : k \in DOMAIN h.logs[n].steps}
             WS(n) == {W(n, r) : r \in R(n)}
             F1 == {ScoringEdit(h, 1, f) : f \in DOMAIN AgreedScoring \ ScoresUsed(h)}
             F2 == {ScoringEdit(h, n, f) : n \in Files(h.configs) \ {1}, f \in DOMAIN AgreedScoring}
             X == IF h.result.agreement_status # "agreed" THEN {} ELSE {S}
  <1>1. UncheckedEdits(h) =
          {A} \union F1 \union F2
            \union (UNION {N(n) \union KS(n) \union WS(n) : n \in Files(h.logs)}) \union X
    BY DEF UncheckedEdits
  <1> HIDE DEF A, L, E, C, G, K, W, S, R
  <1>2. \/ e = A \/ e \in F1 \/ e \in F2 \/ e \in X
        \/ \E n \in Files(h.logs) : e \in N(n) \/ e \in KS(n) \/ e \in WS(n)
    <2> DEFINE M(n) == N(n) \union KS(n) \union WS(n)
               U == UNION {M(n) : n \in Files(h.logs)}
    <2> HIDE DEF N, KS, WS, F1, F2, X
    <2>1. UncheckedEdits(h) = {A} \union F1 \union F2 \union U \union X
      BY <1>1
    <2>2. e \in U => \E n \in Files(h.logs) : e \in M(n)
      <3> HIDE DEF M
      <3> QED  BY Zenon
    <2> HIDE DEF U
    <2>3. e = A \/ e \in F1 \/ e \in F2 \/ e \in U \/ e \in X
      BY <2>1
    <2> QED  BY <2>2, <2>3, Zenon
  <1>3. e \in F1 => \E f \in DOMAIN AgreedScoring \ ScoresUsed(h) : e = ScoringEdit(h, 1, f)
    BY Zenon
  <1>4. e \in F2 => \E n \in Files(h.configs) \ {1}, f \in DOMAIN AgreedScoring :
                      e = ScoringEdit(h, n, f)
    OBVIOUS
  <1>5. e \in X => h.result.agreement_status = "agreed" /\ e = S
    OBVIOUS
  <1>6. ASSUME NEW n \in Files(h.logs), e \in N(n) \/ e \in KS(n) \/ e \in WS(n)
        PROVE  \/ e = L(n) \/ e = E(n) \/ e = C(n) \/ e = G(n)
               \/ \E k \in DOMAIN h.logs[n].steps : e = K(n, k)
               \/ \E r \in R(n) : e = W(n, r)
    BY <1>6, Zenon
  <1> HIDE DEF N, KS, WS, F1, F2, X
  <1>7. \/ e = A
        \/ \E f \in DOMAIN AgreedScoring \ ScoresUsed(h) : e = ScoringEdit(h, 1, f)
        \/ \E n \in Files(h.configs) \ {1}, f \in DOMAIN AgreedScoring : e = ScoringEdit(h, n, f)
        \/ \E n \in Files(h.logs) :
             \/ e = L(n) \/ e = E(n) \/ e = C(n) \/ e = G(n)
             \/ \E k \in DOMAIN h.logs[n].steps : e = K(n, k)
             \/ \E r \in R(n) : e = W(n, r)
        \/ h.result.agreement_status = "agreed" /\ e = S
    BY <1>2, <1>3, <1>4, <1>5, <1>6, Zenon
  <1> QED  BY <1>7, Zenon DEF A, L, E, C, G, K, W, S, R

\* The configuration files: a scoring field that no score is made of, one of a later
\* sub-game, a number, a larger grid.
LEMMA UncheckedConfig ==
  ASSUME NEW h, NEW g, NEW a, NEW t, NEW b \in Nat \ {0}, IsHonest(h, g, a, t, b),
         VerifyReplay(h), NEW n \in 1 .. Len(g), NEW e,
         \/ \E f \in DOMAIN AgreedScoring \ ScoresUsed(h) : e = ScoringEdit(h, n, f)
         \/ n # 1 /\ \E f \in DOMAIN AgreedScoring : e = ScoringEdit(h, n, f)
         \/ e = [h EXCEPT !.configs[n].sub_game_number = Games + 1]
         \/ e = [h EXCEPT !.configs[n].terms.grid = "larger"]
  PROVE  Accepted(e, g, t, b)
  <1>1. DirShape(h) /\ n \in Slots /\ HonestEntries(h.result.sub_games, g)
    BY HonestView
  <1>2. h.configs[n] = [by |-> b, game_uid |-> t, config_sha256 |-> t, sub_game_number |-> n,
                        terms |-> [grid |-> "agreed", scoring |-> AgreedScoring]]
    BY DEF IsHonest, HonestConfig, AgreedTerms
  <1>3. VerifyScores(h.result, AgreedScoring)
    BY VerifiedParts
  <1>4. ASSUME NEW f \in DOMAIN AgreedScoring, f \notin ScoresUsed(h)
        PROVE  VerifyScores(h.result, [AgreedScoring EXCEPT ![f] = @ + 1])
    <2> DEFINE s == [AgreedScoring EXCEPT ![f] = @ + 1]
    <2>1. DOMAIN h.result.sub_games = 1 .. Len(g)
      BY <1>1 DEF HonestEntries
    <2>2. \A i \in 1 .. Len(g) : f \notin ScoreFields(h.result.sub_games[i].result)
      BY <1>4, ScoresUsedAreFields
    <2>3. \A i \in 1 .. Len(g) : h.result.sub_games[i].result \in Results
      BY <1>1, EntryFields
    <2>4. \A i \in 1 .. Len(g) : ScoreUnder(s, h.result.sub_games[i].result)
                                   = Score(h.result.sub_games[i].result)
      BY <2>2, <2>3, ScoringChanged
    <2> HIDE DEF s
    <2>5. VerifyScores(h.result, s)
      BY <1>3, <2>1, <2>4 DEF VerifyScores, Score
    <2> QED  BY <2>5 DEF s
  <1>5. ASSUME NEW x, x.by = b, x.game_uid = t, x.config_sha256 = t,
               x.sub_game_number \in {n, Games + 1}, x.terms.grid \in {"agreed", "larger"},
               n = 1 => VerifyScores(h.result, x.terms.scoring), e = [h EXCEPT !.configs[n] = x]
        PROVE  Accepted(e, g, t, b)
    <2>1. x # NoFile
      BY <1>5, FilesAreFiles
    <2>2. AcceptedConfig(x, n, t, b)
      BY <1>5, <2>1 DEF AcceptedConfig
    <2> QED  BY <1>5, <2>2, ConfigAccepted
  <1>6. ASSUME NEW f \in DOMAIN AgreedScoring, f \notin ScoresUsed(h) \/ n # 1,
               e = ScoringEdit(h, n, f)
        PROVE  Accepted(e, g, t, b)
    <2> DEFINE s == [AgreedScoring EXCEPT ![f] = @ + 1]
               x == [by |-> b, game_uid |-> t, config_sha256 |-> t, sub_game_number |-> n,
                     terms |-> [grid |-> "agreed", scoring |-> s]]
    <2>1. e = [h EXCEPT !.configs[n] = x]
      BY <1>6, ScoringShape
    <2>2. n = 1 => VerifyScores(h.result, s)
      BY <1>4, <1>6
    <2> HIDE DEF s
    <2>3. /\ x.by = b /\ x.game_uid = t /\ x.config_sha256 = t /\ x.sub_game_number = n
          /\ x.terms.grid = "agreed" /\ x.terms.scoring = s
      OBVIOUS
    <2> HIDE DEF x
    <2> QED  BY <1>5, <2>1, <2>2, <2>3
  <1>7. ASSUME e = [h EXCEPT !.configs[n].sub_game_number = Games + 1]
        PROVE  Accepted(e, g, t, b)
    <2> DEFINE x == [h.configs[n] EXCEPT !.sub_game_number = Games + 1]
    <2>1. /\ x.by = b /\ x.game_uid = t /\ x.config_sha256 = t
          /\ x.sub_game_number = Games + 1
          /\ x.terms.grid = "agreed" /\ x.terms.scoring = AgreedScoring
      BY <1>2
    <2>2. e = [h EXCEPT !.configs[n] = x]
      BY <1>1, <1>7 DEF DirShape
    <2> HIDE DEF x
    <2> QED  BY <1>3, <1>5, <2>1, <2>2
  <1>8. ASSUME e = [h EXCEPT !.configs[n].terms.grid = "larger"]
        PROVE  Accepted(e, g, t, b)
    <2> DEFINE x == [h.configs[n] EXCEPT !.terms.grid = "larger"]
    <2>1. /\ x.by = b /\ x.game_uid = t /\ x.config_sha256 = t /\ x.sub_game_number = n
          /\ x.terms.grid = "larger" /\ x.terms.scoring = AgreedScoring
      BY <1>2
    <2>2. e = [h EXCEPT !.configs[n] = x]
      BY <1>1, <1>8 DEF DirShape
    <2> HIDE DEF x
    <2> QED  BY <1>3, <1>5, <2>1, <2>2
  <1> QED  BY <1>6, <1>7, <1>8

\* What every step of an honest log has.
LEMMA EveryStep ==
  ASSUME NEW q, NEW c, HonestSteps(q, c)
  PROVE  \A k \in 1 .. c : q[k].step = k - 1 /\ q[k].fields = "own" /\ q[k].unknown = FALSE
  BY StepFields

\* A log with another number, or with a step sealed again.
LEMMA UncheckedLog ==
  ASSUME NEW h, NEW g, NEW a, NEW t, NEW b \in Nat \ {0}, IsHonest(h, g, a, t, b),
         VerifyReplay(h), NEW n \in 1 .. Len(g), NEW e,
         \/ e = [h EXCEPT !.logs[n].sub_game_number = Games + 1]
         \/ \E k \in DOMAIN h.logs[n].steps : e = [h EXCEPT !.logs[n].steps = Resealed(@, k)]
  PROVE  Accepted(e, g, t, b)
  <1> DEFINE p == h.logs[n].steps
             c == g[n].steps
  <1>1. DirShape(h) /\ n \in Slots /\ HonestLog(h.logs[n], n, c, t, b)
    BY HonestView
  <1>2. /\ h.logs[n] = [by |-> b, game_uid |-> t, sub_game_number |-> n, steps |-> p]
        /\ HonestSteps(p, c)
    BY <1>1 DEF HonestLog
  <1>3. AuditClean(p)
    BY VerifiedParts
  <1> HIDE DEF p, c
  <1>4. /\ Len(p) = c /\ DOMAIN p = 1 .. c /\ p \in Seq({p[k] : k \in 1 .. c})
        /\ \A k \in 1 .. c : p[k].step = k - 1 /\ p[k].fields = "own" /\ p[k].unknown = FALSE
    <2>1. HonestSteps(p, c)
      BY <1>2
    <2>2. \A k \in 1 .. c : p[k].step = k - 1 /\ p[k].fields = "own" /\ p[k].unknown = FALSE
      BY <2>1, EveryStep, Zenon
    <2> QED  BY <2>1, <2>2 DEF HonestSteps
  <1>5. ASSUME NEW x, NEW q, x.by = b, x.game_uid = t, x.sub_game_number \in {n, Games + 1},
               x.steps = q, Len(q) = c, DOMAIN q = 1 .. c, AuditClean(q),
               \A k \in 1 .. c : q[k].step = k - 1 /\ q[k].fields = "own" /\ q[k].unknown = FALSE,
               e = [h EXCEPT !.logs[n] = x]
        PROVE  Accepted(e, g, t, b)
    <2>1. x # NoFile
      BY <1>5, FilesAreFiles
    <2>2. AcceptedLog(x, n, c, t, b)
      BY <1>5, <2>1 DEF AcceptedLog
    <2>3. AcceptedLog(x, n, g[n].steps, t, b)
      BY <2>2 DEF c
    <2> QED  BY <1>5, <2>3, LogAccepted
  <1>6. ASSUME e = [h EXCEPT !.logs[n].sub_game_number = Games + 1]
        PROVE  Accepted(e, g, t, b)
    <2> DEFINE x == [h.logs[n] EXCEPT !.sub_game_number = Games + 1]
    <2>1. x.by = b /\ x.game_uid = t /\ x.sub_game_number = Games + 1 /\ x.steps = p
      BY <1>2
    <2>2. e = [h EXCEPT !.logs[n] = x]
      BY <1>1, <1>6 DEF DirShape
    <2> HIDE DEF x
    <2> QED  BY <1>3, <1>4, <1>5, <2>1, <2>2
  <1>7. ASSUME NEW k \in DOMAIN p, e = [h EXCEPT !.logs[n].steps = Resealed(@, k)]
        PROVE  Accepted(e, g, t, b)
    <2> DEFINE s == [step |-> k - 1, nonce |-> -1, schema |-> "current", fields |-> "own",
                     cell |-> "position",
                     commit_hash |-> [step |-> k - 1, nonce |-> -1, schema |-> "current",
                                      fields |-> "own", cell |-> "position"],
                     unknown |-> FALSE]
               q == [p EXCEPT ![k] = s]
    <2>1. LogStep(SealedTurnPayload(k - 1, -1, "current", "own")) = s
      BY DEF LogStep, SealedTurnPayload, CanonicalDict
    <2>2. Resealed(p, k) = q
      BY <2>1 DEF Resealed
    <2> DEFINE x == [h.logs[n] EXCEPT !.steps = Resealed(@, k)]
    <2>3. x.by = b /\ x.game_uid = t /\ x.sub_game_number = n /\ x.steps = q
      <3>1. x = [h.logs[n] EXCEPT !.steps = Resealed(p, k)]
        BY DEF p
      <3> HIDE DEF q, x
      <3> QED  BY <1>2, <2>2, <3>1
    <2>4. e = [h EXCEPT !.logs[n] = x]
      BY <1>1, <1>7 DEF DirShape
    <2> HIDE DEF x
    <2>6. /\ s.step = k - 1 /\ s.nonce = -1 /\ s.fields = "own" /\ s.unknown = FALSE
          /\ s.commit_hash = CanonicalDict(PayloadFromStep(s))
      BY DEF CanonicalDict, PayloadFromStep, SealedTurnPayload
    <2> HIDE DEF s
    <2>7. /\ Len(q) = c /\ DOMAIN q = 1 .. c
          /\ \A j \in 1 .. c : q[j] = IF j = k THEN s ELSE p[j]
      BY <1>4
    <2> HIDE DEF q
    <2>8. \A j \in 1 .. c : q[j].step = j - 1 /\ q[j].fields = "own" /\ q[j].unknown = FALSE
      BY <1>4, <2>6, <2>7
    <2>9. AuditClean(q)
      <3>1. \A j \in 1 .. c : q[j].commit_hash = CanonicalDict(PayloadFromStep(q[j]))
        BY <1>3, <1>4, <2>6, <2>7 DEF AuditClean
      <3>2. \A j \in 1 .. c : p[j].nonce \in Nat
        BY <1>2, StepFields
      <3>3. \A i, j \in 1 .. c : p[i].nonce = p[j].nonce => i = j
        BY <1>3, <1>4 DEF AuditClean
      <3>4. \A i, j \in 1 .. c : q[i].nonce = q[j].nonce => i = j
        BY <2>6, <2>7, <3>2, <3>3
      <3> QED  BY <2>7, <3>1, <3>4 DEF AuditClean
    <2> QED  BY <1>5, <2>3, <2>4, <2>7, <2>8, <2>9
  <1> QED  BY <1>6, <1>7 DEF p

\* The total is the same when every entry has the same scores.
LEMMA TotalsAgree ==
  ASSUME NEW S, NEW d, NEW e, DOMAIN d = S, DOMAIN e = S, \A n \in S : d[n].scores = e[n].scores
  PROVE  Totals(d) = Totals(e)
  <1>1. ASSUME NEW side  PROVE Total(d, side) = Total(e, side)
    <2> DEFINE C(s) == CHOOSE x \in s : TRUE
               F(h) == [s \in SUBSET S |->
                          IF s = {} THEN 0 ELSE d[C(s)].scores[side] + h[s \ {C(s)}]]
               G(h) == [s \in SUBSET S |->
                          IF s = {} THEN 0 ELSE e[C(s)].scores[side] + h[s \ {C(s)}]]
    <2>1. \A h : F(h) = G(h)
      <3>1. \A s \in SUBSET S : s # {} => C(s) \in S
        OBVIOUS
      <3> HIDE DEF C
      <3> QED  BY <3>1
    <2> HIDE DEF F, G
    <2>2. (CHOOSE h : h = F(h)) = (CHOOSE h : h = G(h))
      BY <2>1, Zenon
    <2>3. Total(d, side) = (CHOOSE h : h = F(h))[S]
      BY Zenon DEF Total, MapThenSumSet, MapThenFoldSet, F
    <2>4. Total(e, side) = (CHOOSE h : h = G(h))[S]
      BY Zenon DEF Total, MapThenSumSet, MapThenFoldSet, G
    <2> QED  BY <2>2, <2>3, <2>4
  <1> QED  BY <1>1 DEF Totals

\* An entry with another result and other scores.
LEMMA EntryRewritten ==
  ASSUME NEW e, NEW n, NEW o, NEW c, NEW s, NEW x, NEW z,
         e = [sub_game_number |-> n, result |-> o, steps |-> c, scores |-> s]
  PROVE  LET y == [e EXCEPT !.result = x, !.scores = z]
         IN y.sub_game_number = n /\ y.result = x /\ y.steps = c /\ y.scores = z
  OBVIOUS

\* A result with another number, rewritten consistently, or with another status.
LEMMA UncheckedResult ==
  ASSUME NEW h, NEW g, NEW a, NEW t, NEW b \in Nat \ {0}, IsHonest(h, g, a, t, b),
         VerifyReplay(h), NEW e,
         \/ \E n \in 1 .. Len(g) :
              \/ e = [h EXCEPT !.result.sub_games[n].sub_game_number = Games + 1]
              \/ \E x \in {"capture", "survival"} : e = [h EXCEPT !.result = Rewritten(@, n, x)]
         \/ /\ h.result.agreement_status = "agreed"
            /\ e = [h EXCEPT !.result.agreement_status = "unverified_self_play"]
  PROVE  Accepted(e, g, t, b)
  <1> DEFINE p == h.result.sub_games
             T(q) == IF a = "disputed_zeroed" THEN <<0, 0>> ELSE Totals(q)
  <1>1. DirShape(h) /\ HonestResult(h.result, g, a, t, b)
    BY HonestView
  <1>2. /\ h.result = [by |-> b, game_uid |-> t, config_sha256 |-> t, sub_games |-> p,
                       agreement_status |-> a, totals |-> T(p)]
        /\ HonestEntries(p, g)
    BY <1>1 DEF HonestResult
  <1>3. h.result.agreement_status = a
    BY <1>2
  <1> HIDE DEF p, T
  <1>4. /\ Len(p) = Len(g) /\ DOMAIN p = 1 .. Len(g) /\ p \in Seq({p[i] : i \in 1 .. Len(g)})
        /\ \A i \in 1 .. Len(g) :
             p[i] = [sub_game_number |-> i, result |-> g[i].result,
                     steps |-> g[i].steps, scores |-> Score(g[i].result)]
    BY <1>2 DEF HonestEntries
  <1>5. \A i \in 1 .. Len(g) : /\ p[i].sub_game_number = i /\ p[i].result \in Results
                               /\ p[i].steps = g[i].steps /\ g[i].steps \in Nat
                               /\ p[i].scores = Score(p[i].result)
    BY <1>2, EntryFields
  <1>6. ASSUME NEW r, NEW q, r.by = b, r.game_uid = t, r.config_sha256 = t,
               r.sub_games = q, Len(q) = Len(g), DOMAIN q = 1 .. Len(g),
               \A i \in 1 .. Len(g) :
                 /\ q[i].sub_game_number \in {i, Games + 1} /\ q[i].steps = g[i].steps
                 /\ q[i].result \in Results /\ q[i].scores = Score(q[i].result),
               (r.agreement_status = "disputed_zeroed") <=> (a = "disputed_zeroed"),
               r.totals = T(q), e = [h EXCEPT !.result = r]
        PROVE  Accepted(e, g, t, b)
    <2>1. r # NoFile
      BY <1>6, FilesAreFiles
    <2>2. AcceptedResult(r, g, t, b)
      BY <1>5, <1>6, <2>1 DEF AcceptedResult
    <2>3. r.totals = IF r.agreement_status = "disputed_zeroed" THEN <<0, 0>>
                     ELSE Totals(r.sub_games)
      BY <1>6 DEF T
    <2>4. VerifyScores(r, AgreedScoring)
      BY <1>6, <2>3 DEF VerifyScores, Score
    <2> QED  BY <1>6, <2>2, <2>4, ResultAccepted
  <1>7. ASSUME NEW n \in 1 .. Len(g),
               e = [h EXCEPT !.result.sub_games[n].sub_game_number = Games + 1]
        PROVE  Accepted(e, g, t, b)
    <2> DEFINE y == [p[n] EXCEPT !.sub_game_number = Games + 1]
               q == [p EXCEPT ![n] = y]
               r == [h.result EXCEPT !.sub_games = q]
    <2>1. /\ y.sub_game_number = Games + 1 /\ y.result = p[n].result /\ y.steps = p[n].steps
          /\ y.scores = p[n].scores
      BY <1>4
    <2>2. [h.result EXCEPT !.sub_games[n].sub_game_number = Games + 1] = r
      BY <1>2, <1>4 DEF p
    <2>3. e = [h EXCEPT !.result = r]
      BY <1>1, <1>7, <2>2 DEF DirShape
    <2> HIDE DEF y
    <2>4. /\ Len(q) = Len(g) /\ DOMAIN q = 1 .. Len(g)
          /\ \A i \in 1 .. Len(g) : q[i] = IF i = n THEN y ELSE p[i]
      BY <1>4
    <2> HIDE DEF q
    <2>5. /\ r.by = b /\ r.game_uid = t /\ r.config_sha256 = t /\ r.sub_games = q
          /\ r.agreement_status = a /\ r.totals = T(p)
      BY <1>2
    <2> HIDE DEF r
    <2>6. \A i \in 1 .. Len(g) :
            /\ q[i].sub_game_number \in {i, Games + 1} /\ q[i].steps = g[i].steps
            /\ q[i].result \in Results /\ q[i].scores = Score(q[i].result)
            /\ q[i].scores = p[i].scores
      BY <1>5, <2>1, <2>4
    <2>7. Totals(q) = Totals(p)
      <3>1. \A i \in 1 .. Len(g) : q[i].scores = p[i].scores
        BY <2>6
      <3>2. DOMAIN q = 1 .. Len(g) /\ DOMAIN p = 1 .. Len(g)
        BY <1>4, <2>4
      <3> QED  BY <3>1, <3>2, TotalsAgree
    <2>8. T(q) = T(p)
      BY <2>7 DEF T
    <2>9. /\ (r.agreement_status = "disputed_zeroed") <=> (a = "disputed_zeroed")
          /\ r.totals = T(q)
      BY <2>5, <2>8
    <2>10. \A i \in 1 .. Len(g) :
             /\ q[i].sub_game_number \in {i, Games + 1} /\ q[i].steps = g[i].steps
             /\ q[i].result \in Results /\ q[i].scores = Score(q[i].result)
      BY <2>6
    <2>11. Len(q) = Len(g) /\ DOMAIN q = 1 .. Len(g)
      BY <2>4
    <2> QED  BY <1>6, <2>3, <2>5, <2>9, <2>10, <2>11
  <1>8. ASSUME NEW n \in 1 .. Len(g), NEW x \in {"capture", "survival"},
               e = [h EXCEPT !.result = Rewritten(@, n, x)]
        PROVE  Accepted(e, g, t, b)
    <2> DEFINE y == [p[n] EXCEPT !.result = x, !.scores = Score(x)]
               q == [p EXCEPT ![n] = y]
               r == Rewritten(h.result, n, x)
    <2>1. [p EXCEPT ![n].result = x, ![n].scores = Score(x)] = q
      BY <1>4
    <2>2. r = [h.result EXCEPT !.sub_games = q, !.totals = T(q)]
      <3> DEFINE z == [p EXCEPT ![n].result = x, ![n].scores = Score(x)]
      <3>1. r = [h.result EXCEPT !.sub_games = z,
                   !.totals = IF h.result.agreement_status = "disputed_zeroed" THEN <<0, 0>>
                              ELSE Totals(z)]
        BY Zenon DEF Rewritten, p
      <3>2. z = q
        BY <2>1
      <3> HIDE DEF z, q, r
      <3> QED  BY <1>3, <3>1, <3>2 DEF T
    <2>3. e = [h EXCEPT !.result = r]
      BY <1>1, <1>8 DEF DirShape
    <2>4. y.sub_game_number = n /\ y.result = x /\ y.steps = g[n].steps /\ y.scores = Score(x)
      <3>1. p[n] = [sub_game_number |-> n, result |-> g[n].result,
                    steps |-> g[n].steps, scores |-> Score(g[n].result)]
        BY <1>4
      <3> QED  BY <3>1, EntryRewritten
    <2> HIDE DEF y
    <2>5. /\ Len(q) = Len(g) /\ DOMAIN q = 1 .. Len(g)
          /\ \A i \in 1 .. Len(g) : q[i] = IF i = n THEN y ELSE p[i]
      BY <1>4
    <2> HIDE DEF q, r
    <2>6. /\ r.by = b /\ r.game_uid = t /\ r.config_sha256 = t /\ r.sub_games = q
          /\ r.agreement_status = a /\ r.totals = T(q)
      BY <1>2, <2>2
    <2>7. x \in Results
      BY DEF Results
    <2>8. \A i \in 1 .. Len(g) :
            /\ q[i].sub_game_number \in {i, Games + 1} /\ q[i].steps = g[i].steps
            /\ q[i].result \in Results /\ q[i].scores = Score(q[i].result)
      BY <1>5, <2>4, <2>5, <2>7
    <2> QED  BY <1>6, <2>3, <2>5, <2>6, <2>8
  <1>9. ASSUME a = "agreed", e = [h EXCEPT !.result.agreement_status = "unverified_self_play"]
        PROVE  Accepted(e, g, t, b)
    <2> DEFINE r == [h.result EXCEPT !.agreement_status = "unverified_self_play"]
    <2>1. e = [h EXCEPT !.result = r]
      BY <1>1, <1>9 DEF DirShape
    <2>2. /\ r.by = b /\ r.game_uid = t /\ r.config_sha256 = t /\ r.sub_games = p
          /\ r.agreement_status = "unverified_self_play" /\ r.totals = T(p)
      BY <1>2
    <2> HIDE DEF r
    <2> QED  BY <1>4, <1>5, <1>6, <1>9, <2>1, <2>2
  <1> QED  BY <1>3, <1>7, <1>8, <1>9

\* Whatever no check covers leaves a set of the kind that is accepted.
LEMMA UncheckedIsAccepted ==
  ASSUME NEW h, NEW g, NEW a, NEW t, NEW b \in Nat \ {0}, IsHonest(h, g, a, t, b),
         VerifyReplay(h), NEW e \in UncheckedEdits(h)
  PROVE  Accepted(e, g, t, b)
  <1>1. /\ DirShape(h) /\ Files(h.logs) = 1 .. Len(g) /\ Files(h.configs) = 1 .. Len(g)
        /\ 1 \in 1 .. Len(g)
    BY HonestView
  <1> DEFINE Fine == Accepted(e, g, t, b)
  <1>2. ASSUME e = [h EXCEPT !.declaration = NoFile]  PROVE Fine
    <2>1. Accepted(h, g, t, b)
      BY VerifiedParts
    <2>2. /\ e.declaration = NoFile /\ e.configs = h.configs /\ e.logs = h.logs
          /\ e.result = h.result
      BY <1>1, <1>2 DEF DirShape
    <2> QED  BY <2>1, <2>2 DEF Accepted, NumbersApart
  <1>3. ASSUME NEW f \in DOMAIN AgreedScoring \ ScoresUsed(h), e = ScoringEdit(h, 1, f)
        PROVE  Fine
    BY <1>1, <1>3, UncheckedConfig
  <1>4. ASSUME NEW n \in Files(h.configs) \ {1}, NEW f \in DOMAIN AgreedScoring,
               e = ScoringEdit(h, n, f)
        PROVE  Fine
    BY <1>1, <1>4, UncheckedConfig
  <1>5. ASSUME NEW n \in Files(h.logs),
               \/ e = [h EXCEPT !.configs[n].sub_game_number = Games + 1]
               \/ e = [h EXCEPT !.configs[n].terms.grid = "larger"]
        PROVE  Fine
    BY <1>1, <1>5, UncheckedConfig
  <1>6. ASSUME NEW n \in Files(h.logs),
               \/ e = [h EXCEPT !.logs[n].sub_game_number = Games + 1]
               \/ \E k \in DOMAIN h.logs[n].steps :
                    e = [h EXCEPT !.logs[n].steps = Resealed(@, k)]
        PROVE  Fine
    BY <1>1, <1>6, UncheckedLog
  <1>7. ASSUME NEW n \in Files(h.logs),
               \/ e = [h EXCEPT !.result.sub_games[n].sub_game_number = Games + 1]
               \/ \E x \in {"capture", "survival"} \ {h.result.sub_games[n].result} :
                    e = [h EXCEPT !.result = Rewritten(@, n, x)]
        PROVE  Fine
    BY <1>1, <1>7, UncheckedResult
  <1>8. ASSUME h.result.agreement_status = "agreed",
               e = [h EXCEPT !.result.agreement_status = "unverified_self_play"]
        PROVE  Fine
    BY <1>8, UncheckedResult
  <1> HIDE DEF Fine
  <1>9. ASSUME NEW n \in Files(h.logs),
               \/ e = [h EXCEPT !.logs[n].sub_game_number = Games + 1]
               \/ e = [h EXCEPT !.result.sub_games[n].sub_game_number = Games + 1]
               \/ e = [h EXCEPT !.configs[n].sub_game_number = Games + 1]
               \/ e = [h EXCEPT !.configs[n].terms.grid = "larger"]
               \/ \E k \in DOMAIN h.logs[n].steps :
                    e = [h EXCEPT !.logs[n].steps = Resealed(@, k)]
               \/ \E r \in {"capture", "survival"} \ {h.result.sub_games[n].result} :
                    e = [h EXCEPT !.result = Rewritten(@, n, r)]
        PROVE  Fine
    BY <1>5, <1>6, <1>7, <1>9, Zenon
  <1>10. Fine
    BY <1>2, <1>3, <1>4, <1>8, <1>9, UncheckedCases, Zenon
  <1> QED  BY <1>10 DEF Fine

\* A first step that claims the old schema is what the side is judged by, and no
\* longer what was sealed.
LEMMA SchemaIsLegacy ==
  ASSUME NEW h, NEW g, NEW a, NEW t, NEW b \in Nat \ {0}, IsHonest(h, g, a, t, b),
         NEW e \in SchemaEdits(h)
  PROVE  ~VerifySide(e).independently_verified /\ ~VerifyReplay(e) /\ Readable(e)
  <1>1. /\ DirShape(h) /\ Files(h.logs) = 1 .. Len(g) /\ 1 .. Len(g) \subseteq Slots
        /\ 1 \in 1 .. Len(g) /\ Len(g) \in Nat
    BY HonestView
  <1>2. ReadableConfigs(h.configs) /\ ReadableLogs(h.logs) /\ ReadableResult(h.result)
    BY HonestIsCurrent DEF Readable
  <1>3. h.logs[1].steps # <<>> /\ e = [h EXCEPT !.logs[1].steps[1].schema = "legacy"]
    BY <1>1 DEF SchemaEdits
  <1> DEFINE p == h.logs[1].steps
             q == [p EXCEPT ![1].schema = "legacy"]
             x == [h.logs[1] EXCEPT !.steps = q]
  <1>4. /\ h.logs[1] = [by |-> b, game_uid |-> t, sub_game_number |-> 1, steps |-> p]
        /\ HonestSteps(p, g[1].steps)
    BY <1>1 DEF IsHonest, HonestLog
  <1>5. g[1].steps \in Nat
    BY <1>1, EntryFields DEF IsHonest, HonestResult
  <1>6. /\ e.declaration = h.declaration /\ e.configs = h.configs /\ e.result = h.result
        /\ \A k \in Slots : e.logs[k] = IF k = 1 THEN x ELSE h.logs[k]
    BY <1>1, <1>3, <1>4 DEF DirShape
  <1>7. x.steps = q /\ x.by = b
    BY <1>4
  <1>8. p \in Seq({p[k] : k \in 1 .. g[1].steps}) /\ 1 \in DOMAIN p /\ Len(p) \in Nat \ {0}
    <2>1. /\ p \in Seq({p[k] : k \in 1 .. g[1].steps}) /\ Len(p) = g[1].steps
          /\ DOMAIN p = 1 .. g[1].steps
      BY <1>4 DEF HonestSteps
    <2> QED  BY <1>3, <1>5, <2>1
  <1>9. /\ DOMAIN q = DOMAIN p /\ q # <<>> /\ q[1].schema = "legacy"
        /\ q[1].commit_hash.schema = "current" /\ q[1].fields = "own"
        /\ \A k \in DOMAIN p : k # 1 => q[k] = p[k]
    <2>1. /\ p[1] = [step |-> 1 - 1, nonce |-> p[1].nonce, schema |-> "current",
                     fields |-> "own", cell |-> "position",
                     commit_hash |-> p[1].commit_hash, unknown |-> FALSE]
          /\ p[1].commit_hash = [step |-> 1 - 1, nonce |-> p[1].nonce, schema |-> "current",
                                 fields |-> "own", cell |-> "position"]
      BY <1>4, <1>8 DEF HonestSteps
    <2> DEFINE y == [p[1] EXCEPT !.schema = "legacy"]
    <2>2. y.schema = "legacy" /\ y.commit_hash = p[1].commit_hash /\ y.fields = "own"
      BY <2>1
    <2>3. p[1].commit_hash.schema = "current"
      BY <2>1
    <2>4. q = [p EXCEPT ![1] = y]
      BY <1>8
    <2> HIDE DEF y, q
    <2>5. DOMAIN q = DOMAIN p /\ q[1] = y /\ \A k \in DOMAIN p : k # 1 => q[k] = p[k]
      BY <1>8, <2>4
    <2>6. q # <<>>
      BY <1>8, <2>5
    <2> QED  BY <2>2, <2>3, <2>5, <2>6
  <1> HIDE DEF p, q, x
  <1>10. x # NoFile
    BY <1>7, FilesAreFiles
  <1>11. Files(e.logs) = 1 .. Len(g) /\ e.logs[1].steps = q /\ e.logs[1] \in Bundle(e).logs
    <2>1. Files(e.logs) = 1 .. Len(g)
      BY <1>1, <1>6, <1>10 DEF Files
    <2> QED  BY <1>1, <1>6, <1>7, <2>1 DEF Bundle
  <1>12. PeekSchema(e) = "legacy"
    <2>1. Min(1 .. Len(g)) \in 1 .. Len(g) /\ Min(1 .. Len(g)) <= 1
      <3> DEFINE I == 1 .. Len(g)
      <3>1. I \subseteq Nat /\ I # {} /\ 1 \in I
        BY <1>1
      <3> HIDE DEF I
      <3>2. Min(I) \in I /\ Min(I) <= 1
        BY <3>1, FirstSlot
      <3> QED  BY <3>2 DEF I
    <2>2. Min(1 .. Len(g)) = 1
      BY <1>1, <2>1
    <2> QED  BY <1>1, <1>9, <1>11, <2>2 DEF PeekSchema
  <1>13. ~VerifySide(e).independently_verified
    BY <1>12 DEF VerifySide
  <1>14. ~VerifyReplay(e)
    <2>1. CanonicalDict(PayloadFromStep(q[1])).schema = q[1].schema
      BY DEF CanonicalDict, PayloadFromStep, SealedTurnPayload
    <2>2. q[1].commit_hash # CanonicalDict(PayloadFromStep(q[1]))
      BY <1>9, <2>1
    <2>3. ~AuditClean(q)
      BY <1>8, <1>9, <2>2 DEF AuditClean
    <2> QED  BY <1>11, <2>3 DEF VerifyReplay, VerifyLog
  <1>15. ReadableLogs(e.logs)
    <2>1. \A k \in DOMAIN p : p[k].fields # "missing"
      BY <1>1, <1>2 DEF ReadableLogs, p
    <2>2. \A k \in DOMAIN q : q[k].fields # "missing"
      BY <1>9, <2>1
    <2>3. \A k \in Files(e.logs) : k # 1 => k \in Files(h.logs) /\ e.logs[k] = h.logs[k]
      BY <1>1, <1>6, <1>11
    <2> QED  BY <1>2, <1>11, <2>2, <2>3 DEF ReadableLogs
  <1>16. Readable(e)
    BY <1>2, <1>6, <1>15 DEF Readable
  <1> QED  BY <1>13, <1>14, <1>16

\* The alterations that leave a file malformed, one by one.
LEMMA MalformedCases ==
  ASSUME NEW h, NEW e \in MalformedEdits(h)
  PROVE  \/ e = [h EXCEPT !.configs[1].terms.grid = "missing"]
         \/ \E n \in Files(h.logs) :
              \/ e = [h EXCEPT !.result.sub_games[n].result = "unknown"]
              \/ \E k \in DOMAIN h.logs[n].steps :
                   e = [h EXCEPT !.logs[n].steps[k].fields = "missing"]
  <1> DEFINE A == [h EXCEPT !.configs[1].terms.grid = "missing"]
             R(n) == [h EXCEPT !.result.sub_games[n].result = "unknown"]
             F(n, k) == [h EXCEPT !.logs[n].steps[k].fields = "missing"]
             FS(n) == {F(n, k) : k \in DOMAIN h.logs[n].steps}
             M(n) == {R(n)} \union FS(n)
             U == UNION {M(n) : n \in Files(h.logs)}
  <1>1. MalformedEdits(h) = {A} \union U
    BY DEF MalformedEdits
  <1> HIDE DEF A, R, F
  <1>2. e \in U => \E n \in Files(h.logs) : e \in M(n)
    <2> HIDE DEF M
    <2> QED  BY Zenon
  <1>3. ASSUME NEW n \in Files(h.logs), e \in M(n)
        PROVE  e = R(n) \/ \E k \in DOMAIN h.logs[n].steps : e = F(n, k)
    BY <1>3, Zenon
  <1> HIDE DEF M, U
  <1>4. e = A \/ e \in U
    BY <1>1
  <1>5. \/ e = A
        \/ \E n \in Files(h.logs) : e = R(n) \/ \E k \in DOMAIN h.logs[n].steps : e = F(n, k)
    BY <1>2, <1>3, <1>4, Zenon
  <1> QED  BY <1>5, Zenon DEF A, R, F

\* A malformed file ends the verification with an exception.
LEMMA MalformedRaises ==
  ASSUME NEW h, NEW g, NEW a, NEW t, NEW b \in Nat \ {0}, IsHonest(h, g, a, t, b),
         NEW e \in MalformedEdits(h)
  PROVE  VerifyRaises(e) /\ HasEntries(e.result)
  <1>1. /\ DirShape(h) /\ Len(g) \in Nat \ {0} /\ 1 \in 1 .. Len(g) /\ 1 .. Len(g) \subseteq Slots
        /\ Files(h.configs) = 1 .. Len(g) /\ Files(h.logs) = 1 .. Len(g) /\ h.result # NoFile
        /\ HonestResult(h.result, g, a, t, b)
    BY HonestView
  <1>2. HasEntries(h.result)
    BY <1>1, HonestHasEntries
  <1> DEFINE Found == VerifyRaises(e) /\ HasEntries(e.result)
  <1>3. ASSUME e = [h EXCEPT !.configs[1].terms.grid = "missing"]  PROVE Found
    <2> DEFINE x == [h.configs[1] EXCEPT !.terms.grid = "missing"]
    <2>1. h.configs[1] = [by |-> b, game_uid |-> t, config_sha256 |-> t, sub_game_number |-> 1,
                          terms |-> [grid |-> "agreed", scoring |-> AgreedScoring]]
      BY <1>1 DEF IsHonest, HonestConfig, AgreedTerms
    <2>2. x.terms.grid = "missing" /\ x.by = b
      BY <2>1
    <2>3. h.configs[1].by = b
      BY <2>1
    <2>4. e = [h EXCEPT !.configs[1] = x]
      BY <1>1, <1>3 DEF DirShape
    <2> HIDE DEF x
    <2>5. x # NoFile /\ h.configs[1] # NoFile
      BY <2>2, <2>3, FilesAreFiles
    <2>6. /\ e.logs = h.logs /\ e.result = h.result /\ e.configs[1] = x
          /\ Files(e.configs) = Files(h.configs)
      <3>1. DirShape(h) /\ 1 \in Slots
        BY <1>1
      <3>2. /\ e.logs = h.logs /\ e.result = h.result
            /\ \A k \in Slots : e.configs[k] = IF k = 1 THEN x ELSE h.configs[k]
        BY <2>4, <3>1 DEF DirShape
      <3> QED  BY <2>5, <3>1, <3>2 DEF Files
    <2>7. TermsRead(e).grid = "missing"
      BY <1>1, <2>2, <2>6, TermsOfFirst
    <2>8. HasRequired(e)
      BY <1>1, <2>6 DEF HasRequired
    <2> QED  BY <1>2, <2>6, <2>7, <2>8 DEF VerifyRaises
  <1>4. ASSUME NEW n \in Files(h.logs), e = [h EXCEPT !.result.sub_games[n].result = "unknown"]
        PROVE  Found
    <2> DEFINE p == h.result.sub_games
               y == [p[n] EXCEPT !.result = "unknown"]
    <2>1. /\ h.result = [by |-> b, game_uid |-> t, config_sha256 |-> t, sub_games |-> p,
                         agreement_status |-> a, totals |-> h.result.totals]
          /\ HonestEntries(p, g)
      BY <1>1 DEF HonestResult
    <2>2. n \in 1 .. Len(g) /\ DOMAIN p = 1 .. Len(g)
      BY <1>1, <2>1 DEF HonestEntries
    <2>3. /\ p[n] = [sub_game_number |-> n, result |-> g[n].result,
                     steps |-> g[n].steps, scores |-> Score(g[n].result)]
          /\ g[n].steps \in 0 .. Threshold + 1
      BY <2>1, <2>2 DEF HonestEntries
    <2>4. y.result = "unknown" /\ y.steps \in Nat
      BY <2>3, PostGameAssumption
    <2>5. /\ e.configs = h.configs /\ e.logs = h.logs
          /\ e.result = [h.result EXCEPT !.sub_games[n].result = "unknown"]
      BY <1>1, <1>4 DEF DirShape
    <2>6. e.result.sub_games = [p EXCEPT ![n] = y]
      BY <2>1, <2>2, <2>5
    <2>7. e.result.by = b
      BY <2>1, <2>5
    <2>8. e.result # NoFile
      BY <2>7, FilesAreFiles
    <2> HIDE DEF y
    <2>9. HasEntries(e.result)
      BY <1>2, <2>2, <2>4, <2>6, EntryReplaced
    <2>10. n \in DOMAIN e.result.sub_games /\ e.result.sub_games[n].result \notin Results
      BY <2>2, <2>4, <2>6 DEF Results
    <2>11. HasRequired(e)
      BY <1>1, <2>5, <2>8 DEF HasRequired
    <2> QED  BY <2>9, <2>10, <2>11 DEF VerifyRaises
  <1>5. ASSUME NEW n \in Files(h.logs), NEW k \in DOMAIN h.logs[n].steps,
               e = [h EXCEPT !.logs[n].steps[k].fields = "missing"]
        PROVE  Found
    <2> DEFINE p == h.logs[n].steps
               y == [p[k] EXCEPT !.fields = "missing"]
               x == [h.logs[n] EXCEPT !.steps = [p EXCEPT ![k] = y]]
    <2>1. n \in 1 .. Len(g) /\ n \in Slots
      BY <1>1
    <2>2. /\ h.logs[n] = [by |-> b, game_uid |-> t, sub_game_number |-> n, steps |-> p]
          /\ HonestSteps(p, g[n].steps)
      BY <2>1 DEF IsHonest, HonestLog
    <2>3. k \in 1 .. g[n].steps
      BY <2>2 DEF HonestSteps
    <2>4. p[k] = [step |-> k - 1, nonce |-> p[k].nonce, schema |-> "current",
                  fields |-> "own", cell |-> "position",
                  commit_hash |-> p[k].commit_hash, unknown |-> FALSE]
      BY <2>2, <2>3 DEF HonestSteps
    <2>5. y.fields = "missing"
      BY <2>4
    <2>6. x.steps = [p EXCEPT ![k] = y] /\ x.by = b
      <3> HIDE DEF y
      <3> QED  BY <2>2
    <2>7. [h.logs[n] EXCEPT !.steps[k].fields = "missing"] = x
      BY <2>2
    <2>8. /\ e.configs = h.configs /\ e.result = h.result
          /\ \A j \in Slots : e.logs[j] = IF j = n THEN x ELSE h.logs[j]
      BY <1>1, <1>5, <2>1, <2>7 DEF DirShape
    <2> HIDE DEF x, y
    <2>9. x # NoFile
      BY <2>6, FilesAreFiles
    <2>10. e.logs[n] = x /\ n \in Files(e.logs)
      BY <2>1, <2>8, <2>9 DEF Files
    <2>11. x \in Bundle(e).logs
      BY <2>10 DEF Bundle
    <2>12. k \in DOMAIN x.steps /\ x.steps[k].fields = "missing"
      BY <2>5, <2>6
    <2>13. HasRequired(e)
      BY <1>1, <2>8, <2>10 DEF HasRequired
    <2> QED  BY <1>2, <2>8, <2>11, <2>12, <2>13 DEF VerifyRaises
  <1> HIDE DEF Found
  <1>6. Found
    BY <1>3, <1>4, <1>5, MalformedCases, Zenon
  <1> QED  BY <1>6 DEF Found

\* A directory whose files are all of one series holds one series.
LEMMA AllByIsOneSeries ==
  ASSUME NEW b, AllBy(dir, b)
  PROVE  OneSeries
  <1>1. dir.result \in FilesPresent /\ \A f \in FilesPresent : f.by = b
    BY DEF AllBy, FilesPresent
  <1> QED  BY <1>1, AllOfOne

\* What follows of a directory from the kind of its alteration.
LEMMA EditFacts ==
  ASSUME DirInv, edit # "none"
  PROVE  /\ edit \in {"content", "unchecked", "schema", "malformed"}
         /\ dir.result = NoFile \/ HasEntries(dir.result)
         /\ edit = "content" => /\ AllCurrent(dir) /\ ~VerifyRaises(dir)
                                /\ DistinctScores => ~VerifyReplay(dir)
         /\ edit = "unchecked" => VerifyReplay(dir) /\ OneSeries /\ StepsAccounted(dir)
         /\ edit = "schema" => /\ ~VerifySide(dir).independently_verified
                               /\ ~VerifyReplay(dir) /\ ~VerifyRaises(dir)
         /\ edit = "malformed" => VerifyRaises(dir)
  <1>1. PICK g \in GameSeqs, R \in SUBSET Slots, a \in AgreementSet, t \in Terms,
             b \in 1 .. runs :
               LET h == HonestSet(g, R, a, t, b)
               IN /\ VerifyReplay(h)
                  /\ \/ edit = "content" /\ dir \in ContentEdits(h)
                     \/ edit = "unchecked" /\ dir \in UncheckedEdits(h)
                     \/ edit = "schema" /\ dir \in SchemaEdits(h)
                     \/ edit = "malformed" /\ dir \in MalformedEdits(h)
    BY DEF DirInv, EditInv
  <1> DEFINE h == HonestSet(g, R, a, t, b)
  <1>2. b \in Nat \ {0}
    BY DEF DirInv, FileInv
  <1>3. IsHonest(h, g, a, t, b)
    BY <1>2, SetIsHonest
  <1>4. /\ VerifyReplay(h)
        /\ \/ edit = "content" /\ dir \in ContentEdits(h)
           \/ edit = "unchecked" /\ dir \in UncheckedEdits(h)
           \/ edit = "schema" /\ dir \in SchemaEdits(h)
           \/ edit = "malformed" /\ dir \in MalformedEdits(h)
    BY <1>1
  <1> HIDE DEF h
  <1>5. CASE edit = "content" /\ dir \in ContentEdits(h)
    <2>1. AllCurrent(dir) /\ Readable(dir)
      BY <1>2, <1>3, <1>5, ContentIsCurrent
    <2>2. ~VerifyRaises(dir) /\ (dir.result = NoFile \/ HasEntries(dir.result))
      BY <2>1, ReadableHasVerdict
    <2>3. DistinctScores => ~VerifyReplay(dir)
      BY <1>2, <1>3, <1>5, ContentDetected
    <2> QED  BY <1>5, <2>1, <2>2, <2>3
  <1>6. CASE edit = "unchecked" /\ dir \in UncheckedEdits(h)
    <2>1. Accepted(dir, g, t, b)
      BY <1>2, <1>3, <1>4, <1>6, UncheckedIsAccepted
    <2>2. VerifyReplay(dir)
      BY <2>1, AcceptedVerifies
    <2>3. AllBy(dir, b) /\ StepsAccounted(dir) /\ HasEntries(dir.result)
      BY <2>1, AcceptedIsAccounted
    <2>4. OneSeries
      BY <2>3, AllByIsOneSeries
    <2> QED  BY <1>6, <2>2, <2>3, <2>4
  <1>7. CASE edit = "schema" /\ dir \in SchemaEdits(h)
    <2>1. ~VerifySide(dir).independently_verified /\ ~VerifyReplay(dir) /\ Readable(dir)
      BY <1>2, <1>3, <1>7, SchemaIsLegacy
    <2>2. ~VerifyRaises(dir) /\ (dir.result = NoFile \/ HasEntries(dir.result))
      BY <2>1, ReadableHasVerdict
    <2> QED  BY <1>7, <2>1, <2>2
  <1>8. CASE edit = "malformed" /\ dir \in MalformedEdits(h)
    <2>1. VerifyRaises(dir) /\ HasEntries(dir.result)
      BY <1>2, <1>3, <1>8, MalformedRaises
    <2> QED  BY <1>8, <2>1
  <1> QED  BY <1>4, <1>5, <1>6, <1>7, <1>8

\* Which alterations of one file verify-replay finds, passes over or ends at without
\* a verdict, for every series, file and place in the file: with exit code 2 those of
\* ContentEdits and SchemaEdits, 0 those of UncheckedEdits, 1 those of MalformedEdits.
\* Any two results have to score differently, and those sets are all it speaks of.
THEOREM PostOneEditVerdict ==
  ASSUME DistinctScores  PROVE PostSpec => []OneEditVerdict
  <1>1. PostInv => OneEditVerdict
    <2> SUFFICES ASSUME PostInv, cmd = "verified", edit # "none"
                 PROVE  /\ shown.exit = 2 <=> edit \in {"content", "schema"}
                        /\ shown.exit = 1 <=> edit = "malformed"
                        /\ shown.exit = 0 <=> edit = "unchecked"
      BY DEF OneEditVerdict
    <2>1. shown.exit = IF VerifyRaises(dir) THEN 1 ELSE IF VerifyReplay(dir) THEN 0 ELSE 2
      BY DEF PostInv, ShownInv
    <2>2. VerifyReplay(dir) => ~VerifyRaises(dir)
      BY DEF VerifyReplay
    <2>3. /\ edit \in {"content", "unchecked", "schema", "malformed"}
          /\ edit = "content" => ~VerifyRaises(dir) /\ ~VerifyReplay(dir)
          /\ edit = "unchecked" => VerifyReplay(dir)
          /\ edit = "schema" => ~VerifyReplay(dir) /\ ~VerifyRaises(dir)
          /\ edit = "malformed" => VerifyRaises(dir)
      BY EditFacts DEF PostInv
    <2> QED  BY <2>1, <2>2, <2>3
  <1> QED  BY <1>1, PostInvariant, PTL

\* What the opponent publishes: one sub-game, whose log has two steps.
LEMMA OpponentFacts ==
  ASSUME NEW kind
  PROVE  LET d == OpponentDir(kind)
             s == LogSteps(2, FALSE, IF kind = "legacy" THEN "legacy" ELSE "current",
                           IF kind \in {"misplayed", "regridded"} THEN "out_of_bounds" ELSE "own")
         IN /\ Files(d.logs) = {1} /\ d.logs[1] \in Bundle(d).logs
            /\ d.logs[1].steps = IF kind = "altered" THEN [s EXCEPT ![1].nonce = -1] ELSE s
            /\ d.result = ResultArtifact(<<[result |-> "capture", steps |-> 2]>>, "agreed",
                                         CHOOSE t \in Terms : TRUE, MaxSeries + 1)
            /\ kind # "regridded" => TermsRead(d).grid = "agreed"
  <1> DEFINE s == LogSteps(2, FALSE, IF kind = "legacy" THEN "legacy" ELSE "current",
                           IF kind \in {"misplayed", "regridded"} THEN "out_of_bounds" ELSE "own")
             q == IF kind = "altered" THEN [s EXCEPT ![1].nonce = -1] ELSE s
             g == <<[result |-> "capture", steps |-> 2]>>
             u == CHOOSE t \in Terms : TRUE
             f == Artifacts(g, <<q>>, "agreed", u, MaxSeries + 1)
             d == OpponentDir(kind)
  <1>1. d = IF kind = "regridded" THEN [f EXCEPT !.configs[1].terms.grid = "larger"] ELSE f
    BY DEF OpponentDir
  <1>2. DOMAIN g = {1} /\ 1 \in Slots /\ MaxSeries + 1 \in Nat \ {0}
    BY PostGameAssumption
  <1> HIDE DEF s, q, g, u, d
  <1>3. f = [declaration |-> [by |-> MaxSeries + 1, game_uid |-> u],
             configs |-> [n \in Slots |-> IF n \in DOMAIN g
                                          THEN ConfigArtifact(n, u, MaxSeries + 1) ELSE NoFile],
             logs |-> [n \in Slots |-> IF n \in DOMAIN g
                                       THEN LogArtifact(n, <<q>>[n], u, MaxSeries + 1) ELSE NoFile],
             result |-> ResultArtifact(g, "agreed", u, MaxSeries + 1)]
    BY DEF Artifacts
  <1> HIDE DEF f
  <1>4. d.logs = f.logs /\ d.result = f.result /\ (kind # "regridded" => d.configs = f.configs)
    BY <1>1, <1>3
  <1>5. /\ d.result = ResultArtifact(g, "agreed", u, MaxSeries + 1)
        /\ d.logs = [n \in Slots |-> IF n \in DOMAIN g
                                     THEN LogArtifact(n, <<q>>[n], u, MaxSeries + 1) ELSE NoFile]
    BY <1>3, <1>4
  <1>6. /\ d.logs[1] = LogArtifact(1, q, u, MaxSeries + 1)
        /\ \A n \in Slots : n # 1 => d.logs[n] = NoFile
    BY <1>2, <1>5
  <1>7. d.logs[1].by = MaxSeries + 1 /\ d.logs[1].steps = q
    BY <1>6 DEF LogArtifact
  <1>8. d.logs[1] # NoFile
    BY <1>2, <1>7, FilesAreFiles
  <1>9. Files(d.logs) = {1} /\ d.logs[1] \in Bundle(d).logs
    BY <1>2, <1>6, <1>8 DEF Files, Bundle
  <1>10. ASSUME kind # "regridded"  PROVE TermsRead(d).grid = "agreed"
    <2>1. /\ d.configs[1] = ConfigArtifact(1, u, MaxSeries + 1)
          /\ \A n \in Slots : n # 1 => d.configs[n] = NoFile
      <3>1. d.configs = [n \in Slots |-> IF n \in DOMAIN g
                                         THEN ConfigArtifact(n, u, MaxSeries + 1) ELSE NoFile]
        BY <1>3, <1>4, <1>10
      <3> QED  BY <1>2, <3>1
    <2>2. d.configs[1].by = MaxSeries + 1 /\ d.configs[1].terms.grid = "agreed"
      BY <2>1 DEF ConfigArtifact, AgreedTerms
    <2>3. d.configs[1] # NoFile
      BY <1>2, <2>2, FilesAreFiles
    <2>4. Files(d.configs) = {1}
      BY <1>2, <2>1, <2>3 DEF Files
    <2>5. Min({1}) = 1
      <3>1. {1} \subseteq Nat /\ {1} # {}
        OBVIOUS
      <3>2. Min({1}) \in {1}
        BY <3>1, FirstSlot
      <3> QED  BY <3>2
    <2> QED  BY <2>2, <2>4, <2>5 DEF TermsRead
  <1> QED  BY <1>5, <1>7, <1>9, <1>10 DEF s, q, g, u, d

\* A sealed step keeps what it was sealed from.
LEMMA SealedStep ==
  ASSUME NEW s, NEW o, NEW schema, NEW fields
  PROVE  LET p == LogStep(SealedTurnPayload(s, o, schema, fields))
         IN /\ p.nonce = o /\ p.schema = schema /\ p.fields = fields /\ p.commit_hash.nonce = o
            /\ "nonce" \in DOMAIN p
            /\ [p EXCEPT !.nonce = -1].nonce = -1
            /\ [p EXCEPT !.nonce = -1].schema = schema
            /\ [p EXCEPT !.nonce = -1].commit_hash.nonce = o
  BY DEF LogStep, SealedTurnPayload, CanonicalDict

\* The verdicts on what the opponent publishes.
LEMMA OpponentVerdicts ==
  ASSUME NEW kind
  PROVE  /\ kind = "legacy" => ~VerifySide(OpponentDir(kind)).independently_verified
         /\ kind \in {"misplayed", "altered"} =>
              /\ VerifySide(OpponentDir(kind)).independently_verified
              /\ ~VerifySide(OpponentDir(kind)).ok
  <1> DEFINE d == OpponentDir(kind)
             schema == IF kind = "legacy" THEN "legacy" ELSE "current"
             fields == IF kind \in {"misplayed", "regridded"} THEN "out_of_bounds" ELSE "own"
             s == LogSteps(2, FALSE, schema, fields)
             p == LogStep(SealedTurnPayload(0, 1, schema, fields))
             q == d.logs[1].steps
  <1>1. /\ Files(d.logs) = {1} /\ d.logs[1] \in Bundle(d).logs
        /\ q = IF kind = "altered" THEN [s EXCEPT ![1].nonce = -1] ELSE s
        /\ kind = "misplayed" => TermsRead(d).grid = "agreed"
    BY OpponentFacts
  <1>2. DOMAIN s = 1 .. 2 /\ 1 \in DOMAIN s /\ s[1] = p /\ s # <<>>
    BY DEF LogSteps
  <1> HIDE DEF d
  <1>3. /\ p.nonce = 1 /\ p.schema = schema /\ p.fields = fields /\ p.commit_hash.nonce = 1
        /\ [p EXCEPT !.nonce = -1].nonce = -1
        /\ [p EXCEPT !.nonce = -1].schema = schema
        /\ [p EXCEPT !.nonce = -1].commit_hash.nonce = 1
    BY SealedStep
  <1> HIDE DEF p, s, schema, fields, q
  <1>4. 1 \in DOMAIN q /\ q # <<>> /\ q[1] = IF kind = "altered" THEN [p EXCEPT !.nonce = -1] ELSE p
    BY <1>1, <1>2
  <1>5. q[1].schema = schema
    BY <1>3, <1>4
  <1>6. ASSUME kind = "legacy"  PROVE ~VerifySide(d).independently_verified
    <2>1. Min({1}) = 1
      <3>1. {1} \subseteq Nat /\ {1} # {}
        OBVIOUS
      <3>2. Min({1}) \in {1}
        BY <3>1, FirstSlot
      <3> QED  BY <3>2
    <2>2. schema = "legacy"
      BY <1>6 DEF schema
    <2>3. PeekSchema(d) = "legacy"
      BY <1>1, <1>4, <1>5, <2>1, <2>2 DEF PeekSchema, q
    <2> QED  BY <2>3 DEF VerifySide
  <1>7. ASSUME kind \in {"misplayed", "altered"}
        PROVE  VerifySide(d).independently_verified /\ ~VerifySide(d).ok
    <2>1. schema = "current"
      BY <1>7 DEF schema
    <2>2. AllCurrent(d)
      BY <1>1, <1>5, <2>1 DEF AllCurrent, q
    <2>3. ~VerifyLog(d.logs[1], TermsRead(d).grid)
      <3>1. CASE kind = "misplayed"
        <4>1. q[1].fields = "out_of_bounds"
          BY <1>3, <1>4, <3>1 DEF fields
        <4> QED  BY <1>1, <1>4, <3>1, <4>1 DEF VerifyLog, FieldsAllowed, q
      <3>2. CASE kind = "altered"
        <4>1. q[1].nonce = -1 /\ q[1].commit_hash.nonce = 1
          BY <1>3, <1>4, <3>2
        <4>2. CanonicalDict(PayloadFromStep(q[1])).nonce = q[1].nonce
          BY DEF CanonicalDict, PayloadFromStep, SealedTurnPayload
        <4>3. q[1].commit_hash # CanonicalDict(PayloadFromStep(q[1]))
          BY <4>1, <4>2
        <4> QED  BY <1>4, <4>3 DEF VerifyLog, AuditClean, q
      <3> QED  BY <1>7, <3>1, <3>2
    <2>4. ~VerifyReplay(d)
      BY <1>1, <2>3 DEF VerifyReplay
    <2> QED  BY <2>2, <2>4, CurrentIsVerified
  <1> QED  BY <1>6, <1>7 DEF d

\* A directory that passes its own checks holds one series, and nothing in it
\* was altered in a way the checks cover.
LEMMA VerifiedIsOne ==
  ASSUME DistinctScores, PostInv, cmd \notin {"series", "writing"}, ~torn, VerifyReplay(dir)
  PROVE  edit \in {"none", "unchecked"} /\ OneSeries /\ ~NonceReused
  <1>1. runs \in Nat /\ RunsWritten = runs
    BY DEF PostInv, DirInv, FileInv, RunsWritten
  <1>2. ~NonceReused
    BY DEF VerifyReplay, VerifyLog, NonceReused
  <1>3. CASE edit = "none"
    <2>1. DirShape(dir)
      BY <1>3 DEF PostInv, DirInv, FileInv, WrittenBy
    <2>2. dir # EmptyDir
      BY DEF EmptyDir, VerifyReplay, HasRequired
    <2>3. PICK g \in GameSeqs, R \in SUBSET Slots, a \in AgreementSet, t \in Terms,
               b \in 1 .. runs : Holds(dir, HonestSet(g, R, a, t, b), Len(g), b)
      BY <1>1, <1>3, <2>2 DEF PostInv, DirInv, LatestInv
    <2>4. b \in Nat \ {0} /\ IsHonest(HonestSet(g, R, a, t, b), g, a, t, b)
      BY <1>1, SetIsHonest
    <2>5. OneSeries
      BY <2>1, <2>3, <2>4, VerifiedWhenComplete
    <2> QED  BY <1>2, <1>3, <2>5
  <1>4. CASE edit # "none"
    <2>1. ~VerifyRaises(dir)
      BY DEF VerifyReplay
    <2>2. edit = "unchecked" /\ OneSeries
      BY <1>4, <2>1, EditFacts DEF PostInv
    <2> QED  BY <1>2, <2>2
  <1> QED  BY <1>3, <1>4

\* The viewer's banner and exit code tell of both sides what the checks can, for every
\* directory that series and alterations can leave and whatever the opponent published.
THEOREM PostBannerHonest ==
  ASSUME DistinctScores  PROVE PostSpec => []BannerHonest
  <1>1. PostInv => BannerHonest
    <2> SUFFICES ASSUME PostInv, cmd = "viewer", ~torn
                 PROVE  /\ shown.banner = "VERIFIED" =>
                             /\ shown.opponent \in {"sound", "regridded"}
                             /\ edit \in {"none", "unchecked"} /\ OneSeries
                        /\ shown.opponent \in {"misplayed", "altered"} \/ edit = "content" =>
                             shown.banner = "TAMPERED" /\ shown.exit = 2
                        /\ shown.banner = "TAMPERED" <=> shown.exit = 2
      BY DEF BannerHonest
    <2> DEFINE o == OpponentDir(shown.opponent)
               F == FullBilateral(o, dir)
               V == VerificationOk(o, dir)
    <2>1. /\ shown.opponent \in {"sound", "legacy", "misplayed", "regridded", "altered"}
          /\ shown.exit = IF V THEN 0 ELSE 2
          /\ shown.banner = IF F THEN "VERIFIED" ELSE IF ~V THEN "TAMPERED" ELSE "PARTIAL"
      BY DEF PostInv, ShownInv, Banner, Opponents
    <2>2. F => /\ VerifySide(dir).independently_verified /\ VerifySide(dir).ok
               /\ VerifySide(o).independently_verified /\ VerifySide(o).ok
      BY DEF FullBilateral
    <2>3. V <=> VerifySide(dir).ok /\ (VerifySide(o).independently_verified => VerifySide(o).ok)
      BY DEF VerificationOk
    <2>4. /\ shown.opponent = "legacy" => ~VerifySide(o).independently_verified
          /\ shown.opponent \in {"misplayed", "altered"} =>
               VerifySide(o).independently_verified /\ ~VerifySide(o).ok
      BY OpponentVerdicts
    <2>5. VerifySide(dir).independently_verified /\ VerifySide(dir).ok => VerifyReplay(dir)
      BY DEF VerifySide
    <2>6. VerifyReplay(dir) => edit \in {"none", "unchecked"} /\ OneSeries
      BY VerifiedIsOne
    <2>7. edit = "content" => VerifySide(dir).independently_verified /\ ~VerifySide(dir).ok
      <3> SUFFICES ASSUME edit = "content"
                   PROVE  VerifySide(dir).independently_verified /\ ~VerifySide(dir).ok
        OBVIOUS
      <3>1. AllCurrent(dir) /\ ~VerifyReplay(dir)
        BY EditFacts DEF PostInv
      <3> QED  BY <3>1, CurrentIsVerified
    <2> HIDE DEF F, V, o
    <2>8. F => V
      BY <2>2, <2>3
    <2>9. shown.banner = "VERIFIED" =>
            /\ shown.opponent \in {"sound", "regridded"}
            /\ edit \in {"none", "unchecked"} /\ OneSeries
      BY <2>1, <2>2, <2>4, <2>5, <2>6
    <2>10. shown.opponent \in {"misplayed", "altered"} \/ edit = "content" => ~V
      BY <2>3, <2>4, <2>7
    <2> QED  BY <2>1, <2>8, <2>9, <2>10
  <1> QED  BY <1>1, PostInvariant, PTL

-----------------------------------------------------------------------------
(* The report that leaves the machine.                                     *)

\* The steps that the logs of the sub-games S hold, and that their entries claim.
LoggedSteps(logs, S) == MapThenSumSet(LAMBDA n : Len(logs[n].steps), S)

ClaimedSteps(entries, S) == MapThenSumSet(LAMBDA i : entries[i].steps, S)

\* Both are the same when each log has as many steps as its entry says.
LEMMA SumsAgree ==
  ASSUME NEW S, NEW logs, NEW entries, \A n \in S : Len(logs[n].steps) = entries[n].steps
  PROVE  LoggedSteps(logs, S) = ClaimedSteps(entries, S)
  <1> DEFINE C(s) == CHOOSE x \in s : TRUE
             F(h) == [s \in SUBSET S |->
                        IF s = {} THEN 0 ELSE Len(logs[C(s)].steps) + h[s \ {C(s)}]]
             G(h) == [s \in SUBSET S |->
                        IF s = {} THEN 0 ELSE entries[C(s)].steps + h[s \ {C(s)}]]
  <1>1. \A h : F(h) = G(h)
    <2>1. \A s \in SUBSET S : s # {} => C(s) \in S
      OBVIOUS
    <2> HIDE DEF C
    <2> QED  BY <2>1
  <1> HIDE DEF F, G
  <1>2. (CHOOSE h : h = F(h)) = (CHOOSE h : h = G(h))
    BY <1>1, Zenon
  <1>3. LoggedSteps(logs, S) = (CHOOSE h : h = F(h))[S]
    BY Zenon DEF LoggedSteps, MapThenSumSet, MapThenFoldSet, F
  <1>4. ClaimedSteps(entries, S) = (CHOOSE h : h = G(h))[S]
    BY Zenon DEF ClaimedSteps, MapThenSumSet, MapThenFoldSet, G
  <1> QED  BY <1>2, <1>3, <1>4

\* In a directory that verifies, whichever writers died, the result accounts for
\* the logs: their number is the number of entries and none of the first is missing.
LEMMA WrittenIsAccounted ==
  ASSUME NEW d, NEW r, WrittenBy(d, r), VerifyReplay(d)
  PROVE  StepsAccounted(d)
  <1>1. PICK g \in GameSeqs : \E a \in AgreementSet, t \in Terms, b \in 1 .. r :
                                HonestResult(d.result, g, a, t, b)
    BY DEF WrittenBy, VerifyReplay, HasRequired
  <1> DEFINE e == d.result.sub_games
             m == Len(g)
             F == Files(d.logs)
  <1>2. HonestEntries(e, g) /\ Len(e) = m /\ DOMAIN e = 1 .. m /\ m \in Nat \ {0}
    BY <1>1, GamesAreSequences DEF HonestResult, HonestEntries
  <1>3. Cardinality(F) = m
    BY <1>2 DEF VerifyReplay, CountsAgree
  <1>4. /\ \A n \in F : n \in Nat \ {0} /\ \A k \in 1 .. n : k \in F
        /\ IsFiniteSet(F)
    <2>1. F \subseteq Slots
      BY DEF Files
    <2>2. ASSUME NEW n \in F, NEW k \in 1 .. n  PROVE k \in F
      <3>1. n \in Slots /\ d.logs[n] # NoFile
        BY DEF Files
      <3>2. d.logs[k] # NoFile
        BY <3>1 DEF WrittenBy
      <3>3. k \in Slots
        BY <3>1, PostGameAssumption
      <3> QED  BY <3>2, <3>3 DEF Files
    <2> QED  BY <2>1, <2>2, SlotsFinite
  <1>5. F = 1 .. m
    <2> HIDE DEF F, m
    <2>1. ASSUME NEW n \in F  PROVE n \in 1 .. m
      <3>1. 1 .. n \subseteq F /\ n \in Nat \ {0}
        BY <1>4
      <3>2. Cardinality(1 .. n) = n
        BY <3>1, FS_Interval
      <3>3. n <= m
        BY <1>3, <1>4, <3>1, <3>2, FS_Subset
      <3> QED  BY <1>2, <3>1, <3>3
    <2>2. IsFiniteSet(1 .. m) /\ Cardinality(1 .. m) = m
      BY <1>2, FS_Interval
    <2> QED  BY <1>3, <2>1, <2>2, FS_Subset
  <1>6. ASSUME NEW n \in F  PROVE Len(d.logs[n].steps) = e[n].steps
    <2>1. n \in Slots /\ d.logs[n] # NoFile /\ d.logs[n] \in Bundle(d).logs
      BY DEF Files, Bundle
    <2>2. d.logs[n].sub_game_number = n
      <3>1. PICK c \in 0 .. Threshold + 1, t \in Terms, b \in 1 .. r :
                   HonestLog(d.logs[n], n, c, t, b)
        BY <2>1 DEF WrittenBy
      <3> QED  BY <3>1, LogFields
    <2>3. n \in 1 .. m /\ n \in DOMAIN e
      BY <1>2, <1>5
    <2>4. e[n].sub_game_number = n
      BY <1>2, <2>3, EntryFields
    <2> QED  BY <2>1, <2>2, <2>3, <2>4 DEF VerifyReplay, StepCountsAgree
  <1> QED  BY <1>2, <1>5, <1>6 DEF StepsAccounted

\* The same of every directory that verifies, altered or not.
LEMMA VerifiedIsAccounted ==
  ASSUME DistinctScores, PostInv, VerifyReplay(dir)
  PROVE  StepsAccounted(dir)
  <1>2. CASE edit = "none"
    BY <1>2, WrittenIsAccounted DEF PostInv, DirInv, FileInv
  <1>3. CASE edit # "none"
    <2>1. ~VerifyRaises(dir)
      BY DEF VerifyReplay
    <2> QED  BY <1>3, <2>1, EditFacts DEF PostInv
  <1> QED  BY <1>2, <1>3

\* What the gate guarantees of a mailed report, for every directory that series and
\* alterations can leave: it is coherent whatever the files are; unless a writer died,
\* they are of one series and no edit that a check covers was made; an opponent's
\* files that a check refuses stop it.
THEOREM PostReportGated ==
  ASSUME DistinctScores  PROVE PostSpec => []ReportGated
  <1>1. PostInv => ReportGated
    <2> SUFFICES ASSUME PostInv, report.sent > 0  PROVE ReportGated
      BY DEF ReportGated
    <2>1. /\ cmd = "reported" /\ shown.opponent \in Opponents \union {"none"}
          /\ GatePasses(shown.opponent) /\ report.body = ReportBody(dir)
      BY DEF PostInv, SendInv, ShownInv
    <2>2. VerifyReplay(dir)
      <3>1. CASE shown.opponent = "none"
        BY <2>1, <3>1 DEF GatePasses
      <3>2. CASE shown.opponent # "none"
        <4>1. VerifySide(dir).independently_verified /\ VerifySide(dir).ok
          BY <2>1, <3>2 DEF GatePasses, FullBilateral
        <4> QED  BY <4>1 DEF VerifySide
      <3> QED  BY <3>1, <3>2
    <2>3. shown.opponent \in {"none", "sound", "regridded"}
      <3> SUFFICES ASSUME shown.opponent # "none"
                   PROVE  shown.opponent \in {"sound", "regridded"}
        OBVIOUS
      <3> DEFINE o == OpponentDir(shown.opponent)
      <3>1. VerifySide(o).independently_verified /\ VerifySide(o).ok
        BY <2>1 DEF GatePasses, FullBilateral
      <3>2. /\ shown.opponent = "legacy" => ~VerifySide(o).independently_verified
            /\ shown.opponent \in {"misplayed", "altered"} => ~VerifySide(o).ok
        BY OpponentVerdicts
      <3> HIDE DEF o
      <3> QED  BY <2>1, <3>1, <3>2 DEF Opponents
    <2>4. torn \/ (edit \in {"none", "unchecked"} /\ OneSeries /\ ~NonceReused)
      BY <2>1, <2>2, VerifiedIsOne
    <2> DEFINE e == dir.result.sub_games
               b == report.body
    <2>5. /\ b.total_steps = LoggedSteps(dir.logs, Files(dir.logs))
          /\ b.sub_game_outcomes = e
          /\ b.scores = dir.result.totals
          /\ b.agreement_status = dir.result.agreement_status
      <3>1. b = [game_uid |-> dir.declaration.game_uid, sub_game_outcomes |-> e,
                 scores |-> dir.result.totals,
                 agreement_status |-> dir.result.agreement_status,
                 total_steps |-> LoggedSteps(dir.logs, Files(dir.logs))]
        BY <2>1, Zenon DEF ReportBody, LoggedSteps
      <3> HIDE DEF b, e
      <3> QED  BY <3>1
    <2>6. LoggedSteps(dir.logs, Files(dir.logs)) = ClaimedSteps(e, DOMAIN e)
      <3>1. /\ Files(dir.logs) = DOMAIN e
            /\ \A n \in DOMAIN e : Len(dir.logs[n].steps) = e[n].steps
        BY <2>2, VerifiedIsAccounted DEF StepsAccounted
      <3> QED  BY <3>1, SumsAgree
    <2>7. dir.result.totals = IF dir.result.agreement_status = "disputed_zeroed"
                              THEN <<0, 0>> ELSE Totals(e)
      BY <2>2 DEF VerifyReplay, VerifyScores
    <2> HIDE DEF e, b
    <2>8. /\ b.total_steps = ClaimedSteps(b.sub_game_outcomes, DOMAIN b.sub_game_outcomes)
          /\ b.scores = IF b.agreement_status = "disputed_zeroed"
                        THEN <<0, 0>> ELSE Totals(b.sub_game_outcomes)
      BY <2>5, <2>6, <2>7
    <2> QED  BY <2>3, <2>4, <2>8, Zenon DEF ReportGated, ClaimedSteps, b
  <1> QED  BY <1>1, PostInvariant, PTL

-----------------------------------------------------------------------------
(* The playback of the viewer.                                             *)

\* So every result a directory can hold has.
LEMMA DirHasEntries ==
  ASSUME DirInv  PROVE dir.result = NoFile \/ HasEntries(dir.result)
  <1>1. CASE edit = "none"
    <2> SUFFICES ASSUME dir.result # NoFile  PROVE HasEntries(dir.result)
      OBVIOUS
    <2>1. PICK g \in GameSeqs, a \in AgreementSet, t \in Terms, b \in 1 .. RunsWritten :
                 HonestResult(dir.result, g, a, t, b)
      BY <1>1 DEF DirInv, FileInv, WrittenBy
    <2> QED  BY <2>1, GamesAreSequences, HonestHasEntries
  <1>2. CASE edit # "none"
    BY <1>2, EditFacts
  <1> QED  BY <1>1, <1>2

\* The last step of sub-game i that the viewer can show.
StepLimit(i) == IF SubGames = <<>> THEN 0 ELSE Max({0, SubGames[i].steps_total - 1})

PlaybackStates == [sub_game_index : Nat, step : Nat, playing : BOOLEAN, ticks : Nat]

\* The viewer stands on a step of a sub-game there is.
PlaybackInv ==
  /\ playback \in PlaybackStates
  /\ playback.playing => playback.ticks > 0
  /\ cmd # "viewer" => playback = Paused
  /\ cmd = "viewer" => /\ playback.sub_game_index \in DOMAIN SubGames
                       /\ playback.step <= StepLimit(playback.sub_game_index)

\* The larger and the smaller of two numbers.
LEMMA MaxOfTwo ==
  ASSUME NEW x \in Int, NEW y \in Int
  PROVE  Max({x, y}) = (IF x >= y THEN x ELSE y) /\ Min({x, y}) = (IF x <= y THEN x ELSE y)
  <1>1. Max({x, y}) = IF x >= y THEN x ELSE y
    <2> DEFINE m == IF x >= y THEN x ELSE y
    <2>1. \A z \in {x, y} : (\A w \in {x, y} : z >= w) <=> z = m
      OBVIOUS
    <2>2. m \in {x, y}
      OBVIOUS
    <2> HIDE DEF m
    <2>3. Max({x, y}) = m
      BY <2>1, <2>2 DEF Max
    <2> QED  BY <2>3 DEF m
  <1>2. Min({x, y}) = IF x <= y THEN x ELSE y
    <2> DEFINE m == IF x <= y THEN x ELSE y
    <2>1. \A z \in {x, y} : (\A w \in {x, y} : z <= w) <=> z = m
      OBVIOUS
    <2>2. m \in {x, y}
      OBVIOUS
    <2> HIDE DEF m
    <2>3. Min({x, y}) = m
      BY <2>1, <2>2 DEF Min
    <2> QED  BY <2>3 DEF m
  <1> QED  BY <1>1, <1>2

\* The viewer always has a first sub-game, and each of its sub-games a last step.
LEMMA ViewerHasGames ==
  ASSUME DirInv
  PROVE  /\ 1 \in DOMAIN SubGames /\ SubGames # <<>> /\ DOMAIN SubGames \subseteq Nat
         /\ \A i \in DOMAIN SubGames :
              /\ SubGames[i].steps_total \in Nat
              /\ StepLimit(i) = IF SubGames[i].steps_total = 0 THEN 0
                                ELSE SubGames[i].steps_total - 1
              /\ StepLimit(i) \in Nat
  <1> DEFINE o == OpponentDir("sound")
             r == IF dir.result # NoFile THEN dir.result ELSE o.result
  <1>1. o.result # NoFile /\ HasEntries(o.result)
    <2> DEFINE g == <<[result |-> "capture", steps |-> 2]>>
               u == CHOOSE t \in Terms : TRUE
    <2>1. o.result = ResultArtifact(g, "agreed", u, MaxSeries + 1)
      BY OpponentFacts
    <2>2. DOMAIN g = 1 .. 1 /\ g[1].steps = 2
      OBVIOUS
    <2> HIDE DEF o, g, u
    <2>3. o.result.by = MaxSeries + 1 /\ o.result.sub_games = ResultEntries(g)
      BY <2>1 DEF ResultArtifact
    <2>4. o.result # NoFile
      BY <2>3, FilesAreFiles, PostGameAssumption
    <2>5. DOMAIN ResultEntries(g) = 1 .. 1 /\ \A i \in 1 .. 1 : ResultEntries(g)[i].steps = 2
      BY <2>2 DEF ResultEntries
    <2>6. HasEntries(o.result)
      BY <2>3, <2>5 DEF HasEntries
    <2> QED  BY <2>4, <2>6
  <1>2. HasEntries(r)
    BY <1>1, DirHasEntries
  <1>3. SubGames = [i \in DOMAIN r.sub_games |-> BuildSubGame(r.sub_games[i], o, dir)]
    BY <1>1 DEF SubGames, ReplaySubGames
  <1> HIDE DEF o, r
  <1>4. PICK m \in Nat \ {0} : /\ DOMAIN r.sub_games = 1 .. m
                               /\ \A i \in 1 .. m : r.sub_games[i].steps \in Nat
    BY <1>2 DEF HasEntries
  <1>5. DOMAIN SubGames = 1 .. m
    BY <1>3, <1>4
  <1>6. \A i \in 1 .. m : SubGames[i].steps_total \in Nat
    BY <1>3, <1>4 DEF BuildSubGame
  <1>7. 1 \in DOMAIN SubGames /\ SubGames # <<>> /\ DOMAIN SubGames \subseteq Nat
    BY <1>5
  <1>8. ASSUME NEW i \in 1 .. m
        PROVE  StepLimit(i) = IF SubGames[i].steps_total = 0 THEN 0
                              ELSE SubGames[i].steps_total - 1
    <2> DEFINE c == SubGames[i].steps_total
    <2>1. c \in Nat
      BY <1>6
    <2>2. StepLimit(i) = Max({0, c - 1})
      BY <1>7 DEF StepLimit
    <2> HIDE DEF c
    <2>3. Max({0, c - 1}) = IF 0 >= c - 1 THEN 0 ELSE c - 1
      BY <2>1, MaxOfTwo
    <2>4. StepLimit(i) = IF c = 0 THEN 0 ELSE c - 1
      BY <2>1, <2>2, <2>3
    <2> QED  BY <2>4 DEF c
  <1>9. \A i \in 1 .. m : StepLimit(i) \in Nat
    BY <1>6, <1>8
  <1> QED  BY <1>5, <1>6, <1>7, <1>8, <1>9

\* advance_if_playing stays within the sub-game, and stops or has a tick pending.
LEMMA AfterTickKept ==
  ASSUME PlaybackInv, MaxStep \in Nat, NEW p \in PlaybackStates, p.step <= MaxStep
  PROVE  /\ AfterTick(p) \in PlaybackStates
         /\ AfterTick(p).sub_game_index = p.sub_game_index
         /\ AfterTick(p).step <= MaxStep
         /\ AfterTick(p).playing => AfterTick(p).ticks > 0
  <1> HIDE DEF MaxStep
  <1>1. CASE ~p.playing
    <2>1. AfterTick(p) = p
      BY <1>1 DEF AfterTick
    <2> QED  BY <1>1, <2>1
  <1>2. CASE p.playing /\ p.step >= MaxStep
    <2>1. AfterTick(p) = [p EXCEPT !.playing = FALSE]
      BY <1>2 DEF AfterTick
    <2> QED  BY <2>1 DEF PlaybackStates
  <1>3. CASE p.playing /\ ~(p.step >= MaxStep)
    <2>1. AfterTick(p) = [p EXCEPT !.step = p.step + 1, !.ticks = p.ticks + 1]
      BY <1>3 DEF AfterTick
    <2>2. /\ p.sub_game_index \in Nat /\ p.step \in Nat /\ p.ticks \in Nat
          /\ p.playing \in BOOLEAN
          /\ p = [sub_game_index |-> p.sub_game_index, step |-> p.step,
                  playing |-> p.playing, ticks |-> p.ticks]
      BY DEF PlaybackStates
    <2>3. AfterTick(p) = [sub_game_index |-> p.sub_game_index, step |-> p.step + 1,
                          playing |-> p.playing, ticks |-> p.ticks + 1]
      BY <2>1, <2>2
    <2>4. AfterTick(p) \in PlaybackStates
      BY <2>2, <2>3 DEF PlaybackStates
    <2>5. /\ AfterTick(p).step = p.step + 1 /\ AfterTick(p).ticks = p.ticks + 1
          /\ AfterTick(p).sub_game_index = p.sub_game_index
      BY <2>3
    <2> QED  BY <1>3, <2>2, <2>4, <2>5
  <1> QED  BY <1>1, <1>2, <1>3

\* A step of the viewer to a playback state that stands on a step there is.
LEMMA PlaybackSet ==
  ASSUME PlaybackInv, NEW p \in PlaybackStates, SetPlayback(p),
         p.playing => p.ticks > 0,
         p.sub_game_index \in DOMAIN SubGames, p.step <= StepLimit(p.sub_game_index)
  PROVE  PlaybackInv'
  <1>1. playback' = p /\ dir' = dir /\ cmd = "viewer" /\ cmd' = "viewer"
    BY DEF SetPlayback, dirVars
  <1>2. SubGames' = SubGames
    BY <1>1 DEF SubGames
  <1>3. \A i : StepLimit(i)' = StepLimit(i)
    BY <1>2 DEF StepLimit
  <1>4. StepLimit(playback.sub_game_index)' = StepLimit(p.sub_game_index)
    BY <1>1, <1>2 DEF StepLimit
  <1> QED  BY <1>1, <1>2, <1>4 DEF PlaybackInv

\* Every step preserves PlaybackInv.
LEMMA NextPlayback == PostInv /\ PlaybackInv /\ [PostNext]_postVars => PlaybackInv'
  <1> SUFFICES ASSUME PostInv, PlaybackInv, [PostNext]_postVars  PROVE PlaybackInv'
    OBVIOUS
  <1>1. DirInv
    BY DEF PostInv
  <1>2. CASE cmd # "viewer" /\ cmd' # "viewer" /\ playback' = playback
    BY <1>2 DEF PlaybackInv
  <1>3. CASE OpenReplay
    <2>1. cmd = "idle" /\ cmd' = "viewer" /\ dir' = dir /\ playback' = playback
      BY <1>3 DEF OpenReplay, dirVars
    <2>2. SubGames' = SubGames
      BY <2>1 DEF SubGames
    <2>3. StepLimit(playback.sub_game_index)' = StepLimit(playback.sub_game_index)
      BY <2>1, <2>2 DEF StepLimit
    <2>4. playback.sub_game_index = 1 /\ playback.step = 0
      BY <2>1 DEF PlaybackInv, Paused
    <2>5. 1 \in DOMAIN SubGames /\ StepLimit(1) \in Nat
      BY <1>1, ViewerHasGames
    <2>6. playback.step <= StepLimit(playback.sub_game_index)
      BY <2>4, <2>5
    <2> QED  BY <2>1, <2>2, <2>3, <2>4, <2>5, <2>6 DEF PlaybackInv
  <1>4. CASE Select \/ Navigate \/ TogglePlay \/ Tick
    <2> DEFINE i == playback.sub_game_index
    <2>1. cmd = "viewer"
      BY <1>4 DEF Select, Navigate, TogglePlay, Tick, SetPlayback
    <2>2. /\ playback \in PlaybackStates /\ (playback.playing => playback.ticks > 0)
          /\ i \in DOMAIN SubGames /\ playback.step <= StepLimit(i)
      BY <2>1 DEF PlaybackInv
    <2>3. MaxStep = StepLimit(i) /\ MaxStep \in Nat
      BY <1>1, <2>2, ViewerHasGames DEF MaxStep, StepLimit
    <2>4. CASE Select
      <3>1. PICK k \in DOMAIN SubGames :
                   SetPlayback([playback EXCEPT !.sub_game_index = k, !.step = 0])
        BY <2>4 DEF Select
      <3> DEFINE p == [playback EXCEPT !.sub_game_index = k, !.step = 0]
      <3>2. k \in Nat /\ StepLimit(k) \in Nat
        BY <1>1, <3>1, ViewerHasGames
      <3>3. /\ p \in PlaybackStates /\ p.sub_game_index = k /\ p.step = 0
            /\ p.playing = playback.playing /\ p.ticks = playback.ticks
        BY <2>2, <3>2 DEF PlaybackStates
      <3>4. SetPlayback(p)
        BY <3>1
      <3> HIDE DEF p
      <3>5. p.step <= StepLimit(p.sub_game_index)
        BY <3>2, <3>3
      <3> QED  BY <2>2, <3>1, <3>3, <3>4, <3>5, PlaybackSet
    <2>5. CASE Navigate
      <3>1. PICK s \in {0, MaxStep, Max({0, playback.step - 1}),
                        Min({MaxStep, playback.step + 1})} :
                   SetPlayback([playback EXCEPT !.step = s])
        BY <2>5 DEF Navigate
      <3>2. s \in Nat /\ s <= MaxStep
        <4> HIDE DEF MaxStep
        <4>1. playback.step \in Nat
          BY <2>2 DEF PlaybackStates
        <4>2. Max({0, playback.step - 1})
                = IF 0 >= playback.step - 1 THEN 0 ELSE playback.step - 1
          BY <4>1, MaxOfTwo
        <4>3. Min({MaxStep, playback.step + 1})
                = IF MaxStep <= playback.step + 1 THEN MaxStep ELSE playback.step + 1
          <5>1. MaxStep \in Int /\ playback.step + 1 \in Int
            BY <2>3, <4>1
          <5> DEFINE x == MaxStep
                     y == playback.step + 1
          <5>2. x \in Int /\ y \in Int
            BY <5>1
          <5> HIDE DEF x, y
          <5>3. Min({x, y}) = IF x <= y THEN x ELSE y
            BY <5>2, MaxOfTwo
          <5> QED  BY <5>3 DEF x, y
        <4> QED  BY <2>2, <2>3, <3>1, <4>1, <4>2, <4>3
      <3> DEFINE p == [playback EXCEPT !.step = s]
      <3>3. /\ p \in PlaybackStates /\ p.sub_game_index = i /\ p.step = s
            /\ p.playing = playback.playing /\ p.ticks = playback.ticks
        BY <2>2, <3>2 DEF PlaybackStates
      <3>4. SetPlayback(p)
        BY <3>1
      <3> HIDE DEF p
      <3>5. p.step <= StepLimit(p.sub_game_index)
        BY <2>3, <3>2, <3>3
      <3> QED  BY <2>2, <3>3, <3>4, <3>5, PlaybackSet
    <2>6. CASE TogglePlay
      <3>1. CASE playback.playing
        <4> DEFINE p == [playback EXCEPT !.playing = FALSE]
        <4>1. SetPlayback(p)
          BY <2>6, <3>1 DEF TogglePlay
        <4>2. /\ p \in PlaybackStates /\ p.sub_game_index = i /\ p.step = playback.step
              /\ ~p.playing
          BY <2>2 DEF PlaybackStates
        <4> HIDE DEF p
        <4>3. p.step <= StepLimit(p.sub_game_index)
          BY <2>2, <4>2
        <4> QED  BY <2>2, <4>1, <4>2, <4>3, PlaybackSet
      <3>2. CASE ~playback.playing
        <4> DEFINE q == [playback EXCEPT !.playing = TRUE]
        <4>1. SetPlayback(AfterTick(q))
          BY <2>6, <3>2 DEF TogglePlay
        <4>2. q \in PlaybackStates /\ q.sub_game_index = i /\ q.step = playback.step
          BY <2>2 DEF PlaybackStates
        <4> HIDE DEF q
        <4>3. q.step <= MaxStep
          BY <2>2, <2>3, <4>2
        <4> DEFINE p == AfterTick(q)
        <4>4. /\ p \in PlaybackStates /\ p.sub_game_index = i /\ p.step <= MaxStep
              /\ p.playing => p.ticks > 0
          BY <2>3, <4>2, <4>3, AfterTickKept
        <4>5. SetPlayback(p)
          BY <4>1
        <4> HIDE DEF p
        <4>6. p.step <= StepLimit(p.sub_game_index)
          BY <2>3, <4>4
        <4> QED  BY <2>2, <4>4, <4>5, <4>6, PlaybackSet
      <3> QED  BY <3>1, <3>2
    <2>7. CASE Tick
      <3> DEFINE q == [playback EXCEPT !.ticks = @ - 1]
      <3>1. SetPlayback(AfterTick(q)) /\ playback.ticks > 0
        BY <2>7 DEF Tick
      <3>2. q \in PlaybackStates /\ q.sub_game_index = i /\ q.step = playback.step
        BY <2>2, <3>1 DEF PlaybackStates
      <3> HIDE DEF q
      <3>3. q.step <= MaxStep
        BY <2>2, <2>3, <3>2
      <3> DEFINE p == AfterTick(q)
      <3>4. /\ p \in PlaybackStates /\ p.sub_game_index = i /\ p.step <= MaxStep
            /\ p.playing => p.ticks > 0
        BY <2>3, <3>2, <3>3, AfterTickKept
      <3>5. SetPlayback(p)
        BY <3>1
      <3> HIDE DEF p
      <3>6. p.step <= StepLimit(p.sub_game_index)
        BY <2>3, <3>4
      <3> QED  BY <2>2, <3>4, <3>5, <3>6, PlaybackSet
    <2> QED  BY <1>4, <2>4, <2>5, <2>6, <2>7
  <1>5. CASE StartSeries \/ PlaySeries \/ SeriesRaised \/ BeginWrite
    BY <1>2, <1>5 DEF StartSeries, PlaySeries, SeriesRaised, BeginWrite
  <1>6. CASE SaveNext \/ WriterDies \/ AlterFile \/ RunVerify \/ ReplayRaises
    BY <1>2, <1>6 DEF SaveNext, WriterDies, AlterFile, RunVerify, ReplayRaises
  <1>7. CASE RefuseReport \/ BuildReport \/ LoadRaises \/ DryRun
    BY <1>2, <1>7 DEF RefuseReport, BuildReport, LoadRaises, DryRun
  <1>8. CASE NoCredentials \/ ClientFails \/ Submit
    BY <1>2, <1>8 DEF NoCredentials, ClientFails, Submit, Exit
  <1>9. CASE SendOk \/ SendLimited \/ SendFails
    BY <1>2, <1>9 DEF SendOk, SendLimited, SendFails, Exit
  <1>10. CASE Done \/ UNCHANGED postVars
    <2>1. playback' = playback /\ dir' = dir /\ cmd' = cmd
      BY <1>10 DEF Done, postVars, dirVars
    <2>2. SubGames' = SubGames
      BY <2>1 DEF SubGames
    <2>3. StepLimit(playback.sub_game_index)' = StepLimit(playback.sub_game_index)
      BY <2>1, <2>2 DEF StepLimit
    <2> QED  BY <2>1, <2>2, <2>3 DEF PlaybackInv
  <1> QED
    BY <1>3, <1>4, <1>5, <1>6, <1>7, <1>8, <1>9, <1>10 DEF PostNext

\* In a directory that verifies and was not altered, the viewer finds for every
\* sub-game the log with its steps.
LEMMA LogIsFound ==
  ASSUME NEW r, WrittenBy(dir, r), VerifyReplay(dir), NEW i \in DOMAIN SubGames
  PROVE  DOMAIN SubGames[i].thief_steps = 1 .. SubGames[i].steps_total
  <1> DEFINE e == dir.result.sub_games
             L == {f \in Bundle(dir).logs : f.sub_game_number = i}
  <1>1. dir.result # NoFile
    BY DEF VerifyReplay, HasRequired
  <1>2. SubGames = [n \in DOMAIN e |-> BuildSubGame(e[n], OpponentDir("sound"), dir)]
    BY <1>1 DEF SubGames, ReplaySubGames
  <1>3. StepsAccounted(dir)
    BY WrittenIsAccounted
  <1>4. i \in Files(dir.logs) /\ i \in DOMAIN e /\ Len(dir.logs[i].steps) = e[i].steps
    BY <1>2, <1>3 DEF StepsAccounted
  <1>5. /\ SubGames[i].steps_total = e[i].steps
        /\ SubGames[i].thief_steps = StepsFor(dir, e[i].sub_game_number)
    BY <1>2, <1>4 DEF BuildSubGame
  <1>6. e[i].sub_game_number = i
    <2>1. PICK g \in GameSeqs, a \in AgreementSet, t \in Terms, b \in 1 .. r :
                 HonestResult(dir.result, g, a, t, b)
      BY <1>1 DEF WrittenBy
    <2>2. HonestEntries(e, g) /\ DOMAIN e = 1 .. Len(g)
      BY <2>1 DEF HonestResult, HonestEntries
    <2> QED  BY <1>4, <2>2, EntryFields
  <1>7. ASSUME NEW n \in Files(dir.logs)
        PROVE  /\ dir.logs[n].sub_game_number = n
               /\ DOMAIN dir.logs[n].steps = 1 .. Len(dir.logs[n].steps)
    <2>1. PICK c \in 0 .. Threshold + 1, t \in Terms, b \in 1 .. r :
                 HonestLog(dir.logs[n], n, c, t, b)
      BY DEF WrittenBy, Files
    <2>2. dir.logs[n].sub_game_number = n /\ HonestSteps(dir.logs[n].steps, c)
      BY <2>1, LogFields
    <2> QED  BY <2>2 DEF HonestSteps
  <1>8. L = {dir.logs[i]}
    BY <1>4, <1>7 DEF Bundle
  <1>9. StepsFor(dir, i) = IF L = {} THEN <<>> ELSE (CHOOSE f \in L : TRUE).steps
    BY DEF StepsFor
  <1> HIDE DEF L, e
  <1>10. StepsFor(dir, i) = dir.logs[i].steps
    BY <1>8, <1>9
  <1> QED  BY <1>4, <1>5, <1>6, <1>7, <1>10

\* A playing viewer always has a tick pending, and the step it shows exists, for
\* every order of clicks and ticks, every number of pending ticks and every
\* directory; under a green banner the thief's log has a record for it.
THEOREM PostPlaybackAlive == PostSpec => []PlaybackAlive
  <1>1. PostInit => PlaybackInv
    BY DEF PostInit, PlaybackInv, PlaybackStates, Paused
  <1>2. PostInv /\ PlaybackInv => PlaybackAlive
    <2> SUFFICES ASSUME PostInv, PlaybackInv  PROVE PlaybackAlive
      OBVIOUS
    <2> DEFINE i == playback.sub_game_index
    <2>1. DirInv
      BY DEF PostInv
    <2>2. playback.playing => playback.ticks > 0
      BY DEF PlaybackInv
    <2>3. playback.step \in Nat
      BY DEF PlaybackInv, PlaybackStates
    <2>4. ASSUME cmd = "viewer"
          PROVE  i \in DOMAIN SubGames /\ playback.step <= MaxStep /\ MaxStep = StepLimit(i)
                   /\ MaxStep \in Nat
      <3>1. i \in DOMAIN SubGames /\ playback.step <= StepLimit(i)
        BY <2>4 DEF PlaybackInv
      <3>2. MaxStep = StepLimit(i)
        BY DEF MaxStep, StepLimit
      <3>3. StepLimit(i) \in Nat
        BY <2>1, <3>1, ViewerHasGames
      <3> QED  BY <3>1, <3>2, <3>3
    <2>5. cmd = "viewer" => playback.step \in 0 .. MaxStep
      BY <2>3, <2>4
    <2>6. ASSUME cmd = "viewer", shown.banner = "VERIFIED", edit = "none",
                 SubGames[i].steps_total > 0
          PROVE  playback.step + 1 \in DOMAIN SubGames[i].thief_steps
      <3>1. FullBilateral(OpponentDir(shown.opponent), dir)
        BY <2>6 DEF PostInv, ShownInv, Banner
      <3>2. VerifySide(dir).independently_verified /\ VerifySide(dir).ok
        BY <3>1 DEF FullBilateral
      <3>3. VerifyReplay(dir)
        BY <3>2 DEF VerifySide
      <3>4. WrittenBy(dir, RunsWritten)
        BY <2>1, <2>6 DEF DirInv, FileInv
      <3> DEFINE c == SubGames[i].steps_total
                 T == DOMAIN SubGames[i].thief_steps
      <3>5. T = 1 .. c
        BY <2>4, <2>6, <3>3, <3>4, LogIsFound
      <3>6. c \in Nat /\ StepLimit(i) = IF c = 0 THEN 0 ELSE c - 1
        BY <2>1, <2>4, <2>6, ViewerHasGames
      <3>7. c > 0 /\ playback.step <= StepLimit(i)
        BY <2>4, <2>6
      <3> HIDE DEF c, T
      <3>8. playback.step + 1 \in T
        BY <2>3, <3>5, <3>6, <3>7
      <3> QED  BY <3>8 DEF T
    <2> QED  BY <2>2, <2>5, <2>6 DEF PlaybackAlive
  <1> QED  BY <1>1, <1>2, NextPlayback, PostInvariant, PTL DEF PostSpec

=============================================================================
