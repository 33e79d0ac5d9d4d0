--------------------------- MODULE ReplayVerifier ---------------------------
(***************************************************************************)
(* The artifact set of one peer as files in a directory, and the checks    *)
(* that verify-replay, the replay viewer and the report gate make on it.   *)
(* Hashing is perfect: a commit hash is what it was computed from.         *)
(* A file carries, beside its contents, the series that wrote it (by),     *)
(* which no check can see.                                                 *)
(***************************************************************************)
EXTENDS Integers, Sequences, FiniteSets, FiniteSetsExt

CONSTANTS Slots,       \* the sub-game numbers that occur in file names, 1 .. n
          CaptureCop, CaptureThief, SurvivalCop, SurvivalThief, TechnicalLoss

ASSUME VerifierAssumption ==
  /\ Slots = 1 .. Cardinality(Slots)
  /\ {CaptureCop, CaptureThief, SurvivalCop, SurvivalThief, TechnicalLoss} \subseteq Nat

NoFile == [by |-> 0]

\* The scoring section of the terms of a series.
AgreedScoring ==
  [capture_cop |-> CaptureCop, capture_thief |-> CaptureThief, survival_cop |-> SurvivalCop,
   survival_thief |-> SurvivalThief, technical_loss |-> TechnicalLoss]

\* What the checks read of a config file's terms; the Terms that series are played
\* under differ elsewhere.
AgreedTerms == [grid |-> "agreed", scoring |-> AgreedScoring]

EmptyDir == [declaration |-> NoFile, configs |-> [n \in Slots |-> NoFile],
             logs |-> [n \in Slots |-> NoFile], result |-> NoFile]

Files(slots) == {n \in Slots : slots[n] # NoFile}

\* load_bundle: what the globs find.
Bundle(d) ==
  [configs |-> {d.configs[n] : n \in Files(d.configs)},
   logs    |-> {d.logs[n] : n \in Files(d.logs)},
   single  |-> {d.declaration, d.result} \ {NoFile}]

AllDicts(d) == Bundle(d).configs \union Bundle(d).logs \union Bundle(d).single

-----------------------------------------------------------------------------
(* The checks of replay_verifier and replay_checks.                        *)

GameUidConsistent(d) == Cardinality({f.game_uid : f \in AllDicts(d)}) = 1

ConfigHashesConsistent(d) ==
  Cardinality({f.config_sha256 : f \in Bundle(d).configs \union {d.result}}) = 1

\* Mutant of CountsAgree: the result's own count is not compared.
CountsAgreeFilesOnly(d) == Cardinality(Files(d.configs)) = Cardinality(Files(d.logs))

CountsAgree(d) ==
  /\ Cardinality(Files(d.configs)) = Cardinality(Files(d.logs))
  /\ Cardinality(Files(d.configs)) = Len(d.result.sub_games)

NoDuplicateSubGames(d) ==
  \A kind \in {d.configs, d.logs} : \A m, n \in Files(kind) :
    kind[m].sub_game_number = kind[n].sub_game_number => m = n

\* A result entry whose number no log has is passed over.
StepCountsAgree(d) ==
  \A i \in DOMAIN d.result.sub_games : \A f \in Bundle(d).logs :
    f.sub_game_number = d.result.sub_games[i].sub_game_number
      => Len(f.steps) = d.result.sub_games[i].steps

\* The sealed fields of one step; fields stands for the role-specific ones.
SealedTurnPayload(step, nonce, schema, fields) ==
  [step |-> step, nonce |-> nonce, schema |-> schema, fields |-> fields]

\* What is hashed: the old schema carries the own cell as a state text.
CanonicalDict(p) ==
  [step |-> p.step, nonce |-> p.nonce, schema |-> p.schema, fields |-> p.fields,
   cell |-> IF p.schema = "legacy" THEN "state" ELSE "position"]

\* The payload read back from a log step, whichever form its cell has; the
\* commit hash and any unknown field are not part of it.
PayloadFromStep(s) == SealedTurnPayload(s.step, s.nonce, s.schema, s.fields)

\* audit_sealed_records
AuditClean(steps) ==
  /\ \A k \in DOMAIN steps :
       steps[k].commit_hash = CanonicalDict(PayloadFromStep(steps[k]))
  /\ \A j, k \in DOMAIN steps : steps[j].nonce = steps[k].nonce => j = k

StepsInOrder(steps) == \A k \in DOMAIN steps : steps[k].step = k - 1

\* Bounds of barriers and claims on the grid the config gives, fields of the
\* other role, unknown fields of a record in the current schema.
FieldsAllowed(s, grid) ==
  /\ s.fields = "out_of_bounds" => grid = "larger"
  /\ s.fields # "wrong_role"
  /\ s.unknown => s.schema # "current"

\* Mutant of VerifyLog: the hashes alone are checked.
VerifyLogHashesOnly(f, grid) == AuditClean(f.steps)

VerifyLog(f, grid) ==
  /\ AuditClean(f.steps)
  /\ StepsInOrder(f.steps)
  /\ \A k \in DOMAIN f.steps : FieldsAllowed(f.steps[k], grid)

\* SubGameResult
Results == {"capture", "survival", "technical_loss"}

\* score_sub_game, as <<police, thief>>
ScoreUnder(scoring, result) ==
  CASE result = "capture"        -> <<scoring.capture_cop, scoring.capture_thief>>
    [] result = "survival"       -> <<scoring.survival_cop, scoring.survival_thief>>
    [] result = "technical_loss" -> <<scoring.technical_loss, scoring.technical_loss>>

Score(result) == ScoreUnder(AgreedScoring, result)

\* The sum over the entries, for side 1 (police) or 2 (thief).
Total(entries, side) == MapThenSumSet(LAMBDA i : entries[i].scores[side], DOMAIN entries)

Totals(entries) == <<Total(entries, 1), Total(entries, 2)>>

\* A disputed series must report zeros, every other one the sum.
VerifyScores(r, scoring) ==
  /\ \A i \in DOMAIN r.sub_games :
       r.sub_games[i].scores = ScoreUnder(scoring, r.sub_games[i].result)
  /\ r.totals = IF r.agreement_status = "disputed_zeroed" THEN <<0, 0>>
                ELSE Totals(r.sub_games)

HasRequired(d) == d.result # NoFile /\ Files(d.configs) # {} /\ Files(d.logs) # {}

\* The terms in the first config file.  Nothing compares them with config_sha256,
\* and those of the other config files are not read.
TermsRead(d) == d.configs[Min(Files(d.configs))].terms

\* What ends verify_replay with an exception it does not catch: no grid size, a
\* step without one of its fields, a result of no known kind.
VerifyRaises(d) ==
  /\ HasRequired(d)
  /\ \/ TermsRead(d).grid = "missing"
     \/ \E f \in Bundle(d).logs : \E k \in DOMAIN f.steps : f.steps[k].fields = "missing"
     \/ \E i \in DOMAIN d.result.sub_games : d.result.sub_games[i].result \notin Results

\* verify_replay: VERIFIED exactly when there are no findings.
VerifyReplay(d) ==
  /\ HasRequired(d)
  /\ ~VerifyRaises(d)
  /\ GameUidConsistent(d)
  /\ ConfigHashesConsistent(d)
  /\ CountsAgree(d)
  /\ NoDuplicateSubGames(d)
  /\ StepCountsAgree(d)
  /\ \A f \in Bundle(d).logs : VerifyLog(f, TermsRead(d).grid)
  /\ VerifyScores(d.result, TermsRead(d).scoring)

-----------------------------------------------------------------------------
(* Both sides (bilateral_verify, replay_view_model, VerdictBanner).        *)

\* The schema the first step of the first log declares.
PeekSchema(d) ==
  IF Files(d.logs) = {} THEN "none"
  ELSE LET steps == d.logs[Min(Files(d.logs))].steps
       IN IF steps = <<>> THEN "none" ELSE steps[1].schema

\* A legacy side is not verified but counts as ok.
VerifySide(d) ==
  IF PeekSchema(d) = "legacy"
  THEN [ok |-> TRUE, independently_verified |-> FALSE]
  ELSE [ok |-> VerifyReplay(d), independently_verified |-> TRUE]

\* verify_side catches nothing either.
SideRaises(d) == PeekSchema(d) # "legacy" /\ VerifyRaises(d)

FullBilateral(police, thief) ==
  \A d \in {police, thief} : VerifySide(d).independently_verified /\ VerifySide(d).ok

\* Mutant of VerificationOk: a tampered police side does not count.
VerificationOkOwnOnly(police, thief) == VerifySide(thief).ok

VerificationOk(police, thief) ==
  VerifySide(thief).ok /\ (VerifySide(police).independently_verified => VerifySide(police).ok)

Banner(police, thief) ==
  IF FullBilateral(police, thief) THEN "VERIFIED"
  ELSE IF ~VerificationOk(police, thief) THEN "TAMPERED"
  ELSE "PARTIAL"

\* The steps of the log with that number, none when there is no such log.
StepsFor(d, number) ==
  LET logs == {f \in Bundle(d).logs : f.sub_game_number = number}
  IN IF logs = {} THEN <<>> ELSE (CHOOSE f \in logs : TRUE).steps

BuildSubGame(entry, police, thief) ==
  [steps_total  |-> entry.steps,
   police_steps |-> StepsFor(police, entry.sub_game_number),
   thief_steps  |-> StepsFor(thief, entry.sub_game_number)]

\* The sub-games the viewer offers: the thief's result, or else the police's.
ReplaySubGames(police, thief) ==
  LET entries == IF thief.result # NoFile THEN thief.result.sub_games
                 ELSE IF police.result # NoFile THEN police.result.sub_games
                 ELSE <<>>
  IN [i \in DOMAIN entries |-> BuildSubGame(entries[i], police, thief)]
=============================================================================
