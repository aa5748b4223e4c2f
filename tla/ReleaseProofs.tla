---------------------------- MODULE ReleaseProofs ----------------------------
(***************************************************************************)
(* Proofs about the evidence of Acceptance and the candidates of Release,  *)
(* for any number of sessions, drills, roles, artifacts and configurations *)
(* and any number of repetitions of the steps.                             *)
(*                                                                         *)
(* ReleaseInv says of each file what the step that wrote it saw, and that  *)
(* its hash is what that step computed, whatever is done to the body       *)
(* afterwards.  The review compares bodies with hashes and with each       *)
(* other; a candidate inherits what the hashes are known to say.           *)
(***************************************************************************)
EXTENDS Release, FiniteSetTheorems, WellFoundedInduction, TLAPS

\* A file with a hash, or none.
OnFile(f) == f = None \/ "hash" \in DOMAIN f

\* Finitely many replays, each with a date, and sound if it passed.
ReplaysOK(R) == IsFiniteSet(R) /\ \A p \in R : (p.passed => p.sound) /\ p.date \in Int

\* The drills and replays that passed were sound, and there are finitely many
\* sessions.
EvidenceOK ==
  /\ \A r \in drills : r.passed => r.sound
  /\ ReplaysOK(replays)
  /\ IsFiniteSet(sessions)

\* Files keep their hashes, and only paper configurations are frozen.
FilesOK ==
  /\ OnFile(ledger) /\ OnFile(manifest) /\ OnFile(attestation) /\ OnFile(deployment)
  /\ freeze = None \/ freeze.hash.config \in PaperConfigs

\* The inductive invariant of the road to a candidate.
ReleaseInv ==
  /\ EvidenceOK /\ FilesOK
  /\ RestoredIsBackedUp /\ RecoveryFailsClosed /\ BuildersAgree
  /\ QualifiedIsEarned /\ CandidateStands

USE AcceptanceAssumption, ReleaseAssumption DEF AnalyticsPolicy, ProductionCandidatePolicy

-----------------------------------------------------------------------------
(* The replay a session is matched with. *)

\* A nonempty set of numbers has a least one.
LEMMA LeastNumber ==
  ASSUME NEW T \in SUBSET Nat, T # {}
  PROVE  \E i \in T : \A j \in T : i =< j
<1> DEFINE R == OpToRel(<, Nat)
<1>1. IsWellFoundedOn(R, Nat)
  BY NatLessThanWellFounded
<1>2. \A i, j \in Nat : j < i => <<j, i>> \in R
  BY DEF OpToRel
<1> HIDE DEF R
<1>3. PICK i \in T : \A j \in T : ~ (<<j, i>> \in R)
  BY <1>1, WFMin
<1>4. ASSUME NEW j \in T PROVE i =< j
  <2>1. i \in Nat /\ j \in Nat /\ ~ (j < i)
    BY <1>2, <1>3
  <2> QED BY <2>1
<1> QED BY <1>4

Later(X, p) == {q \in X : q.date > p.date}

\* Of finitely many replays one is the latest: the one with the fewest later ones.
LEMMA LatestExists ==
  ASSUME NEW X, IsFiniteSet(X), X # {}, \A p \in X : p.date \in Int
  PROVE  \E p \in X : \A q \in X : q.date <= p.date
<1> DEFINE T == {Cardinality(Later(X, p)) : p \in X}
<1>1. \A p \in X : IsFiniteSet(Later(X, p)) /\ Cardinality(Later(X, p)) \in Nat
  BY FS_Subset, FS_CardinalityType DEF Later
<1>2. T \in SUBSET Nat /\ T # {}
  BY <1>1
<1>3. PICK i \in T : \A j \in T : i =< j
  <2> HIDE DEF T
  <2> QED BY <1>2, LeastNumber
<1>4. PICK p \in X : i = Cardinality(Later(X, p))
  OBVIOUS
<1>5. ASSUME NEW q \in X, q.date > p.date PROVE FALSE
  <2>1. Later(X, q) \subseteq Later(X, p) /\ q \in Later(X, p) /\ q \notin Later(X, q)
    <3>1. ASSUME NEW r \in X, r.date > q.date PROVE r.date > p.date
      <4>1. p.date \in Int /\ q.date \in Int /\ r.date \in Int OBVIOUS
      <4> QED BY <1>5, <3>1, <4>1
    <3>2. ~ (q.date > q.date)
      <4>1. q.date \in Int OBVIOUS
      <4> QED BY <4>1
    <3> QED BY <1>5, <3>1, <3>2 DEF Later
  <2>2. Cardinality(Later(X, q)) < Cardinality(Later(X, p))
    BY <1>1, <2>1, FS_Subset
  <2>3. i =< Cardinality(Later(X, q))
    BY <1>3
  <2> QED BY <1>1, <1>4, <2>2, <2>3
<1>6. \A q \in X : q.date <= p.date
  <2> SUFFICES ASSUME NEW q \in X PROVE q.date <= p.date
    OBVIOUS
  <2>1. ~ (q.date > p.date)
    BY <1>5
  <2>2. q.date \in Int /\ p.date \in Int OBVIOUS
  <2> QED BY <2>1, <2>2
<1> QED BY <1>6

\* The replay found for a session is one of those handed in, with its id.
LEMMA ReplayOfIsOne ==
  ASSUME NEW R, IsFiniteSet(R), \A p \in R : p.date \in Int, NEW s, \E p \in R : p.id = s.id
  PROVE  ReplayOf(R, s) \in R /\ ReplayOf(R, s).id = s.id
<1> DEFINE X == ByIdOnly(R, s)
<1>1. X \subseteq R /\ X # {} /\ \A p \in X : p.date \in Int /\ p.id = s.id
  BY DEF ByIdOnly
<1>2. IsFiniteSet(X)
  BY <1>1, FS_Subset
<1> HIDE DEF X
<1>3. \E p \in X : \A q \in X : q.date <= p.date
  BY <1>1, <1>2, LatestExists
<1>4. (CHOOSE p \in X : \A q \in X : q.date <= p.date) \in X
  BY <1>3
<1>5. ReplayOf(R, s) \in X
  BY <1>4 DEF ReplayOf, X
<1> QED BY <1>1, <1>5

-----------------------------------------------------------------------------
(* One step. *)

\* A step of the evidence leaves the files of the release alone.
AcceptanceStep == report = None /\ AcceptanceNext /\ UNCHANGED releaseVars

\* A step of the release other than Alter leaves all of the evidence alone.
ReleaseStep ==
  \/ \E a \in Artifacts : Rebuild(a)
  \/ \E files \in SUBSET Artifacts : build_evidence_manifest(files)
  \/ \E f \in Facts : Attest(f)
  \/ build_configuration_freeze
  \/ \E f \in Facts, online \in BOOLEAN : build_deployment_evidence_report(f, online)
  \/ \E r \in Roles, approved, timely \in BOOLEAN : Approve(r, approved, timely)
  \/ \E findings \in Findings, rollback, independent \in BOOLEAN :
       review_production_candidate(findings, rollback, independent)

LEMMA StepKinds ==
  ASSUME [Next]_vars
  PROVE  AcceptanceStep \/ Alter \/ ReleaseStep \/ UNCHANGED vars
  BY DEF Next, AcceptanceStep, ReleaseStep

LEMMA ReleaseStepFrame ==
  ASSUME ReleaseStep
  PROVE  report = None /\ UNCHANGED <<config, operationsVars, analyticsVars, raised>>
<1>1. ASSUME NEW a \in Artifacts, Rebuild(a)
      PROVE  report = None /\ UNCHANGED <<config, operationsVars, analyticsVars, raised>>
  BY <1>1 DEF Rebuild, Take
<1>2. ASSUME NEW files \in SUBSET Artifacts, build_evidence_manifest(files)
      PROVE  report = None /\ UNCHANGED <<config, operationsVars, analyticsVars, raised>>
  BY <1>2 DEF build_evidence_manifest, Take
<1>3. ASSUME NEW f \in Facts, Attest(f)
      PROVE  report = None /\ UNCHANGED <<config, operationsVars, analyticsVars, raised>>
  BY <1>3 DEF Attest, Take
<1>4. CASE build_configuration_freeze
  BY <1>4 DEF build_configuration_freeze, Take
<1>5. ASSUME NEW f \in Facts, NEW online \in BOOLEAN, build_deployment_evidence_report(f, online)
      PROVE  report = None /\ UNCHANGED <<config, operationsVars, analyticsVars, raised>>
  BY <1>5 DEF build_deployment_evidence_report, Take
<1>6. ASSUME NEW r \in Roles, NEW approved, NEW timely, Approve(r, approved, timely)
      PROVE  report = None /\ UNCHANGED <<config, operationsVars, analyticsVars, raised>>
  BY <1>6 DEF Approve, Take
<1>7. ASSUME NEW findings, NEW rollback, NEW independent,
             review_production_candidate(findings, rollback, independent)
      PROVE  report = None /\ UNCHANGED <<config, operationsVars, analyticsVars, raised>>
  BY <1>7 DEF review_production_candidate, Take
<1> QED BY <1>1, <1>2, <1>3, <1>4, <1>5, <1>6, <1>7 DEF ReleaseStep

\* The sessions and replays stay finite; what passed was sound.
LEMMA EvidenceStep ==
  ASSUME EvidenceOK, [Next]_vars
  PROVE  EvidenceOK'
<1>1. CASE UNCHANGED <<drills, sessions, replays>>
  BY <1>1 DEF EvidenceOK, ReplaysOK
<1>2. ASSUME NEW t, NEW p \in DrillProbes, run_failure_drill(t, p) PROVE EvidenceOK'
  <2>1. UNCHANGED <<sessions, replays>>
    BY <1>2 DEF run_failure_drill, analyticsVars
  <2>2. PICK b, d : b = DrillPassed(p) /\ d = (DrillErrors(p) = {})
    OBVIOUS
  <2>3. b => d
    BY <2>2 DEF DrillPassed
  <2>4. drills' = drills \cup {[type |-> t, passed |-> b, sound |-> d]}
    BY <1>2, <2>2 DEF run_failure_drill
  <2>5. \A r \in drills' : r.passed => r.sound
    BY <2>3, <2>4 DEF EvidenceOK, ReplaysOK
  <2> QED BY <2>1, <2>5 DEF EvidenceOK, ReplaysOK
<1>3. ASSUME NEW id, NEW date, NEW flaws, NEW trades, RecordSession(id, date, flaws, trades)
      PROVE  EvidenceOK'
  <2>1. UNCHANGED <<drills, replays>>
    BY <1>3 DEF RecordSession, operationsVars
  <2>2. PICK s : sessions' = sessions \cup {s}
    BY <1>3 DEF RecordSession
  <2>3. IsFiniteSet(sessions')
    BY <2>2, FS_AddElement DEF EvidenceOK, ReplaysOK
  <2> QED BY <2>1, <2>3 DEF EvidenceOK, ReplaysOK
<1>4. ASSUME NEW id, NEW date \in Dates, NEW r, build_full_session_replay_report(id, date, r)
      PROVE  EvidenceOK'
  <2>1. UNCHANGED <<drills, sessions>>
    BY <1>4 DEF build_full_session_replay_report, operationsVars
  <2>2. PICK b, d : b = ReplayPassed(r) /\ d = ReplaySound(r)
    OBVIOUS
  <2>3. b => d
    BY <2>2 DEF ReplayPassed, ReplaySound, ReplayErrors
  <2>4. PICK old, p : /\ old = {q \in replays : q.id # id \/ q.date # date}
                      /\ p = [id |-> id, date |-> date, passed |-> b, sound |-> d]
    OBVIOUS
  <2>5. replays' = old \cup {p}
    BY <1>4, <2>2, <2>4 DEF build_full_session_replay_report
  <2>6. old \subseteq replays /\ IsFiniteSet(old)
    BY <2>4, FS_Subset DEF EvidenceOK, ReplaysOK
  <2>7. IsFiniteSet(replays')
    BY <2>5, <2>6, FS_AddElement
  <2>8. \A q \in replays' : (q.passed => q.sound) /\ q.date \in Int
    <3>1. p.passed = b /\ p.sound = d /\ p.date = date
      BY <2>4
    <3>2. p.passed => p.sound
      BY <2>3, <3>1
    <3>3. p.date \in Int
      BY <3>1
    <3> QED BY <2>5, <2>6, <3>2, <3>3 DEF EvidenceOK, ReplaysOK
  <2> QED BY <2>1, <2>7, <2>8 DEF EvidenceOK, ReplaysOK
<1>5. CASE AcceptanceStep
  <2>1. \/ UNCHANGED <<drills, sessions, replays>>
        \/ \E t \in DrillTypes, p \in DrillProbes : run_failure_drill(t, p)
        \/ \E id \in SessionIds, date \in Dates, flaws \in SUBSET Flaws, trades \in TradeLists :
             RecordSession(id, date, flaws, trades)
        \/ \E id \in SessionIds, date \in Dates, r \in ReplayInput :
             build_full_session_replay_report(id, date, r)
    BY <1>5 DEF AcceptanceStep, AcceptanceNext, Reconfigure, Write, Dump, build_backup_manifest,
         validate_restore, build_recovery_plan, build_target_acceptance_report,
         build_paper_acceptance_ledger, operationsVars, analyticsVars
  <2> QED BY <1>1, <1>2, <1>3, <1>4, <2>1
<1>6. CASE Alter
  BY <1>1, <1>6 DEF Alter, operationsVars
<1>7. CASE ReleaseStep
  BY <1>1, <1>7, ReleaseStepFrame DEF operationsVars, analyticsVars
<1>8. CASE UNCHANGED vars
  BY <1>1, <1>8 DEF vars, acceptanceVars, operationsVars, analyticsVars
<1> QED BY <1>5, <1>6, <1>7, <1>8, StepKinds

LEMMA RestoreStep ==
  ASSUME RestoredIsBackedUp, BuildersAgree, NEW revision \in BOOLEAN, NEW replay \in Probe,
         validate_restore(revision, replay)
  PROVE  RestoredIsBackedUp' /\ BuildersAgree'
<1> DEFINE hash == dump = backup.artifact
           counts == dump.rows = backup.table_counts
           errors == RestoreErrors(hash, revision, counts, replay)
<1>1. errors = {} => hash /\ revision /\ counts /\ replay = "true" /\ backup.complete
  BY DEF RestoreErrors, Probe
<1>2. PICK e : e = (errors = {})
  OBVIOUS
<1>3. restore' = [passed |-> e, backup |-> backup]
  BY <1>2 DEF validate_restore
<1>4. RestoredIsBackedUp'
  BY <1>1, <1>2, <1>3 DEF RestoredIsBackedUp
<1>5. RestoreCoherent(errors = {}, hash, revision, counts, replay, errors)
  BY <1>1 DEF RestoreCoherent
<1>6. raised' = (raised \/ ~RestoreCoherent(errors = {}, hash, revision, counts, replay, errors))
  BY DEF validate_restore
<1> HIDE DEF hash, counts, errors
<1>7. BuildersAgree'
  BY <1>5, <1>6 DEF BuildersAgree
<1> QED BY <1>4, <1>7

LEMMA PlanStep ==
  ASSUME NEW s \in RestartState, build_recovery_plan(s)
  PROVE  RecoveryFailsClosed'
<1>1. PICK a, c, e : a = RecoveryActionOf(s) /\ c = MayCapture(s) /\ e = MayEvaluate(s)
  OBVIOUS
<1>2. plan' = [state |-> s, action |-> a, may_capture |-> c, may_evaluate |-> e]
  BY <1>1 DEF build_recovery_plan
<1>3. s.positions \in 0 .. 1 /\ s.orders \in 0 .. 1
  BY DEF RestartState
<1>4. c => a \in {"capture_only", "manual_review"} /\ s.matches /\ s.consistent /\ ~s.lease
           /\ s.positions + s.orders = 0
  <2> SUFFICES ASSUME c
               PROVE  /\ a \in {"capture_only", "manual_review"}
                      /\ s.matches /\ s.consistent /\ ~s.lease /\ s.positions + s.orders = 0
    OBVIOUS
  <2>1. s.matches /\ s.consistent /\ ~s.lease /\ s.positions = 0 /\ s.orders = 0
    BY <1>1 DEF MayCapture
  <2>2. NoConflict(s) <=> ~s.killed
    BY <2>1 DEF NoConflict
  <2>3. ~(s.positions > 0) /\ ~(s.orders > 0) /\ s.positions + s.orders = 0
    BY <2>1
  <2>4. CASE ~s.checkpoint
    <3>1. a = "capture_only"
      BY <1>1, <2>1, <2>3, <2>4 DEF RecoveryActionOf
    <3> QED BY <2>1, <2>3, <3>1
  <2>5. CASE s.checkpoint
    <3>1. a = IF s.killed THEN "manual_review" ELSE IF NoConflict(s) THEN "capture_only" ELSE "block"
      BY <1>1, <2>1, <2>3, <2>5 DEF RecoveryActionOf
    <3>2. a \in {"capture_only", "manual_review"}
      BY <2>2, <3>1
    <3> QED BY <2>1, <2>3, <3>2
  <2> QED BY <2>4, <2>5
<1>5. e => c /\ ~s.killed /\ s.checkpoint
  BY <1>1 DEF MayCapture, MayEvaluate, NoConflict
<1>6. (a = "flatten_only") <=> s.positions > 0
  BY <1>1, <1>3 DEF RecoveryActionOf
<1> QED BY <1>2, <1>4, <1>5, <1>6 DEF RecoveryFailsClosed

\* The reports of operations go on saying what happened.
LEMMA OperationsStep ==
  ASSUME RestoredIsBackedUp, RecoveryFailsClosed, BuildersAgree, [Next]_vars
  PROVE  RestoredIsBackedUp' /\ RecoveryFailsClosed' /\ BuildersAgree'
<1>1. RestoredIsBackedUp' \/ restore' # restore
  BY DEF RestoredIsBackedUp
<1>2. RecoveryFailsClosed' \/ plan' # plan
  BY DEF RecoveryFailsClosed
<1>3. BuildersAgree' \/ raised' # raised
  BY DEF BuildersAgree
<1>4. ASSUME NEW revision \in BOOLEAN, NEW replay \in Probe, validate_restore(revision, replay)
      PROVE  RestoredIsBackedUp' /\ RecoveryFailsClosed' /\ BuildersAgree'
  BY <1>2, <1>4, RestoreStep DEF validate_restore
<1>5. ASSUME NEW s \in RestartState, build_recovery_plan(s)
      PROVE  RestoredIsBackedUp' /\ RecoveryFailsClosed' /\ BuildersAgree'
  <2>1. UNCHANGED <<restore, raised>>
    BY <1>5 DEF build_recovery_plan
  <2> QED BY <1>1, <1>3, <1>5, <2>1, PlanStep
<1>6. ASSUME NEW t, NEW p, run_failure_drill(t, p)
      PROVE  RestoredIsBackedUp' /\ RecoveryFailsClosed' /\ BuildersAgree'
  <2>1. UNCHANGED <<restore, plan>>
    BY <1>6 DEF run_failure_drill
  <2>2. DrillCoherent(DrillPassed(p), p)
    BY DEF DrillCoherent, DrillPassed
  <2>3. BuildersAgree'
    BY <1>6, <2>2 DEF run_failure_drill, BuildersAgree
  <2> QED BY <1>1, <1>2, <2>1, <2>3
<1>7. ASSUME NEW id, NEW date, NEW r \in ReplayInput, build_full_session_replay_report(id, date, r)
      PROVE  RestoredIsBackedUp' /\ RecoveryFailsClosed' /\ BuildersAgree'
  <2>1. UNCHANGED <<restore, plan>>
    BY <1>7 DEF build_full_session_replay_report, operationsVars
  <2>2. ReplayPassed(r) => ReplaySound(r)
    BY DEF ReplayPassed, ReplaySound, ReplayErrors
  <2>3. ReplaySound(r) /\ ReplayErrors(r) = {} => ReplayPassed(r)
    BY DEF ReplayPassed, ReplaySound
  <2>4. ReplayPassed(r) => ReplayErrors(r) = {}
    BY DEF ReplayPassed
  <2>5. ReplayPassed(r) \in BOOLEAN /\ ReplaySound(r) \in BOOLEAN
    BY DEF ReplayPassed, ReplaySound, ReplayInput
  <2>6. ReplayPassed(r) = (ReplaySound(r) /\ ReplayErrors(r) = {})
    BY <2>2, <2>3, <2>4, <2>5
  <2>7. BuildersAgree'
    BY <1>7, <2>6 DEF build_full_session_replay_report, BuildersAgree
  <2> QED BY <1>1, <1>2, <2>1, <2>7
<1>8. CASE AcceptanceStep
  <2>1. \/ UNCHANGED <<restore, plan, raised>>
        \/ \E revision \in BOOLEAN, replay \in Probe : validate_restore(revision, replay)
        \/ \E s \in RestartState : build_recovery_plan(s)
        \/ \E t \in DrillTypes, p \in DrillProbes : run_failure_drill(t, p)
        \/ \E id \in SessionIds, date \in Dates, r \in ReplayInput :
             build_full_session_replay_report(id, date, r)
    BY <1>8 DEF AcceptanceStep, AcceptanceNext, Reconfigure, Write, Dump, build_backup_manifest,
         build_target_acceptance_report, RecordSession, build_paper_acceptance_ledger,
         operationsVars, analyticsVars
  <2> QED BY <1>1, <1>2, <1>3, <1>4, <1>5, <1>6, <1>7, <2>1
<1>9. CASE Alter
  BY <1>1, <1>2, <1>3, <1>9 DEF Alter, operationsVars
<1>10. CASE ReleaseStep
  BY <1>1, <1>2, <1>3, <1>10, ReleaseStepFrame DEF operationsVars
<1>11. CASE UNCHANGED vars
  BY <1>1, <1>2, <1>3, <1>11 DEF vars, acceptanceVars, operationsVars
<1> QED BY <1>8, <1>9, <1>10, <1>11, StepKinds

-----------------------------------------------------------------------------
(* The ledger. *)

\* What a ledger that qualifies was built from (QualifiedIsEarned).
Earned(l) ==
  /\ Cardinality(l.sessions) >= minimum_sessions
  /\ \A s \in l.sessions : s.config = l.config
  /\ 100 * Cardinality({s \in l.sessions :
                          s.flaws = {} /\ \E p \in l.replays : p.id = s.id /\ p.date = s.date /\ p.sound})
       >= CleanPercent * Cardinality(l.sessions)
  /\ \A t \in l.drills : \E r \in drills : r.type = t /\ r.sound

\* A session without a reason against it has a sound replay of its own date.
LEMMA CleanHasReplay ==
  ASSUME NEW S, NEW R, NEW c, ReplaysOK(R), evidence_sets_match(S, R, c)
  PROVE  \A s \in S : CleanReasons(s, R) = {} =>
            s.flaws = {} /\ \E p \in R : p.id = s.id /\ p.date = s.date /\ p.sound
<1> SUFFICES ASSUME NEW s \in S, CleanReasons(s, R) = {}
             PROVE  s.flaws = {} /\ \E p \in R : p.id = s.id /\ p.date = s.date /\ p.sound
  OBVIOUS
<1> DEFINE p == ReplayOf(R, s)
<1>1. IsFiniteSet(R) /\ \A q \in R : q.date \in Int
  BY DEF ReplaysOK
<1>2. \E q \in R : q.id = s.id
  BY DEF evidence_sets_match
<1>3. p \in R /\ p.id = s.id
  BY <1>1, <1>2, ReplayOfIsOne
<1>4. p.date = s.date
  BY DEF evidence_sets_match
<1>5. s.flaws = {} /\ p.passed
  BY DEF CleanReasons
<1>6. p.sound
  BY <1>3, <1>5 DEF ReplaysOK
<1> HIDE DEF p
<1> QED BY <1>3, <1>4, <1>5, <1>6

\* A ledger says that it qualifies only of sessions, replays and drills that do.
LEMMA LedgerIsEarned ==
  ASSUME EvidenceOK, NEW S \in SUBSET sessions, NEW R \in SUBSET replays, NEW c,
         evidence_sets_match(S, R, c), NEW t, NEW v,
         LedgerOf(S, R, c, t, v, passed_drills).ready
  PROVE  Earned(LedgerOf(S, R, c, t, v, passed_drills))
<1>1. PICK l : l = LedgerOf(S, R, c, t, v, passed_drills)
  OBVIOUS
<1> DEFINE clean == {s \in S : CleanReasons(s, R) = {}}
           good == {s \in S : s.flaws = {} /\ \E p \in R : p.id = s.id /\ p.date = s.date /\ p.sound}
<1>2. l.sessions = S /\ l.replays = R /\ l.config = c /\ l.drills = passed_drills
  BY <1>1 DEF LedgerOf
<1>3. /\ ~ (Cardinality(S) < minimum_sessions)
      /\ ~ (100 * Cardinality(clean) < CleanPercent * Cardinality(S))
  BY <1>1 DEF LedgerOf
<1>4. IsFiniteSet(S) /\ clean \subseteq good /\ good \subseteq S
  <2>1. IsFiniteSet(S)
    BY FS_Subset DEF EvidenceOK, ReplaysOK
  <2>2. ReplaysOK(R)
    BY FS_Subset DEF EvidenceOK, ReplaysOK
  <2>3. \A s \in S : CleanReasons(s, R) = {} =>
           s.flaws = {} /\ \E p \in R : p.id = s.id /\ p.date = s.date /\ p.sound
    <3> HIDE DEF clean, good
    <3> QED BY <2>2, CleanHasReplay
  <2> QED BY <2>1, <2>3
<1> HIDE DEF clean, good
<1>5. /\ Cardinality(S) \in Nat /\ Cardinality(clean) \in Nat /\ Cardinality(good) \in Nat
      /\ Cardinality(clean) =< Cardinality(good)
  BY <1>4, FS_Subset, FS_CardinalityType
<1>6. Cardinality(S) >= minimum_sessions
  BY <1>3, <1>5
<1>7. 100 * Cardinality(good) >= CleanPercent * Cardinality(S)
  <2>1. PICK k : k = CleanPercent * Cardinality(S)
    OBVIOUS
  <2>2. k \in Int
    BY <1>5, <2>1
  <2>3. 100 * Cardinality(good) >= k
    BY <1>3, <1>5, <2>1, <2>2
  <2> QED BY <2>1, <2>3
<1>8. \A s \in S : s.config = c
  BY DEF evidence_sets_match
<1>9. \A d \in passed_drills : \E r \in drills : r.type = d /\ r.sound
  BY DEF passed_drills, EvidenceOK
<1>10. Earned(l)
  BY <1>2, <1>6, <1>7, <1>8, <1>9 DEF Earned, good
<1> QED BY <1>1, <1>10

\* Drills are never taken back, and nothing but a new ledger changes a hash.
LEMMA QualifiedStep ==
  ASSUME EvidenceOK, FilesOK, QualifiedIsEarned, [Next]_vars
  PROVE  QualifiedIsEarned'
<1>1. ASSUME drills \subseteq drills', ledger' = None \/ (ledger # None /\ ledger'.hash = ledger.hash)
      PROVE  QualifiedIsEarned'
  BY <1>1 DEF QualifiedIsEarned
<1>2. ASSUME NEW S \in SUBSET sessions, NEW R \in SUBSET replays, NEW c,
             build_paper_acceptance_ledger(S, R, c)
      PROVE  QualifiedIsEarned'
  <2>1. PICK t, v, l : l = LedgerOf(S, R, c, t, v, passed_drills) /\ ledger' = Sealed(l)
    BY <1>2 DEF build_paper_acceptance_ledger
  <2>2. ledger'.hash = l
    BY <2>1 DEF Sealed
  <2>3. evidence_sets_match(S, R, c)
    BY <1>2 DEF build_paper_acceptance_ledger
  <2>4. l.ready => Earned(l)
    BY <2>1, <2>3, LedgerIsEarned
  <2>5. drills' = drills
    BY <1>2 DEF build_paper_acceptance_ledger, operationsVars
  <2> QED BY <2>2, <2>4, <2>5 DEF QualifiedIsEarned, Earned
<1>3. CASE AcceptanceStep
  <2>1. \/ drills \subseteq drills' /\ UNCHANGED ledger
        \/ \E S \in SUBSET sessions, R \in SUBSET replays, c \in Configs :
             build_paper_acceptance_ledger(S, R, c)
    BY <1>3 DEF AcceptanceStep, AcceptanceNext, Reconfigure, Write, Dump, build_backup_manifest,
         validate_restore, run_failure_drill, build_recovery_plan, build_target_acceptance_report,
         RecordSession, build_full_session_replay_report, operationsVars, analyticsVars
  <2> QED BY <1>1, <1>2, <2>1
<1>4. CASE Alter
  <2>1. drills' = drills
    BY <1>4 DEF Alter, operationsVars
  <2>2. UNCHANGED ledger \/ (ledger # None /\ ledger'.hash = ledger.hash)
    BY <1>4 DEF Alter, FilesOK, OnFile
  <2> QED BY <1>1, <2>1, <2>2
<1>5. CASE ReleaseStep
  BY <1>1, <1>5, ReleaseStepFrame DEF operationsVars, analyticsVars
<1>6. CASE UNCHANGED vars
  BY <1>1, <1>6 DEF vars, acceptanceVars, operationsVars, analyticsVars
<1> QED BY <1>3, <1>4, <1>5, <1>6, StepKinds

-----------------------------------------------------------------------------
(* The files of the release and the review. *)

LEMMA FilesStep ==
  ASSUME FilesOK, [Next]_vars
  PROVE  FilesOK'
<1>s. \A b : OnFile(Sealed(b))
  BY DEF OnFile, Sealed
<1>1. CASE AcceptanceStep
  <2>1. UNCHANGED releaseVars
    BY <1>1 DEF AcceptanceStep
  <2>2. OnFile(ledger')
    <3>1. UNCHANGED ledger \/ \E b : ledger' = Sealed(b)
      BY <1>1 DEF AcceptanceStep, AcceptanceNext, Reconfigure, Write, Dump, build_backup_manifest,
           validate_restore, run_failure_drill, build_recovery_plan,
           build_target_acceptance_report, RecordSession, build_full_session_replay_report,
           build_paper_acceptance_ledger, operationsVars, analyticsVars
    <3> QED BY <1>s, <3>1 DEF FilesOK
  <2> QED BY <2>1, <2>2 DEF FilesOK, releaseVars, OnFile
<1>2. CASE Alter
  <2>1. UNCHANGED freeze
    BY <1>2 DEF Alter
  <2>2. OnFile(ledger') /\ OnFile(manifest') /\ OnFile(attestation') /\ OnFile(deployment')
    BY <1>2 DEF Alter, FilesOK, OnFile
  <2> QED BY <2>1, <2>2 DEF FilesOK, OnFile
<1>3. CASE ReleaseStep
  <2>1. UNCHANGED ledger
    BY <1>3, ReleaseStepFrame DEF analyticsVars
  <2>2. UNCHANGED manifest \/ \E b : manifest' = Sealed(b)
    BY <1>3 DEF ReleaseStep, Rebuild, build_evidence_manifest, Attest, build_configuration_freeze,
         build_deployment_evidence_report, Approve, review_production_candidate
  <2>3. UNCHANGED attestation \/ \E b : attestation' = Sealed(b)
    BY <1>3 DEF ReleaseStep, Rebuild, build_evidence_manifest, Attest, build_configuration_freeze,
         build_deployment_evidence_report, Approve, review_production_candidate
  <2>4. UNCHANGED deployment \/ \E b : deployment' = Sealed(b)
    BY <1>3 DEF ReleaseStep, Rebuild, build_evidence_manifest, Attest, build_configuration_freeze,
         build_deployment_evidence_report, Approve, review_production_candidate
  <2>5. UNCHANGED freeze \/ freeze'.hash.config \in PaperConfigs
    BY <1>3 DEF ReleaseStep, Rebuild, build_evidence_manifest, Attest, build_configuration_freeze,
         build_deployment_evidence_report, Approve, review_production_candidate, Sealed
  <2>6. OnFile(ledger') /\ OnFile(manifest') /\ OnFile(attestation') /\ OnFile(deployment')
    BY <1>s, <2>1, <2>2, <2>3, <2>4 DEF FilesOK
  <2> QED BY <2>5, <2>6 DEF FilesOK, OnFile
<1>4. CASE UNCHANGED vars
  BY <1>4 DEF vars, acceptanceVars, analyticsVars, releaseVars, FilesOK, OnFile
<1> QED BY <1>1, <1>2, <1>3, <1>4, StepKinds

\* What the review calls a candidate is one: every file has the content of its
\* hash, and the hashes say what ReleaseInv knows of them.
LEMMA ReviewStep ==
  ASSUME FilesOK, QualifiedIsEarned, NEW findings, NEW rollback, NEW independent,
         review_production_candidate(findings, rollback, independent)
  PROVE  CandidateStands'
<1>0. UNCHANGED <<ledger, manifest, attestation, freeze, deployment, approvals>>
  BY DEF review_production_candidate, analyticsVars
<1>1. /\ ledger # None /\ freeze # None
      /\ report' = [status |-> IF evidence_coherent
                               THEN CandidateStatus(findings, rollback, independent) ELSE "refused"]
  BY DEF review_production_candidate
<1> SUFFICES ASSUME report'.status = "paper_release_candidate"
             PROVE  CandidateStands'
  BY DEF CandidateStands, CandidateIsCoherent, CandidateIsEarned, CandidateIsApproved, Candidate
<1>2. /\ evidence_coherent
      /\ ~ExplicitFailures(findings) /\ ~OtherBlockers(findings, rollback, independent)
  BY <1>1 DEF CandidateStatus
<1>3. /\ manifest.hash = manifest.body /\ attestation.hash = attestation.body
      /\ freeze.hash = freeze.body /\ ledger.hash = ledger.body /\ deployment.hash = deployment.body
  BY <1>2 DEF OtherBlockers, SealsBroken, IsSealed
<1>4. ledger.body.ready /\ deployment.body.ready /\ missing_roles = {}
  BY <1>2 DEF OtherBlockers
<1>5. Green(attestation.body.facts) /\ \A r \in Given : approvals[r].approved
  BY <1>2 DEF ExplicitFailures
<1>6. /\ DeploymentMatches
      /\ \A a \in Artifacts : manifest.body.artifacts[a] = ExpectedArtifacts[a]
      /\ \A r \in Given : approvals[r].evidence_package_hash = manifest.hash /\ approvals[r].timely
  BY <1>2 DEF evidence_coherent, ManifestMatches, ApprovalsMatch
<1>7. CandidateIsCoherent'
  <2>1. \A a \in BuildArtifacts : manifest.hash.artifacts[a] = deployment.hash.hashes[a]
    <3> SUFFICES ASSUME NEW a \in BuildArtifacts
                 PROVE  manifest.hash.artifacts[a] = deployment.hash.hashes[a]
      OBVIOUS
    <3>1. a \in Artifacts /\ a # "specification"
      BY DEF Artifacts
    <3>2. ExpectedArtifacts[a] = attestation.body.hashes[a]
      BY <3>1 DEF ExpectedArtifacts
    <3>3. deployment.body.hashes = attestation.body.hashes
      BY <1>6 DEF DeploymentMatches
    <3>4. manifest.body.artifacts[a] = ExpectedArtifacts[a]
      BY <1>6, <3>1
    <3> QED BY <1>3, <3>2, <3>3, <3>4
  <2>2. manifest.hash.artifacts["specification"] = deployment.hash.specification
    BY <1>3, <1>6, ZenonT(60) DEF Artifacts, ExpectedArtifacts, DeploymentMatches
  <2>3. deployment.hash.ledger_hash = ledger.hash
    BY <1>3, <1>6 DEF DeploymentMatches
  <2>4. \A s \in ledger.hash.sessions : s.config = freeze.hash.config
    <3>1. ledger.hash.config = freeze.hash.config
      BY <1>3, <1>6 DEF DeploymentMatches
    <3>2. \A s \in ledger.hash.sessions : s.config = ledger.hash.config
      BY <1>1, <1>3, <1>4 DEF QualifiedIsEarned
    <3> QED BY <3>1, <3>2
  <2>5. freeze.hash.config \in PaperConfigs
    BY <1>1 DEF FilesOK
  <2> QED BY <1>0, <2>1, <2>2, <2>3, <2>4, <2>5 DEF CandidateIsCoherent
<1>8. CandidateIsEarned'
  BY <1>0, <1>3, <1>4, <1>5 DEF CandidateIsEarned, Green
<1>9. CandidateIsApproved'
  <2>1. required_approval_roles \subseteq Given
    BY <1>4 DEF missing_roles
  <2>2. Given' = Given
    BY <1>0 DEF Given
  <2>3. \A r \in Given : /\ approvals[r].approved /\ approvals[r].timely
                         /\ approvals[r].evidence_package_hash = manifest.body
    BY <1>3, <1>5, <1>6
  <2> QED BY <1>0, <2>1, <2>2, <2>3 DEF CandidateIsApproved
<1> QED BY <1>7, <1>8, <1>9 DEF CandidateStands

\* Nothing happens after a review, and no other step makes a report.
LEMMA CandidateStep ==
  ASSUME FilesOK, QualifiedIsEarned, CandidateStands, [Next]_vars
  PROVE  CandidateStands'
<1>1. ASSUME report' = None PROVE CandidateStands'
  BY <1>1 DEF CandidateStands, CandidateIsCoherent, CandidateIsEarned, CandidateIsApproved, Candidate
<1>2. CASE AcceptanceStep
  BY <1>1, <1>2 DEF AcceptanceStep, releaseVars
<1>3. CASE Alter
  BY <1>1, <1>3 DEF Alter, Take
<1>4. CASE ReleaseStep
  <2>1. \/ report' = None
        \/ \E findings \in Findings, rollback, independent \in BOOLEAN :
             review_production_candidate(findings, rollback, independent)
    BY <1>4 DEF ReleaseStep, Rebuild, build_evidence_manifest, Attest, build_configuration_freeze,
         build_deployment_evidence_report, Approve, Take
  <2> QED BY <1>1, <2>1, ReviewStep
<1>5. CASE UNCHANGED vars
  <2>1. UNCHANGED <<report, ledger, manifest, attestation, freeze, deployment, approvals>>
    BY <1>5 DEF vars, acceptanceVars, analyticsVars, releaseVars
  <2> QED BY <2>1 DEF CandidateStands, CandidateIsCoherent, CandidateIsEarned,
            CandidateIsApproved, Candidate, Given, Green
<1> QED BY <1>2, <1>3, <1>4, <1>5, StepKinds

-----------------------------------------------------------------------------
(* The theorems. *)

LEMMA ReleaseInvStarts == AcceptanceInit /\ CandidateInit => ReleaseInv
<1> SUFFICES ASSUME AcceptanceInit, CandidateInit PROVE ReleaseInv
  OBVIOUS
<1>1. EvidenceOK
  BY FS_EmptySet DEF AcceptanceInit, EvidenceOK, ReplaysOK
<1>2. FilesOK
  BY DEF AcceptanceInit, CandidateInit, FilesOK, OnFile
<1>3. RestoredIsBackedUp /\ RecoveryFailsClosed /\ BuildersAgree /\ QualifiedIsEarned
  BY DEF AcceptanceInit, RestoredIsBackedUp, RecoveryFailsClosed, BuildersAgree, QualifiedIsEarned
<1>4. CandidateStands
  BY DEF CandidateInit, CandidateStands, CandidateIsCoherent, CandidateIsEarned,
         CandidateIsApproved, Candidate
<1> QED BY <1>1, <1>2, <1>3, <1>4 DEF ReleaseInv

LEMMA ReleaseInvStep == ReleaseInv /\ [Next]_vars => ReleaseInv'
<1> SUFFICES ASSUME ReleaseInv, [Next]_vars PROVE ReleaseInv'
  OBVIOUS
<1>1. /\ EvidenceOK /\ FilesOK /\ RestoredIsBackedUp /\ RecoveryFailsClosed /\ BuildersAgree
      /\ QualifiedIsEarned /\ CandidateStands
  BY DEF ReleaseInv
<1>2. EvidenceOK'
  BY <1>1, EvidenceStep
<1>3. FilesOK'
  BY <1>1, FilesStep
<1>4. RestoredIsBackedUp' /\ RecoveryFailsClosed' /\ BuildersAgree'
  BY <1>1, OperationsStep
<1>5. QualifiedIsEarned'
  BY <1>1, QualifiedStep
<1>6. CandidateStands'
  BY <1>1, CandidateStep
<1> QED BY <1>2, <1>3, <1>4, <1>5, <1>6 DEF ReleaseInv

\* The inductive invariant holds however often evidence is collected, altered and
\* reviewed, in any order.
THEOREM ReleaseInvHolds == ReleaseSpec => []ReleaseInv
<1> QED BY ReleaseInvStarts, ReleaseInvStep, PTL DEF ReleaseSpec

\* validate_restore, build_recovery_plan and the builders of the reports: a restore
\* that passed restored its backup, a recovery plan resumes nothing that a conflict
\* forbids, and no builder refuses its own report.
THEOREM OperationsReportsStayTrue == ReleaseSpec => []OperationsReportsHold
<1>1. ReleaseInv => OperationsReportsHold
  BY DEF ReleaseInv, OperationsReportsHold
<1> QED BY <1>1, ReleaseInvHolds, PTL

\* build_paper_acceptance_ledger: a ledger that qualifies was earned, by any number
\* of sessions, although the replay of a session is looked up by its id alone.
THEOREM QualifiedStaysEarned == ReleaseSpec => []QualifiedIsEarned
<1>1. ReleaseInv => QualifiedIsEarned
  BY DEF ReleaseInv
<1> QED BY <1>1, ReleaseInvHolds, PTL

\* review_production_candidate: whatever was built again or altered before the
\* review, a candidate is of one build and one configuration, earned and approved.
THEOREM CandidatesStand == ReleaseSpec => []CandidateStands
<1>1. ReleaseInv => CandidateStands
  BY DEF ReleaseInv
<1> QED BY <1>1, ReleaseInvHolds, PTL
=============================================================================
