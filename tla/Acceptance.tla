----------------------------- MODULE Acceptance -----------------------------
(***************************************************************************)
(* The evidence that paper trading works, as it is collected over weeks:   *)
(* backups and their restore validation, failure drills, recovery plans    *)
(* and target acceptance (daybreak_operations), recorded sessions, their   *)
(* replays and the paper acceptance ledger (daybreak_analytics).           *)
(*                                                                         *)
(* Every operation is a command that reads files and writes one report.    *)
(* The operator may run them in any order, repeat them and leave some out, *)
(* while the program's configuration and its database go on changing.  The *)
(* operator is honest: the flags of a ledger request are those of the      *)
(* reports on file.  A builder that refuses what it has built itself (the  *)
(* validator of its report model raises) sets raised.                      *)
(***************************************************************************)
EXTENDS Integers, Sequences, FiniteSets, SequencesExt, FiniteSetsExt

CONSTANTS Configs,             \* configuration hashes
          DrillTypes, REQUIRED_DRILLS,
          RequiredProbes,      \* required_probe_names
          ReplayComponents,
          SessionIds, Dates,
          Flaws,               \* the reasons a session is not clean, the replay apart
          TradeLists,          \* the completed trades a session may have
          minimum_sessions, minimum_filled_orders, required_drill_count,
          CleanPercent         \* minimum_clean_session_rate

VARIABLES config,      \* the configuration in force
          rows,        \* how many rows the database has
          dump,        \* the rows of the dump on disk, or None
          backup,      \* the BackupManifest on file, or None
          restore,     \* the RestoreValidation on file, or None
          drills,      \* the DrillResults on file
          plan,        \* the RecoveryPlan on file, or None
          target,      \* the TargetAcceptanceReport on file, or None
          sessions,    \* the SessionEvidence on file
          replays,     \* the FullSessionReplayReports on file
          ledger,      \* the PaperAcceptanceLedger on file, or None
          raised,      \* a builder refused its own report
          left         \* bound of the model: how often each step may still happen

operationsVars == <<rows, dump, backup, restore, drills, plan, target>>
analyticsVars == <<sessions, replays, ledger>>
acceptanceVars == <<config, operationsVars, analyticsVars, raised, left>>

None == [none |-> TRUE]
Probe == {"true", "false", "raises"}
Step == {"edit", "write", "backup", "drill", "plan", "target", "session", "replay", "ledger",
         "release"}

AnalyticsPolicy ==
  /\ minimum_sessions \in Nat \ {0} /\ minimum_filled_orders \in Nat \ {0}
  /\ required_drill_count \in Nat /\ CleanPercent \in 0 .. 100

\* Dates are ordered as the days of the calendar are.
ASSUME AcceptanceAssumption ==
  AnalyticsPolicy /\ REQUIRED_DRILLS \subseteq DrillTypes /\ Dates \subseteq Int

\* A report carries the hash of its content, which stands for the content it
\* was computed from.
Sealed(body) == [body |-> body, hash |-> body]
IsSealed(r) == r.hash = r.body

Spend(s) == left[s] > 0 /\ left' = [left EXCEPT ![s] = @ - 1]

-----------------------------------------------------------------------------
(* Operations. *)

\* A new configuration is put in force; the evidence collected so far stays.
Reconfigure(c) ==
  /\ c # config /\ Spend("edit")
  /\ config' = c
  /\ UNCHANGED <<operationsVars, analyticsVars, raised>>

\* The program stores a row.
Write ==
  /\ Spend("write")
  /\ rows' = rows + 1
  /\ UNCHANGED <<config, dump, backup, restore, drills, plan, target, analyticsVars, raised>>

\* backup_postgres.sh: pg_dump, over the file of the dump before.
Dump ==
  /\ Spend("backup")
  /\ dump' = [rows |-> rows]
  /\ UNCHANGED <<config, rows, backup, restore, drills, plan, target, analyticsVars, raised>>

\* The table counts are read from the database when the manifest is made, the
\* hash from the file; a hash stands for the content it was computed from.
build_backup_manifest(complete) ==
  /\ Spend("backup") /\ dump # None
  /\ backup' = [artifact |-> dump, table_counts |-> rows, complete |-> complete]
  /\ UNCHANGED <<config, rows, dump, restore, drills, plan, target, analyticsVars, raised>>

\* Mutant: the artifact is not hashed again.
RestoreErrorsByCounts(hash, revision, counts, replay) ==
  IF backup.complete /\ revision /\ counts /\ replay = "true" THEN {} ELSE {"MISMATCH"}

RestoreErrors(hash, revision, counts, replay) ==
  (IF backup.complete THEN {} ELSE {"BACKUP_MARKED_INCOMPLETE"})
  \cup (IF hash THEN {} ELSE {"ARTIFACT_HASH_MISMATCH"})
  \cup (IF revision THEN {} ELSE {"SCHEMA_REVISION_MISMATCH"})
  \cup (IF counts THEN {} ELSE {"TABLE_COUNTS_MISMATCH"})
  \cup (IF replay = "raises" THEN {"REPLAY_PROBE_FAILED"} ELSE {})
  \cup (IF replay = "false" THEN {"REPLAY_VERIFICATION_FAILED"} ELSE {})

\* RestoreValidation.coherent
RestoreCoherent(passed, hash, revision, counts, replay, errors) ==
  passed = (hash /\ revision /\ counts /\ replay = "true" /\ errors = {})

\* The dump on disk is restored and compared with the manifest.
validate_restore(revision, replay) ==
  /\ Spend("backup") /\ backup # None
  /\ LET hash == dump = backup.artifact
         counts == dump.rows = backup.table_counts
         errors == RestoreErrors(hash, revision, counts, replay)
     IN /\ restore' = [passed |-> errors = {}, backup |-> backup]
        /\ raised' = (raised \/ ~RestoreCoherent(errors = {}, hash, revision, counts, replay, errors))
  /\ UNCHANGED <<config, rows, dump, backup, drills, plan, target, analyticsVars>>

\* What the probes of a drill say.  The kill switch has a probe or none.
DrillProbes == [injected : BOOLEAN, detected : Probe, blocked : Probe,
                killed : Probe \cup {"absent"}, recovered : Probe]

DrillErrors(p) == {f \in {"detected", "blocked", "killed", "recovered"} : p[f] \in {"false", "raises"}}
                  \cup {f \in {"injected"} : ~p.injected}

\* Mutant: a drill passes on its three probes alone.
DrillPassedByProbes(p) == p.detected = "true" /\ p.blocked = "true" /\ p.recovered = "true"

DrillPassed(p) == /\ p.detected = "true" /\ p.blocked = "true" /\ p.recovered = "true"
                  /\ DrillErrors(p) = {}

\* DrillResult.coherent
DrillCoherent(passed, p) ==
  passed = (p.detected = "true" /\ p.blocked = "true" /\ p.recovered = "true" /\ DrillErrors(p) = {})

\* Of a result later steps read its type and its status; sound says that the
\* failure was injected and that every probe there was answered yes.
run_failure_drill(t, p) ==
  /\ Spend("drill")
  /\ drills' = drills \cup {[type |-> t, passed |-> DrillPassed(p), sound |-> DrillErrors(p) = {}]}
  /\ raised' = (raised \/ ~DrillCoherent(DrillPassed(p), p))
  /\ UNCHANGED <<config, rows, dump, backup, restore, plan, target, analyticsVars>>

passed_drills == {r.type : r \in {r \in drills : r.passed}}

RestartState == [matches : BOOLEAN, consistent : BOOLEAN, lease : BOOLEAN, killed : BOOLEAN,
                 positions : 0 .. 1, orders : 0 .. 1, checkpoint : BOOLEAN]

\* No reason was found before the chain of elif's at the end.
NoConflict(s) == s.matches /\ s.consistent /\ ~s.lease /\ ~s.killed

\* Each condition overwrites the action of the ones before it, never may_capture.
RecoveryActionOf(s) ==
  CASE s.positions > 0 -> "flatten_only"
    [] s.positions = 0 /\ s.orders > 0 -> "reconcile_only"
    [] s.positions = 0 /\ s.orders = 0 /\ ~s.checkpoint -> "capture_only"
    [] OTHER -> IF s.killed THEN "manual_review"
                ELSE IF NoConflict(s) THEN "capture_only" ELSE "block"

\* Mutant: without a checkpoint capture starts afresh whatever was found before.
MayCaptureFresh(s) ==
  s.positions = 0 /\ s.orders = 0 /\ (s.checkpoint => s.matches /\ s.consistent /\ ~s.lease)

MayCapture(s) == s.matches /\ s.consistent /\ ~s.lease /\ s.positions = 0 /\ s.orders = 0
MayEvaluate(s) == s.positions = 0 /\ s.orders = 0 /\ s.checkpoint /\ NoConflict(s)

build_recovery_plan(s) ==
  /\ Spend("plan")
  /\ plan' = [state |-> s, action |-> RecoveryActionOf(s), may_capture |-> MayCapture(s),
              may_evaluate |-> MayEvaluate(s)]
  /\ UNCHANGED <<config, rows, dump, backup, restore, drills, target, analyticsVars, raised>>

\* host: every check of the machine passed.  probes: the probes that ran, with
\* what they said; the ones that need credentials or a database may be left out.
\* A plan never allows new entries and always asks for an acknowledgement
\* (Literal types), so any plan on file is a safe one.
TargetReady(host, probes) ==
  /\ RequiredProbes \subseteq DOMAIN probes
  /\ host
  /\ \A n \in DOMAIN probes : probes[n] = "true"
  /\ restore # None /\ restore.passed
  /\ plan # None
  /\ REQUIRED_DRILLS \subseteq passed_drills

build_target_acceptance_report(host, probes) ==
  /\ Spend("target")
  /\ target' = [ready |-> TargetReady(host, probes), config |-> config]
  /\ UNCHANGED <<config, rows, dump, backup, restore, drills, plan, analyticsVars, raised>>

-----------------------------------------------------------------------------
(* Analytics.  A trade is [entry, exit, quantity, fees, source_type,       *)
(* risk_flags]; the rates and averages of a summary are quotients of what  *)
(* is kept of it here.                                                     *)

GrossOf(trade) == (trade.exit - trade.entry) * trade.quantity
NetOf(trade) == GrossOf(trade) - trade.fees

SumOf(values) == FoldLeft(LAMBDA a, b : a + b, 0, values)
Greater(a, b) == IF a > b THEN a ELSE b

\* Mutant: the peak starts at the first result.
DrawdownOfPeaks(values) ==
  IF values = <<>> THEN 0
  ELSE FoldLeft(LAMBDA s, v : LET total == s.total + v  peak == Greater(s.peak, total)
                              IN [total |-> total, peak |-> peak, worst |-> Greater(s.worst, peak - total)],
                [total |-> values[1], peak |-> values[1], worst |-> 0], Tail(values)).worst

\* The loop over the net values: the highest running total so far, from zero on.
DrawdownOf(values) ==
  FoldLeft(LAMBDA s, v : LET total == s.total + v  peak == Greater(s.peak, total)
                         IN [total |-> total, peak |-> peak, worst |-> Greater(s.worst, peak - total)],
           [total |-> 0, peak |-> 0, worst |-> 0], values).worst

NetValues(trades) == [i \in DOMAIN trades |-> NetOf(trades[i])]

_summary(trades) ==
  LET net == NetValues(trades)
      wins == SelectSeq(net, LAMBDA v : v > 0)
      losses == SelectSeq(net, LAMBDA v : v < 0)
  IN [trade_count |-> Len(trades), wins |-> Len(wins), losses |-> Len(losses),
      breakeven |-> Len(trades) - Len(wins) - Len(losses),
      gross_pnl |-> SumOf([i \in DOMAIN trades |-> GrossOf(trades[i])]),
      fees |-> SumOf([i \in DOMAIN trades |-> trades[i].fees]),
      net_pnl |-> SumOf(net), gross_profit |-> SumOf(wins), gross_loss |-> - SumOf(losses),
      maximum_drawdown |-> DrawdownOf(net)]

\* One bucket for each source type and one for each risk flag that occurs; the
\* chart structures and the exit reasons are grouped as the source types are.
_attributions(trades) ==
  LET Bucket(d, k, Has(_)) == LET s == _summary(SelectSeq(trades, Has))
                              IN [dimension |-> d, key |-> k, trade_count |-> s.trade_count,
                                  net_pnl |-> s.net_pnl]
  IN {Bucket("source_type", k, LAMBDA t : t.source_type = k)
        : k \in {trades[i].source_type : i \in DOMAIN trades}}
     \cup {Bucket("risk_flag", k, LAMBDA t : k \in t.risk_flags)
             : k \in UNION {trades[i].risk_flags : i \in DOMAIN trades}}

analyze_session(s) == [summary |-> _summary(s.trades), attributions |-> _attributions(s.trades)]

\* With the trades at hand the aggregate is their summary; without them it is
\* put together from the sessions, and the drawdown is that of the daily results.
summarize_sessions(analytics, trades) ==
  LET s == _summary(trades) IN [session_count |-> Len(analytics), trade_count |-> s.trade_count,
                                net_pnl |-> s.net_pnl, maximum_drawdown |-> s.maximum_drawdown]
summarize_days(analytics) ==
  LET net == [i \in DOMAIN analytics |-> analytics[i].summary.net_pnl]
  IN [session_count |-> Len(analytics),
      trade_count |-> SumOf([i \in DOMAIN analytics |-> analytics[i].summary.trade_count]),
      net_pnl |-> SumOf(net), maximum_drawdown |-> DrawdownOf(net)]

\* A session ends and its evidence is written, under the configuration in force.
RecordSession(id, date, flaws, trades) ==
  /\ Spend("session")
  /\ ~\E s \in sessions : s.id = id /\ s.date = date
  /\ sessions' = sessions \cup {[id |-> id, date |-> date, config |-> config, flaws |-> flaws,
                                 trades |-> trades]}
  /\ UNCHANGED <<config, operationsVars, replays, ledger, raised>>

ReplayInput ==
  {r \in [present : SUBSET ReplayComponents, failed : SUBSET ReplayComponents,
          counts : BOOLEAN, ordering : BOOLEAN, integrity : BOOLEAN] : r.failed \subseteq r.present}

ReplayErrors(r) ==
  {"MISSING_COMPONENTS" : c \in ReplayComponents \ r.present}
  \cup {f \in {"counts", "ordering", "integrity"} : ~r[f]}
  \cup {"COMPONENT_FAILED" : c \in r.failed}

ReplayPassed(r) == r.present = ReplayComponents /\ ReplayErrors(r) = {}

\* FullSessionReplayReport.coherent asks that everything was replayed and agreed.
ReplaySound(r) == /\ r.present = ReplayComponents /\ r.failed = {}
                  /\ r.counts /\ r.ordering /\ r.integrity

build_full_session_replay_report(id, date, r) ==
  /\ Spend("replay")
  /\ replays' = {p \in replays : p.id # id \/ p.date # date}
                \cup {[id |-> id, date |-> date, passed |-> ReplayPassed(r), sound |-> ReplaySound(r)]}
  /\ raised' = (raised \/ ReplayPassed(r) # (ReplaySound(r) /\ ReplayErrors(r) = {}))
  /\ UNCHANGED <<config, operationsVars, sessions, ledger>>

-----------------------------------------------------------------------------
(* The paper acceptance ledger. *)

ByIdOnly(all, s) == {p \in all : p.id = s.id}

\* replay_map: of two replays with one id the later date is kept.
ReplayOf(all, s) == CHOOSE p \in ByIdOnly(all, s) : \A q \in ByIdOnly(all, s) : q.date <= p.date

\* Mutant: replays are matched with sessions by id alone.
evidence_sets_match_by_id(S, R, c) ==
  {s.id : s \in S} = {p.id : p \in R} /\ \A s \in S : s.config = c

\* PaperAcceptanceRequest: sessions and replays have the same ids, every session
\* ran under the configuration of the request, and the replay found for a
\* session is of its date.
evidence_sets_match(S, R, c) ==
  /\ {s.id : s \in S} = {p.id : p \in R}
  /\ \A s \in S : s.config = c /\ ReplayOf(R, s).date = s.date

CleanReasons(s, R) == s.flaws \cup {"REPLAY_NOT_VERIFIED" : p \in {p \in {ReplayOf(R, s)} : ~p.passed}}

SortedByDate(S) == SetToSortSeq(S, LAMBDA a, b : a.date < b.date \/ (a.date = b.date /\ a.id < b.id))

\* The rate of clean sessions is a quotient rounded to ten digits, which changes no
\* comparison with a whole percentage below ten million sessions: it is multiplied out.
LedgerOf(S, R, c, targetVerified, restoreVerified, drilled) ==
  LET ordered == SortedByDate(S)
      clean == {s \in S : CleanReasons(s, R) = {}}
      trades == FlattenSeq([i \in DOMAIN ordered |-> ordered[i].trades])
      short == Cardinality(S) < minimum_sessions \/ Len(trades) < minimum_filled_orders
      analytics == [i \in DOMAIN ordered |-> analyze_session(ordered[i])]
      blocked == \/ 100 * Cardinality(clean) < CleanPercent * Cardinality(S)
                 \/ ~targetVerified \/ ~restoreVerified
                 \/ Cardinality(drilled) < required_drill_count
  IN [status |-> IF short THEN "collecting" ELSE IF blocked THEN "blocked" ELSE "paper_qualified",
      ready |-> ~short /\ ~blocked, config |-> c, sessions |-> S, replays |-> R, clean |-> clean,
      filled |-> Len(trades), performance |-> summarize_sessions(analytics, trades),
      drills |-> drilled]

\* The operator hands in the sessions and the replays he chooses.
build_paper_acceptance_ledger(S, R, c) ==
  /\ Spend("ledger")
  /\ evidence_sets_match(S, R, c)
  /\ ledger' = Sealed(LedgerOf(S, R, c, target # None /\ target.ready,
                               restore # None /\ restore.passed, passed_drills))
  /\ UNCHANGED <<config, operationsVars, sessions, replays, raised>>

-----------------------------------------------------------------------------
\* Nothing is on file yet.
AcceptanceInit ==
  /\ config \in Configs /\ rows = 0
  /\ dump = None /\ backup = None /\ restore = None
  /\ drills = {} /\ plan = None /\ target = None
  /\ sessions = {} /\ replays = {} /\ ledger = None
  /\ raised = FALSE /\ left \in [Step -> Nat]

AcceptanceNext ==
  \/ \E c \in Configs : Reconfigure(c)
  \/ Write
  \/ Dump
  \/ \E complete \in BOOLEAN : build_backup_manifest(complete)
  \/ \E revision \in BOOLEAN, replay \in Probe : validate_restore(revision, replay)
  \/ \E t \in DrillTypes, p \in DrillProbes : run_failure_drill(t, p)
  \/ \E s \in RestartState : build_recovery_plan(s)
  \/ \E host \in BOOLEAN, names \in SUBSET RequiredProbes :
       \E probes \in [names -> Probe] : build_target_acceptance_report(host, probes)
  \/ \E id \in SessionIds, date \in Dates, flaws \in SUBSET Flaws, trades \in TradeLists :
       RecordSession(id, date, flaws, trades)
  \/ \E id \in SessionIds, date \in Dates, r \in ReplayInput :
       build_full_session_replay_report(id, date, r)
  \/ \E S \in SUBSET sessions, R \in SUBSET replays, c \in Configs :
       build_paper_acceptance_ledger(S, R, c)

-----------------------------------------------------------------------------
(* Properties. *)

\* A restore validation that passed is of the very dump whose hash the manifest
\* holds, and that dump has the rows the manifest counted, although the program
\* goes on writing and dumps are made over one another between the steps.
RestoredIsBackedUp ==
  (restore # None /\ restore.passed) =>
    /\ restore.backup.complete
    /\ restore.backup.artifact.rows = restore.backup.table_counts

\* What a builder computes is what the validator of its own report asks for, for
\* every outcome of the probes: no drill, restore or replay is lost to an
\* exception of the model it is stored in.
BuildersAgree == ~raised

\* Whatever the action says, and however many conditions hold at once, capture
\* resumes only where nothing conflicts and nothing is held, and evaluation only
\* where besides no kill switch is active; held positions are always flattened.
RecoveryFailsClosed ==
  plan # None =>
    LET s == plan.state IN
      /\ plan.may_capture => /\ plan.action \in {"capture_only", "manual_review"}
                             /\ s.matches /\ s.consistent /\ ~s.lease
                             /\ s.positions + s.orders = 0
      /\ plan.may_evaluate => plan.may_capture /\ ~s.killed /\ s.checkpoint
      /\ (plan.action = "flatten_only") <=> s.positions > 0

\* A ledger that qualifies was built from enough sessions, every one of them
\* without flaw, under one configuration and with a sound replay of its own date,
\* and every drill it counts was sound.
QualifiedIsEarned ==
  (ledger # None /\ ledger.hash.ready) =>
    LET l == ledger.hash IN
      /\ Cardinality(l.sessions) >= minimum_sessions
      /\ \A s \in l.sessions : s.config = l.config
      /\ 100 * Cardinality({s \in l.sessions :
                              s.flaws = {} /\ \E p \in l.replays : p.id = s.id /\ p.date = s.date /\ p.sound})
           >= CleanPercent * Cardinality(l.sessions)
      /\ \A t \in l.drills : \E r \in drills : r.type = t /\ r.sound

\* The performance a ledger states: the drawdown is the deepest fall from any
\* earlier level, the start included, and never less than what the daily results
\* show; the net result is that of the sessions, and of the source types in each.
PerformanceAddsUp ==
  ledger # None =>
    LET ordered == SortedByDate(ledger.hash.sessions)
        analytics == [i \in DOMAIN ordered |-> analyze_session(ordered[i])]
        net == NetValues(FlattenSeq([i \in DOMAIN ordered |-> ordered[i].trades]))
        Level(k) == SumOf(SubSeq(net, 1, k))
        stated == ledger.hash.performance
        days == summarize_days(analytics)
    IN /\ stated.maximum_drawdown =
            Max(UNION {{Level(i) - Level(j) : j \in i .. Len(net)} : i \in 0 .. Len(net)})
       /\ days.maximum_drawdown <= stated.maximum_drawdown
       /\ stated.net_pnl = days.net_pnl /\ stated.trade_count = days.trade_count
       /\ \A i \in DOMAIN analytics :
            LET a == analytics[i] IN
              /\ a.summary.net_pnl = a.summary.gross_profit - a.summary.gross_loss
              /\ a.summary.net_pnl = MapThenSumSet(LAMBDA b : b.net_pnl,
                                       {b \in a.attributions : b.dimension = "source_type"})

\* The reports of operations say what happened: a restore that passed restored its
\* backup, a recovery plan resumes nothing that a conflict forbids, and no builder
\* refuses its own report.
OperationsReportsHold == RestoredIsBackedUp /\ RecoveryFailsClosed /\ BuildersAgree
=============================================================================
