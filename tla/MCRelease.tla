----------------------------- MODULE MCRelease ------------------------------
(* Small instances of the road to a release candidate, in families that  *)
(* start where evidence of the other kinds is already there.               *)
EXTENDS Release

Trade(entry, exit, fees, source, flags) ==
  [entry |-> entry, exit |-> exit, quantity |-> 1, fees |-> fees, source_type |-> source,
   risk_flags |-> flags]
Win == Trade(2, 5, 1, "primary", {})
Loss == Trade(5, 2, 1, "secondary", {"low_float"})
Even == Trade(2, 3, 1, "primary", {"low_float"})
MCTradeLists == {<<Win>>}

Build(collected, passed, secrets, checks) ==
  [tests_collected |-> collected, tests_passed |-> passed, schema_count |-> 1,
   secret_findings |-> secrets, checks |-> checks]
MCFacts == {Build(2, 2, 0, TRUE), Build(2, 1, 0, TRUE)}

NoStep == [s \in Step |-> 0]

SafeState == [matches |-> TRUE, consistent |-> TRUE, lease |-> FALSE, killed |-> FALSE,
              positions |-> 0, orders |-> 0, checkpoint |-> TRUE]
SafePlan == [state |-> SafeState, action |-> "capture_only", may_capture |-> TRUE,
             may_evaluate |-> TRUE]
GoodRestore == [passed |-> TRUE,
                backup |-> [artifact |-> [rows |-> 0], table_counts |-> 0, complete |-> TRUE]]
AllDrilled == {[type |-> t, passed |-> TRUE, sound |-> TRUE] : t \in DrillTypes}
ReadyTarget == [ready |-> TRUE, config |-> "c1"]
Session(id, date, flaws, trades) ==
  [id |-> id, date |-> date, config |-> "c1", flaws |-> flaws, trades |-> trades]
Replayed(s) == [id |-> s.id, date |-> s.date, passed |-> TRUE, sound |-> TRUE]

Nothing == /\ restore = None /\ drills = {} /\ plan = None /\ target = None
           /\ sessions = {} /\ replays = {} /\ ledger = None
Verified == restore = GoodRestore /\ drills = AllDrilled /\ plan = SafePlan /\ target = ReadyTarget

\* Backups ...
BackingUp == /\ Nothing
             /\ left = [NoStep EXCEPT !.write = 2, !.backup = 5]
\* ... and drills and target acceptance, with a restore that passed or none.
Drilling == /\ restore \in {None, GoodRestore} /\ drills = {} /\ plan = SafePlan /\ target = None
            /\ sessions = {} /\ replays = {} /\ ledger = None
            /\ left = [NoStep EXCEPT !.drill = 2, !.target = 1]
\* The restart after each kind of failure.
Restarting == Nothing /\ left = [NoStep EXCEPT !.plan = 1]
\* Sessions and their replays, with a change of the configuration.
Collecting == /\ Verified
              /\ sessions = {} /\ replays = {} /\ ledger = None
              /\ left = [NoStep EXCEPT !.edit = 1, !.session = 2, !.replay = 2, !.ledger = 1]
\* The results of two sessions.
Results == /\ Verified /\ ledger = None
           /\ \E t1, t2 \in UNION {[1 .. n -> {Win, Loss, Even}] : n \in 0 .. 2} :
                sessions = {Session(1, 1, {}, t1), Session(2, 2, {}, t2)}
           /\ replays = {Replayed(s) : s \in sessions}
           /\ left = [NoStep EXCEPT !.ledger = 1]
\* The release, with a ledger that qualifies or one that does not: from a new build ...
Ledger == /\ Verified
          /\ \E flaws \in {{}, Flaws} :
               sessions = {Session(1, 1, flaws, <<Win>>), Session(2, 2, {}, <<Win>>)}
          /\ replays = {Replayed(s) : s \in sessions}
          /\ ledger = Sealed(LedgerOf(sessions, replays, "c1", TRUE, TRUE, DrillTypes))
Original == [a \in BuildArtifacts |-> 0]
Attested == Sealed([hashes |-> Original, facts |-> Build(2, 2, 0, TRUE)])
Frozen == Sealed([config |-> "c1", specification |-> 0])
Releasing ==
  /\ Ledger
  /\ disk = [a \in Artifacts |-> 0] /\ clock = 0 /\ attestation = Attested
  /\ manifest = None /\ freeze = Frozen /\ deployment = None
  /\ approvals = [r \in Roles |-> None] /\ report = None
  /\ left = [NoStep EXCEPT !.edit = 1, !.release = 4]
\* ... or when everything is on file, of one build, and some of it is made again.
Package == [at |-> 1, artifacts |-> [a \in Artifacts |-> 0]]
Assembled ==
  /\ Ledger
  /\ disk = [a \in Artifacts |-> 0] /\ clock = 1
  /\ manifest = Sealed(Package)
  /\ attestation = Attested
  /\ freeze = Frozen
  /\ deployment = Sealed([ready |-> ledger.body.ready, config |-> "c1", ledger_hash |-> ledger.hash,
                          hashes |-> Original, specification |-> 0, facts |-> Build(2, 2, 0, TRUE)])
  /\ approvals = [r \in Roles |-> [approved |-> TRUE, timely |-> TRUE, evidence_package_hash |-> Package]]
  /\ report = None
  /\ left = [NoStep EXCEPT !.edit = 2, !.release = 3]

MCInit ==
  /\ config = "c1" /\ rows = 0 /\ dump = None /\ backup = None /\ raised = FALSE
  /\ \/ CandidateInit /\ (BackingUp \/ Drilling \/ Restarting \/ Collecting \/ Results)
     \/ Releasing
     \/ Assembled

MCSpec == MCInit /\ [][Next]_vars
=============================================================================
