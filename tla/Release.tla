------------------------------ MODULE Release -------------------------------
(***************************************************************************)
(* From the evidence to a release candidate: the deployment report         *)
(* (daybreak_analytics/acceptance.py), the evidence manifest, the build    *)
(* attestation, the configuration freeze, the approvals and the review of  *)
(* the candidate (daybreak_release), on top of the collection of evidence  *)
(* in Acceptance.                                                          *)
(*                                                                         *)
(* Files are rebuilt and the configuration is changed between any two      *)
(* steps, and the operator reviews whatever is on file.  A hash stands for *)
(* the content it was computed from.  A report may be altered by hand      *)
(* after it was written: it then no longer has the content of its own hash *)
(* (sealed).  A review changes nothing that a later review reads, so a     *)
(* behaviour ends with its first one.                                      *)
(***************************************************************************)
EXTENDS Acceptance

CONSTANTS BuildArtifacts,   \* the required artifacts that a build produces
          Facts,            \* what a build may attest (a set of records, see Green)
          PaperConfigs,     \* the configurations for paper trading without live execution
          Roles, required_approval_roles,
          Findings,         \* the sets of open findings a review may be given
          maximum_open_medium_findings,
          minimum_tests_collected, minimum_schema_count

VARIABLES disk,          \* the version of each artifact on disk
          clock,         \* how many manifests were generated
          manifest,      \* the EvidenceManifest on file, or None
          attestation,   \* the BuildAttestation on file, or None
          freeze,        \* the ConfigurationFreeze on file, or None
          deployment,    \* the DeploymentEvidenceReport on file, or None
          approvals,     \* the ApprovalAttestation of each role, or None
          report         \* the ProductionCandidateReport, or None

releaseVars == <<disk, clock, manifest, attestation, freeze, deployment, approvals, report>>
vars == <<acceptanceVars, releaseVars>>

Artifacts == BuildArtifacts \cup {"specification"}

ProductionCandidatePolicy ==
  /\ required_approval_roles \subseteq Roles
  /\ {minimum_tests_collected, minimum_schema_count} \subseteq Nat \ {0}
  /\ maximum_open_medium_findings \in Nat

ASSUME ReleaseAssumption ==
  /\ ProductionCandidatePolicy
  /\ "specification" \notin BuildArtifacts /\ PaperConfigs \subseteq Configs

Take(s) == report = None /\ Spend(s)

\* The versions of the build's artifacts that are on disk now.
Built == [a \in BuildArtifacts |-> disk[a]]

\* A file is built again, with other content.
Rebuild(a) ==
  /\ Take("edit")
  /\ disk' = [disk EXCEPT ![a] = @ + 1]
  /\ UNCHANGED <<config, operationsVars, analyticsVars, raised, clock, manifest, attestation, freeze,
                 deployment, approvals, report>>

\* A manifest lists the files it was given; its hash covers the time it was generated.
build_evidence_manifest(files) ==
  /\ Take("release")
  /\ clock' = clock + 1
  /\ manifest' = Sealed([at |-> clock', artifacts |-> [a \in files |-> disk[a]]])
  /\ UNCHANGED <<config, operationsVars, analyticsVars, raised, disk, attestation, freeze, deployment,
                 approvals, report>>

\* The build is attested outside of the program.
Attest(f) ==
  /\ Take("release")
  /\ attestation' = Sealed([hashes |-> Built, facts |-> f])
  /\ UNCHANGED <<config, operationsVars, analyticsVars, raised, disk, clock, manifest, freeze,
                 deployment, approvals, report>>

\* Raises unless the configuration is for paper trading.
build_configuration_freeze ==
  /\ Take("release")
  /\ config \in PaperConfigs
  /\ freeze' = Sealed([config |-> config, specification |-> disk["specification"]])
  /\ UNCHANGED <<config, operationsVars, analyticsVars, raised, disk, clock, manifest, attestation,
                 deployment, approvals, report>>

\* tests_passed = tests_collected, no secrets found
Green(f) == f.tests_passed = f.tests_collected /\ f.secret_findings = 0

\* The request names the files on disk and the ledger on file, which must be of
\* the same configuration.  online: the account, the database and the time
\* service were verified.
build_deployment_evidence_report(f, online) ==
  /\ Take("release")
  /\ ledger # None /\ ledger.body.config = config
  /\ deployment' = Sealed([ready |-> /\ Green(f) /\ IsSealed(ledger) /\ ledger.body.ready /\ online
                                     /\ target # None /\ target.ready
                                     /\ restore # None /\ restore.passed
                                     /\ REQUIRED_DRILLS \subseteq passed_drills,
                           config |-> config, ledger_hash |-> ledger.hash, hashes |-> Built,
                           specification |-> disk["specification"], facts |-> f])
  /\ UNCHANGED <<config, operationsVars, analyticsVars, raised, disk, clock, manifest, attestation,
                 freeze, approvals, report>>

\* A reviewer attests the manifest he was given.  timely: approved_at lies
\* between the manifest and the review.
Approve(role, approved, timely) ==
  /\ Take("release")
  /\ manifest # None
  /\ approvals' = [approvals EXCEPT ![role] =
                     [approved |-> approved, timely |-> timely, evidence_package_hash |-> manifest.hash]]
  /\ UNCHANGED <<config, operationsVars, analyticsVars, raised, disk, clock, manifest, attestation,
                 freeze, deployment, report>>

\* A report is altered after it was written, so that it looks as if it had passed
\* and as if it were of what is there now.  Its hash stays.
Alter ==
  /\ Take("edit")
  /\ \/ /\ ledger # None
        /\ ledger' = [ledger EXCEPT !.body.ready = TRUE, !.body.config = config]
        /\ UNCHANGED <<manifest, attestation, deployment>>
     \/ /\ manifest # None
        /\ manifest' = [manifest EXCEPT !.body.artifacts = disk]
        /\ UNCHANGED <<ledger, attestation, deployment>>
     \/ /\ attestation # None
        /\ attestation' = [attestation EXCEPT !.body.hashes = Built]
        /\ UNCHANGED <<ledger, manifest, deployment>>
     \/ /\ deployment # None /\ ledger # None
        /\ deployment' = [deployment EXCEPT !.body.ready = TRUE, !.body.hashes = Built,
                                            !.body.ledger_hash = ledger.hash]
        /\ UNCHANGED <<ledger, manifest, attestation>>
  /\ UNCHANGED <<config, operationsVars, sessions, replays, raised, disk, clock, freeze, approvals,
                 report>>

-----------------------------------------------------------------------------
(* The review. *)

Given == {r \in Roles : approvals[r] # None}

\* The artifacts the build attests and the frozen specification, as files.
ExpectedArtifacts ==
  [a \in Artifacts |-> IF a = "specification" THEN freeze.body.specification ELSE attestation.body.hashes[a]]

ManifestMatches ==
  \A a \in Artifacts : /\ a \in DOMAIN manifest.body.artifacts
                       /\ manifest.body.artifacts[a] = ExpectedArtifacts[a]

\* Mutant: the files the deployment report was made for are not compared.
DeploymentMatchesLedger ==
  /\ deployment.body.config = freeze.body.config /\ ledger.body.config = freeze.body.config
  /\ deployment.body.ledger_hash = ledger.hash

DeploymentMatches ==
  LET d == deployment.body IN
    /\ d.config = freeze.body.config /\ ledger.body.config = freeze.body.config
    /\ d.ledger_hash = ledger.hash
    /\ d.hashes = attestation.body.hashes /\ d.specification = freeze.body.specification
    /\ d.facts = attestation.body.facts

ApprovalsMatch ==
  \A r \in Given : approvals[r].evidence_package_hash = manifest.hash /\ approvals[r].timely

\* ProductionCandidateRequest: a request whose parts do not belong together is
\* refused before it is reviewed.
evidence_coherent == ManifestMatches /\ DeploymentMatches /\ ApprovalsMatch

\* Mutant: the approvals are counted.
missing_roles_by_count ==
  IF Cardinality(Given) >= Cardinality(required_approval_roles) THEN {}
  ELSE required_approval_roles \ Given

missing_roles == required_approval_roles \ {r \in Given : approvals[r].approved}

\* The blockers that say something is wrong, against those that say it is missing.
ExplicitFailures(findings) ==
  \/ ~Green(attestation.body.facts)
  \/ "high" \in findings \/ "critical" \in findings
  \/ \E r \in Given : ~approvals[r].approved

\* Mutant: the hash of the deployment report is not computed again.
SealsBrokenBefore(files) == \E f \in files \ {deployment} : ~IsSealed(f)

SealsBroken(files) == \E f \in files : ~IsSealed(f)

\* rollback: the rollback evidence is verified.  independent: so is the review.
OtherBlockers(findings, rollback, independent) ==
  LET build == attestation.body.facts IN
    \/ SealsBroken({manifest, attestation, freeze, ledger, deployment})
    \/ ~evidence_coherent
    \/ build.tests_collected < minimum_tests_collected \/ build.schema_count < minimum_schema_count
    \/ ~build.checks
    \/ ~ledger.body.ready \/ ~deployment.body.ready
    \/ ~rollback \/ ~independent
    \/ Cardinality(findings \cap {"medium"}) > maximum_open_medium_findings
    \/ missing_roles # {}

\* The status is blocked when an explicit failure is among the blockers.
CandidateStatus(findings, rollback, independent) ==
  IF ExplicitFailures(findings) THEN "blocked"
  ELSE IF OtherBlockers(findings, rollback, independent) THEN "incomplete"
  ELSE "paper_release_candidate"

review_production_candidate(findings, rollback, independent) ==
  /\ Take("release")
  /\ None \notin {manifest, attestation, freeze, ledger, deployment}
  /\ report' = [status |-> IF evidence_coherent
                           THEN CandidateStatus(findings, rollback, independent) ELSE "refused"]
  /\ UNCHANGED <<config, operationsVars, analyticsVars, raised, disk, clock, manifest, attestation,
                 freeze, deployment, approvals>>

-----------------------------------------------------------------------------
CandidateInit ==
  /\ disk = [a \in Artifacts |-> 0] /\ clock = 0
  /\ manifest = None /\ attestation = None /\ freeze = None /\ deployment = None
  /\ approvals = [r \in Roles |-> None] /\ report = None

Next ==
  \/ report = None /\ AcceptanceNext /\ UNCHANGED releaseVars
  \/ \E a \in Artifacts : Rebuild(a)
  \/ Alter
  \/ \E files \in SUBSET Artifacts : build_evidence_manifest(files)
  \/ \E f \in Facts : Attest(f)
  \/ build_configuration_freeze
  \/ \E f \in Facts, online \in BOOLEAN : build_deployment_evidence_report(f, online)
  \/ \E r \in Roles, approved, timely \in BOOLEAN : Approve(r, approved, timely)
  \/ \E findings \in Findings, rollback, independent \in BOOLEAN :
       review_production_candidate(findings, rollback, independent)

ReleaseSpec == AcceptanceInit /\ CandidateInit /\ [][Next]_vars

-----------------------------------------------------------------------------
(* Properties. *)

Candidate == report # None /\ report.status = "paper_release_candidate"

\* Everything a candidate rests on is of one build and one configuration, though
\* both were changed while the evidence was collected: the files of the manifest
\* are those the deployment report was made for, the deployment report is about
\* the ledger at hand, and every session of that ledger ran as it was frozen.
CandidateIsCoherent ==
  Candidate => /\ \A a \in BuildArtifacts : manifest.hash.artifacts[a] = deployment.hash.hashes[a]
               /\ manifest.hash.artifacts["specification"] = deployment.hash.specification
               /\ deployment.hash.ledger_hash = ledger.hash
               /\ \A s \in ledger.hash.sessions : s.config = freeze.hash.config
               /\ freeze.hash.config \in PaperConfigs

\* A candidate's ledger and deployment report said that they passed when they
\* were built, whatever was done to the files since, and the build was green.
CandidateIsEarned ==
  Candidate => ledger.hash.ready /\ deployment.hash.ready /\ Green(attestation.hash.facts)

\* A candidate has the approval of every required role for exactly the files of
\* its manifest, given in time, and nobody refused it.
CandidateIsApproved ==
  Candidate => /\ required_approval_roles \subseteq Given
               /\ \A r \in Given : /\ approvals[r].approved /\ approvals[r].timely
                                   /\ approvals[r].evidence_package_hash = manifest.body

\* What review_production_candidate calls a candidate is of one build and one
\* configuration, earned and approved.
CandidateStands == CandidateIsCoherent /\ CandidateIsEarned /\ CandidateIsApproved
=============================================================================
