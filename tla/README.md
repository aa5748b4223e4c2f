# Project Daybreak in TLA+

Daybreak runs one paper-trading session a day: it records market data and SEC
filings, freezes features, asks an evaluator for setups, sizes them, places
bracket orders at Alpaca shortly after the open, and is flat before the close.
Weeks of such sessions are evidence for a release review. This directory models
the parts of it where failures, clocks, other processes and the broker
interleave, and the pure functions between them (features, contracts, sizing,
acceptance gates); it checks them with TLC on small instances and proves the
central properties with TLAPS for every instance.

`PROJECT.json` lists components, runs, mutants, the map from definitions to
source lines, hazards and theorems. This file explains them.

## 1. Inventory

| Component | State it keeps | Operations | What is hard | What makes it correct |
|---|---|---|---|---|
| Leadership (`daybreak_orchestration/leadership.py`) | one row per session: holder, fencing token, expiry; a copy in each process | acquire, renew, release | several processes with different clocks; commit before the audit insert | of two leases held at once the older has run out, up to the clock skew; a check from memory is sound |
| Session (`service.py`, `kill_switch.py`, `persistence.py`, `alerts.py`, `clock.py`) | locals of `run`, the kill-switch table | run with its phases, waits, handlers and finally block; operator's emergency command | exceptions at every call, crash and restart, takeover, stale reads | entries begin once; a run that begins after an activation starts nothing; an unsafe end leaves the switch on; every run ends |
| Flatten (`flatten.py`, `alpaca_ops.py`) | targets, quantities submitted in this call | discover, cancel, list, close, poll | the account moves between requests; ambiguous closes; a second call | closes stay within the target and are not duplicated; completion means flat |
| Batch writer (`daybreak_recorder/persistence`) | bounded queue, batch, futures | submit, flush, stop, abort | suspended puts, failure of a batch, cancellation | an acknowledgement means stored; the table is a prefix of what was accepted |
| Capture (`daybreak_recorder/orchestration`, `adapters`, `sec`) | session status, tasks, seen accessions | run_capture, stream handlers, SEC poll | shutdown with timeouts, threads that survive cancellation | a session reported complete is complete; checkpoints never run ahead; it ends |
| Execution (`daybreak_execution`) | commands, claimed updates, results, reservation status | submit, handle_trade_update, cancel_stale_entry | lost replies, repeated and late updates, fills during a cancellation, crash after the claim | no short sale, no double cancellation, protection covers exactly what was bought |
| Risk (`daybreak_risk`) | requests, decisions, reservations | size_position, size_approved_batch, evaluate, evaluate_batch, reserve | rounding, caps, a batch stored decision by decision, retries with fresh snapshots | reservations together stay within every limit; decisions follow from stored requests |
| Evaluator (`daybreak_evaluator`) | requests, attempts, results, comparisons | evaluate_primary, evaluate_shadow | retries against the cutoff, late answers, crashes, two callers | no late or invalid answer authorises; one outcome per run; calls end |
| Contracts (`daybreak_contracts`) | none | validate_daybreak_run with 77 checks, replay of scores and ranking, compare_outputs | answers of a language model, wrong in several places at once | true answers are accepted, accepted ones are true |
| Features (`daybreak_features`) | contexts, snapshots | build_feature_snapshot with its ledger, joins, indicators, gates; save | corrections of corrections, point-in-time joins, thresholds after rounding | every candidate answered, no later float, catalyst or trade counts, payload passes the contract's gates |
| Operations (`daybreak_operations`) | reports on file | backup manifest, restore validation, drills, recovery plan, target acceptance | conditions that hold at once, a database that goes on changing | reports say what happened; recovery fails closed |
| Analytics (`daybreak_analytics`) | reports on file | session analysis, replay report, paper ledger, deployment report | evidence of different days, configurations and builds | a qualified ledger is earned; its figures add up |
| Release (`daybreak_release`) | manifest, attestation, freeze, approvals, report | build_*, review_production_candidate | files and configuration change between the steps | a candidate is of one build, earned and approved |
| Scanner, dashboard, recorder replay, command line, migrations | mostly none | see `PROJECT.json` | | |

How they interact. `SessionOrchestrator.run` calls everything else in phase
order: it shares the lease row and the kill-switch table with other processes
and with the operator's command, calls the recorder, the evaluator, the risk
engine and the execution service through `SessionHooks`, and ends in
`FlattenService.flatten`, which gets the quantities the execution hook reported.
Recorder streams run in threads, hand events over to the event loop, and share
the batch writer with the pollers and the manifest. The execution service gets
trade updates from a stream and orders from the session; the broker is shared
with flatten. Features are frozen into the payload the evaluator is asked about,
its answer passes the contracts, and what they approve goes to the risk engine as
one batch. Operations, analytics and release read files: each report is built
from earlier ones, in an order only the operator keeps. What is hard in each, line by line, is the `hazards` list.

## 2. Modules

| Module | Models | Used by |
|---|---|---|
| `Leadership` | the lease row, process clocks, cached checks | `Session`, `SessionProofs` |
| `Session` | the orchestrators and the operator of one session (extends `Leadership`) | `SessionProofs` |
| `Flatten` | flatten calls against a moving account | `SessionProofs` |
| `BatchWriter` | the queue, its writer task and its owner | `Recorder` |
| `Recorder` | run_capture and its services around the writer (extends `BatchWriter`) | `RecorderProofs` |
| `Execution` | the execution service and one bracket order at the broker | `ExecutionProofs` |
| `RiskEngine` | sizing of one setup: checks, caps, rounding | `Risk` |
| `RiskLedger` | what the risk service promises: an append-only ledger within the session's limits | `Risk` (refinement) |
| `Risk` | the service, its batches, transactions and retries (extends `RiskEngine`, instantiates `RiskLedger`) | `RiskProofs` |
| `Evaluator` | one evaluation run, its calls, retries, rows and the shadow call | `RecorderProofs` |
| `ContractReplay` | scores, gates, flags and ranking as Python recomputes them; shapes of input and output | `Contracts`, `Features`, `ReplayProofs` |
| `Contracts` | the checks on an answer, and the comparison of two (extends `ContractReplay`) | `ContractsProofs` |
| `Features` | from a context to the payload, and its two tables (extends `ContractReplay`, whose gates the payload has to pass) | `FeaturesProofs` |
| `Acceptance` | operations and analytics: the evidence on file | `Release` |
| `Release` | deployment report to review, on top of the evidence (extends `Acceptance`) | `ReleaseProofs` |
| `MC*` | the instances for TLC | |
| `*Proofs` | theorems and lemmas: `SessionProofs` has those of `Leadership` and `Flatten` too, `RecorderProofs` those of `BatchWriter` and `Evaluator`, `RiskProofs` of the three risk modules, `ReleaseProofs` of `Acceptance`; `ReplayProofs` has the lemmas about order, filters and sorting that `FeaturesProofs` and `ContractsProofs` share | |

**Leadership.** `row` is the database row, `held[h]` the `_lease` of process
`h`. `now` is true time; `Clock(h)` is what `h` reads, at most `MaxSkew` ahead.
A statement carries a timestamp that is up to `MaxDelay` old. `acquire` and
`renew` are two transactions: `Acquire` and `Renew` commit the row, and `asked[h]`
holds the lease they return until `Audit` has stored the audit event, when the
process gets it, or `AuditRaises`, when it does not. `CachedCheck` is
`_renew_leadership` returning early.

**Session.** `run[h]` are the locals of one call: `pc` the step, `stage` the
phase it is at, `seen` the switch as read at the start, `path` the handler taken,
`then` the place `_renew_leadership` returns to, `started` the local of `_run_phase`.
A renewal (from memory, or the row and then its audit event), its return and the
call of the hook are steps with anything in between. The tables are empty at the
start. Two fields are history: `stopped`, the switch was active and the first
state stored when the run began, and `unheard`, an alert raised in a handler.
Every collaborator call is a step and may raise if the collaborator is in
`Faulty`; `Crash` ends a process anywhere. Since `Session` extends `Leadership`
and uses its actions, a session is a refinement of the lease
(`SessionImplementsLease`). Phase and alert rows are only written and are left
out; that writing them may fail is not.

**Flatten.** One variable per local of `flatten` and one per broker quantity.
Positions are listed a symbol at a time. `CloseAmbiguous` is a close that the
broker took and that raised, at most `MaxLost` times. `Ledgers` tells which
`managed_quantities` the caller passes: what it ordered, or nothing, as a
restarted run and the operator's command do. A close order sells what it was
asked to and no more than the account holds. The second call inside `run`
(`service.py:233`) passes the same ledger again, an operator's passes none;
`FlattenAgain` has both.

**BatchWriter and Recorder.** A step is what an asyncio task does between two
awaits; the exception is stream threads, whose submissions arrive on the loop at
any time, also after their task was cancelled. A put that suspended on a full
queue resumes without a check, as `asyncio.Queue.put` does. `append_batch` is
one transaction. The first poll of a CIK emits the filings within the lookback
and then marks the SEC's whole answer as seen; `Aged` counts the older filings,
and a CIK may also be known from an earlier session. A task that returns before the
stop is `ended`, which run_capture counts as an error. That alpaca-py goes on after
a handler raised is an assumption about that library.

**Execution.** `pc` is the place in the one call that holds the service lock.
Each broker request and each transaction is a step; `Crash` may come between any
two. Replies are lost before or after the order got there, and a lost POST may
arrive late (`inflight`). `emitted` is everything the broker ever published, and
any of it may be delivered at any time, any number of times. Broker statuses
that the code treats alike are one: accepted, pending_new and new are `new`;
done_for_day, suspended, stopped and pending_replace are `held`; pending_cancel is
`pending`, which keeps filling; the rare replaced and calculated are folded into the
status before them. Updates of
the bracket's exits arrive too; their ids are unknown to the service. An
order matches its command by quantity; `whole` says whether the bracket's legs
are as commanded.

**RiskEngine, RiskLedger and Risk.** Money is an integer number of a unit below
the cent, ratios integers of 1/`Whole`; floors and tick rounding are those of
`rounding.py`. Conditions that only add a rejection code of their own are the
field `faults` of the input. `Risk` stores a batch in single transactions, each
of which may fail; `Retry` repeats a call with the same ids and the same or fresh
snapshots. `KeepsLedger` is the refinement: the reservation rows are the ledger
of `RiskLedger`, whose limits are what account, books and policy left at the
start. `Nat` and the record of limits are the refinement mapping.

**Evaluator.** `pc` has a place for each caller of the run, in one process or in
several, and one for the shadow path; callers run at the same time and tell their
attempts apart by `callId`. What a provider says is what becomes of it; a call is
cancelled at its deadline, or by the client's own timeout before it, but an answer
already being handled may complete `Slack` ticks later. Tables are append-only,
keep the first row, and refuse a second attempt of one number. A crash ends some
or all coroutines and leaves the tables. Two shadow calls of one run are checked
one after the other only.

**ContractReplay and Contracts.** A ticker is a number, a text its length, an
excerpt the span it repeats. The sets `DaybreakInput` and `DaybreakOutput` are
what the schemas leave of a payload and of an answer. The answer starts as the
true one and is altered `MaxAlterations` times, field by field and record by
record, before it is validated; bucket and evidence span are what the language
model is trusted with. The ranking is there twice: `expected_passing_order` goes
tie group by tie group, as the code does, and `TrueRanking` is an order on the
records (by their group's best score, then by the keys), as section 9.3 of the
specification words it.

**Features.** One axis of ticks cut into days and hours; a price counts quanta, a
ratio 1/`Unit`, rounded half to even; periods and widths are scaled down and the
decimal thresholds are the code's. `Recollect` gathers the same facts in another
order.

**Acceptance and Release.** Every command writes one report; the operator may run
them in any order, repeat them and leave some out. A hash stands for what it was
computed from, so a sealed report is one whose body equals its hash, and `Alter`
edits the body only. The operator is honest about the flags he hands in, which
nothing in the code checks.

## 3. Runs

| Run | Question | Bounds |
|---|---|---|
| `leadership` | can two processes believe they lead | 2 processes, TTL 4, 9 ticks, 4 grants: enough for two takeovers with skew and delay |
| `session` | what do two orchestrators and an operator leave behind | 2 processes, skew 1, TTL 3, 5 ticks, 3 runs from empty tables: two runs may read the empty switch and a third begin after the activation; ticks between cutoff, lock and open; hooks, alerts and flatten may raise |
| `session_ends` | does every run end | 1 process, 3 runs, every collaborator may raise |
| `flatten` | does one call stay within its targets | 2 symbols of up to 2 shares, so partial fills of both sides happen |
| `flatten_ends` | does flatten return | 1 symbol, 2 calls, 1 ambiguous close, foreign shares |
| `recorder` | acknowledgements, order, checkpoint, status; does run_capture end | manifest, 2 stream and 2 poller events over a queue and a batch of 2: batches mix sources, puts suspend, and an acknowledgement can stay out; one aged filing, the CIK new or known |
| `risk` | do reservations stay within the limits | 3 tickers, 2 calls of up to 2 setups, two quotes, two accounts, a later session state: caps by risk, cash and exposure all bind, calls fail and are repeated |
| `evaluator` | is every decision in time and final, does every call end | 2 callers at the same time, 2 attempts, 2 calls, cutoff after 2 ticks, answers 1 tick late, two outputs, timeouts raised by the SDK before the deadline |
| `contracts` | are the checks complete and sound | 10 payloads (ties, chains of close scores, every gate, halted, blocked, unparsed), 2 alterations |
| `features` | what a snapshot depends on | five families: ledgers of four events, the last of which may be later than the snapshot, charts of seven bars, pairs of catalysts and floats, thresholds, four candidates for two places |
| `release` | what a candidate rests on | seven families, each starting where the other evidence is there: 5 backup steps with 2 writes; 2 drills with every outcome of their probes; all 128 restart states; 2 sessions and replays with a reconfiguration; two sessions of up to 2 trades; a release from a new build in 4 steps, and one on file with 3 steps and 2 changes |
| `execution` | lost replies, fills during cancellation, repeated updates | 3 shares, 3 calls: a partial fill grows while it is canceled, and a redelivery follows |

Families are initial states: TLC explores their sum instead of their product. In
`release` the disjuncts start from evidence that the other families show can be
collected.

Some properties are conjunctions of named parts, which the modules explain:
`EndIsSafe` (Session), `StatusIsTrue` and `StoredFirst` (Recorder),
`ResultIsTrue` (Execution), `RowsExplained` (Risk), `OutcomeIsFinal`
(Evaluator), `AcceptedIsSound` (Contracts), `SnapshotIsComplete` and
`SnapshotOfItsTime` (Features), `OperationsReportsHold` (Acceptance),
`CandidateStands` (Release). Each part has a mutant of its own.

`EndIsSafe` is checked with hooks, alerts and flatten that raise and a database that
answers: without it no switch can be saved.

### Divergences

Where the code does not do what the repository says of it. The first six have a
property in the module that states the expectation; it is not claimed by a run,
and TLC refutes it with the constants given there.

- `KillSwitchSticky`: in a new session every run that reads the empty table writes the
  inactive state in a second transaction, and an activation between the two is overlaid
  (`daybreak_orchestration/service.py:75`): that run trades, and so does each later one
  that reads the inactive row. docs/PHASE6_ORCHESTRATION.md:40 says "It never resets
  automatically." The row is written once, so that from then on nothing overlays an
  activation, which is what `NoHookInStoppedRun` checks.
- `NoDuplicateClose` with `MaxCalls = 2`: a second flatten closes again what the
  first one's outstanding close covers, because `submitted_quantities` is local
  (`flatten.py:58`); flatten.py:91 says "never duplicate an outstanding close", and
  the audit of 2026-08-02, line 225, that "repeated flatten invocations are
  idempotent because each re-derives live broker state".
- `PendingAcksFailed`: a suspended put outlives the failing writer and waits for
  ever (`batch_writer.py:192`); the docstring of abort (line 121) says "Cancel the
  writer and fail every pending durability acknowledgement."
- `RejectedMeansNoOrder`: an accepted POST with an unreadable reply, or an order
  that was canceled after a partial fill, is reported rejected with nothing to
  reconcile (`daybreak_execution/service.py:382`, `:316`); docs/ARCHITECTURE.md:18
  says it "fails closed when broker identity or state cannot be proven".
- `PartialNeverForgotten`: a crash after the claim of an update leaves a partial
  fill unprotected and reported as reconciled (`service.py:478`);
  docs/PHASE5_EXECUTION.md:44 "marks the execution `reconciliation_required` even
  when protection is acknowledged."
- `ReplayMatches` and `RankingIsChecked`: a stored request of rank 2, sized alone,
  does not give the stored decision (`daybreak_risk/service.py:29` against
  docs/PHASE4_RISK_ENGINE.md:75); an answer that swaps two catalyst ages inside a
  tie group passes all checks with another ranking (`replay.py:312` against
  docs/PHASE3_EVALUATOR.md:7).

The following have no property of their own. The properties of the runs are
stated so that they hold in spite of them.

- A hook that outlasts the lease runs beside the hooks of the process that took
  over (`daybreak_orchestration/service.py:295`); README.md:35 of the repository
  says "One active leader and durable stop state". A hook may also start beside the new
  leader's when more than `HookSlack` (TTL less interval less skew) lies between the reading
  the renewal was checked with and the call: a slow audit insert, a suspended process.
  `HookStartsAsLeader` says that up to there it does not; `EntriesOnce` holds all the same.
- A run reads the switch once, before it acquires the lease (`service.py:74`, `:102`): an
  operator's activation during a run stops no hook of it, only the runs after it.
- An alert that raises in a handler leaves it before the emergency flatten
  (`service.py:212`): `KilledRunFlattens` and `CleanResultIsFlat` are not about such runs,
  and the saved outcome may still be COMPLETED. The switch they leave is active.
- A close that the broker took although it raised is sent again at the next poll
  (`flatten.py:69`): with `MaxLost = 1`, `ClosesWithinTarget` fails.
- Once a close has filled, a late fill of the same symbol up to that quantity
  counts as covered (`flatten.py:63`); the call polls to its deadline and reports
  that it is incomplete.
- Without a ledger an order that is unfilled when targets are discovered is no
  target (`flatten.py:43`), and its fill during the cancellation stays.
- Close orders have no `DB-` prefix, so a second flatten does not count them
  (`alpaca_ops.py:156`) and may sell shares that are not Daybreak's.
- The first poll of a CIK marks filings older than the lookback as seen
  (`submissions.py:261`), which no event of any session has.
- A stream message whose put times out is dropped with a failure row, and the
  session can still complete (`adapters/common.py:211`).
- An order in pending_cancel that has bought shares counts as settled whenever submit or
  an update finds it (`daybreak_execution/service.py:336`, `:425`, `:521`): no stop follows
  unless another update says partially_filled.
- A protective stop counts as acknowledged whatever its status
  (`daybreak_execution/service.py:567`), and a partial fill of the stop makes the
  service cancel the stop (`service.py:521`).
- Features: the ledger is materialized before the window is applied to it
  (`ledger.py:12`, `core_features.py:38`), so a cancel or correction stamped after the
  snapshot takes an earlier trade out of it; `LaterTradesStayOut` is about the trades
  first reported after it. A correction that reuses an active id overwrites that trade, where
  docs/PHASE2_FEATURE_ENGINE.md:13 says that duplicate identifiers fail closed;
  after two chained corrections a cancel of the original id rejects the candidate
  (aliases are one level deep); a catalyst text beyond the limit raises for the
  whole snapshot; a price equal to the old high counts as blue sky; of equal float
  records the first in order wins.
- Contracts: some payloads have no acceptable answer (`Answerable`), because two
  checks order the gates differently; an approved answer with run blockers passes.
- Recovery: docs/PHASE7_OPERATIONS.md says that conflicts block recovery and that
  an active kill switch requires manual review, but each later condition overwrites
  the action (`recovery.py:28`): an inconsistent database without a checkpoint is
  capture_only, with may_resume_capture false. `RecoveryFailsClosed` is about the
  flags.
- Drills: a simulated drill carries no mark (`daybreak/cli.py:876`); a later failed
  drill does not cancel an earlier one that passed; operations asks for six drills
  and analytics counts seven.
- Release: the flags for target, restore and drills are asserted by the operator
  and bound neither to the build nor, in the ledger, to the configuration;
  approvals attest the manifest only, so that ledger, deployment report and
  rollback evidence may be made again after them; encryption of a backup is not
  looked at.

`CHECK_DEADLOCK FALSE` throughout: runs, calls and captures end, and the
counters are bounded (`MaxTime`, `MaxToken`, `MaxRuns`, `MaxCalls`, `MaxLost`,
`MaxEvents`, `MaxAlterations`, and in Acceptance `left`, which counts down how
often a step may still happen). Symmetry is used for processes, symbols and tickers, which the modules
never tell apart, and only where no liveness is checked.

### Fairness

- `SessionFairSpec`: time passes and a process that can take a step takes one.
  Calls have timeouts or are local; a crash is never required.
- `FlattenFairSpec`: the service takes its steps, and the clock reaches the
  deadline. Nothing is assumed of the broker.
- `RecorderFairSpec`: run_capture and the writer task run. Every wait of
  run_capture has a timeout, so streams and pollers need no fairness.
- `EvaluatorFairSpec`: time passes, and a coroutine whose answer or timeout is
  there is scheduled. Nothing is assumed of the provider: it may never answer.

## 4. Proofs

Every theorem is about all values of the constants that the named assumptions
allow: any number of processes, symbols, events, shares, calls or sessions. TLC
checks the same definitions on the small instances of section 3.

| Theorem | Says | Assumes |
|---|---|---|
| `LeaseTypeCorrect`, `LeaseExclusive` | types; of two leases held at once the older has run out by its holder's clock, or has at most `MaxSkew` left | `LeadershipAssumption` |
| `LeaseCachedCheckSound` | a lease confirmed from memory is the lease in the row | also `LeaseMargin` |
| `SessionImplementsLease` | a session takes only steps of the lease | |
| `SessionTypeCorrect`, `SessionEntriesOnce`, `SessionHookLeader` | types; entries begin at most once; a hook called within `HookSlack` of the reading its lease was checked with starts in the process the row names | also `SessionAssumption`, `CutoffMargin` |
| `StoppedRunStartsNothing` | once the first switch state is stored, a run that begins after an activation starts no hook | same |
| `RunsEndSafely` | a killed run has flattened, a clean result is flat (unless their alert raised), any other end leaves the switch active | also: database not in `Faulty` |
| `FlattenTypeCorrect` | types, no quantity below zero | `FlattenAssumption` |
| `FlattenWithinTarget`, `FlattenNoDuplicate` | a call closes at most its target; the first has no more closes waiting than the account holds | `MaxLost = 0` |
| `FlattenCompleteIsFlat` | a complete call leaves only what was bought after the last look | `FlattenAssumption` |
| `RecorderRunsTheWriter`, `RecorderTypesHold` | run_capture takes only steps of the writer; types, the queue's bound | `WriterAssumption`, `RecorderAssumption` |
| `AckStaysBacked`, `TableKeepsOrder` | acknowledged is stored; the table is a prefix of what was accepted | |
| `StoredComesFirst`, `StatusStaysTrue` | manifest first, checkpoints stored but for the aged filings; "completed" means everything stored | |
| `ExecutionTypesHold`, `StopStaysWithinFill`, `UpdatesCancelOnce`, `ResultStaysTrue` | types; no stop beyond the fill; an update cancels once; results are true | `ExecutionAssumption` |
| `ApprovedFits` | what size_position approves fits every limit | `PolicyCoherence` |
| `RowsStayExplained` | decisions follow from stored requests; what a collision means | also `RiskAssumption` |
| `ServiceKeepsLedger` | `Risk` implements `RiskLedger` | |
| `EvaluatorTypesHold`, `DecisionIsInTime`, `OutcomeStaysFinal`, `ComparisonStaysBacked` | types; a decision is in time; an outcome is final; a comparison is of stored attempts | `EvaluatorAssumption` |
| `OperationsReportsStayTrue`, `QualifiedStaysEarned` | restore, recovery and builders; a ledger that qualifies was earned | `AcceptanceAssumption` |
| `CandidatesStand` | a candidate is of one build, earned and approved | also `ReleaseAssumption` |
| `EveryTradeCountedOnce` | an accepted ledger has the last version of each trade once | `FeatureAssumption` |
| `PayloadCanBeApproved`, `EverySnapshotComplete` | what is sent passes the contract's gates; every candidate is answered, and only a long text raises | `FeatureAssumption`, `ReplayAssumption` |
| `RoomNeverOverstated` | the room above a price is at most that to the highest high and to a level two pivots share | same |
| `NothingLaterCounts` | float records and catalysts observed after the snapshot have no influence | same |
| `SnapshotsAreOfTheirTime` | neither have they, nor has the order of collection | also `NoTiesIn(context)` |
| `TruthIsAcceptedTheorem` | the true answer to a payload that can be answered passes all checks, scored or not | `TruthAssumption`, `ContractAssumption`, `ReplayAssumption` |
| `AcceptedIsSoundTheorem` | an accepted answer has the records, ranking and trades of the true one, its evidence is in the text, and it trades nothing where nothing was to be scored | `ContractAssumption`, `ReplayAssumption` |
| `NoDifferenceTheorem` | an accepted answer that the comparison cannot tell from the true one trades the same | same |

*Assumptions.* `LeaseMargin`, renew interval + skew + delay at most the TTL, is
stronger than what `OrchestrationPolicy` enforces (interval below TTL); the
defaults leave room for it. `CutoffMargin` is the gap between the evaluator's
cutoff and the open, which the plan's order gives up to the skew of the clocks.
`RunsEndSafely` excludes a failing database because a handler of run that raises
ends it before it wrote the switch or flattened; TLC refutes `EndIsSafe` with it in
`Faulty`.

*Leadership.* `ExclusiveLease` is not inductive: `LeaseInv` adds, of each process's
lease and of the one it is about to get (`Issued`), that one with the row's token is of
the row's holder and expires no later than the row, and that one with an older token
has expired up to the skew; and that no token is issued twice.

*Session.* `EntryInv` adds that a process inside the try block has a lease, that
a process at the entry hook has seen the open, and the heart of the argument,
`EntriesOK`: a process whose lease was confirmed for the entry hook is `Sure` to
call it, whatever happens to the lease meanwhile. From then on it is past the
evaluator's cutoff for every clock, so no run can newly get to the point before its
entries, and every run already `Waiting` there has lost the lease and fails at its
next check. `SessionHookLeader` follows from what `LeaseChecked` says of `started`
and the lease, with `FreshLease`: a lease that no clock has seen expire is the row's.
`StoppedInv` says that under an active switch with the first state stored the switch
stays active, and that a stopped run has read it so or has yet to read it.
`EndInv` follows each path through the handlers: what is already flattened and
what is already in the switch at every step from the exception to the end, and that
a run past the check has seen the first state stored.

*Flatten.* `FlattenInv` adds that a listing is capped by the target and by what
was ever in the account and that `submitted_quantities` is exactly what the
broker accepted; `FirstCall` that in the first call those are the open and the
filled closes. The assumption `MaxLost = 0` is needed, as the ambiguous close
above shows, and a second call is the counterexample among the divergences.
`FlatInv` needs neither: what the loop has not seen since its last listing was
bought since then.

*Recorder.* `WriterInv` is about `Pipeline`: what was accepted is the table, then
the batch, then the queue, with the sentinel anywhere in the queue once stop was
called; a writer that failed has dropped the rest. `DrainKeepsAll` says that the
loop that empties the queue at the sentinel keeps what is behind it; so that it
can be proved, `WithoutStop` is a recursive function. `RecorderInv` adds
the order of the stages, that a stage after the wait has no running service,
that a drained writer has an empty queue, that no task came to its end early unless
there is an error, and that a filing is marked after its acknowledgement unless it is
an aged one.

*Execution.* `ExecutionInv` adds that a protective command is stored only for
what a canceled parent has bought, which no longer changes, and that every stop
is the one commanded; that a claimed update has not been used by the call that
holds the claim; and that whatever an update is about was placed.

*Risk.* `ApprovedFits` is about the arithmetic: the quantity is the least of the
caps, each a floor of what is left of a limit over the price or the risk of one
share, so that the product fits. `RiskInv` says that a batch is sized with the
state its predecessors leave, that what is stored is the first ranks of a call,
that `reserved` is what the rows add up to, and (`ReadsOK`) that a decision about
to be stored was made from what a caller would read now. Totals over sets of rows
are sums by `MapThenSumSet`, of which `SumGrows` and its companions say what one
more row adds. The refinement maps the ledger to the reservations: storing a
decision is a grant or a refusal, a new snapshot of the account an observation,
all other steps stutter.

*Evaluator.* `EvaluatorInv` adds that the first attempt is stored before any other
and that the unique key stops every other call at it (`FirstIsStored`), that a
second attempt is made only by the call that stored the first, after a transport
error (`SecondIsRetry`), that of all callers at most one has stored an attempt and
not concluded (`OneDecides`), and that only the last attempt decides.

*Acceptance and release.* `ReleaseInv` says of each file what its hash stands for,
whatever is done to the body. A replay is looked up by id, and the latest of
several is taken: `LatestExists` and `ReplayOfIsOne` say that one is found, and
the check of its date makes it the session's own. The review compares every hash
with its body, so a candidate inherits what the hashes say. `ReleaseSpec` starts
with nothing on file and any numbers in `left`; TLC's families start later.

*Features.* A snapshot is what `build_feature_snapshot` makes of a context that
validates, and a context collected again validates too (`FeatureInv`); the rest is
about the functions, for lists of any length. `Kept` and `SortedBy` say what
comprehensions and `sorted` do by counting what comes before an element, because the
provers cannot look into `SelectSeq` and `SortSeq`; `KeptIs`, `SortedIs` and
`OneLine` (a total order lines a finite set up in one way) carry everything that
depends on order. The recursive parts are functions on the numbers (`Ledgers`,
`Averages`, `Roots`) or on the subsets of the pivots (`_clusters`), which
`RecursionOnNumbers` and `RecursionOnSubsets` show to exist.

- `LedgerExact`: after n events what is active is the last version of each trade, and
  the alias of an id is that of the trade it leads to, an invariant of the loop over
  the events. `OwnIds` is needed: a correction that reuses an active id overwrites
  that trade.
- `RoomIs`: two pivots at one level fall into the same cluster, which is valid when
  one of them is recent, and rounding half to even is monotone (`QuantizeMonotone`).
- `BuiltIs`: the ranked list has the accepted decisions' features, and every value
  in it has a type the payload's validators take.
- `KnownFeatures` and `TurnedFeatures`: each part of a candidate's features is the same
  without the later records, and with all its lists reversed.
  `CollectionInv` then says that what is stored was built from a context that says
  the same as the present one. `NoTiesIn` asks that no two sessions of a candidate
  have one date, no two float records one key and no two best catalysts one key: of
  such records the code takes the first in order, as the divergences say. All
  initial contexts of `features` satisfy it.

*Contracts.* `ContractInv` says that payload and answer have the shapes the
schemas give them, whatever was altered, and that a report is about the present
answer. What remains is about the 77 checks as functions.

- Checks 1, 3, 4 and 5 count: as many records as tickers, no ticker twice, and every
  record's ticker in the payload, so that every ticker has exactly one record
  (`HasRecord`, by the pigeonhole principle). Its scores and flags are those
  of the payload (`SameContents`), so that it stands in the array its gates put it in.
- `KernelExists`: of any finite set of scores one can choose the anchors, each more
  than two points from the better ones, and in only one way. `RankedByGroups` says
  that ranking group by group gives the order by anchors. Both are inductions on
  what is left. `OneLine` then makes places and ranks those of the true answer.
- `TruthIsAccepted` is the converse, and with the others it says that the checks are
  neither too weak nor too strict. It is about payloads and metadata in order,
  `TruthAssumption`: judged evidence is in the text and there is some for a driver, a
  parsed payload has every field to echo, and the orchestrator's evidence is about this
  payload and contradicts no rule (checks 41 to 44 and 57 to 66 are meant to turn
  down an answer whose run broke one). No schema states these, so they are assumed;
  TLC evaluates them on `MCContracts`, and no other theorem uses them. Each record of
  the true answer is the true record of its ticker but for the rank
  (`RecordsAreSound`); `FlagsAreSound` and `ChartReasons` follow the positions that
  `Kept` keeps, so that flags are in canonical order and the first reason of a capped
  chart is the one check 47 wants; `TruthSplit` and `SaidAsRanked` make the ranking by
  anchors the computed one.
- For the comparison, the buckets of an accepted answer that agrees with the true one
  are the true buckets, so that everything that follows from them is too.

*Induction.* The library's principles take a predicate as a parameter, which the
provers cannot be given. `LeastNumber`, which speaks of a set, takes their place
where something holds of every length or every finite set: the least
counterexample does not exist. The inductive invariants were checked with TLC on
the instances of section 3 before they were proved.

Only model-checked:

- Liveness (`RunsEnd`, `FlattenReturns`, `CaptureEnds`, `EvaluationEnds`), which is
  outside the prover's reach.
- `LaterTradesStayOut`, about the root trade that a chain of corrections begins with.
- `PerformanceAddsUp`, about what folds over a list of trades compute: induction
  over data with a step the provers are not given.


## 5. Not modelled

- The scanner, the dashboard, the command line's parsing, schemas, migrations and
  deployment: no state of their own, generated, or pure I/O. Keys and triggers of
  the migrations are used as facts of the modelled repositories.
- Audit, phase and alert rows that are only written, and the insert-only tables of
  operations, analytics and release.
- Hashing and serialisation: a hash stands for its content. Prompt and JSON schema
  of the evaluator. Rates and averages of analytics, which are quotients of what is
  kept.
- The session id is fixed: two runs of one day with different configurations have
  different leases and do not exclude each other, as in the code (`clock.py:24`).
- Flatten and execution each have their own account; a reservation's latest status
  has no reader under `src/`.
- The replay of recorded events reads the table in the order that
  `AcceptanceOrder` is about.

## 6. Plan

1. One account that `Flatten` and `Execution` act on; a run over two session ids.
2. `Replay` over the table that `Recorder` fills; reconciliation as an operator
   over the orders of `Execution`.
