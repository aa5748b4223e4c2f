----------------------------- MODULE Contracts ------------------------------
(***************************************************************************)
(* validate_daybreak_run (daybreak_contracts/validation): the 77 checks an *)
(* evaluator answer has to pass before anything is traded on it, and       *)
(* compare_outputs (daybreak_evaluator/comparison.py), which sets a shadow *)
(* answer beside it.                                                       *)
(*                                                                         *)
(* The answer comes from a language model: it starts as the true answer to *)
(* the payload and is then altered, field by field and record by record,   *)
(* before it is validated.  What the model is trusted with, and the true   *)
(* answer takes as given, is the magnitude bucket and the evidence span.   *)
(* Checks that only repeat what the schemas enforce (6-12, 16, 18, 24, 49, *)
(* 50, 53, 56, 61, 68, 72, 74-76) are the shapes of ContractReplay; 34, 35, *)
(* 39 and 55 report on fixtures and cannot fail.                           *)
(***************************************************************************)
EXTENDS ContractReplay

CONSTANTS Payloads,         \* what the validator is given as input
          Metadata,         \* the evidence the orchestrator may give with an answer
          MaxAlterations    \* bound of the model: how far an answer is from the truth

VARIABLES payload,
          metadata,
          answer,           \* the DaybreakOutput of the model
          altered,          \* the alterations made so far
          report,           \* ValidationReport, or NoReport
          comparison        \* ShadowComparison with the true answer, or NoComparison

contractVars == <<payload, metadata, answer, altered, report, comparison>>

-----------------------------------------------------------------------------
(* Shapes: what JSON and the schemas leave of a payload and of an answer.  *)

Elements(s) == {s[i] : i \in DOMAIN s}
Tickers(s)  == {s[i].ticker : i \in DOMAIN s}

Spans  == {NoSpan} \cup (Int \X Int)
Zero   == {"disqualifier_flag", "unconfirmed_source", "stale_catalyst", "no_valid_driver", None}
Echoed == {"evaluation", "payload", "market"}
Status == {"approved", "no_setups", "blocked_market", "stale_payload", "schema_failure"}

\* One ticker of a payload, with what its text supports: the bucket and the evidence of the
\* true answer; rankAge is the age the ranking sees.
TickerInput ==
  [ticker : Nat, halted : BOOLEAN, source : {"primary", "secondary", "unconfirmed"},
   corroborated : BOOLEAN, disqualified : BOOLEAN, age : Nat, rankAge : Nat, text : Nat,
   gap : Int, volume : Nat, rvol : Nat, float : Nat, profile : {"clean", "spiky"},
   borrow : {"easy", "hard_to_borrow", "unknown"}, distance : Nat, vwap : Int, chart : Chart,
   price : Nat, low : Nat, bucket : Bucket, evidence : Spans]

\* The tickers of a payload that did not parse are those of an answer that takes no notice.
DaybreakInput ==
  {p \in [valid : BOOLEAN, market : Market, age : Nat, freshness : Nat, tickers : Seq(TickerInput),
          echo : [Echoed -> STRING \cup {None}], missing : SUBSET Echoed, duplicates : BOOLEAN,
          invalid : SUBSET Nat] :
     \A i, j \in DOMAIN p.tickers : p.tickers[i].ticker = p.tickers[j].ticker => i = j}

Score ==
  [source : Nat, bucket : Bucket, magnitude : Nat, override : BOOLEAN, zero : Zero, raw : Nat,
   catalyst : Nat, volume : Nat, grade : {"A+", "A", "B", "C"}, base : Nat, technical : Int,
   adjusted : BOOLEAN, purpose : {"magnitude", "disqualifier", "none"}, excerpt : Spans,
   truncated : BOOLEAN, start : Int, end : Int]

\* A record with the fields of all three arrays.
Record ==
  [ticker : Nat, flags : Seq(Elements(RISK_FLAG_ORDER)), score : Score, conviction : Int,
   age : Nat, trade : Nat \X Nat, rank : Nat, reasons : Seq(Elements(GATES))]

DaybreakOutput ==
  [status : Status, approved : Seq(Record), qualified : Seq(Record), excluded : Seq(Record),
   failures : SUBSET [scope : {"payload", "ticker"}, ticker : Nat],
   blockers : SUBSET {"MARKET_NOT_NORMAL", "PAYLOAD_STALE"},
   echo : [Echoed -> STRING \cup {None}]]

\* A payload that is called valid parses as a DaybreakInput.
ASSUME ContractAssumption ==
  /\ MaxAlterations \in Nat
  /\ Payloads \subseteq DaybreakInput
  /\ \A p \in Payloads : p.valid => ValidInput(p)

-----------------------------------------------------------------------------

NoReport     == [valid |-> FALSE, ready |-> FALSE, done |-> FALSE]
NoComparison == [done |-> FALSE]

terminal_records(out) == out.approved \o out.qualified \o out.excluded
FailedTickers(out)    == {f.ticker : f \in {f \in out.failures : f.scope = "ticker"}}

-----------------------------------------------------------------------------
(* The checks, by number.  Without a valid input the ones that need it are  *)
(* not evaluated, which fails nothing.                                      *)

\* 1, 2: no ticker twice, in one array or in two.
TerminalExclusive(out) ==
  LET all == terminal_records(out)
  IN  /\ \A i, j \in DOMAIN all : all[i].ticker = all[j].ticker => i = j
      /\ Tickers(all) \cap FailedTickers(out) = {}

\* 3: an excluded ticker gives exactly the gates it fails, in order.
ExcludedFails(p, out) ==
  \A r \in Elements(out.excluded) :
    \E e \in EntriesOf(p, r.ticker) :
      /\ expected_failed_gates(e, r.score.raw) # <<>>
      /\ r.reasons = expected_failed_gates(e, r.score.raw)

\* Mutant: the gates of passing tickers are not replayed.
PassingUnchecked(p, out) == TRUE

\* 4: a passing ticker fails none.
PassingPasses(p, out) ==
  \A r \in Elements(passing_records(out)) :
    \E e \in EntriesOf(p, r.ticker) : expected_failed_gates(e, r.score.raw) = <<>>

\* 5: as many results as tickers.
PartitionExhaustive(p, out) ==
  out.status \in {"approved", "no_setups"} => Len(terminal_records(out)) = Len(p.tickers)

\* 13.
NonScoringEmpty(out) ==
  out.status \in {"schema_failure", "blocked_market", "stale_payload"} => terminal_records(out) = <<>>

\* 14.
StatusPrecedence(p, out) ==
  out.status = CASE p.market # "normal" -> "blocked_market"
                 [] p.market = "normal" /\ p.age > 180 -> "stale_payload"
                 [] OTHER -> IF out.approved # <<>> THEN "approved" ELSE "no_setups"

Reported(s) == [source |-> s.source, magnitude |-> s.magnitude, override |-> s.override,
                zero |-> s.zero, raw |-> s.raw, catalyst |-> s.catalyst, volume |-> s.volume,
                grade |-> s.grade, base |-> s.base, technical |-> s.technical,
                adjusted |-> s.adjusted]

\* 17: the scores are the replayed ones.
ScoresReplay(p, out) ==
  /\ \A r \in Elements(terminal_records(out)) : \A e \in EntriesOf(p, r.ticker) :
       /\ Reported(r.score) = expected_score_fields(p, e, r.score.bucket)
       /\ r.flags = expected_risk_flags(e)
  /\ \A r \in Elements(passing_records(out)) : EntriesOf(p, r.ticker) # {} =>
       r.conviction = r.score.catalyst + r.score.volume + r.score.technical
  /\ \A r \in Elements(out.approved) : \A e \in EntriesOf(p, r.ticker) :
       r.trade = <<e.price, e.low>>

Positioned(s) == s.start # NoPosition /\ s.end # NoPosition

\* text[start:end] for the text of a ticker, and its first MaxExcerpt code points.
Span(length, start, end) ==
  LET stop == IF end < length THEN end ELSE length
  IN  IF start >= stop THEN NoSpan ELSE <<start, stop>>
FirstOf(span) ==
  IF span = NoSpan THEN NoSpan
  ELSE <<span[1], IF span[2] - span[1] > MaxExcerpt THEN span[1] + MaxExcerpt ELSE span[2]>>

InText(e, span) == 0 <= span[1] /\ span[1] < span[2] /\ span[2] <= e.text

\* Mutant: an excerpt that was not cut short is not compared with its positions.
EvidenceUnindexed(e, s) ==
  /\ s.excerpt # NoSpan => InText(e, s.excerpt)
  /\ s.truncated => Positioned(s)
  /\ Positioned(s) => InText(e, <<s.start, s.end>>)

\* 19-23, 71: the evidence is in the text, where it says.
EvidenceIndexed(e, s) ==
  /\ s.excerpt # NoSpan => InText(e, s.excerpt)
  /\ ~s.truncated /\ Positioned(s) => s.excerpt = Span(e.text, s.start, s.end)
  /\ s.truncated =>
       /\ Positioned(s)
       /\ LET full == Span(e.text, s.start, s.end)
          IN  full # NoSpan /\ full[2] - full[1] > MaxExcerpt /\ s.excerpt = FirstOf(full)
  /\ Positioned(s) => InText(e, <<s.start, s.end>>)

EvidenceHolds(p, out) ==
  \A r \in Elements(terminal_records(out)) : \A e \in EntriesOf(p, r.ticker) :
    EvidenceIndexed(e, r.score)

\* 25, 26.
VolumeRules(e, s) ==
  /\ e.profile = "clean" /\ e.rvol < 5 * Unit => s.volume = 0
  /\ e.profile = "spiky" => s.volume = 15

\* 27, 28: a chart that fails has no technical points.
ChartFailureGradesC(out) ==
  \A r \in Elements(out.excluded) :
    Elements(r.reasons) \cap {"RESISTANCE_TOO_CLOSE", "CAPPED_CHART"} # {} =>
      [grade |-> r.score.grade, base |-> r.score.base, points |-> r.score.technical,
       adjusted |-> r.score.adjusted] = Failing

\* 29, 30.
TechnicalConsistent(s) ==
  /\ s.grade = "C" => ~s.adjusted
  /\ <<s.grade, s.technical>> \in {<<"A+", 25>>, <<"A+", 19>>, <<"A", 22>>, <<"A", 16>>,
                                  <<"B", 13>>, <<"B", 7>>, <<"C", 0>>}

\* 31-33, 48.
ZeroConsistent(s) ==
  /\ s.override <=> s.zero # None
  /\ s.override => s.raw = 0 /\ s.catalyst = 0
  /\ s.magnitude = MAGNITUDE_POINTS[s.bucket]

NoEvidence(s) == s.excerpt = NoSpan /\ s.start = NoPosition /\ s.end = NoPosition

\* 36: a disqualifier the text does not show leaves the bucket and has no evidence.
InvisibleDisqualifier(out, m) ==
  \A t \in m.invisible :
    \E r \in Elements(terminal_records(out)) :
      r.ticker = t /\ r.score.zero = "disqualifier_flag" /\ NoEvidence(r.score)

\* 37: a source that is stale or unconfirmed does not suppress the evidence.
ContentEvidence(s) ==
  s.zero \in {"unconfirmed_source", "stale_catalyst"} /\ s.bucket # "no_valid_driver"
    => s.excerpt # NoSpan

\* 38.
NoDriverShape(s) ==
  s.zero = "no_valid_driver" =>
    s.bucket = "no_valid_driver" /\ s.magnitude = 0 /\ NoEvidence(s)

\* 40, and 54 once more.
ZeroPrecedence(p, e, s) == s.zero = expected_zero_reason(p, e, s.bucket)

\* 69, 70.
FlagsConsistent(s, flags) ==
  /\ s.adjusted <=> "parabolic" \in Elements(flags)
  /\ _validate_risk_flags(flags)

\* 73.
PurposeMatches(s) == s.purpose = expected_evidence_purpose(s.zero)

ScoresConsistent(p, out) ==
  \A r \in Elements(terminal_records(out)) :
    LET s == r.score
    IN  /\ TechnicalConsistent(s) /\ ZeroConsistent(s) /\ NoDriverShape(s)
        /\ FlagsConsistent(s, r.flags) /\ PurposeMatches(s)
        /\ p.valid => ContentEvidence(s) /\
             \A e \in EntriesOf(p, r.ticker) : VolumeRules(e, s) /\ ZeroPrecedence(p, e, s)

\* 45-47: what becomes of a chart that fails.
ExcludedFor(out, ticker, codes) ==
  \E r \in Elements(out.excluded) :
    r.ticker = ticker /\ r.score.grade = "C" /\ codes \subseteq Elements(r.reasons)

ChartReachability(p, out) ==
  \A e \in Elements(p.tickers) :
    /\ e.chart = "blue_sky" /\ e.distance < Unit => ExcludedFor(out, e.ticker, {"RESISTANCE_TOO_CLOSE"})
    /\ e.chart = "capped" =>
         /\ ExcludedFor(out, e.ticker, {"CAPPED_CHART"})
         /\ \E r \in Elements(out.excluded) :
              /\ r.ticker = e.ticker
              /\ Head(r.reasons) = IF e.distance < Unit THEN "RESISTANCE_TOO_CLOSE" ELSE "CAPPED_CHART"

\* 51, 52: the echoes of the payload.
EchoesHold(p, out) ==
  /\ out.status = "schema_failure" =>
       \A f \in p.missing : out.echo[f] = None
  /\ out.status # "schema_failure" =>
       /\ \A f \in DOMAIN out.echo : out.echo[f] # None
       /\ p.valid => out.echo = p.echo

\* 59, 60: what is said of a payload that names a ticker twice.
DuplicatesReported(p, out) ==
  ~p.valid /\ p.duplicates =>
    /\ out.status = "schema_failure"
    /\ terminal_records(out) = <<>> /\ out.blockers = {}
    /\ p.invalid \subseteq FailedTickers(out)

\* Mutant: the ranks are checked from the fourth on only.
RankSplitBelow(out) ==
  \A i \in DOMAIN out.qualified : out.qualified[i].rank = Len(out.approved) + i

\* 67, 77: the ranking, and its split after the third.
RankSplit(out) ==
  LET order    == expected_passing_order(out)
      observed == passing_records(out)
  IN  /\ [i \in DOMAIN observed |-> observed[i].ticker] = order
      /\ \A i \in DOMAIN order :
           /\ i <= 3 => order[i] \in Tickers(out.approved)
           /\ i >= 4 => \E r \in Elements(out.qualified) : r.ticker = order[i] /\ r.rank = i

NoLimit == -1
CandidateCount(p, m) ==
  CASE m.count # NoLimit -> m.count
    [] m.count = NoLimit /\ p.valid -> Len(p.tickers)
    [] OTHER -> NoLimit

\* 41.
WithinHardMaximum(p, m) ==
  m.limit # NoLimit /\ CandidateCount(p, m) # NoLimit => CandidateCount(p, m) <= m.limit

\* 42: nothing is said of a ticker that was never submitted.
PrequalifiedOutAbsent(out, m) ==
  (Tickers(terminal_records(out)) \cup FailedTickers(out)) \cap m.prequalifiedOut = {}

\* 43.
OmissionsLogged(m) == m.omitted # {} => m.omitted \subseteq m.logged /\ m.policy

\* 44.
LateAuthorizesNothing(m) == ~(m.late = "yes" /\ m.authorized = "yes")

\* 57, 58, and 15: the orchestrator's traces of the stages, where there are any.
StagesInOrder(m) == m.scoringFirst # "no" /\ m.duplicatesStaged # "no"

\* 62-66.
BlockersLast(out, m) ==
  /\ m.blockersAfter # "no"
  /\ out.failures # {} => out.status = "schema_failure" /\ out.blockers = {}

\* EXECUTION_EVIDENCE_INVARIANTS: the ones among them that were evaluated.
EvidenceGiven(p, m) ==
  /\ m.limit # NoLimit /\ CandidateCount(p, m) # NoLimit
  /\ m.late # None /\ m.authorized # None
  /\ m.scoringFirst # None /\ m.blockersAfter # None

ChecksPass(p, out, m) ==
  /\ TerminalExclusive(out) /\ NonScoringEmpty(out)
  /\ p.valid =>
       /\ ExcludedFails(p, out) /\ PassingPasses(p, out)
       /\ PartitionExhaustive(p, out) /\ StatusPrecedence(p, out)
       /\ ScoresReplay(p, out) /\ EvidenceHolds(p, out)
       /\ ChartReachability(p, out)
  /\ ScoresConsistent(p, out) /\ ChartFailureGradesC(out) /\ InvisibleDisqualifier(out, m)
  /\ EchoesHold(p, out) /\ DuplicatesReported(p, out)
  /\ RankSplit(out)
  /\ WithinHardMaximum(p, m) /\ PrequalifiedOutAbsent(out, m) /\ OmissionsLogged(m)
  /\ LateAuthorizesNothing(m) /\ StagesInOrder(m) /\ BlockersLast(out, m)

\* Mutant: an answer to a payload that did not parse is checked like any other.
validate_unparsed(p, out, m) ==
  LET valid == ValidOutput(out) /\ ChecksPass(p, out, m)
  IN  [done |-> TRUE, valid |-> valid, ready |-> valid /\ EvidenceGiven(p, m)]

\* validate_daybreak_run.  A payload that does not parse is only acceptable to an
\* answer that says so; an answer that does not parse is not checked any further.
validate_daybreak_run(p, out, m) ==
  LET valid == /\ ValidOutput(out)
               /\ p.valid \/ out.status = "schema_failure"
               /\ ChecksPass(p, out, m)
  IN  [done |-> TRUE, valid |-> valid, ready |-> valid /\ EvidenceGiven(p, m)]

-----------------------------------------------------------------------------
(* Comparison with a shadow answer. *)

Terminal(out, ticker) ==
  CASE ticker \in Tickers(out.excluded) -> "excluded"
    [] ticker \in Tickers(out.qualified) \ Tickers(out.excluded) -> "qualified_not_selected"
    [] ticker \in Tickers(out.approved) \ Tickers(out.qualified \o out.excluded) -> "approved"
    [] OTHER -> None

\* _terminal_map keeps the last record of a ticker.
RecordOf(out, ticker) ==
  LET all  == terminal_records(out)
      at   == {i \in DOMAIN all : all[i].ticker = ticker}
  IN  all[CHOOSE i \in at : \A j \in at : j <= i]

_conviction(out, ticker) ==
  IF Terminal(out, ticker) \in {"approved", "qualified_not_selected"}
  THEN RecordOf(out, ticker).conviction ELSE -1

Disagree(primary, shadow, ticker) ==
  \/ Terminal(primary, ticker) # Terminal(shadow, ticker)
  \/ _conviction(primary, ticker) # _conviction(shadow, ticker)
  \/ LET s == RecordOf(primary, ticker).score
         t == RecordOf(shadow, ticker).score
     IN  \/ s.bucket # t.bucket
         \/ s.excerpt # t.excerpt \/ s.start # t.start \/ s.end # t.end

\* Mutant: the approved tickers are compared without their order.
compare_unordered(primary, shadow) ==
  [done |-> TRUE, match |-> primary = shadow,
   sameStatus |-> primary.status = shadow.status,
   sameOrder |-> Tickers(primary.approved) = Tickers(shadow.approved),
   disagreements |-> {t \in Tickers(terminal_records(primary)) \cup Tickers(terminal_records(shadow)) :
                        Disagree(primary, shadow, t)}]

compare_outputs(primary, shadow) ==
  [done |-> TRUE, match |-> primary = shadow,
   sameStatus |-> primary.status = shadow.status,
   sameOrder |-> Len(primary.approved) = Len(shadow.approved) /\
                 \A i \in DOMAIN primary.approved :
                   primary.approved[i].ticker = shadow.approved[i].ticker,
   disagreements |-> {t \in Tickers(terminal_records(primary)) \cup Tickers(terminal_records(shadow)) :
                        Disagree(primary, shadow, t)}]

-----------------------------------------------------------------------------
(* The true answer, as sections 3 to 12 of docs/spec/Project_Daybreak_v6.3_Final.md   *)
(* give it.                                                                    *)

NoRank == 0

TrueScore(bucket, fields, full) ==
  [source |-> fields.source, bucket |-> bucket, magnitude |-> fields.magnitude,
   override |-> fields.override, zero |-> fields.zero, raw |-> fields.raw,
   catalyst |-> fields.catalyst, volume |-> fields.volume, grade |-> fields.grade,
   base |-> fields.base, technical |-> fields.technical, adjusted |-> fields.adjusted,
   purpose |-> expected_evidence_purpose(fields.zero),
   excerpt |-> FirstOf(full), truncated |-> FirstOf(full) # full,
   start |-> IF full = NoSpan THEN NoPosition ELSE full[1],
   end |-> IF full = NoSpan THEN NoPosition ELSE full[2]]

RecordWith(e, fields) ==
  [ticker |-> e.ticker, flags |-> expected_risk_flags(e),
   score |-> TrueScore(e.bucket, fields,
                       IF fields.zero = "no_valid_driver" THEN NoSpan ELSE e.evidence),
   conviction |-> fields.catalyst + fields.volume + fields.technical,
   age |-> e.rankAge, trade |-> <<e.price, e.low>>, rank |-> NoRank,
   reasons |-> expected_failed_gates(e, fields.raw)]

TrueRecord(p, e) == RecordWith(e, expected_score_fields(p, e, e.bucket))

\* Section 9.3 as an order on the records.  A score anchors a tie group unless one that
\* anchors a better group is at most two points above it.
Anchors(records) ==
  LET scores == {r.conviction : r \in records}
  IN  CHOOSE A \in SUBSET scores :
        \A s \in scores : s \in A <=> \A a \in A : a > s => a - s > 2

AnchorOf(anchors, score) == CHOOSE a \in anchors : score <= a /\ a - score <= 2

RankKey(anchors, r) ==
  <<-AnchorOf(anchors, r.conviction), r.age, -r.score.raw, -r.score.volume,
    -r.score.technical, r.ticker>>

TrueRanking(records) ==
  LET anchors == Anchors(records)
  IN  Arranged(records, {p \in records \X records :
                           LexLess(RankKey(anchors, p[1]), RankKey(anchors, p[2]))})

Scored(p) == p.valid /\ p.market = "normal" /\ p.age <= 180

NoAnswer(p) == [status |-> "no_setups", approved |-> <<>>, qualified |-> <<>>, excluded |-> <<>>,
                failures |-> {}, blockers |-> {}, echo |-> p.echo]

InTickerOrder(records) ==
  Arranged(records, {p \in records \X records : p[1].ticker < p[2].ticker})

\* The best three of a ranking are approved, the others follow with their rank.
Partition(p, ranking, best, failing) ==
  [NoAnswer(p) EXCEPT
     !.status = IF best > 0 THEN "approved" ELSE "no_setups",
     !.approved = SubSeq(ranking, 1, best),
     !.qualified = [n \in 1 .. Len(ranking) - best |-> [ranking[best + n] EXCEPT !.rank = best + n]],
     !.excluded = InTickerOrder(failing)]

Ranked(p, ranking, failing) ==
  Partition(p, ranking, IF Len(ranking) < 3 THEN Len(ranking) ELSE 3, failing)

Answered(p, records) ==
  Ranked(p, TrueRanking({r \in records : r.reasons = <<>>}), {r \in records : r.reasons # <<>>})

TrueAnswer(p) ==
  CASE ~p.valid ->
         [NoAnswer(p) EXCEPT !.status = "schema_failure",
                             !.failures = {[scope |-> "payload", ticker |-> 0]} \cup
                                          {[scope |-> "ticker", ticker |-> t] : t \in p.invalid}]
    [] p.valid /\ p.market # "normal" ->
         [NoAnswer(p) EXCEPT !.status = "blocked_market", !.blockers = {"MARKET_NOT_NORMAL"}]
    [] p.valid /\ p.market = "normal" /\ p.age > 180 ->
         [NoAnswer(p) EXCEPT !.status = "stale_payload", !.blockers = {"PAYLOAD_STALE"}]
    [] OTHER -> Answered(p, {TrueRecord(p, e) : e \in Elements(p.tickers)})

-----------------------------------------------------------------------------
(* What the true answer takes as given. *)

\* The judgements left to the model are founded: evidence is in the text, and there is some
\* for a driver.
Judgeable(e) ==
  /\ e.evidence # NoSpan => InText(e, e.evidence)
  /\ ~e.disqualified /\ e.bucket # "no_valid_driver" => e.evidence # NoSpan

\* What the orchestrator says of the run is in order, and about this payload.
MetadataInOrder(p, m) ==
  /\ WithinHardMaximum(p, m) /\ OmissionsLogged(m) /\ LateAuthorizesNothing(m)
  /\ StagesInOrder(m) /\ m.blockersAfter # "no"
  /\ m.prequalifiedOut \cap (Tickers(p.tickers) \cup p.invalid) = {}
  /\ \A t \in m.invisible :
       /\ Scored(p)
       /\ \E e \in Elements(p.tickers) : e.ticker = t /\ e.disqualified /\ e.evidence = NoSpan

\* A payload that parses has every field to echo, and one that does not has those that are
\* not called missing.
ASSUME TruthAssumption ==
  \A p \in Payloads :
    /\ p.valid => (\A f \in Echoed : p.echo[f] # None) /\ \A e \in Elements(p.tickers) : Judgeable(e)
    /\ ~p.valid => \A f \in p.missing : p.echo[f] = None
    /\ \A m \in Metadata : MetadataInOrder(p, m)

-----------------------------------------------------------------------------
(* How an answer may go wrong. *)

Array == {"approved", "qualified", "excluded"}

\* The evidence n code points further on.
Shifted(s, n) ==
  [s EXCEPT !.excerpt = Span(MaxText, s.start + n, s.end + n), !.start = @ + n, !.end = @ + n]

\* One wrong field of a record.  Wrong scores come with a wrong conviction as well, the
\* slip that hides best.
Slips(p, r) ==
  {[r EXCEPT !.score.volume = v, !.conviction = @ + v - r.score.volume] : v \in {0, 15, 25, 35}}
  \cup {[r EXCEPT !.score.raw = r.score.raw + 1, !.score.catalyst = r.score.catalyst + 4,
                  !.conviction = @ + 4],
        [r EXCEPT !.score.override = FALSE, !.score.zero = None, !.score.purpose = "magnitude"],
        [r EXCEPT !.score.excerpt = NotInText],
        [r EXCEPT !.score.truncated = ~r.score.truncated],
        [r EXCEPT !.flags = IF @ = <<>> THEN <<"parabolic">> ELSE Tail(@)],
        [r EXCEPT !.trade = <<@[1] + 1, @[2]>>]}
  \cup {[r EXCEPT !.conviction = @ + n] : n \in {-3, 3}}
  \cup {[r EXCEPT !.age = a] : a \in {e.age : e \in Elements(p.tickers)}}
  \cup {[r EXCEPT !.score = Shifted(@, n)] : n \in {n \in {1, 3} : Positioned(r.score)}}
  \cup {[r EXCEPT !.score.start = r.score.start - 1] : n \in {n \in {1} : Positioned(r.score)}}
  \cup {[r EXCEPT !.ticker = e.ticker] : e \in Elements(p.tickers)}
  \cup {[r EXCEPT !.rank = @ + 1]}
  \cup {[r EXCEPT !.reasons = SubSeq(@, n, Len(@))] : n \in 2 .. Len(r.reasons)}

\* The record with the fields that array b has and its own did not.
InArray(b, r) ==
  [r EXCEPT !.reasons = IF b = "excluded" /\ @ = <<>> THEN <<"HALTED">> ELSE @,
            !.rank = IF b = "qualified" /\ @ = NoRank THEN 4 ELSE @]

At(s, i, r)   == [s EXCEPT ![i] = r]
Swapped(s, i) == [s EXCEPT ![i] = s[i - 1], ![i - 1] = s[i]]
Without(s, i) == SubSeq(s, 1, i - 1) \o SubSeq(s, i + 1, Len(s))

\* What the model answers is one alteration further from the truth.
Answer(a) ==
  /\ ~report.done /\ altered < MaxAlterations
  /\ altered' = altered + 1
  /\ answer' = a
  /\ UNCHANGED <<payload, metadata, report, comparison>>

WrongField ==
  \E a \in Array : \E i \in DOMAIN answer[a] : \E r \in Slips(payload, answer[a][i]) :
    Answer([answer EXCEPT ![a] = At(@, i, r)])

\* A record dropped, said twice, or put into another array.
Misplaced ==
  \E a \in Array : \E i \in DOMAIN answer[a] :
    \/ Answer([answer EXCEPT ![a] = Without(@, i)])
    \/ \E b \in Array : Answer([answer EXCEPT ![b] = Append(@, InArray(b, answer[a][i]))])
    \/ \E b \in Array \ {a} :
         Answer([answer EXCEPT ![a] = Without(@, i), ![b] = Append(@, InArray(b, answer[a][i]))])

\* Two neighbours of the ranking change places.
Misranked ==
  \/ \E a \in Array : \E i \in 2 .. Len(answer[a]) :
       Answer([answer EXCEPT ![a] = Swapped(@, i)])
  \/ /\ answer.approved # <<>> /\ answer.qualified # <<>>
     /\ LET last == answer.approved[Len(answer.approved)]
            head == answer.qualified[1]
        IN  Answer([answer EXCEPT !.approved = At(@, Len(@), [head EXCEPT !.rank = NoRank]),
                                  !.qualified = At(@, 1, [last EXCEPT !.rank = head.rank])])

WrongStatus ==
  \/ \E status \in {"approved", "no_setups", "stale_payload", "schema_failure"} :
       Answer([answer EXCEPT !.status = status])
  \/ Answer([answer EXCEPT !.blockers = {"PAYLOAD_STALE"}])
  \/ Answer([answer EXCEPT !.failures = {}])
  \/ Answer([answer EXCEPT !.echo.market = None])
  \/ Answer(TrueAnswer([payload EXCEPT !.valid = TRUE, !.market = "normal", !.age = 0]))

Validate ==
  /\ ~report.done
  /\ report' = validate_daybreak_run(payload, answer, metadata)
  /\ UNCHANGED <<payload, metadata, answer, altered, comparison>>

\* The true answer is the primary one and the altered one the shadow.
Compare ==
  /\ report.done /\ ~comparison.done
  /\ comparison' = compare_outputs(TrueAnswer(payload), answer)
  /\ UNCHANGED <<payload, metadata, answer, altered, report>>

ContractInit ==
  /\ payload \in Payloads /\ metadata \in Metadata
  /\ answer = TrueAnswer(payload)
  /\ altered = 0
  /\ report = NoReport
  /\ comparison = NoComparison

ContractNext == WrongField \/ Misplaced \/ Misranked \/ WrongStatus \/ Validate \/ Compare

ContractSpec == ContractInit /\ [][ContractNext]_contractVars

-----------------------------------------------------------------------------
(* Properties *)

\* The payload with what the model is trusted with taken from its answer.
Judged(p, out, ages) ==
  [p EXCEPT !.tickers = [i \in DOMAIN p.tickers |->
     LET e == p.tickers[i]
         r == RecordOf(out, e.ticker)
     IN  IF Terminal(out, e.ticker) = None THEN e
         ELSE [e EXCEPT !.bucket = r.score.bucket,
                        !.rankAge = IF ages THEN r.age ELSE e.age]]]

\* A record without the evidence, and without what its array does not have: the
\* conviction, age and rank of an excluded ticker, the reasons of a passing one.
Content(r) == <<r.ticker, Reported(r.score), r.score.bucket, r.score.purpose, r.flags>>
Contents(s) == [i \in DOMAIN s |-> Content(s[i])]

ContentOf(s) == {<<Content(s[i]), s[i].conviction>> : i \in DOMAIN s}

\* The same records, in the same places but for the order of the passing ones.
SameContent(out, true) ==
  /\ out.status = true.status
  /\ Len(terminal_records(out)) = Len(terminal_records(true))
  /\ ContentOf(passing_records(out)) = ContentOf(passing_records(true))
  /\ {<<Content(r), r.reasons>> : r \in Elements(out.excluded)}
       = {<<Content(r), r.reasons>> : r \in Elements(true.excluded)}
  /\ \A r \in Elements(out.approved) : \A e \in EntriesOf(payload, r.ticker) :
       r.trade = <<e.price, e.low>>

SameRanking(out, true) ==
  /\ [i \in DOMAIN out.approved |-> out.approved[i].ticker]
       = [i \in DOMAIN true.approved |-> true.approved[i].ticker]
  /\ [i \in DOMAIN out.qualified |-> <<out.qualified[i].ticker, out.qualified[i].rank>>]
       = [i \in DOMAIN true.qualified |-> <<true.qualified[i].ticker, true.qualified[i].rank>>]

\* The payload has an answer the checks can accept.  Check 47 wants the reason of a capped
\* chart first although other gates come before it, and checks 45 and 46 want a failing
\* chart excluded even when nothing is scored.
Answerable(p) ==
  \A e \in Elements(p.tickers) :
    /\ e.chart = "capped" =>
         Head(TrueRecord(p, e).reasons) \in {"RESISTANCE_TOO_CLOSE", "CAPPED_CHART"}
    /\ e.chart = "capped" \/ (e.chart = "blue_sky" /\ e.distance < Unit) => Scored(p)

\* The validator never turns down the true answer to a payload it can be answered for:
\* the replayed scores, gates, ranking and split agree with the specification's.
TruthIsAccepted ==
  report.done /\ altered = 0 /\ (payload.valid => Answerable(payload)) => report.valid

\* What the validator accepts of a scored payload is true, whatever the model got wrong on
\* the way: every ticker has its one record, in the category the gates put it, with the
\* scores, flags, reasons and trade that follow from the input and from the judgements
\* left to the model.
AcceptedIsTrue ==
  report.valid /\ Scored(payload) =>
    SameContent(answer, TrueAnswer(Judged(payload, answer, TRUE)))

\* The approved setups are the best three, in the order of section 9.3 for the ages the
\* answer gives, so that none is passed over that is more than a tie group better.
ApprovedAreBest ==
  report.valid /\ Scored(payload) =>
    /\ SameRanking(answer, TrueAnswer(Judged(payload, answer, TRUE)))
    /\ \A r \in Elements(answer.approved) : \A s \in Elements(answer.qualified) :
         s.conviction - r.conviction <= 2

\* Evidence an accepted answer quotes is in the text of its ticker, at the place named,
\* and cut short only where it is longer than an excerpt may be.
EvidenceIsInText ==
  report.valid /\ payload.valid =>
    \A r \in Elements(terminal_records(answer)) : \A e \in EntriesOf(payload, r.ticker) :
      LET s == r.score
      IN  s.excerpt # NoSpan =>
            /\ 0 <= s.excerpt[1] /\ s.excerpt[1] < s.excerpt[2] /\ s.excerpt[2] <= e.text
            /\ Positioned(s) => s.excerpt[1] = s.start /\ s.excerpt[2] <= s.end
            /\ Positioned(s) /\ s.excerpt[2] < s.end => s.truncated

\* Nothing is traded, and no malformed ticker goes unreported, on a payload that did not
\* parse or was not to be scored.
UnscoredTradesNothing ==
  report.valid /\ ~Scored(payload) =>
    /\ terminal_records(answer) = <<>>
    /\ ~payload.valid /\ payload.duplicates => payload.invalid \subseteq FailedTickers(answer)

SameTrades(out, true) ==
  /\ Contents(out.approved) = Contents(true.approved)
  /\ \A i \in DOMAIN out.approved : out.approved[i].trade = true.approved[i].trade
  /\ Tickers(out.qualified) = Tickers(true.qualified)

\* Two accepted answers between which the comparison finds no difference trade the same.
NoDifferenceMeansSameTrades ==
  report.valid /\ comparison.done /\ comparison.sameStatus /\ comparison.sameOrder
    /\ comparison.disagreements = {} => SameTrades(answer, TrueAnswer(payload))

\* docs/PHASE3_EVALUATOR.md, line 7: "Python independently checks every deterministic
\* score, gate, risk flag, ranking result, terminal category, and payload echo."  So the
\* ranking an accepted answer has is the one by the ages of the payload.  Not claimed
\* by a run: refuted with two alterations, see the README, "Divergences".
RankingIsChecked ==
  report.valid /\ Scored(payload) =>
    SameRanking(answer, TrueAnswer(Judged(payload, answer, FALSE)))

\* The checks are sound: an answer they let through is true of its payload, approves
\* the best, quotes what is there, and trades nothing where nothing was scored.
AcceptedIsSound ==
  AcceptedIsTrue /\ ApprovedAreBest /\ EvidenceIsInText /\ UnscoredTradesNothing
=============================================================================
