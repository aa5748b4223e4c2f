--------------------------- MODULE ContractReplay ---------------------------
(***************************************************************************)
(* What Python recomputes of an evaluator answer: the scores, gates, risk  *)
(* flags and ranking of daybreak_contracts/logic/replay.py, and the shapes *)
(* of input_models.py and output_models.py.                                *)
(*                                                                         *)
(* A ticker is a number, so that the alphabetical order is <.  Decimals    *)
(* (gaps, relative volumes, distances in ATRs, ages) count units of        *)
(* 1/Unit, volumes thousands, floats millions of shares; a text is its     *)
(* length, and an excerpt the span of the text it repeats.                 *)
(***************************************************************************)
EXTENDS Integers, Sequences, FiniteSets, TLC

CONSTANTS Unit,          \* decimals are counted in 1/Unit
          MaxExcerpt,    \* 200 code points
          MaxText        \* 4000 code points

ASSUME ReplayAssumption == {Unit, MaxExcerpt, MaxText} \subseteq Nat \ {0}

Bucket == {"major_concrete", "material_partially_quantified", "credible_unquantified",
           "weak_or_preliminary", "no_valid_driver"}
Chart  == {"blue_sky", "clean_short_term", "moderate_room", "capped"}
Market == {"normal", "limit_up_down_active", "circuit_breaker_halt"}

None       == "null"
NoPosition == -1
NoSpan    == <<>>              \* an empty excerpt
NotInText == <<0, 0>>          \* an excerpt the text does not contain

-----------------------------------------------------------------------------
(* The order and the filters of Python's lists.  SortSeq and SelectSeq say the same, but *)
(* the provers cannot look into them.                                                    *)

\* Tuples of equal length are compared by the first place where they differ.
LexLess(a, b) == \E i \in DOMAIN a : a[i] < b[i] /\ \A j \in 1 .. i - 1 : a[j] = b[j]

\* The members of I in the order R: the n-th has n - 1 others before it.  (SubSeq changes
\* nothing: TLC evaluates its result once.)
Arranged(I, R) ==
  LET nth == [n \in 1 .. Cardinality(I) |->
                CHOOSE i \in I : Cardinality({j \in I : <<j, i>> \in R}) = n - 1]
  IN  SubSeq(nth, 1, Cardinality(I))

\* [x for x in s if ...]: the elements at the positions I, which keep their order.
Kept(s, I) ==
  LET order == Arranged(I, {p \in I \X I : p[1] < p[2]})
  IN  [n \in DOMAIN order |-> s[order[n]]]

\* Equal keys keep their order.
Precedes(key, i, j) == LexLess(key[i], key[j]) \/ (key[i] = key[j] /\ i < j)

\* sorted(s, key = ...), where key has a tuple for each position of s.
SortedBy(s, key) ==
  LET order == Arranged(DOMAIN s, {p \in (DOMAIN s) \X (DOMAIN s) : Precedes(key, p[1], p[2])})
  IN  [n \in DOMAIN s |-> s[order[n]]]

-----------------------------------------------------------------------------
(* The payload and what follows from it. *)

\* TickerInput: its NewsContext, LiquidityMetrics and TechnicalContext.
NewsContext(e) ==
  /\ e.source \in {"primary", "secondary", "unconfirmed"}
  /\ e.text \in 1 .. MaxText
  /\ e.age \in Nat
  /\ e.corroborated \in BOOLEAN /\ e.disqualified \in BOOLEAN

LiquidityMetrics(e) ==
  /\ e.gap \in Int /\ e.volume \in Nat /\ e.rvol \in Nat /\ e.float \in Nat \ {0}
  /\ e.profile \in {"clean", "spiky"}
  /\ e.borrow \in {"easy", "hard_to_borrow", "unknown"}

TechnicalContext(e) ==
  /\ e.distance \in Nat /\ e.vwap \in Int /\ e.chart \in Chart
  /\ e.price \in Nat \ {0} /\ e.low \in 1 .. e.price
  /\ e.chart = "clean_short_term" => e.distance > 2 * Unit
  /\ e.chart = "moderate_room" => e.distance \in Unit .. 2 * Unit

\* DaybreakInput.
ValidInput(p) ==
  /\ p.market \in Market /\ p.age \in Nat /\ p.freshness \in Nat \ {0}
  /\ Len(p.tickers) <= 25
  /\ \A i \in DOMAIN p.tickers :
       /\ NewsContext(p.tickers[i]) /\ LiquidityMetrics(p.tickers[i])
       /\ TechnicalContext(p.tickers[i])
       /\ \A j \in 1 .. i - 1 : p.tickers[j].ticker # p.tickers[i].ticker

\* input_by_ticker; EntriesOf is empty for a ticker the payload does not have.
EntriesOf(p, ticker) == {p.tickers[i] : i \in {i \in DOMAIN p.tickers : p.tickers[i].ticker = ticker}}

MAGNITUDE_POINTS == [b \in Bucket |->
  CASE b = "major_concrete" -> 4 [] b = "material_partially_quantified" -> 3
    [] b = "credible_unquantified" -> 2 [] b = "weak_or_preliminary" -> 1 [] OTHER -> 0]

expected_source_quality(e) ==
  CASE e.source = "primary" -> 6
    [] e.source = "secondary" -> IF e.corroborated THEN 4 ELSE 2
    [] OTHER -> 0

\* The first reason that applies, in this order.
expected_zero_reason(p, e, bucket) ==
  CASE e.disqualified -> "disqualifier_flag"
    [] ~e.disqualified /\ e.source = "unconfirmed" -> "unconfirmed_source"
    [] ~e.disqualified /\ e.source # "unconfirmed" /\ e.age > p.freshness -> "stale_catalyst"
    [] OTHER -> IF bucket = "no_valid_driver" THEN "no_valid_driver" ELSE None

expected_evidence_purpose(zero) ==
  CASE zero = "disqualifier_flag" -> "disqualifier"
    [] zero = "no_valid_driver" -> "none"
    [] OTHER -> "magnitude"

expected_volume_points(e) ==
  CASE e.profile = "spiky" -> 15
    [] e.profile # "spiky" /\ e.rvol < 5 * Unit -> 0
    [] e.profile # "spiky" /\ e.rvol \in 5 * Unit .. 10 * Unit -> 25
    [] OTHER -> 35

Failing == [grade |-> "C", base |-> 0, points |-> 0, adjusted |-> FALSE]

expected_technical(e) ==
  LET base     == [blue_sky |-> 25, clean_short_term |-> 22, moderate_room |-> 13]
      grade    == [blue_sky |-> "A+", clean_short_term |-> "A", moderate_room |-> "B"]
      adjusted == e.vwap > 3 * Unit
  IN  IF e.distance < Unit \/ e.chart = "capped"
      THEN Failing
      ELSE [grade |-> grade[e.chart], base |-> base[e.chart], adjusted |-> adjusted,
            points |-> base[e.chart] - (IF adjusted THEN 6 ELSE 0)]

RISK_FLAG_ORDER == <<"parabolic", "hard_to_borrow", "unknown_borrow", "low_float",
                     "spiky_volume", "secondary_source">>

expected_risk_flags(e) ==
  LET raised == [parabolic        |-> expected_technical(e).adjusted,
                 hard_to_borrow   |-> e.borrow = "hard_to_borrow",
                 unknown_borrow   |-> e.borrow = "unknown",
                 low_float        |-> e.float < 50,
                 spiky_volume     |-> e.profile = "spiky",
                 secondary_source |-> e.source = "secondary"]
  IN  Kept(RISK_FLAG_ORDER, {i \in DOMAIN RISK_FLAG_ORDER : raised[RISK_FLAG_ORDER[i]]})

\* The fields of a ScoreBreakdown that follow from the input and the bucket.
expected_score_fields(p, e, bucket) ==
  LET zero == expected_zero_reason(p, e, bucket)
      raw  == IF zero = None THEN expected_source_quality(e) + MAGNITUDE_POINTS[bucket] ELSE 0
      tech == expected_technical(e)
  IN  [source |-> expected_source_quality(e), magnitude |-> MAGNITUDE_POINTS[bucket],
       override |-> zero # None, zero |-> zero, raw |-> raw, catalyst |-> raw * 4,
       volume |-> expected_volume_points(e), grade |-> tech.grade, base |-> tech.base,
       technical |-> tech.points, adjusted |-> tech.adjusted]

GATES == <<"HALTED", "CATALYST_SCORE_TOO_LOW", "UNCORROBORATED_CATALYST", "GAP_TOO_SMALL",
           "PREMARKET_VOLUME_TOO_LOW", "RVOL_TOO_LOW", "RESISTANCE_TOO_CLOSE", "CAPPED_CHART">>

\* The reasons in gate order; the observed value and the wording follow from the code.
expected_failed_gates(e, raw) ==
  LET fails == [HALTED                   |-> e.halted,
                CATALYST_SCORE_TOO_LOW   |-> raw < 7,
                UNCORROBORATED_CATALYST  |-> ~e.corroborated /\ raw < 9,
                GAP_TOO_SMALL            |-> e.gap < 4 * Unit,
                PREMARKET_VOLUME_TOO_LOW |-> e.volume < 500,
                RVOL_TOO_LOW             |-> e.rvol < 5 * Unit,
                RESISTANCE_TOO_CLOSE     |-> e.distance < Unit,
                CAPPED_CHART             |-> e.chart = "capped"]
  IN  Kept(GATES, {i \in DOMAIN GATES : fails[GATES[i]]})

passing_records(out) == out.approved \o out.qualified

\* The sort key inside a tie group.
GroupKey(r) == <<r.age, -r.score.raw, -r.score.volume, -r.score.technical, r.ticker>>

\* Mutant: two points below the anchor is out of the group.
InTieGroupStrict(anchor, score) == anchor - score < 2

InTieGroup(anchor, score) == anchor - score <= 2

\* The positions, of those left, that are close to the best score left.
TieGroup(records, left) ==
  LET anchor == CHOOSE i \in left : \A j \in left : records[j].conviction <= records[i].conviction
  IN  {i \in left : InTieGroup(records[anchor].conviction, records[i].conviction)}

InGroupOrder(records, group) ==
  LET key == [i \in DOMAIN records |-> GroupKey(records[i])]
  IN  Arranged(group, {p \in group \X group : Precedes(key, p[1], p[2])})

\* One group after the other, each of what the better ones have left.
ByGroups(records) ==
  LET Ranked[left \in SUBSET DOMAIN records] ==
        IF left = {} THEN <<>>
        ELSE InGroupOrder(records, TieGroup(records, left)) \o Ranked[left \ TieGroup(records, left)]
  IN  Ranked

expected_passing_order(out) ==
  LET records == passing_records(out)
      order   == ByGroups(records)[DOMAIN records]
  IN  [n \in DOMAIN order |-> records[order[n]].ticker]

-----------------------------------------------------------------------------
(* The answer's own shape. *)

\* ScoreBreakdown.
ScoreBreakdown(s) ==
  /\ s.source \in 0 .. 6 /\ s.bucket \in Bucket /\ s.magnitude \in 0 .. 4
  /\ s.raw \in 0 .. 10 /\ s.catalyst \in 0 .. 40
  /\ s.volume \in {0, 15, 25, 35} /\ s.base \in {0, 13, 22, 25}
  /\ s.technical \in {0, 7, 13, 16, 19, 22, 25}
  /\ s.excerpt = NoSpan \/ s.excerpt[2] - s.excerpt[1] <= MaxExcerpt
  /\ (s.start = NoPosition) <=> (s.end = NoPosition)
  /\ s.override <=> s.zero # None
  /\ s.purpose = "disqualifier" => s.zero = "disqualifier_flag"
  /\ s.purpose = "none" =>
       /\ s.zero = "no_valid_driver"
       /\ s.excerpt = NoSpan /\ ~s.truncated /\ s.start = NoPosition
  /\ s.purpose = "magnitude" => s.zero \notin {"disqualifier_flag", "no_valid_driver"}

FlagIndex(flag) == CHOOSE i \in DOMAIN RISK_FLAG_ORDER : RISK_FLAG_ORDER[i] = flag

\* _validate_risk_flags: no duplicate, canonical order.
_validate_risk_flags(flags) ==
  \A i \in 2 .. Len(flags) : FlagIndex(flags[i - 1]) < FlagIndex(flags[i])

\* DaybreakOutput.validate_status_shape.
validate_status_shape(out) ==
  LET trading == out.approved \o out.qualified \o out.excluded
  IN  /\ Len(out.approved) <= 3
      /\ out.failures = {} \/ out.blockers = {}
      /\ out.status \in {"schema_failure", "blocked_market", "stale_payload"} => trading = <<>>
      /\ out.status = "schema_failure" => out.failures # {} /\ out.blockers = {}
      /\ out.status # "schema_failure" =>
           /\ out.failures = {}
           /\ \A f \in DOMAIN out.echo : out.echo[f] # None
      /\ out.status = "approved" => out.approved # <<>>
      /\ out.status = "no_setups" =>
           out.approved = <<>> /\ out.qualified = <<>> /\ out.blockers = {}
      /\ out.status = "blocked_market" => "MARKET_NOT_NORMAL" \in out.blockers
      /\ out.status = "stale_payload" =>
           "PAYLOAD_STALE" \in out.blockers /\ "MARKET_NOT_NORMAL" \notin out.blockers

ValidOutput(out) ==
  /\ validate_status_shape(out)
  /\ \A r \in {out.qualified[i] : i \in DOMAIN out.qualified} : r.rank >= 4
  /\ LET trading == out.approved \o out.qualified \o out.excluded
     IN  \A i \in DOMAIN trading :
           ScoreBreakdown(trading[i].score) /\ _validate_risk_flags(trading[i].flags)
=============================================================================
