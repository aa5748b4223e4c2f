------------------------------ MODULE Features ------------------------------
(***************************************************************************)
(* The feature engine (daybreak_features): from one frozen FeatureContext  *)
(* to the payload the evaluator is asked about, with an audit of every     *)
(* candidate, and the rows that keep both.                                 *)
(*                                                                         *)
(* Time is one axis of ticks, cut into days and hours.  A price counts     *)
(* quanta, the smallest decimal the engine keeps; a ratio counts 1/Unit    *)
(* (six decimals in the code) and is rounded half to even.  The index of   *)
(* a daily bar is its date.  The widths and periods of the configuration   *)
(* are scaled down; its decimal thresholds are those of the code.          *)
(***************************************************************************)
EXTENDS ContractReplay, SequencesExt

CONSTANTS TradeIds,
          DayLength, HourLength,
          PremarketStart,   \* ticks into the day
          BucketTicks,      \* volume_bucket_minutes
          RvolSessions,     \* rvol_lookback_sessions
          AtrPeriod, MinHistory, Lookback, PivotWidth, Recency,
          Capacity          \* max_evaluator_candidates

ASSUME FeatureAssumption ==
  /\ {DayLength, HourLength, BucketTicks, RvolSessions, AtrPeriod, PivotWidth} \subseteq Nat \ {0}
  /\ {PremarketStart, MinHistory, Lookback, Recency} \subseteq Nat
  /\ AtrPeriod < MinHistory /\ Capacity \in 1 .. 25 /\ Lookback > 2 * PivotWidth

VARIABLES context,     \* the context being built
          snapshot,    \* its FeatureSnapshot, Nothing before and Invalid when building it raises
          rows         \* feature_contexts and feature_snapshots

featureVars == <<context, snapshot, rows>>

Nothing == [status |-> "none"]
Invalid == [status |-> "raised"]
Sentinel == 99 * Unit

DataQualityError(code) == [error |-> code]
Failed(r) == "error" \in DOMAIN r

\* Decimal.quantize with ROUND_HALF_EVEN of n / d, for d > 0.
quantize(n, d) ==
  LET q == n \div d  r == 2 * (n % d)
  IN  IF r > d \/ (r = d /\ q % 2 = 1) THEN q + 1 ELSE q


-----------------------------------------------------------------------------
(* models.py: what a context may hold.  A record of another ticker does not get in. *)

DailyBar ==
  {b \in [high : Nat, low : Nat, close : Nat] : b.low \in 1 .. b.high /\ b.close \in b.low .. b.high}

TradeLedgerEvent ==
  {e \in [seq : Nat \ {0}, id : TradeIds, time : Nat, price : Nat \ {0}, size : Nat \ {0},
          eligible : BOOLEAN, action : {"new", "correction", "cancel"},
          original : TradeIds \union {None}] :
     IF e.action = "new" THEN e.original = None ELSE e.original \in TradeIds}

PremarketSession == [day : Nat, complete : BOOLEAN, events : Seq(TradeLedgerEvent)]

FloatRecord ==
  {r \in [effective : Nat, observed : Nat, validated : Nat, expires : Nat, shares : Nat \ {0}] :
     r.validated < r.expires}

CatalystRecord ==
  [id : Nat, source : {"primary", "secondary", "unconfirmed"}, time : Nat, observed : Nat,
   corroborated : BOOLEAN, disqualified : BOOLEAN, text : Nat \ {0}]

CandidateSourceData ==
  [ticker : Nat, halted : BOOLEAN, borrow : {"easy", "hard_to_borrow", "unknown"},
   close : Nat \ {0}, events : Seq(TradeLedgerEvent), sessions : Seq(PremarketSession),
   bars : Seq(DailyBar), listed : BOOLEAN, floats : Seq(FloatRecord), catalysts : Seq(CatalystRecord)]

\* A ticker is a candidate once.
DistinctTickers(candidates) ==
  \A i, j \in DOMAIN candidates : candidates[i].ticker = candidates[j].ticker => i = j

FeatureContext ==
  {c \in [now : Nat, evaluation : Nat, freshness : Nat \ {0}, market : Market,
          candidates : Seq(CandidateSourceData)] :
     c.now <= c.evaluation /\ DistinctTickers(c.candidates)}

-----------------------------------------------------------------------------
(* ledger.py *)

TradeKey(t) == <<t.time, t.seq>>

\* Mutant: a change to a trade that is not active is passed over.
UnknownNever(ledger, root) == FALSE

Unknown(ledger, root) == \A t \in ledger.active : t.id # root

\* One event applied to the ledger: the active trades, the ids that were used, and the
\* trade each of them stands for.
ApplyEvent(ledger, event) ==
  LET root    == ledger.aliases[event.original]
      popped  == {t \in ledger.active : t.id # root}
      drops   == event.action = "cancel" \/ ~event.eligible
      renamed == [ledger.aliases EXCEPT ![event.id] = event.id, ![event.original] = event.id]
  IN  IF event.action = "new"
      THEN IF event.id \in ledger.known
           THEN DataQualityError("DUPLICATE_TRADE_ID")
           ELSE [active |-> IF drops THEN ledger.active ELSE ledger.active \union {event},
                 known |-> ledger.known \union {event.id},
                 aliases |-> [ledger.aliases EXCEPT ![event.id] = event.id]]
      ELSE IF Unknown(ledger, root)
      THEN DataQualityError("UNKNOWN_ORIGINAL_TRADE")
      ELSE [active |-> IF drops THEN popped
                       ELSE {t \in popped : t.id # event.id} \union {event},
            known |-> ledger.known \union {event.id, event.original},
            aliases |-> renamed]

EmptyLedger == [active |-> {}, known |-> {}, aliases |-> [i \in TradeIds |-> i]]

\* The ledger after each of the events; the first that fails ends it.
Ledgers(ordered) ==
  LET Ledger[n \in 0 .. Len(ordered)] ==
        IF n = 0 THEN EmptyLedger
        ELSE IF Failed(Ledger[n - 1]) THEN Ledger[n - 1]
        ELSE ApplyEvent(Ledger[n - 1], ordered[n])
  IN  Ledger

BySequence(events) == SortedBy(events, [i \in DOMAIN events |-> <<events[i].seq>>])

\* The set of trades that are active in the end, or an error.
materialize_trades(events) ==
  IF \E i, j \in DOMAIN events : i # j /\ events[i].seq = events[j].seq
  THEN DataQualityError("DUPLICATE_INGEST_SEQUENCE")
  ELSE Ledgers(BySequence(events))[Len(events)]

-----------------------------------------------------------------------------
(* core_features.py *)

Day(t)  == t \div DayLength
Tick(t) == t % DayLength

InWindowOpen(t, day, cutoff) ==   \* mutant: the window has no end
  Day(t.time) = day /\ Tick(t.time) >= PremarketStart

InWindow(t, day, cutoff) == Day(t.time) = day /\ Tick(t.time) \in PremarketStart .. cutoff

\* The active trades of the ledger between the start of the pre-market and the snapshot.
current_session_trades(ledger, now) == {t \in ledger.active : InWindow(t, Day(now), Tick(now))}

current_price(trades)    == (CHOOSE t \in trades : \A u \in trades :
                               u = t \/ LexLess(TradeKey(u), TradeKey(t))).price
premarket_low(trades)    == Min({t.price : t \in trades})
premarket_volume(trades) == SumFunction([t \in trades |-> t.size])
premarket_vwap(trades)   == quantize(SumFunction([t \in trades |-> t.price * t.size]),
                                     premarket_volume(trades))
gap_pct(price, close)    == quantize((price - close) * 100 * Unit, close)
distance_from_vwap_atr(price, vwap, atr) == quantize((price - vwap) * Unit, atr)

Abs(n) == IF n < 0 THEN -n ELSE n

true_range(bar, close) ==
  Max({bar.high - bar.low, Abs(bar.high - close), Abs(bar.low - close)})

\* Wilder's average up to each bar: a numerator over a power of the period.
Averages(ranges) ==
  LET Atr[i \in AtrPeriod .. Len(ranges)] ==
        IF i = AtrPeriod
        THEN <<SumFunction([n \in 1 .. AtrPeriod |-> ranges[n]]), AtrPeriod>>
        ELSE <<Atr[i - 1][1] * (AtrPeriod - 1) + ranges[i] * Atr[i - 1][2], Atr[i - 1][2] * AtrPeriod>>
  IN  Atr

\* In quanta.
wilder_atr_14(bars) ==
  LET ranges == [i \in 1 .. Len(bars) - 1 |-> true_range(bars[i + 1], bars[i].close)]
      atr    == Averages(ranges)[Len(ranges)]
  IN  IF Len(bars) < AtrPeriod + 1 THEN DataQualityError("INSUFFICIENT_ATR_HISTORY")
      ELSE IF atr[1] <= 0 THEN DataQualityError("INVALID_ATR")
      ELSE [value |-> quantize(atr[1], atr[2])]

\* The volume of an earlier session up to the same time of the day.
historical_session_volume(session, now) ==
  LET ledger == materialize_trades(session.events)
  IN  IF ~session.complete THEN DataQualityError("INCOMPLETE_RVOL_SESSION")
      ELSE IF Failed(ledger) THEN ledger
      ELSE [value |-> premarket_volume({t \in ledger.active : InWindow(t, session.day, Tick(now))})]

\* Mutant: the sessions are taken as they come.
ByDateAssumed(sessions) == sessions

ByDate(sessions) == SortedBy(sessions, [i \in DOMAIN sessions |-> <<sessions[i].day>>])

\* Against the mean of the volumes of the earlier sessions; the first that fails decides.
RvolAgainst(volume, volumes) ==
  LET failed == {i \in DOMAIN volumes : Failed(volumes[i])}
      sum    == SumFunction([i \in DOMAIN volumes |-> volumes[i].value])
  IN  IF failed # {} THEN volumes[Min(failed)]
      ELSE IF sum <= 0 THEN DataQualityError("ZERO_RVOL_BASELINE")
      ELSE [value |-> quantize(volume * RvolSessions * Unit, sum)]

\* The sessions that count are the last by date.
rvol_time_matched(volume, sessions, now) ==
  LET dated == ByDate(sessions)
  IN  IF Len(sessions) < RvolSessions THEN DataQualityError("INSUFFICIENT_RVOL_HISTORY")
      ELSE RvolAgainst(volume, [i \in 1 .. RvolSessions |->
             historical_session_volume(dated[Len(sessions) - RvolSessions + i], now)])

\* Spiky: one bucket holds over 35% of the volume, or under 60% of the buckets hold any.
\* A trade is inside the window, so its bucket is one of these.
volume_profile(trades, now) ==
  LET buckets == 0 .. ((Tick(now) - PremarketStart) \div BucketTicks)
      held    == [b \in buckets |-> premarket_volume(
                    {t \in trades : (Tick(t.time) - PremarketStart) \div BucketTicks = b})]
      filled  == {b \in buckets : held[b] > 0}
  IN  IF \/ Max({held[b] : b \in buckets}) * 100 > 35 * premarket_volume(trades)
         \/ Cardinality(filled) * 100 < 60 * Cardinality(buckets)
      THEN "spiky" ELSE "clean"

-----------------------------------------------------------------------------
(* resistance.py *)

\* The bars [day, high] of the lookback whose high is above those of PivotWidth bars on
\* both sides, and the latest bar with the highest high, confirmed or not.
_pivot_candidates(highs, days) ==
  LET confirmed == {d \in days : /\ (d - PivotWidth) .. (d + PivotWidth) \subseteq days
                                 /\ \A n \in (d - PivotWidth) .. (d + PivotWidth) :
                                      n # d => highs[n] < highs[d]}
      top == Max({d \in days : \A n \in days : highs[n] <= highs[d]})
  IN  {[day |-> d, price |-> highs[d], lookbackHigh |-> d = top] : d \in confirmed \union {top}}

\* The highest pivot left anchors a cluster of those within half an ATR below it.
_clusters(pivots, atr) ==
  LET Clusters[left \in SUBSET pivots] ==
        IF left = {} THEN {}
        ELSE LET anchor  == Max({p.price : p \in left})
                 members == {p \in left : 2 * (anchor - p.price) <= atr}
             IN  {members} \union Clusters[left \ members]
  IN  Clusters[pivots]

\* Mutant: the age of a cluster is that of its first touch.
ValidClusterByFirst(cluster, latest) ==
  /\ Cardinality(cluster) >= 2 \/ \E p \in cluster : p.lookbackHigh
  /\ latest - Min({p.day : p \in cluster}) > Recency => Cardinality(cluster) >= 3

\* Two touches, or the high of the lookback; an old one needs three.
ValidCluster(cluster, latest) ==
  /\ Cardinality(cluster) >= 2 \/ \E p \in cluster : p.lookbackHigh
  /\ latest - Max({p.day : p \in cluster}) > Recency => Cardinality(cluster) >= 3

\* Mutant: two ATRs count as clean.
chart_structure_loose(distance) ==
  CASE distance >= 2 * Unit -> "clean_short_term"
    [] distance \in Unit .. 2 * Unit - 1 -> "moderate_room"
    [] OTHER -> "capped"

chart_structure(distance) ==
  CASE distance > 2 * Unit -> "clean_short_term"
    [] distance \in Unit .. 2 * Unit -> "moderate_room"
    [] OTHER -> "capped"

\* The prices of each zone of resistance: the clusters of the lookback that are valid.
Zones(highs, atr) ==
  LET latest == Len(highs)
      days   == Max({1, latest - Lookback + 1}) .. latest
  IN  {{p.price : p \in c} : c \in
         {c \in _clusters(_pivot_candidates(highs, days), atr) : ValidCluster(c, latest)}}

\* How far each zone is that is not below the price.
Eligible(zones, price) ==
  {IF price < Min(z) THEN Min(z) - price ELSE 0 : z \in {z \in zones : price <= Max(z)}}

Resisted(distance) == [distance |-> distance, chart |-> chart_structure(distance)]

\* The distance to the nearest valid zone that is not below the price, else to the
\* all-time high, else no resistance at all; ties only choose the zone that is reported.
Nearest(eligible, ath, price, atr, listed) ==
  IF eligible # {} THEN Resisted(quantize(Min(eligible) * Unit, atr))
  ELSE IF price < ath THEN Resisted(quantize((ath - price) * Unit, atr))
  ELSE IF ~listed THEN DataQualityError("INCOMPLETE_HISTORY_FOR_BLUE_SKY_CHECK")
  ELSE [distance |-> Sentinel, chart |-> "blue_sky"]

daily_pivot_cluster_v1(bars, price, atr, listed) ==
  LET highs == [d \in DOMAIN bars |-> bars[d].high]
  IN  IF Len(bars) < MinHistory THEN DataQualityError("INSUFFICIENT_DAILY_HISTORY")
      ELSE IF atr <= 0 THEN DataQualityError("INVALID_ATR")
      ELSE Nearest(Eligible(Zones(highs, atr), price), Max(Range(highs)), price, atr, listed)

-----------------------------------------------------------------------------
(* joins.py *)

\* Effective, known, validated and not expired at the snapshot (a single source is allowed).
FloatUsable(r, now) ==
  r.effective <= Day(now) /\ r.observed <= now /\ r.validated <= now /\ now < r.expires

FloatKey(r) == <<r.effective, r.observed, r.validated>>

\* The latest of the usable records, the first of equals.
select_float_record(records, now) ==
  LET usable == {i \in DOMAIN records : FloatUsable(records[i], now)}
      latest == {i \in usable : \A j \in usable : ~LexLess(FloatKey(records[i]), FloatKey(records[j]))}
  IN  IF usable = {} THEN DataQualityError("FLOAT_DATA_UNAVAILABLE") ELSE records[Min(latest)]

Priority == [primary |-> 0, secondary |-> 1, unconfirmed |-> 2]

CatalystKey(c) == <<Priority[c.source], IF c.corroborated THEN 0 ELSE 1, -c.time, c.id>>

\* Mutant: when it was published counts, not when it was seen.
CatalystKnownByTime(c, now) == c.time <= now

CatalystKnown(c, now) == c.observed <= now

\* The best catalyst known by then: its kind counts before its age.
select_catalyst(records, now) ==
  LET known    == {c \in Range(records) : CatalystKnown(c, now)}
      selected == CHOOSE c \in known : \A d \in known : ~LexLess(CatalystKey(d), CatalystKey(c))
  IN  IF known = {} THEN DataQualityError("CATALYST_DATA_UNAVAILABLE")
      ELSE IF selected.time > now THEN DataQualityError("FUTURE_CATALYST_TIMESTAMP")
      ELSE selected

-----------------------------------------------------------------------------
(* engine.py and prequalification.py *)

\* Everything a payload says of a candidate.
FeaturesOf(ctx, s, trades, price, atr, rvol, room, float, catalyst) ==
  [ticker |-> s.ticker, halted |-> s.halted, price |-> price, low |-> premarket_low(trades),
   gap |-> gap_pct(price, s.close), volume |-> premarket_volume(trades), rvol |-> rvol.value,
   vwap |-> distance_from_vwap_atr(price, premarket_vwap(trades), atr),
   profile |-> volume_profile(trades, ctx.now), float |-> float.shares, borrow |-> s.borrow,
   distance |-> room.distance, chart |-> room.chart,
   text |-> catalyst.text, source |-> catalyst.source, corroborated |-> catalyst.corroborated,
   disqualified |-> catalyst.disqualified,
   age |-> quantize((ctx.now - catalyst.time) * Unit, HourLength)]

\* The first of the parts that fails, or all of them.
Joined(ctx, s, trades, price, atr, rvol, room, float, catalyst) ==
  CASE Failed(rvol) -> rvol
    [] ~Failed(rvol) /\ Failed(room) -> room
    [] ~Failed(rvol) /\ ~Failed(room) /\ Failed(float) -> float
    [] ~Failed(rvol) /\ ~Failed(room) /\ ~Failed(float) /\ Failed(catalyst) -> catalyst
    [] OTHER -> FeaturesOf(ctx, s, trades, price, atr, rvol, room, float, catalyst)

FromTrades(ctx, s, trades, price, atr) ==
  IF trades = {} THEN DataQualityError("NO_ELIGIBLE_PREMARKET_TRADES")
  ELSE IF Failed(atr) THEN atr
  ELSE Joined(ctx, s, trades, price, atr.value,
             rvol_time_matched(premarket_volume(trades), s.sessions, ctx.now),
             daily_pivot_cluster_v1(s.bars, price, atr.value, s.listed),
             select_float_record(s.floats, ctx.now), select_catalyst(s.catalysts, ctx.now))

FromLedger(ctx, s, ledger) ==
  LET trades == current_session_trades(ledger, ctx.now)
  IN  IF Failed(ledger) THEN ledger
      ELSE FromTrades(ctx, s, trades, current_price(trades), wilder_atr_14(s.bars))

\* The features, or the first error on the way there.
_calculate_candidate(ctx, s) == FromLedger(ctx, s, materialize_trades(s.events))

REASONS == <<"HALTED", "GAP_TOO_SMALL", "PREMARKET_VOLUME_TOO_LOW", "RVOL_TOO_LOW",
             "RESISTANCE_TOO_CLOSE", "CAPPED_CHART", "UNCONFIRMED_SOURCE",
             "DISQUALIFYING_CATALYST", "STALE_CATALYST">>

\* Mutant: ages are compared in whole hours.
StaleByHour(f, freshness) == f.age \div Unit > freshness \div Unit

Stale(f, freshness) == f.age > freshness

\* The reasons of prequalify, and the one the caller appends.
prequalify(f, freshness) ==
  LET fails == [HALTED                   |-> f.halted,
                GAP_TOO_SMALL            |-> f.gap < 4 * Unit,
                PREMARKET_VOLUME_TOO_LOW |-> f.volume < 500,
                RVOL_TOO_LOW             |-> f.rvol < 5 * Unit,
                RESISTANCE_TOO_CLOSE     |-> f.distance < Unit,
                CAPPED_CHART             |-> f.chart = "capped",
                UNCONFIRMED_SOURCE       |-> f.source = "unconfirmed",
                DISQUALIFYING_CATALYST   |-> f.disqualified,
                STALE_CATALYST           |-> Stale(f, freshness)]
  IN  Kept(REASONS, {i \in DOMAIN REASONS : fails[REASONS[i]]})

Decide(f, ticker, freshness) ==
  LET reasons == IF Failed(f) THEN <<f.error>> ELSE prequalify(f, freshness)
  IN  [ticker |-> ticker, features |-> f, accepted |-> reasons = <<>>, reasons |-> reasons]

capacity_sort_key(f) ==
  <<IF f.source = "primary" THEN 0 ELSE 1, IF f.corroborated THEN 0 ELSE 1,
    IF f.profile = "clean" THEN 0 ELSE 1, f.age, -f.rvol, -f.volume, -f.distance, f.ticker>>

\* Mutant: the omissions are counted from the last that was kept.
omission_rank_low(i) == Capacity + i - 1

omission_rank(i) == Capacity + i

Payload(ctx, ranked) ==
  [market |-> ctx.market, age |-> ctx.evaluation - ctx.now, freshness |-> ctx.freshness,
   tickers |-> SubSeq(ranked, 1, Min({Capacity, Len(ranked)}))]

\* Constructing the payload raises when it does not parse as a DaybreakInput.
Snapshot(ctx, decisions, ranked, payload) ==
  IF ~ValidInput(payload) THEN Invalid
  ELSE [status |-> "built", context |-> ctx, payload |-> payload,
        prequalification |-> [i \in DOMAIN decisions |->
          [ticker |-> decisions[i].ticker, reasons |-> decisions[i].reasons]],
        omissions |-> [i \in 1 .. Len(ranked) - Len(payload.tickers) |->
          [ticker |-> ranked[Capacity + i].ticker, rank |-> omission_rank(i)]]]

ByCapacity(features) ==
  SortedBy(features, [i \in DOMAIN features |-> capacity_sort_key(features[i])])

RankedSnapshot(ctx, decisions, ranked) == Snapshot(ctx, decisions, ranked, Payload(ctx, ranked))

DecidedSnapshot(ctx, decisions) ==
  LET passed == Kept(decisions, {i \in DOMAIN decisions : decisions[i].accepted})
  IN  RankedSnapshot(ctx, decisions, ByCapacity([i \in DOMAIN passed |-> passed[i].features]))

ByTicker(candidates) == SortedBy(candidates, [i \in DOMAIN candidates |-> <<candidates[i].ticker>>])

Decisions(ctx, sources) ==
  [i \in DOMAIN sources |->
     Decide(_calculate_candidate(ctx, sources[i]), sources[i].ticker, ctx.freshness)]

build_feature_snapshot(ctx) == DecidedSnapshot(ctx, Decisions(ctx, ByTicker(ctx.candidates)))

-----------------------------------------------------------------------------
(* persistence.py: a hash stands for what it is the hash of. *)

\* The context is the input: an instance chooses it among those that validate.
FeatureInit ==
  /\ context \in FeatureContext
  /\ snapshot = Nothing
  /\ rows = [contexts |-> {}, snapshots |-> {}]

\* cli.py: features-build.
Build ==
  /\ snapshot.status = "none"
  /\ snapshot' = build_feature_snapshot(context)
  /\ UNCHANGED <<context, rows>>

\* An insert that finds the row compares it with what it was to write.
save_context ==
  /\ context \notin rows.contexts
  /\ rows' = [rows EXCEPT !.contexts = @ \union {context}]
  /\ UNCHANGED <<context, snapshot>>

\* A snapshot's row refers to the row of its context.
save_snapshot ==
  /\ snapshot.status = "built" /\ context \in rows.contexts
  /\ snapshot \notin rows.snapshots
  /\ rows' = [rows EXCEPT !.snapshots = @ \union {snapshot}]
  /\ UNCHANGED <<context, snapshot>>

TurnedCandidate(s) ==
  [s EXCEPT !.events = Reverse(@), !.sessions = Reverse(@),
            !.floats = Reverse(@), !.catalysts = Reverse(@)]

Turned(ctx) ==
  [ctx EXCEPT !.candidates = Reverse([i \in DOMAIN @ |-> TurnedCandidate(@[i])])]

\* The same records collected again, in another order: another context, another hash.
Recollect ==
  /\ rows.snapshots # {} /\ snapshot.status = "built" /\ Cardinality(rows.contexts) = 1 /\ Turned(context) # context
  /\ context' = Turned(context)
  /\ snapshot' = Nothing
  /\ UNCHANGED rows

FeatureNext == Build \/ save_context \/ save_snapshot \/ Recollect

FeatureSpec == FeatureInit /\ [][FeatureNext]_featureVars

-----------------------------------------------------------------------------
(* Properties *)

Built == snapshot.status = "built"

Source(ctx, ticker) == CHOOSE s \in Range(ctx.candidates) : s.ticker = ticker
TickersOf(s) == {s[i].ticker : i \in DOMAIN s}

\* Every candidate gets one decision, and each that has no reason against it is either in the
\* payload or listed as omitted for capacity, never both; omissions only begin when the
\* payload is full and their ranks go on from there.
EveryCandidateAnswered ==
  Built =>
    LET passed == {d \in Range(snapshot.prequalification) : d.reasons = <<>>}
        sent   == TickersOf(snapshot.payload.tickers)
        left   == TickersOf(snapshot.omissions)
    IN  /\ TickersOf(snapshot.prequalification) = TickersOf(context.candidates)
        /\ Len(snapshot.prequalification) = Len(context.candidates)
        /\ sent \union left = {d.ticker : d \in passed} /\ sent \intersect left = {}
        /\ Cardinality(sent) <= Capacity
        /\ left # {} => /\ Cardinality(sent) = Capacity
                        /\ {o.rank : o \in Range(snapshot.omissions)} =
                             Capacity + 1 .. Cardinality(passed)

\* What the evaluator is asked about can be approved: by the rules its answer is checked with
\* (daybreak_contracts), only the judgement of the catalyst's magnitude is left open.
PayloadPassesGates ==
  Built =>
    \A e \in Range(snapshot.payload.tickers) :
      /\ expected_zero_reason(snapshot.payload, e, "major_concrete") = None
      /\ Range(expected_failed_gates(e, expected_source_quality(e))) \subseteq
           {"CATALYST_SCORE_TOO_LOW", "UNCORROBORATED_CATALYST"}

\* Building a snapshot raises only for a catalyst text the contract does not take: the classes
\* and decimals the engine computes always satisfy the validators of the payload.
OnlyLongTextRaises ==
  snapshot.status = "raised" => \E s \in Range(context.candidates) : \E c \in Range(s.catalysts) : c.text > MaxText

\* A day whose high is above that of all PivotWidth days on both sides.
Top(highs, days, d) ==
  \A n \in (d - PivotWidth) .. (d + PivotWidth) : n # d => n \in days /\ highs[n] < highs[d]

\* The room above a price that is sent is never more than that to the highest high there ever
\* was, nor than that to a level two pivots share of which one is recent; without complete
\* history no price counts as above everything.
RoomIsNotOverstated ==
  Built =>
    \A e \in Range(snapshot.payload.tickers) :
      LET s     == Source(context, e.ticker)
          highs == [d \in DOMAIN s.bars |-> s.bars[d].high]
          days  == {d \in DOMAIN highs : d > Len(highs) - Lookback}
          Room(high) == quantize((high - e.price) * Unit, wilder_atr_14(s.bars).value)
      IN  IF e.chart = "blue_sky"
          THEN s.listed /\ \A d \in DOMAIN highs : highs[d] <= e.price
          ELSE /\ e.distance <= Room(Max({highs[d] : d \in DOMAIN highs}))
               /\ \A c, d \in days :
                    /\ c < d /\ Len(highs) - d <= Recency /\ highs[c] = highs[d] /\ highs[d] > e.price
                    /\ Top(highs, days, c) /\ Top(highs, days, d)
                    => e.distance <= Room(highs[d])

\* The events before i that reported the trade it changes under that id.
Reported(ordered, i) ==
  {j \in 1 .. i - 1 : ordered[i].action # "new" /\ ordered[j].id = ordered[i].original}

\* The event each event leads back to: where its trade was first reported.
Roots(ordered) ==
  LET Root[i \in 1 .. Len(ordered)] ==
        IF Reported(ordered, i) = {} THEN i ELSE Root[Max(Reported(ordered, i))]
  IN  Root

\* No event takes the id of an earlier one, unless that is the trade it changes.
OwnIds(ordered) ==
  \A i \in DOMAIN ordered : \A j \in 1 .. i - 1 :
    ordered[j].id = ordered[i].id => ordered[i].id = ordered[i].original

\* What is left after n events: the last of each trade, unless it ended the trade.
LastVersions(ordered, n) ==
  LET Root == Roots(ordered)
      last == {i \in 1 .. n : \A j \in i + 1 .. n : Root[j] # Root[i]}
  IN  {ordered[i] : i \in {i \in last : ordered[i].eligible /\ ordered[i].action # "cancel"}}

\* A ledger that is accepted counts every trade once: what is active is the last version of
\* each trade that was reported and neither cancelled nor made ineligible since, provided a
\* correction does not take an id that another trade was reported under.
LedgerCountsOnce ==
  snapshot.status # "none" =>
    \A s \in Range(context.candidates) :
      LET ledger == materialize_trades(s.events)  ordered == BySequence(s.events)
      IN  ~Failed(ledger) /\ OwnIds(ordered) => ledger.active = LastVersions(ordered, Len(ordered))

Known(records, now) == Kept(records, {i \in DOMAIN records : records[i].observed <= now})

KnownCandidate(s, now) == [s EXCEPT !.floats = Known(@, now), !.catalysts = Known(@, now)]

KnownCandidates(candidates, now) ==
  [i \in DOMAIN candidates |-> KnownCandidate(candidates[i], now)]

\* The context without the float records and catalysts observed after it.
KnownOnly(ctx) == [ctx EXCEPT !.candidates = KnownCandidates(@, ctx.now)]

\* A float record or catalyst that was not known at the snapshot has no influence: without
\* those observed later, the payload and the decisions are the same.
NoLookAhead ==
  Built =>
    LET then == build_feature_snapshot(KnownOnly(context))
    IN  then.payload = snapshot.payload /\ then.prequalification = snapshot.prequalification

\* The events of the trades that had an event by the snapshot, the later ones of these trades too.
BegunBy(events, now) ==
  LET ordered == BySequence(events)  Root == Roots(ordered)
  IN  Kept(ordered, {i \in DOMAIN ordered :
                       \E j \in DOMAIN ordered : Root[j] = Root[i] /\ ordered[j].time <= now})

\* The context without the trades that were first reported after it.
WithoutLaterTrades(ctx) ==
  [ctx EXCEPT !.candidates =
     [i \in DOMAIN @ |-> [@[i] EXCEPT !.events = BegunBy(@, ctx.now)]]]

\* A trade that was first reported after the snapshot has no influence, nor have the events
\* that change it.  This is not said of the later events of an earlier trade: the ledger is
\* materialized before the window is applied to it, so a cancellation or correction counts
\* whenever it is stamped, and takes the trade out of the snapshot.
LaterTradesStayOut ==
  /\ Built
  /\ \E s \in Range(context.candidates) : \E e \in Range(s.events) : e.time > context.now
  /\ \A s \in Range(context.candidates) :
       ~Failed(materialize_trades(s.events)) /\ OwnIds(BySequence(s.events))
  =>
    LET then == build_feature_snapshot(WithoutLaterTrades(context))
    IN  then.payload = snapshot.payload /\ then.prequalification = snapshot.prequalification

\* The order in which candidates, trades, sessions, float records and catalysts were collected
\* has no influence: the snapshots stored for the same records agree on all they say.
SamePayloadAnyOrder ==
  \A s, t \in rows.snapshots :
    s.payload = t.payload /\ s.prequalification = t.prequalification /\ s.omissions = t.omissions

\* build_feature_snapshot answers for every candidate it is given, and is kept from
\* it by nothing but a catalyst text that is too long.
SnapshotIsComplete == EveryCandidateAnswered /\ OnlyLongTextRaises

\* A snapshot depends neither on a float record or catalyst that was observed after it nor
\* on the order in which candidates, trades, sessions and records were collected.
SnapshotOfItsTime == NoLookAhead /\ SamePayloadAnyOrder
=============================================================================
