--------------------------- MODULE ContractsProofs ---------------------------
(***************************************************************************)
(* Proofs about Contracts, for payloads of any number of tickers and       *)
(* answers any number of alterations away from the truth.                  *)
(***************************************************************************)
EXTENDS Contracts, ReplayProofs, TLAPS

-----------------------------------------------------------------------------
(* The report is about the answer.                                         *)

\* An answer is no longer altered once it was validated, so that what the report and the
\* comparison say is said of the present one; an unaltered answer is the true one.
ReportInv ==
  /\ payload \in Payloads /\ metadata \in Metadata /\ altered \in Nat
  /\ altered = 0 => answer = TrueAnswer(payload)
  /\ report = NoReport \/ report = validate_daybreak_run(payload, answer, metadata)
  /\ comparison = NoComparison \/
       (report.done /\ comparison = compare_outputs(TrueAnswer(payload), answer))

LEMMA AnswerStep ==
  ASSUME ReportInv, NEW a, Answer(a)
  PROVE  ReportInv'
<1>1. /\ payload' = payload /\ metadata' = metadata /\ report' = report /\ comparison' = comparison
      /\ altered' = altered + 1 /\ ~ report.done
  BY DEF Answer
<1>2. report = NoReport BY <1>1 DEF ReportInv, validate_daybreak_run
<1>3. comparison = NoComparison BY <1>1 DEF ReportInv
<1>4. altered' \in Nat /\ altered' # 0 BY <1>1 DEF ReportInv
<1> QED BY <1>1, <1>2, <1>3, <1>4 DEF ReportInv

LEMMA ReportStep ==
  ASSUME ReportInv, Validate \/ Compare
  PROVE  ReportInv'
<1>1. CASE Validate
  <2>1. /\ payload' = payload /\ metadata' = metadata /\ answer' = answer /\ altered' = altered
        /\ comparison' = comparison /\ ~ report.done
    BY <1>1 DEF Validate
  <2>2. report' = validate_daybreak_run(payload, answer, metadata) BY <1>1 DEF Validate
  <2>3. report' = validate_daybreak_run(payload, answer, metadata)' BY <2>1, <2>2
  <2>4. comparison = NoComparison BY <2>1 DEF ReportInv
  <2> QED BY <2>1, <2>3, <2>4 DEF ReportInv
<1>2. CASE Compare
  <2>1. /\ payload' = payload /\ metadata' = metadata /\ answer' = answer /\ altered' = altered
        /\ report' = report /\ report.done
    BY <1>2 DEF Compare
  <2>2. comparison' = compare_outputs(TrueAnswer(payload), answer) BY <1>2 DEF Compare
  <2>3. comparison' = compare_outputs(TrueAnswer(payload), answer)' BY <2>1, <2>2
  <2> QED BY <2>1, <2>3 DEF ReportInv
<1> QED BY <1>1, <1>2

\* What an accepted answer has passed.
LEMMA AcceptedIs ==
  ASSUME ReportInv, report.valid
  PROVE  /\ ValidOutput(answer) /\ (payload.valid \/ answer.status = "schema_failure")
         /\ ChecksPass(payload, answer, metadata)
  BY DEF ReportInv, NoReport, validate_daybreak_run

LEMMA PayloadIs ==
  ASSUME ReportInv
  PROVE  /\ payload \in DaybreakInput /\ payload.tickers \in Seq(TickerInput)
         /\ payload.age \in Nat /\ payload.freshness \in Nat /\ payload.market \in Market
         /\ \A i, j \in DOMAIN payload.tickers :
              payload.tickers[i].ticker = payload.tickers[j].ticker => i = j
         /\ payload.valid => ValidInput(payload)
  BY ContractAssumption DEF ReportInv, DaybreakInput

\* Nothing is traded on a payload that was not scored, and its malformed tickers are named.
LEMMA UnscoredIs == ReportInv => UnscoredTradesNothing
<1> SUFFICES ASSUME ReportInv, report.valid, ~ Scored(payload)
             PROVE  /\ terminal_records(answer) = <<>>
                    /\ ~payload.valid /\ payload.duplicates => payload.invalid \subseteq FailedTickers(answer)
  BY DEF UnscoredTradesNothing
<1>1. /\ payload.valid \/ answer.status = "schema_failure"
      /\ NonScoringEmpty(answer) /\ (payload.valid => StatusPrecedence(payload, answer))
      /\ DuplicatesReported(payload, answer)
  BY AcceptedIs DEF ChecksPass
<1>2. answer.status \in {"schema_failure", "blocked_market", "stale_payload"}
  BY <1>1, PayloadIs DEF StatusPrecedence, Scored
<1>3. terminal_records(answer) = <<>> BY <1>1, <1>2 DEF NonScoringEmpty
<1> QED BY <1>1, <1>3 DEF DuplicatesReported

-----------------------------------------------------------------------------
(* The replayed scores, flags and reasons of a ticker.                     *)

LEMMA OrdersAreLists ==
  /\ RISK_FLAG_ORDER \in Seq(Elements(RISK_FLAG_ORDER)) /\ DOMAIN RISK_FLAG_ORDER = 1 .. 6
  /\ GATES \in Seq(Elements(GATES)) /\ DOMAIN GATES = 1 .. 8
  BY DEF RISK_FLAG_ORDER, GATES, Elements

LEMMA FlagsType == \A e : expected_risk_flags(e) \in Seq(Elements(RISK_FLAG_ORDER))
<1> TAKE e
<1> PICK I : I = {i \in DOMAIN RISK_FLAG_ORDER :
                    [parabolic        |-> expected_technical(e).adjusted,
                     hard_to_borrow   |-> e.borrow = "hard_to_borrow",
                     unknown_borrow   |-> e.borrow = "unknown",
                     low_float        |-> e.float < 50,
                     spiky_volume     |-> e.profile = "spiky",
                     secondary_source |-> e.source = "secondary"][RISK_FLAG_ORDER[i]]}
  OBVIOUS
<1>1. expected_risk_flags(e) = Kept(RISK_FLAG_ORDER, I) BY DEF expected_risk_flags
<1>2. I \in SUBSET DOMAIN RISK_FLAG_ORDER OBVIOUS
<1>3. Kept(RISK_FLAG_ORDER, I) \in Seq(Elements(RISK_FLAG_ORDER)) BY <1>2, OrdersAreLists, KeptIs
<1> QED BY <1>1, <1>3

LEMMA GatesType == \A e, raw : expected_failed_gates(e, raw) \in Seq(Elements(GATES))
<1> TAKE e, raw
<1> PICK I : I = {i \in DOMAIN GATES :
                    [HALTED                   |-> e.halted,
                     CATALYST_SCORE_TOO_LOW   |-> raw < 7,
                     UNCORROBORATED_CATALYST  |-> ~e.corroborated /\ raw < 9,
                     GAP_TOO_SMALL            |-> e.gap < 4 * Unit,
                     PREMARKET_VOLUME_TOO_LOW |-> e.volume < 500,
                     RVOL_TOO_LOW             |-> e.rvol < 5 * Unit,
                     RESISTANCE_TOO_CLOSE     |-> e.distance < Unit,
                     CAPPED_CHART             |-> e.chart = "capped"][GATES[i]]}
  OBVIOUS
<1>1. expected_failed_gates(e, raw) = Kept(GATES, I) BY DEF expected_failed_gates
<1>2. I \in SUBSET DOMAIN GATES OBVIOUS
<1>3. Kept(GATES, I) \in Seq(Elements(GATES)) BY <1>2, OrdersAreLists, KeptIs
<1> QED BY <1>1, <1>3

\* The technical points that go with a grade.
Points(grade, base, points, adjusted) ==
  \/ grade = "A+" /\ base = 25 /\ points = IF adjusted THEN 19 ELSE 25
  \/ grade = "A" /\ base = 22 /\ points = IF adjusted THEN 16 ELSE 22
  \/ grade = "B" /\ base = 13 /\ points = IF adjusted THEN 7 ELSE 13
  \/ grade = "C" /\ base = 0 /\ points = 0 /\ ~ adjusted

LEMMA TechnicalIs ==
  ASSUME NEW e \in TickerInput
  PROVE  \E grade, base, points : \E adjusted \in BOOLEAN :
           /\ expected_technical(e) = [grade |-> grade, base |-> base, points |-> points, adjusted |-> adjusted]
           /\ Points(grade, base, points, adjusted)
           /\ e.distance < Unit \/ e.chart = "capped" => expected_technical(e) = Failing
<1> PICK adjusted : adjusted = (e.vwap > 3 * Unit) OBVIOUS
<1> PICK a \in Int, b \in Int : a = e.vwap /\ b = 3 * Unit BY ReplayAssumption DEF TickerInput
<1>0. adjusted \in BOOLEAN
  <2>1. adjusted = (a > b) OBVIOUS
  <2> QED BY <2>1
<1> PICK bs : bs = [blue_sky |-> 25, clean_short_term |-> 22, moderate_room |-> 13] OBVIOUS
<1> PICK gs : gs = [blue_sky |-> "A+", clean_short_term |-> "A", moderate_room |-> "B"] OBVIOUS
<1>1. expected_technical(e) =
        IF e.distance < Unit \/ e.chart = "capped" THEN Failing
        ELSE [grade |-> gs[e.chart], base |-> bs[e.chart], adjusted |-> adjusted,
              points |-> bs[e.chart] - (IF adjusted THEN 6 ELSE 0)]
  BY DEF expected_technical
<1>2. CASE e.distance < Unit \/ e.chart = "capped"
  <2>1. expected_technical(e) = [grade |-> "C", base |-> 0, points |-> 0, adjusted |-> FALSE]
    BY <1>1, <1>2 DEF Failing
  <2>2. Points("C", 0, 0, FALSE) BY DEF Points
  <2> QED BY <2>1, <2>2, <1>2 DEF Failing
<1>3. CASE ~ (e.distance < Unit \/ e.chart = "capped")
  <2>1. expected_technical(e) =
          [grade |-> gs[e.chart], base |-> bs[e.chart],
           points |-> bs[e.chart] - (IF adjusted THEN 6 ELSE 0), adjusted |-> adjusted]
    BY <1>1, <1>3
  <2>2. e.chart \in {"blue_sky", "clean_short_term", "moderate_room"} BY <1>3 DEF TickerInput, Chart
  <2>3. Points(gs[e.chart], bs[e.chart], bs[e.chart] - (IF adjusted THEN 6 ELSE 0), adjusted)
    <3>0. adjusted \in BOOLEAN BY <1>0
    <3>1. CASE e.chart = "blue_sky" BY <3>0, <3>1 DEF Points
    <3>2. CASE e.chart = "clean_short_term" BY <3>0, <3>2 DEF Points
    <3>3. CASE e.chart = "moderate_room" BY <3>0, <3>3 DEF Points
    <3> QED BY <2>2, <3>1, <3>2, <3>3
  <2> QED BY <1>0, <1>3, <2>1, <2>3
<1> QED BY <1>2, <1>3

LEMMA MagnitudeIs ==
  \A b \in Bucket : MAGNITUDE_POINTS[b] \in 0 .. 4 /\ (b = "no_valid_driver" => MAGNITUDE_POINTS[b] = 0)
  BY DEF MAGNITUDE_POINTS, Bucket

LEMMA ZeroIs ==
  \A p, e, bucket :
    /\ expected_zero_reason(p, e, bucket) \in Zero
    /\ expected_zero_reason(p, e, bucket) = "no_valid_driver" => bucket = "no_valid_driver"
    /\ expected_zero_reason(p, e, bucket) = "disqualifier_flag" => e.disqualified
  BY DEF expected_zero_reason, Zero, None

LEMMA QualityIs == \A e : expected_source_quality(e) \in {0, 2, 4, 6}
  BY DEF expected_source_quality

LEMMA VolumeIs == \A e \in TickerInput : expected_volume_points(e) \in {0, 15, 25, 35}
  BY DEF expected_volume_points

\* The fields of a score that is replayed.
Fields ==
  [source : 0 .. 6, magnitude : 0 .. 4, override : BOOLEAN, zero : Zero, raw : 0 .. 10,
   catalyst : 0 .. 40, volume : {0, 15, 25, 35}, grade : {"A+", "A", "B", "C"},
   base : {0, 13, 22, 25}, technical : {0, 7, 13, 16, 19, 22, 25}, adjusted : BOOLEAN]

\* How they follow from the input and from one another.
FieldsAgree(p, e, bucket, f) ==
  /\ Points(f.grade, f.base, f.technical, f.adjusted)
  /\ e.distance < Unit \/ e.chart = "capped" =>
       f.grade = "C" /\ f.base = 0 /\ f.technical = 0 /\ f.adjusted = FALSE
  /\ f.zero = expected_zero_reason(p, e, bucket) /\ (f.override <=> f.zero # None)
  /\ f.magnitude = MAGNITUDE_POINTS[bucket] /\ f.volume = expected_volume_points(e)
  /\ f.raw = (IF f.zero = None THEN f.source + f.magnitude ELSE 0) /\ f.catalyst = f.raw * 4

LEMMA FieldsAre ==
  ASSUME NEW p, NEW e \in TickerInput, NEW bucket \in Bucket,
         NEW f, f = expected_score_fields(p, e, bucket)
  PROVE  f \in Fields /\ FieldsAgree(p, e, bucket, f)
<1> PICK zero : zero = expected_zero_reason(p, e, bucket) OBVIOUS
<1> PICK quality : quality = expected_source_quality(e) OBVIOUS
<1> PICK volume : volume = expected_volume_points(e) OBVIOUS
<1> PICK magnitude : magnitude = MAGNITUDE_POINTS[bucket] OBVIOUS
<1>1. PICK grade, base, points : \E adjusted \in BOOLEAN :
           /\ expected_technical(e) = [grade |-> grade, base |-> base, points |-> points, adjusted |-> adjusted]
           /\ Points(grade, base, points, adjusted)
           /\ e.distance < Unit \/ e.chart = "capped" => expected_technical(e) = Failing
  BY TechnicalIs
<1>2. PICK adjusted \in BOOLEAN :
           /\ expected_technical(e) = [grade |-> grade, base |-> base, points |-> points, adjusted |-> adjusted]
           /\ Points(grade, base, points, adjusted)
           /\ e.distance < Unit \/ e.chart = "capped" => expected_technical(e) = Failing
  BY <1>1
<1> PICK override : override = (zero # None) OBVIOUS
<1> PICK raw : raw = IF zero = None THEN quality + magnitude ELSE 0 OBVIOUS
<1>3. override \in BOOLEAN BY Zenon
<1>4. zero \in Zero BY ZeroIs
<1>5. quality \in {0, 2, 4, 6} /\ magnitude \in 0 .. 4 /\ volume \in {0, 15, 25, 35}
  BY QualityIs, MagnitudeIs, VolumeIs
<1>6. raw \in 0 .. 10 /\ raw * 4 \in 0 .. 40 BY <1>5
<1>7. /\ grade \in {"A+", "A", "B", "C"} /\ base \in {0, 13, 22, 25}
      /\ points \in {0, 7, 13, 16, 19, 22, 25}
  BY <1>2 DEF Points
<1>8. f = [source |-> quality, magnitude |-> magnitude, override |-> override, zero |-> zero,
           raw |-> raw, catalyst |-> raw * 4, volume |-> volume, grade |-> grade, base |-> base,
           technical |-> points, adjusted |-> adjusted]
  <2>1. /\ expected_technical(e).grade = grade /\ expected_technical(e).base = base
        /\ expected_technical(e).points = points /\ expected_technical(e).adjusted = adjusted
    BY <1>2
  <2> QED BY <2>1 DEF expected_score_fields
<1>9. f \in Fields
  <2> PICK c : c = raw * 4 OBVIOUS
  <2>1. c \in 0 .. 40 BY <1>6
  <2>2. f = [source |-> quality, magnitude |-> magnitude, override |-> override, zero |-> zero,
           raw |-> raw, catalyst |-> c, volume |-> volume, grade |-> grade, base |-> base,
           technical |-> points, adjusted |-> adjusted]
    BY <1>8
  <2>3. quality \in 0 .. 6 BY <1>5
  <2> QED BY <1>3, <1>4, <1>5, <1>6, <1>7, <2>1, <2>2, <2>3 DEF Fields
<1>10. ASSUME e.distance < Unit \/ e.chart = "capped"
       PROVE  grade = "C" /\ base = 0 /\ points = 0 /\ adjusted = FALSE
  BY <1>2, <1>10 DEF Failing
<1>11. override <=> zero # None BY Zenon
<1>12. f.override = override /\ f.zero = zero BY <1>8
<1>13. f.override <=> f.zero # None BY <1>11, <1>12, Zenon
<1>14. /\ f.grade = grade /\ f.base = base /\ f.technical = points /\ f.adjusted = adjusted
       /\ f.magnitude = magnitude /\ f.volume = volume /\ f.source = quality
       /\ f.raw = raw /\ f.catalyst = raw * 4
  BY <1>8
<1>15. Points(f.grade, f.base, f.technical, f.adjusted) BY <1>2, <1>14
<1>16. e.distance < Unit \/ e.chart = "capped" =>
              f.grade = "C" /\ f.base = 0 /\ f.technical = 0 /\ f.adjusted = FALSE
  BY <1>10, <1>14
<1>17. f.raw = (IF f.zero = None THEN f.source + f.magnitude ELSE 0) /\ f.catalyst = f.raw * 4
  BY <1>12, <1>14
<1>18. FieldsAgree(p, e, bucket, f) BY <1>12, <1>13, <1>14, <1>15, <1>16, <1>17 DEF FieldsAgree
<1> QED BY <1>9, <1>18

-----------------------------------------------------------------------------
(* True records.                                                           *)

LEMMA FirstOfType == \A full \in Spans : FirstOf(full) \in Spans
<1> TAKE full \in Spans
<1>1. CASE full = NoSpan BY <1>1 DEF FirstOf
<1>2. CASE full # NoSpan
  <2>1. full \in Int \X Int BY <1>2 DEF Spans
  <2>2. full[1] \in Int /\ full[2] \in Int /\ MaxExcerpt \in Int BY <2>1, ReplayAssumption
  <2> PICK stop : stop = IF full[2] - full[1] > MaxExcerpt THEN full[1] + MaxExcerpt ELSE full[2] OBVIOUS
  <2>3. stop \in Int BY <2>2
  <2>4. FirstOf(full) = <<full[1], stop>> BY <1>2 DEF FirstOf
  <2> QED BY <2>2, <2>3, <2>4 DEF Spans
<1> QED BY <1>1, <1>2

LEMMA TrueScoreType ==
  ASSUME NEW bucket \in Bucket, NEW f \in Fields, NEW full \in Spans
  PROVE  TrueScore(bucket, f, full) \in Score
<1> PICK excerpt : excerpt = FirstOf(full) OBVIOUS
<1> PICK truncated : truncated = (FirstOf(full) # full) OBVIOUS
<1> PICK start : start = IF full = NoSpan THEN NoPosition ELSE full[1] OBVIOUS
<1> PICK end : end = IF full = NoSpan THEN NoPosition ELSE full[2] OBVIOUS
<1> PICK purpose : purpose = expected_evidence_purpose(f.zero) OBVIOUS
<1>1. excerpt \in Spans BY FirstOfType
<1>2. truncated \in BOOLEAN BY Zenon
<1>3. start \in Int /\ end \in Int BY DEF Spans, NoPosition
<1>4. purpose \in {"magnitude", "disqualifier", "none"} BY DEF expected_evidence_purpose
<1>5. /\ f.source \in Nat /\ f.magnitude \in Nat /\ f.override \in BOOLEAN /\ f.zero \in Zero
      /\ f.raw \in Nat /\ f.catalyst \in Nat /\ f.volume \in Nat /\ f.grade \in {"A+", "A", "B", "C"}
      /\ f.base \in Nat /\ f.technical \in Int /\ f.adjusted \in BOOLEAN
  BY DEF Fields
<1>6. TrueScore(bucket, f, full) =
        [source |-> f.source, bucket |-> bucket, magnitude |-> f.magnitude,
         override |-> f.override, zero |-> f.zero, raw |-> f.raw,
         catalyst |-> f.catalyst, volume |-> f.volume, grade |-> f.grade,
         base |-> f.base, technical |-> f.technical, adjusted |-> f.adjusted,
         purpose |-> purpose, excerpt |-> excerpt, truncated |-> truncated,
         start |-> start, end |-> end]
  BY DEF TrueScore
<1> QED BY <1>1, <1>2, <1>3, <1>4, <1>5, <1>6 DEF Score

\* What a true record says.
TrueOf(p, e, r) ==
  LET f == expected_score_fields(p, e, e.bucket)
  IN  /\ r.ticker = e.ticker /\ r.flags = expected_risk_flags(e)
      /\ r.score = TrueScore(e.bucket, f, IF f.zero = "no_valid_driver" THEN NoSpan ELSE e.evidence)
      /\ r.conviction = f.catalyst + f.volume + f.technical /\ r.age = e.rankAge
      /\ r.trade = <<e.price, e.low>> /\ r.rank = NoRank
      /\ r.reasons = expected_failed_gates(e, f.raw)

LEMMA TrueRecordIs ==
  ASSUME NEW p, NEW e \in TickerInput
  PROVE  TrueRecord(p, e) \in Record /\ TrueOf(p, e, TrueRecord(p, e))
<1> PICK f : f = expected_score_fields(p, e, e.bucket) OBVIOUS
<1>0. e.bucket \in Bucket /\ e.evidence \in Spans /\ e.ticker \in Nat /\ e.rankAge \in Nat
      /\ e.price \in Nat /\ e.low \in Nat
  BY DEF TickerInput
<1>1. f \in Fields BY <1>0, FieldsAre
<1> PICK full : full = IF f.zero = "no_valid_driver" THEN NoSpan ELSE e.evidence OBVIOUS
<1>2. full \in Spans BY <1>0 DEF Spans
<1> PICK score : score = TrueScore(e.bucket, f, full) OBVIOUS
<1>3. score \in Score BY <1>0, <1>1, <1>2, TrueScoreType
<1> PICK conviction : conviction = f.catalyst + f.volume + f.technical OBVIOUS
<1>4. conviction \in Int BY <1>1 DEF Fields
<1> PICK flags : flags = expected_risk_flags(e) OBVIOUS
<1> PICK reasons : reasons = expected_failed_gates(e, f.raw) OBVIOUS
<1> PICK trade : trade = <<e.price, e.low>> OBVIOUS
<1>5. flags \in Seq(Elements(RISK_FLAG_ORDER)) /\ reasons \in Seq(Elements(GATES))
  BY FlagsType, GatesType
<1>6. trade \in Nat \X Nat /\ NoRank \in Nat BY <1>0 DEF NoRank
<1>7. TrueRecord(p, e) =
        [ticker |-> e.ticker, flags |-> flags, score |-> score, conviction |-> conviction,
         age |-> e.rankAge, trade |-> trade, rank |-> NoRank, reasons |-> reasons]
  BY DEF TrueRecord, RecordWith
<1>8. TrueRecord(p, e) \in Record BY <1>0, <1>3, <1>4, <1>5, <1>6, <1>7 DEF Record
<1>9. TrueOf(p, e, TrueRecord(p, e)) BY <1>7 DEF TrueOf
<1> QED BY <1>8, <1>9


-----------------------------------------------------------------------------
(* The anchors of the tie groups.                                          *)

Kernel(A, S) == A \in SUBSET S /\ \A s \in S : s \in A <=> \A a \in A : a > s => a - s > 2

LEMMA GreatestExists ==
  ASSUME NEW D \in SUBSET Int, IsFiniteSet(D), D # {}
  PROVE  \E m \in D : \A d \in D : d =< m
<1> PICK R : R = {p \in D \X D : p[1] > p[2]} OBVIOUS
<1>1. \A i, j \in D : <<i, j>> \in R <=> i > j OBVIOUS
<1>2. StrictOrder(D, R)
  <2>1. \A i \in D : i \in Int OBVIOUS
  <2> QED BY <1>1, <2>1 DEF StrictOrder
<1>3. PICK m \in D : \A d \in D : <<d, m>> \notin R BY <1>2, FirstExists
<1>4. \A d \in D : d =< m
  <2> TAKE d \in D
  <2>1. d \in Int /\ m \in Int /\ ~ (d > m) BY <1>1, <1>3
  <2> QED BY <2>1
<1> QED BY <1>4

HasKernel(D) == \E A : Kernel(A, D)

\* The greatest score is an anchor, and the anchors of those more than two points below it.
LEMMA KernelGrows ==
  ASSUME NEW D \in SUBSET Int, NEW m \in D, \A d \in D : d =< m,
         HasKernel({d \in D : m - d > 2})
  PROVE  HasKernel(D)
<1> PICK E : E = {d \in D : m - d > 2} OBVIOUS
<1>1. PICK B : Kernel(B, E) BY DEF HasKernel
<1> PICK A : A = B \union {m} OBVIOUS
<1>2. A \in SUBSET D /\ B \subseteq E BY <1>1 DEF Kernel
<1>3. ASSUME NEW s \in D PROVE s \in A <=> \A a \in A : a > s => a - s > 2
  <2>0. s \in Int /\ m \in Int /\ s =< m OBVIOUS
  <2>1. CASE s = m
    <3>1. \A a \in A : a \in Int /\ a =< m BY <1>2
    <3> QED BY <2>0, <2>1, <3>1
  <2>2. CASE s # m /\ m - s =< 2
    <3>1. s \notin A BY <1>2, <2>0, <2>2
    <3>2. m \in A /\ m > s /\ ~ (m - s > 2) BY <2>0, <2>2
    <3> QED BY <3>1, <3>2
  <2>3. CASE m - s > 2
    <3>1. s \in E /\ s # m BY <2>0, <2>3
    <3>2. s \in A <=> s \in B BY <3>1
    <3>3. s \in B <=> \A a \in B : a > s => a - s > 2 BY <1>1, <3>1 DEF Kernel
    <3>4. (\A a \in A : a > s => a - s > 2) <=> \A a \in B : a > s => a - s > 2 BY <2>3
    <3> QED BY <3>2, <3>3, <3>4
  <2> QED BY <2>0, <2>1, <2>2, <2>3
<1>4. Kernel(A, D) BY <1>2, <1>3 DEF Kernel
<1> QED BY <1>4 DEF HasKernel

LEMMA KernelExists ==
  ASSUME NEW S \in SUBSET Int, IsFiniteSet(S)
  PROVE  HasKernel(S)
<1> DEFINE T == {n \in Nat : \E D \in SUBSET S : Cardinality(D) = n /\ ~ HasKernel(D)}
<1>1. ASSUME T # {} PROVE FALSE
  <2>1. PICK n \in T : \A j \in T : n =< j
    <3>1. T \in SUBSET Nat OBVIOUS
    <3> HIDE DEF T
    <3> QED BY <1>1, <3>1, LeastNumber
  <2>2. PICK D \in SUBSET S : Cardinality(D) = n /\ ~ HasKernel(D) BY <2>1
  <2>3. IsFiniteSet(D) /\ D \in SUBSET Int BY FS_Subset
  <2>4. D # {}
    <3>1. Kernel({}, {}) BY DEF Kernel
    <3> QED BY <2>2, <3>1 DEF HasKernel
  <2>5. PICK m \in D : \A d \in D : d =< m BY <2>3, <2>4, GreatestExists
  <2> PICK E : E = {d \in D : m - d > 2} OBVIOUS
  <2>6. E \in SUBSET D /\ E # D
    <3>1. m \in Int BY <2>3
    <3>2. m \notin E BY <3>1
    <3> QED BY <3>2
  <2>7. IsFiniteSet(E) /\ Cardinality(E) =< Cardinality(D) /\ (Cardinality(D) = Cardinality(E) => E = D)
    BY <2>3, <2>6, FS_Subset
  <2>8. Cardinality(E) \in Nat /\ Cardinality(D) \in Nat BY <2>3, <2>7, FS_CardinalityType
  <2>9. Cardinality(E) < n BY <2>2, <2>6, <2>7, <2>8
  <2>10. HasKernel(E)
    <3>1. E \in SUBSET S BY <2>6
    <3>2. Cardinality(E) \notin T BY <2>1, <2>8, <2>9
    <3> HIDE DEF HasKernel
    <3> QED BY <2>8, <3>1, <3>2
  <2>11. HasKernel(D) BY <2>3, <2>5, <2>10, KernelGrows
  <2> QED BY <2>2, <2>11
<1>2. Cardinality(S) \in Nat /\ S \in SUBSET S BY FS_CardinalityType
<1> HIDE DEF HasKernel
<1> QED BY <1>1, <1>2

LEMMA AnchorsAre ==
  ASSUME NEW records, IsFiniteSet(records), \A r \in records : r.conviction \in Int
  PROVE  Kernel(Anchors(records), {r.conviction : r \in records})
<1> PICK S : S = {r.conviction : r \in records} OBVIOUS
<1> PICK f : f = [r \in records |-> r.conviction] OBVIOUS
<1>1. S \in SUBSET Int OBVIOUS
<1>2. IsFiniteSet(S)
  <2>1. IsFiniteSet({f[r] : r \in DOMAIN f}) BY FiniteRange
  <2>2. {f[r] : r \in DOMAIN f} = S OBVIOUS
  <2> QED BY <2>1, <2>2
<1>3. PICK A : Kernel(A, S) BY <1>1, <1>2, KernelExists DEF HasKernel
<1>4. Anchors(records) = CHOOSE B \in SUBSET S : \A s \in S : s \in B <=> \A a \in B : a > s => a - s > 2
  BY DEF Anchors
<1>5. Kernel(CHOOSE B \in SUBSET S : \A s \in S : s \in B <=> \A a \in B : a > s => a - s > 2, S)
  BY <1>3 DEF Kernel
<1> QED BY <1>4, <1>5

\* Each score has its anchor, the only one at most two points above it.
LEMMA AnchorIs ==
  ASSUME NEW S \in SUBSET Int, NEW A, Kernel(A, S), NEW s \in S
  PROVE  /\ AnchorOf(A, s) \in A /\ AnchorOf(A, s) \in Int
         /\ s =< AnchorOf(A, s) /\ AnchorOf(A, s) - s =< 2
         /\ \A a \in A : s =< a /\ a - s =< 2 => a = AnchorOf(A, s)
<1>0. \A a \in A : a \in S /\ a \in Int BY DEF Kernel
<1>1. \E a \in A : s =< a /\ a - s =< 2
  <2>1. CASE s \in A BY <2>1
  <2>2. CASE s \notin A
    <3>1. PICK a \in A : a > s /\ ~ (a - s > 2) BY <2>2 DEF Kernel
    <3>2. a \in Int /\ s \in Int BY <1>0
    <3> QED BY <3>1, <3>2
  <2> QED BY <2>1, <2>2
<1>2. ASSUME NEW a \in A, NEW b \in A, s =< a, a - s =< 2, s =< b, b - s =< 2, a < b PROVE FALSE
  <2>1. a \in Int /\ b \in Int /\ s \in Int BY <1>0
  <2>2. b - a > 2 BY <1>0, <1>2, <2>1 DEF Kernel
  <2> QED BY <1>2, <2>1, <2>2
<1>3. ASSUME NEW a \in A, NEW b \in A, s =< a, a - s =< 2, s =< b, b - s =< 2 PROVE a = b
  <2>1. a \in Int /\ b \in Int BY <1>0
  <2>2. ~ (a < b) /\ ~ (b < a) BY <1>2, <1>3
  <2> QED BY <2>1, <2>2
<1>4. AnchorOf(A, s) \in A /\ s =< AnchorOf(A, s) /\ AnchorOf(A, s) - s =< 2 BY <1>1 DEF AnchorOf
<1> QED BY <1>0, <1>3, <1>4


-----------------------------------------------------------------------------
(* The ranking by anchors.                                                 *)

LEMMA LexHead ==
  ASSUME NEW a \in Key(6), NEW b \in Key(6), a[1] < b[1]
  PROVE  LexLess(a, b)
<1>1. DOMAIN a = 1 .. 6 BY DEF Key
<1>2. 1 \in 1 .. 6 /\ \A j \in 1 .. 1 - 1 : a[j] = b[j] OBVIOUS
<1> QED BY <1>1, <1>2 DEF LexLess

LEMMA LexTail ==
  ASSUME NEW a \in Key(6), NEW b \in Key(6), NEW c \in Key(5), NEW d \in Key(5),
         a[1] = b[1], \A k \in 1 .. 5 : a[k + 1] = c[k] /\ b[k + 1] = d[k], LexLess(c, d)
  PROVE  LexLess(a, b)
<1>1. DOMAIN a = 1 .. 6 /\ DOMAIN c = 1 .. 5 BY DEF Key
<1>2. PICK k \in 1 .. 5 : c[k] < d[k] /\ \A j \in 1 .. k - 1 : c[j] = d[j] BY <1>1 DEF LexLess
<1> PICK i : i = k + 1 OBVIOUS
<1>3. i \in 1 .. 6 /\ a[i] < b[i] BY <1>2
<1>4. ASSUME NEW j \in 1 .. i - 1 PROVE a[j] = b[j]
  <2>1. CASE j = 1 BY <2>1
  <2>2. CASE j # 1
    <3> PICK l : l = j - 1 OBVIOUS
    <3>1. l \in 1 .. k - 1 /\ l \in 1 .. 5 /\ l + 1 = j BY <2>2
    <3>2. c[l] = d[l] BY <1>2, <3>1
    <3>3. a[l + 1] = c[l] /\ b[l + 1] = d[l] BY <3>1
    <3> QED BY <3>1, <3>2, <3>3
  <2> QED BY <2>1, <2>2
<1> QED BY <1>1, <1>3, <1>4 DEF LexLess

\* Records of different tickers, and the anchors of their scores.
Ranking(rs, A) ==
  /\ rs \in Seq(Record)
  /\ \A i, j \in DOMAIN rs : rs[i].ticker = rs[j].ticker => i = j
  /\ Kernel(A, {rs[i].conviction : i \in DOMAIN rs})

Anchored(rs, A, i) == AnchorOf(A, rs[i].conviction)

LEMMA RecordIs ==
  \A r \in Record : /\ r.conviction \in Int /\ r.age \in Nat /\ r.ticker \in Nat
                    /\ r.score.raw \in Nat /\ r.score.volume \in Nat /\ r.score.technical \in Int
  BY DEF Record, Score

LEMMA RankedRecord ==
  ASSUME NEW rs, NEW A, Ranking(rs, A), NEW i \in DOMAIN rs
  PROVE  /\ rs[i] \in Record /\ rs[i].conviction \in Int /\ rs[i].age \in Nat /\ rs[i].ticker \in Nat
         /\ rs[i].score.raw \in Nat /\ rs[i].score.volume \in Nat /\ rs[i].score.technical \in Int
         /\ Anchored(rs, A, i) \in A /\ Anchored(rs, A, i) \in Int
         /\ rs[i].conviction =< Anchored(rs, A, i) /\ Anchored(rs, A, i) - rs[i].conviction =< 2
         /\ \A a \in A : rs[i].conviction =< a /\ a - rs[i].conviction =< 2 => a = Anchored(rs, A, i)
<1> PICK S : S = {rs[j].conviction : j \in DOMAIN rs} OBVIOUS
<1>1. rs \in Seq(Record) /\ Kernel(A, S) BY DEF Ranking
<1>2. \A j \in DOMAIN rs : rs[j] \in Record BY <1>1
<1>3. \A r \in Record : /\ r.conviction \in Int /\ r.age \in Nat /\ r.ticker \in Nat
                        /\ r.score.raw \in Nat /\ r.score.volume \in Nat /\ r.score.technical \in Int
  BY RecordIs
<1>4. S \in SUBSET Int BY <1>2, <1>3
<1>5. rs[i].conviction \in S OBVIOUS
<1> PICK s : s = rs[i].conviction OBVIOUS
<1>6. /\ AnchorOf(A, s) \in A /\ AnchorOf(A, s) \in Int
      /\ s =< AnchorOf(A, s) /\ AnchorOf(A, s) - s =< 2
      /\ \A a \in A : s =< a /\ a - s =< 2 => a = AnchorOf(A, s)
  BY <1>1, <1>4, <1>5, AnchorIs, ZenonT(60)
<1> QED BY <1>2, <1>3, <1>6 DEF Anchored

LEMMA KeysAre ==
  ASSUME NEW rs, NEW A, Ranking(rs, A), NEW i \in DOMAIN rs
  PROVE  /\ RankKey(A, rs[i]) \in Key(6) /\ GroupKey(rs[i]) \in Key(5)
         /\ RankKey(A, rs[i])[1] = -Anchored(rs, A, i) /\ RankKey(A, rs[i])[6] = rs[i].ticker
         /\ GroupKey(rs[i])[5] = rs[i].ticker
         /\ \A k \in 1 .. 5 : RankKey(A, rs[i])[k + 1] = GroupKey(rs[i])[k]
<1>1. /\ rs[i].age \in Int /\ -rs[i].score.raw \in Int /\ -rs[i].score.volume \in Int
      /\ -rs[i].score.technical \in Int /\ rs[i].ticker \in Int /\ -Anchored(rs, A, i) \in Int
  BY RankedRecord
<1> PICK a, b, c, d, e, f : /\ a = -Anchored(rs, A, i) /\ b = rs[i].age /\ c = -rs[i].score.raw
                            /\ d = -rs[i].score.volume /\ e = -rs[i].score.technical /\ f = rs[i].ticker
  OBVIOUS
<1>2. RankKey(A, rs[i]) = <<a, b, c, d, e, f>> BY DEF RankKey, Anchored
<1>3. GroupKey(rs[i]) = <<b, c, d, e, f>> BY DEF GroupKey
<1>4. <<a, b, c, d, e, f>> \in Key(6) /\ <<b, c, d, e, f>> \in Key(5) BY <1>1 DEF Key
<1>5. \A k \in 1 .. 5 : <<a, b, c, d, e, f>>[k + 1] = <<b, c, d, e, f>>[k] OBVIOUS
<1> QED BY <1>2, <1>3, <1>4, <1>5

Ranks(rs, A) ==
  {p \in (DOMAIN rs) \X (DOMAIN rs) : LexLess(RankKey(A, rs[p[1]]), RankKey(A, rs[p[2]]))}

LEMMA RanksAre ==
  ASSUME NEW rs, NEW A, Ranking(rs, A)
  PROVE  /\ TotalOrder(DOMAIN rs, Ranks(rs, A))
         /\ \A i, j \in DOMAIN rs : <<i, j>> \in Ranks(rs, A) =>
              Anchored(rs, A, j) =< Anchored(rs, A, i)
         /\ \A i, j \in DOMAIN rs : Anchored(rs, A, j) < Anchored(rs, A, i) => <<i, j>> \in Ranks(rs, A)
<1> PICK I, R : I = DOMAIN rs /\ R = Ranks(rs, A) OBVIOUS
<1> PICK key : key = [i \in I |-> RankKey(A, rs[i])] OBVIOUS
<1>1. IsFiniteSet(I) BY DomainFinite DEF Ranking
<1>2. \A i, j \in I : <<i, j>> \in R <=> LexLess(key[i], key[j]) BY DEF Ranks
<1>3. \A i \in I : key[i] \in Key(6) /\ key[i][1] = -Anchored(rs, A, i) /\ key[i][6] = rs[i].ticker
  BY KeysAre
<1>4. key \in [I -> Key(6)] BY <1>3
<1>5. \A i, j \in I : key[i] = key[j] => i = j BY <1>3 DEF Ranking
<1>6. TotalOrder(I, R)
  <2> PICK L \in Nat : L = 6 OBVIOUS
  <2>1. key \in [I -> Key(L)] BY <1>4
  <2> QED BY <1>1, <1>2, <1>5, <2>1, KeyedOrder
<1>7. ASSUME NEW i \in I, NEW j \in I, Anchored(rs, A, j) < Anchored(rs, A, i) PROVE <<i, j>> \in R
  <2>1. Anchored(rs, A, i) \in Int /\ Anchored(rs, A, j) \in Int BY RankedRecord
  <2>2. key[i][1] < key[j][1] BY <1>3, <1>7, <2>1
  <2>3. LexLess(key[i], key[j]) BY <1>3, <2>2, LexHead
  <2> QED BY <1>2, <2>3
<1>8. ASSUME NEW i \in I, NEW j \in I, <<i, j>> \in R PROVE Anchored(rs, A, j) =< Anchored(rs, A, i)
  <2>1. Anchored(rs, A, i) \in Int /\ Anchored(rs, A, j) \in Int BY RankedRecord
  <2>2. ASSUME Anchored(rs, A, i) < Anchored(rs, A, j) PROVE FALSE
    <3>1. <<j, i>> \in R BY <1>7, <2>2
    <3>2. <<i, i>> \in R BY <1>6, <1>8, <3>1 DEF TotalOrder, StrictOrder
    <3> QED BY <1>6, <3>2 DEF TotalOrder, StrictOrder
  <2> QED BY <2>1, <2>2
<1> QED BY <1>6, <1>7, <1>8


-----------------------------------------------------------------------------
(* The ranking by tie groups is the same.                                  *)

GroupKeys(rs) == [i \in DOMAIN rs |-> GroupKey(rs[i])]

GroupOrder(rs, group) == {p \in group \X group : Precedes(GroupKeys(rs), p[1], p[2])}

LEMMA GroupOrderIs ==
  ASSUME NEW rs, NEW A, Ranking(rs, A), NEW group \in SUBSET DOMAIN rs
  PROVE  /\ TotalOrder(group, GroupOrder(rs, group))
         /\ InGroupOrder(rs, group) \in Seq(group) /\ Cardinality(group) \in Nat
         /\ InLine(InGroupOrder(rs, group), group, GroupOrder(rs, group), Cardinality(group))
<1> PICK D, key, R, Q : /\ D = DOMAIN rs /\ key = GroupKeys(rs)
                        /\ R = {p \in D \X D : Precedes(key, p[1], p[2])} /\ Q = GroupOrder(rs, group)
  OBVIOUS
<1>1. \A i \in D : GroupKey(rs[i]) \in Key(5) BY KeysAre
<1>2. key \in [D -> Key(5)] BY <1>1 DEF GroupKeys
<1>3. rs \in Seq(Record) BY DEF Ranking
<1>4. TotalOrder(D, R)
  <2> PICK L \in Nat : L = 5 OBVIOUS
  <2>1. key \in [DOMAIN rs -> Key(L)] BY <1>2
  <2>2. R = {p \in (DOMAIN rs) \X (DOMAIN rs) : Precedes(key, p[1], p[2])} OBVIOUS
  <2> QED BY <1>3, <2>1, <2>2, KeyOrder
<1>5. \A i, j \in group : <<i, j>> \in Q <=> <<i, j>> \in R BY DEF GroupOrder
<1>6. TotalOrder(group, Q) BY <1>4, <1>5, RestrictedOrder
<1>7. InGroupOrder(rs, group) = Arranged(group, Q) BY DEF InGroupOrder, GroupOrder, GroupKeys
<1>8. /\ Arranged(group, Q) \in Seq(group) /\ Cardinality(group) \in Nat
      /\ InLine(Arranged(group, Q), group, Q, Cardinality(group))
  BY <1>6, ArrangedInLine
<1> QED BY <1>6, <1>7, <1>8

\* A group that has one anchor is in the order of the ranking.
LEMMA GroupIsRanked ==
  ASSUME NEW rs, NEW A, Ranking(rs, A), NEW group \in SUBSET DOMAIN rs,
         \A i, j \in group : Anchored(rs, A, i) = Anchored(rs, A, j)
  PROVE  InLine(InGroupOrder(rs, group), group, Ranks(rs, A), Cardinality(group))
<1> PICK R, Q : R = Ranks(rs, A) /\ Q = GroupOrder(rs, group) OBVIOUS
<1>1. \A i \in group : /\ RankKey(A, rs[i]) \in Key(6) /\ GroupKey(rs[i]) \in Key(5)
                       /\ RankKey(A, rs[i])[1] = -Anchored(rs, A, i) /\ GroupKey(rs[i])[5] = rs[i].ticker
                       /\ \A k \in 1 .. 5 : RankKey(A, rs[i])[k + 1] = GroupKey(rs[i])[k]
  BY KeysAre
<1>2. ASSUME NEW i \in group, NEW j \in group, <<i, j>> \in Q PROVE <<i, j>> \in R
  <2>0. GroupKeys(rs)[i] = GroupKey(rs[i]) /\ GroupKeys(rs)[j] = GroupKey(rs[j]) BY DEF GroupKeys
  <2>1. LexLess(GroupKey(rs[i]), GroupKey(rs[j])) \/ (GroupKey(rs[i]) = GroupKey(rs[j]) /\ i < j)
    BY <1>2, <2>0 DEF GroupOrder, Precedes
  <2>2. CASE GroupKey(rs[i]) = GroupKey(rs[j]) /\ i < j
    <3>1. rs[i].ticker = rs[j].ticker BY <1>1, <2>2
    <3>2. i = j BY <3>1 DEF Ranking
    <3>3. i \in Nat BY DomainFinite DEF Ranking
    <3> QED BY <2>2, <3>2, <3>3
  <2>3. CASE LexLess(GroupKey(rs[i]), GroupKey(rs[j]))
    <3> PICK a, b, c, d : /\ a = RankKey(A, rs[i]) /\ b = RankKey(A, rs[j])
                          /\ c = GroupKey(rs[i]) /\ d = GroupKey(rs[j])
      OBVIOUS
    <3>1. /\ a \in Key(6) /\ b \in Key(6) /\ c \in Key(5) /\ d \in Key(5) /\ a[1] = b[1]
          /\ \A k \in 1 .. 5 : a[k + 1] = c[k] /\ b[k + 1] = d[k]
      BY <1>1
    <3>2. LexLess(a, b) BY <2>3, <3>1, LexTail
    <3> QED BY <3>2 DEF Ranks
  <2> QED BY <2>1, <2>2, <2>3
<1>3. InLine(InGroupOrder(rs, group), group, Q, Cardinality(group)) BY GroupOrderIs
<1> PICK f, N : f = InGroupOrder(rs, group) /\ N = Cardinality(group) OBVIOUS
<1>4. InLine(f, group, R, N)
  <2>1. /\ f \in [1 .. N -> group] /\ \A i \in group : \E n \in 1 .. N : f[n] = i
        /\ \A m, n \in 1 .. N : m < n => <<f[m], f[n]>> \in Q
    BY <1>3 DEF InLine
  <2>2. \A m, n \in 1 .. N : m < n => <<f[m], f[n]>> \in R
    <3> TAKE m, n \in 1 .. N
    <3>1. f[m] \in group /\ f[n] \in group BY <2>1
    <3> QED BY <1>2, <2>1, <3>1
  <2> QED BY <2>1, <2>2 DEF InLine
<1> QED BY <1>4

LEMMA TieGroupIs ==
  ASSUME NEW rs, NEW A, Ranking(rs, A), NEW left \in SUBSET DOMAIN rs, left # {}
  PROVE  \E b \in left : /\ \A j \in left : rs[j].conviction =< rs[b].conviction
                         /\ TieGroup(rs, left) = {i \in left : rs[b].conviction - rs[i].conviction =< 2}
                         /\ b \in TieGroup(rs, left)
<1> PICK R : R = {p \in left \X left : rs[p[1]].conviction > rs[p[2]].conviction} OBVIOUS
<1>0. \A i \in left : rs[i].conviction \in Int BY RankedRecord
<1>1. IsFiniteSet(left)
  <2>1. IsFiniteSet(DOMAIN rs) BY DomainFinite DEF Ranking
  <2> QED BY <2>1, FS_Subset
<1>2. \A i, j \in left : <<i, j>> \in R <=> rs[i].conviction > rs[j].conviction OBVIOUS
<1>3. StrictOrder(left, R) BY <1>0, <1>1, <1>2 DEF StrictOrder
<1>4. PICK m \in left : \A d \in left : <<d, m>> \notin R BY <1>3, FirstExists
<1>5. \A d \in left : rs[d].conviction =< rs[m].conviction
  <2> TAKE d \in left
  <2>1. ~ (rs[d].conviction > rs[m].conviction) BY <1>2, <1>4
  <2>2. rs[d].conviction \in Int /\ rs[m].conviction \in Int BY <1>0
  <2> QED BY <2>1, <2>2
<1> PICK b : b = CHOOSE i \in left : \A j \in left : rs[j].conviction =< rs[i].conviction OBVIOUS
<1>6. b \in left /\ \A j \in left : rs[j].conviction =< rs[b].conviction BY <1>5
<1>7. TieGroup(rs, left) = {i \in left : rs[b].conviction - rs[i].conviction =< 2}
  BY DEF TieGroup, InTieGroup
<1>8. b \in TieGroup(rs, left) BY <1>0, <1>6, <1>7
<1> QED BY <1>6, <1>7, <1>8

\* What is left after the tie groups of the best anchors.
Lower(rs, A, left) ==
  \A i \in left : \A j \in (DOMAIN rs) \ left : Anchored(rs, A, j) - rs[i].conviction > 2

LEMMA TopGroup ==
  ASSUME NEW rs, NEW A, Ranking(rs, A), NEW left \in SUBSET DOMAIN rs, left # {}, Lower(rs, A, left)
  PROVE  /\ \A i, j \in TieGroup(rs, left) : Anchored(rs, A, i) = Anchored(rs, A, j)
         /\ \A i \in TieGroup(rs, left) : \A j \in left \ TieGroup(rs, left) : <<i, j>> \in Ranks(rs, A)
         /\ Lower(rs, A, left \ TieGroup(rs, left))
<1> PICK G : G = TieGroup(rs, left) OBVIOUS
<1>1. PICK b \in left : /\ \A j \in left : rs[j].conviction =< rs[b].conviction
                        /\ G = {i \in left : rs[b].conviction - rs[i].conviction =< 2}
  BY TieGroupIs
<1> PICK best : best = rs[b].conviction OBVIOUS
<1>2. \A i \in DOMAIN rs :
         /\ rs[i].conviction \in Int /\ Anchored(rs, A, i) \in A /\ Anchored(rs, A, i) \in Int
         /\ rs[i].conviction =< Anchored(rs, A, i) /\ Anchored(rs, A, i) - rs[i].conviction =< 2
         /\ \A a \in A : rs[i].conviction =< a /\ a - rs[i].conviction =< 2 => a = Anchored(rs, A, i)
  BY RankedRecord
<1>3. best \in A
  <2>1. ASSUME NEW a \in A, a > best PROVE a - best > 2
    <3>1. PICK j \in DOMAIN rs : rs[j].conviction = a BY DEF Ranking, Kernel
    <3>2. a \in Int /\ best \in Int BY <1>2, <3>1
    <3>3. j \notin left BY <1>1, <2>1, <3>1, <3>2
    <3>4. Anchored(rs, A, j) = a BY <1>2, <3>1, <3>2
    <3> QED BY <3>3, <3>4 DEF Lower
  <2>2. best \in {rs[i].conviction : i \in DOMAIN rs} OBVIOUS
  <2> QED BY <2>1, <2>2 DEF Ranking, Kernel
<1>4. \A i \in G : Anchored(rs, A, i) = best BY <1>1, <1>2, <1>3
<1>5. ASSUME NEW j \in left \ G PROVE Anchored(rs, A, j) < best /\ best - rs[j].conviction > 2
  <2>1. rs[j].conviction \in Int /\ Anchored(rs, A, j) \in Int /\ best \in Int
        /\ Anchored(rs, A, j) - rs[j].conviction =< 2
    BY <1>2
  <2>2. ~ (best - rs[j].conviction =< 2) BY <1>1
  <2> QED BY <2>1, <2>2
<1>6. ASSUME NEW i \in G, NEW j \in left \ G PROVE <<i, j>> \in Ranks(rs, A)
  <2>1. i \in DOMAIN rs /\ j \in DOMAIN rs BY <1>1
  <2>2. Anchored(rs, A, j) < Anchored(rs, A, i) BY <1>4, <1>5
  <2> QED BY <2>1, <2>2, RanksAre
<1>7. Lower(rs, A, left \ G)
  <2> SUFFICES ASSUME NEW i \in left \ G, NEW j \in (DOMAIN rs) \ (left \ G)
               PROVE  Anchored(rs, A, j) - rs[i].conviction > 2
    BY DEF Lower
  <2>1. CASE j \in left
    <3>1. Anchored(rs, A, j) = best BY <1>4, <2>1
    <3> QED BY <1>5, <3>1
  <2>2. CASE j \notin left BY <2>2 DEF Lower
  <2> QED BY <2>1, <2>2
<1> QED BY <1>4, <1>6, <1>7

\* The recursion over the tie groups has a solution.
IsByGroups(f, rs) ==
  f = [left \in SUBSET DOMAIN rs |->
         IF left = {} THEN <<>>
         ELSE InGroupOrder(rs, TieGroup(rs, left)) \o f[left \ TieGroup(rs, left)]]

LEMMA ByGroupsExists ==
  ASSUME NEW rs, NEW A, Ranking(rs, A)
  PROVE  \E f : IsByGroups(f, rs)
<1> PICK D : D = DOMAIN rs OBVIOUS
<1> DEFINE V == Seq(D)
           M == [s \in SUBSET D |-> IF s = {} THEN {} ELSE TieGroup(rs, s)]
           G == [p \in (SUBSET D) \X V |-> InGroupOrder(rs, M[p[1]]) \o p[2]]
<1>1. \A s \in SUBSET D : s # {} => TieGroup(rs, s) # {} /\ TieGroup(rs, s) \subseteq s
  <2> SUFFICES ASSUME NEW s \in SUBSET D, s # {} PROVE TieGroup(rs, s) # {} /\ TieGroup(rs, s) \subseteq s
    OBVIOUS
  <2>1. PICK b \in s : TieGroup(rs, s) = {i \in s : rs[b].conviction - rs[i].conviction =< 2}
                       /\ b \in TieGroup(rs, s)
    BY TieGroupIs
  <2> QED BY <2>1
<1>2. \A s \in SUBSET D : M[s] \in SUBSET D /\ (s # {} => M[s] = TieGroup(rs, s)) BY <1>1
<1>3. Removes(D, M)
  <2>1. M \in [SUBSET D -> SUBSET D] BY <1>1
  <2> HIDE DEF M
  <2>2. \A s \in SUBSET D : s # {} => M[s] # {} /\ M[s] \subseteq s BY <1>1, <1>2
  <2>3. IsFiniteSet(D) BY DomainFinite DEF Ranking
  <2> QED BY <2>1, <2>2, <2>3 DEF Removes
<1>4. \A s \in SUBSET D : \A v \in V : G[<<s, v>>] = InGroupOrder(rs, M[s]) \o v
  <2> HIDE DEF M, V
  <2> TAKE s \in SUBSET D
  <2> TAKE v \in V
  <2> PICK p : p = <<s, v>> OBVIOUS
  <2>1. p \in (SUBSET D) \X V /\ p[1] = s /\ p[2] = v OBVIOUS
  <2>2. G[p] = InGroupOrder(rs, M[p[1]]) \o p[2] BY <2>1
  <2> HIDE DEF G
  <2> QED BY <2>1, <2>2, SMTT(30)
<1> HIDE DEF M, G
<1>5. Steps(D, V, G)
  <2> SUFFICES ASSUME NEW s \in SUBSET D, NEW v \in V PROVE G[<<s, v>>] \in V BY DEF Steps
  <2> PICK g : g = M[s] OBVIOUS
  <2>1. G[<<s, v>>] = InGroupOrder(rs, g) \o v BY <1>4
  <2>2. g \in SUBSET D BY <1>2
  <2>3. InGroupOrder(rs, g) \in Seq(g) BY <2>2, GroupOrderIs
  <2>4. InGroupOrder(rs, g) \in Seq(D) BY <2>2, <2>3
  <2> QED BY <2>1, <2>4
<1>6. <<>> \in V OBVIOUS
<1> HIDE DEF V
<1>7. PICK f : f \in [SUBSET D -> V] /\ \A s \in SUBSET D : f[s] = Unfold(f, <<>>, M, G, s)
  <2>1. PICK e \in V : e = <<>> BY <1>6
  <2>2. PICK f : Solves(f, D, V, e, M, G) BY <1>3, <1>5, RecursionOnSubsets
  <2> QED BY <2>1, <2>2 DEF Solves
<1>8. ASSUME NEW s \in SUBSET D
      PROVE  f[s] = IF s = {} THEN <<>> ELSE InGroupOrder(rs, TieGroup(rs, s)) \o f[s \ TieGroup(rs, s)]
  <2>1. CASE s = {} BY <1>7, <2>1 DEF Unfold
  <2>2. CASE s # {}
    <3>1. M[s] = TieGroup(rs, s) BY <1>2, <2>2
    <3>2. f[s] = G[<<s, f[s \ M[s]]>>] BY <1>7, <2>2 DEF Unfold
    <3>3. s \ M[s] \in SUBSET D OBVIOUS
    <3>4. f[s \ M[s]] \in V BY <1>7, <3>3
    <3>5. f[s] = InGroupOrder(rs, M[s]) \o f[s \ M[s]] BY <1>4, <3>2, <3>4
    <3> QED BY <2>2, <3>1, <3>5
  <2> QED BY <2>1, <2>2
<1>9. f = [s \in SUBSET D |-> f[s]] BY <1>7
<1>10. f = [s \in SUBSET D |->
              IF s = {} THEN <<>> ELSE InGroupOrder(rs, TieGroup(rs, s)) \o f[s \ TieGroup(rs, s)]]
  BY <1>8, <1>9
<1> QED BY <1>10 DEF IsByGroups

\* Group by group or by anchors, the ranking is the same.
LEMMA RankedByGroups ==
  ASSUME NEW rs, NEW A, Ranking(rs, A)
  PROVE  InLine(ByGroups(rs)[DOMAIN rs], DOMAIN rs, Ranks(rs, A), Len(rs))
<1> PICK D, R : D = DOMAIN rs /\ R = Ranks(rs, A) OBVIOUS
<1> PICK h : h = CHOOSE g : IsByGroups(g, rs) OBVIOUS
<1>1. ByGroups(rs) = h BY DEF ByGroups, IsByGroups
<1>2. IsByGroups(h, rs) BY ByGroupsExists
<1>3. \A s \in SUBSET D :
        h[s] = IF s = {} THEN <<>> ELSE InGroupOrder(rs, TieGroup(rs, s)) \o h[s \ TieGroup(rs, s)]
  <2>1. h = [s \in SUBSET D |->
               IF s = {} THEN <<>> ELSE InGroupOrder(rs, TieGroup(rs, s)) \o h[s \ TieGroup(rs, s)]]
    BY <1>2 DEF IsByGroups
  <2> QED BY <2>1
<1>f. IsFiniteSet(D) /\ Cardinality(D) = Len(rs) /\ Len(rs) \in Nat BY DomainFinite DEF Ranking
<1> DEFINE Right(s) == Lower(rs, A, s) => InLine(h[s], s, R, Cardinality(s))
           T == {n \in Nat : \E s \in SUBSET D : Cardinality(s) = n /\ ~ Right(s)}
<1>4. ASSUME T # {} PROVE FALSE
  <2>1. PICK m \in T : \A j \in T : m =< j BY <1>4, LeastNumber
  <2>2. PICK s \in SUBSET D : Cardinality(s) = m /\ ~ Right(s) BY <2>1
  <2>0. IsFiniteSet(s) BY <1>f, FS_Subset
  <2>3. CASE s = {}
    <3>1. h[s] = <<>> BY <1>3, <2>3
    <3>2. Cardinality(s) = 0 BY <2>3, FS_EmptySet
    <3>3. <<>> \in [1 .. 0 -> {}] OBVIOUS
    <3>4. InLine(<<>>, {}, R, 0) BY <3>3 DEF InLine
    <3> QED BY <3>1, <3>2, <3>4, <2>2, <2>3
  <2>4. CASE s # {}
    <3> PICK G, rest : G = TieGroup(rs, s) /\ rest = s \ G OBVIOUS
    <3>0. Lower(rs, A, s) BY <2>2
    <3>1. G # {} /\ G \subseteq s
      <4>1. PICK b \in s : TieGroup(rs, s) = {i \in s : rs[b].conviction - rs[i].conviction =< 2}
                           /\ b \in TieGroup(rs, s)
        BY <2>4, TieGroupIs
      <4> QED BY <4>1
    <3>2. /\ \A i, j \in G : Anchored(rs, A, i) = Anchored(rs, A, j)
          /\ \A i \in G : \A j \in rest : <<i, j>> \in R
          /\ Lower(rs, A, rest)
      BY <2>4, <3>0, TopGroup
    <3>3. IsFiniteSet(G) /\ IsFiniteSet(rest) /\ Cardinality(G) \in Nat /\ Cardinality(rest) \in Nat
          /\ Cardinality(s) = Cardinality(G) + Cardinality(rest)
      <4>1. IsFiniteSet(G) /\ IsFiniteSet(rest) BY <2>0, <3>1, FS_Subset
      <4>2. Cardinality(G \union rest) =
              Cardinality(G) + Cardinality(rest) - Cardinality(G \cap rest)
        BY <4>1, FS_Union
      <4>3. G \union rest = s /\ G \cap rest = {} BY <3>1
      <4>4. Cardinality(G) \in Nat /\ Cardinality(rest) \in Nat BY <4>1, FS_CardinalityType
      <4>5. Cardinality(G \cap rest) = 0 BY <4>3, FS_EmptySet
      <4>6. Cardinality(s) = Cardinality(G) + Cardinality(rest) - 0 BY <4>2, <4>3, <4>5
      <4> QED BY <4>1, <4>4, <4>6
    <3>4. Cardinality(G) # 0 BY <3>1, <3>3, FS_EmptySet
    <3>5. Cardinality(rest) < m BY <2>2, <3>3, <3>4
    <3>6. Right(rest)
      <4>1. rest \in SUBSET D OBVIOUS
      <4>2. Cardinality(rest) \notin T
        <5>1. m \in Nat OBVIOUS
        <5> HIDE DEF T
        <5> QED BY <2>1, <3>3, <3>5, <5>1
      <4> HIDE DEF Right
      <4> QED BY <3>3, <4>1, <4>2
    <3>7. InLine(h[rest], rest, R, Cardinality(rest)) BY <3>2, <3>6
    <3>8. InLine(InGroupOrder(rs, G), G, R, Cardinality(G))
      <4>1. G \in SUBSET DOMAIN rs BY <3>1
      <4> QED BY <3>2, <4>1, GroupIsRanked
    <3>9. InLine(InGroupOrder(rs, G) \o h[rest], G \union rest, R, Cardinality(G) + Cardinality(rest))
      <4> PICK f, g, K, N : /\ f = InGroupOrder(rs, G) /\ g = h[rest]
                            /\ K = Cardinality(G) /\ N = Cardinality(rest)
        OBVIOUS
      <4>1. K \in Nat /\ N \in Nat /\ InLine(f, G, R, K) /\ InLine(g, rest, R, N) BY <3>3, <3>7, <3>8
      <4>2. InLine(f \o g, G \union rest, R, K + N) BY <3>2, <4>1, JoinedLines
      <4> QED BY <4>2
    <3>10. h[s] = InGroupOrder(rs, G) \o h[rest] BY <1>3, <2>4
    <3>11. G \union rest = s BY <3>1
    <3>12. InLine(h[s], s, R, Cardinality(s)) BY <3>3, <3>9, <3>10, <3>11
    <3> QED BY <2>2, <3>12
  <2> QED BY <2>3, <2>4
<1>5. Right(D)
  <2>1. D \in SUBSET D /\ Cardinality(D) \in Nat /\ Cardinality(D) \notin T BY <1>4, <1>f
  <2> HIDE DEF Right
  <2> QED BY <2>1
<1>6. Lower(rs, A, D) BY DEF Lower
<1> QED BY <1>1, <1>5, <1>6, <1>f


-----------------------------------------------------------------------------
(* The true answer.                                                        *)

\* Records of different tickers.
Distinct(records) ==
  /\ IsFiniteSet(records) /\ records \subseteq Record
  /\ \A r, s \in records : r.ticker = s.ticker => r = s

\* The order of section 9.3.
TrueOrder(records) ==
  {p \in records \X records :
     LexLess(RankKey(Anchors(records), p[1]), RankKey(Anchors(records), p[2]))}

LEMMA TrueRankingIs ==
  ASSUME NEW records, Distinct(records)
  PROVE  /\ TotalOrder(records, TrueOrder(records)) /\ Cardinality(records) \in Nat
         /\ TrueRanking(records) \in Seq(records) /\ Len(TrueRanking(records)) = Cardinality(records)
         /\ InLine(TrueRanking(records), records, TrueOrder(records), Cardinality(records))
<1> PICK S, A, R, key : /\ S = {r.conviction : r \in records} /\ A = Anchors(records)
                        /\ R = TrueOrder(records) /\ key = [r \in records |-> RankKey(A, r)]
  OBVIOUS
<1>1. \A r \in records : /\ r.conviction \in Int /\ r.age \in Int /\ r.ticker \in Int
                         /\ -r.score.raw \in Int /\ -r.score.volume \in Int /\ -r.score.technical \in Int
  <2> TAKE r \in records
  <2>1. r \in Record BY DEF Distinct
  <2> QED BY <2>1, RecordIs
<1>2. Kernel(A, S)
  <2>1. IsFiniteSet(records) BY DEF Distinct
  <2>2. \A r \in records : r.conviction \in Int BY <1>1
  <2>3. Kernel(Anchors(records), {r.conviction : r \in records}) BY <2>1, <2>2, AnchorsAre
  <2> QED BY <2>3
<1>3. ASSUME NEW r \in records PROVE key[r] \in Key(6) /\ key[r][6] = r.ticker
  <2> PICK s : s = r.conviction OBVIOUS
  <2>1. s \in S /\ S \in SUBSET Int BY <1>1
  <2>2. AnchorOf(A, s) \in Int BY <1>2, <2>1, AnchorIs
  <2> PICK a, b, c, d, e, f : /\ a = -AnchorOf(A, r.conviction) /\ b = r.age /\ c = -r.score.raw
                              /\ d = -r.score.volume /\ e = -r.score.technical /\ f = r.ticker
    OBVIOUS
  <2>3. a \in Int /\ b \in Int /\ c \in Int /\ d \in Int /\ e \in Int /\ f \in Int BY <1>1, <2>2
  <2>4. key[r] = <<a, b, c, d, e, f>> BY DEF RankKey
  <2>5. <<a, b, c, d, e, f>> \in Key(6) BY <2>3 DEF Key
  <2> QED BY <2>4, <2>5
<1>4. TotalOrder(records, R)
  <2> PICK L \in Nat : L = 6 OBVIOUS
  <2>1. key \in [records -> Key(L)] BY <1>3
  <2>2. \A r, s \in records : key[r] = key[s] => r = s BY <1>3 DEF Distinct
  <2>3. \A r, s \in records : <<r, s>> \in R <=> LexLess(key[r], key[s]) BY DEF TrueOrder
  <2>4. IsFiniteSet(records) BY DEF Distinct
  <2> QED BY <2>1, <2>2, <2>3, <2>4, KeyedOrder
<1>5. TrueRanking(records) = Arranged(records, R) BY DEF TrueRanking, TrueOrder
<1>6. /\ Arranged(records, R) \in Seq(records) /\ Cardinality(records) \in Nat
      /\ InLine(Arranged(records, R), records, R, Cardinality(records))
  BY <1>4, ArrangedInLine
<1>7. Len(Arranged(records, R)) = Cardinality(records) BY <1>4, ArrangedIs
<1> QED BY <1>4, <1>5, <1>6, <1>7

LEMMA InTickerOrderIs ==
  ASSUME NEW records, Distinct(records)
  PROVE  /\ Cardinality(records) \in Nat
         /\ InTickerOrder(records) \in Seq(records) /\ Len(InTickerOrder(records)) = Cardinality(records)
         /\ \A r \in records : \E n \in 1 .. Cardinality(records) : InTickerOrder(records)[n] = r
<1> PICK R : R = {p \in records \X records : p[1].ticker < p[2].ticker} OBVIOUS
<1>1. \A r \in records : r.ticker \in Nat BY DEF Distinct, Record
<1>2. \A r, s \in records : <<r, s>> \in R <=> r.ticker < s.ticker OBVIOUS
<1>3. \A r, s \in records : r # s => r.ticker # s.ticker BY DEF Distinct
<1>4. IsFiniteSet(records) BY DEF Distinct
<1>5. \A r, s \in records : r # s => r.ticker < s.ticker \/ s.ticker < r.ticker BY <1>1, <1>3
<1>6. TotalOrder(records, R) BY <1>1, <1>2, <1>4, <1>5 DEF TotalOrder, StrictOrder
<1>7. InTickerOrder(records) = Arranged(records, R) BY DEF InTickerOrder
<1>8. InLine(Arranged(records, R), records, R, Cardinality(records))
      /\ Arranged(records, R) \in Seq(records) /\ Cardinality(records) \in Nat
  BY <1>6, ArrangedInLine
<1>9. Len(Arranged(records, R)) = Cardinality(records) BY <1>6, ArrangedIs
<1>10. \A r \in records : \E n \in 1 .. Cardinality(records) : Arranged(records, R)[n] = r
  BY <1>8 DEF InLine
<1> QED BY <1>7, <1>8, <1>9, <1>10

LEMMA FunctionIsList ==
  ASSUME NEW S, NEW K \in Nat, NEW q \in [1 .. K -> S]
  PROVE  q \in Seq(S) /\ Len(q) = K
  OBVIOUS

LEMMA PartOf ==
  ASSUME NEW S, NEW s \in Seq(S), NEW k \in 0 .. Len(s)
  PROVE  /\ SubSeq(s, 1, k) \in Seq(S) /\ Len(SubSeq(s, 1, k)) = k
         /\ \A n \in 1 .. k : SubSeq(s, 1, k)[n] = s[n]
  OBVIOUS

\* r with rank n.
WithRank(r, n) == [r EXCEPT !.rank = n]

LEMMA WithRankIs ==
  ASSUME NEW r \in Record, NEW n \in Nat
  PROVE  /\ WithRank(r, n) \in Record /\ WithRank(r, n).rank = n
         /\ WithRank(r, n).ticker = r.ticker /\ WithRank(r, n).score = r.score
         /\ WithRank(r, n).flags = r.flags /\ WithRank(r, n).conviction = r.conviction
         /\ WithRank(r, n).trade = r.trade /\ WithRank(r, n).age = r.age
         /\ WithRank(r, n).reasons = r.reasons
  BY DEF WithRank, Record

\* The passing records split after the best, the failing ones by ticker.
IsPartition(a, p, ranking, best, failing) ==
  /\ a \in DaybreakOutput
  /\ a.status = (IF best > 0 THEN "approved" ELSE "no_setups")
  /\ a.failures = {} /\ a.blockers = {} /\ a.echo = p.echo
  /\ Len(a.approved) = best /\ \A n \in 1 .. best : a.approved[n] = ranking[n]
  /\ Len(a.qualified) = Len(ranking) - best
  /\ \A n \in 1 .. Len(ranking) - best : a.qualified[n] = WithRank(ranking[best + n], best + n)
  /\ a.excluded = InTickerOrder(failing)

LEMMA PartitionIs ==
  ASSUME NEW p \in DaybreakInput, NEW ranking \in Seq(Record), NEW best \in 0 .. Len(ranking),
         NEW failing, Distinct(failing)
  PROVE  IsPartition(Partition(p, ranking, best, failing), p, ranking, best, failing)
<1> PICK K : K = Len(ranking) - best OBVIOUS
<1>1. K \in Nat /\ best \in Nat OBVIOUS
<1> PICK status : status = IF best > 0 THEN "approved" ELSE "no_setups" OBVIOUS
<1> PICK approved : approved = SubSeq(ranking, 1, best) OBVIOUS
<1> PICK qualified : qualified = [n \in 1 .. K |-> WithRank(ranking[best + n], best + n)] OBVIOUS
<1> PICK excluded : excluded = InTickerOrder(failing) OBVIOUS
<1>2. status \in Status BY DEF Status
<1>3. approved \in Seq(Record) /\ Len(approved) = best /\ \A n \in 1 .. best : approved[n] = ranking[n]
  BY PartOf
<1>4. ASSUME NEW n \in 1 .. K PROVE WithRank(ranking[best + n], best + n) \in Record
  <2> PICK m : m = best + n OBVIOUS
  <2>1. m \in 1 .. Len(ranking) /\ m \in Nat BY <1>1
  <2>2. ranking[m] \in Record BY <2>1
  <2> QED BY <2>1, <2>2, WithRankIs
<1>5. qualified \in [1 .. K -> Record] BY <1>4
<1>6. qualified \in Seq(Record) /\ Len(qualified) = K
  BY <1>1, <1>5, FunctionIsList
<1>7. excluded \in Seq(Record)
  <2>1. InTickerOrder(failing) \in Seq(failing) BY InTickerOrderIs
  <2>2. failing \subseteq Record BY DEF Distinct
  <2>3. InTickerOrder(failing) \in Seq(Record) BY <2>1, <2>2
  <2> QED BY <2>3
<1>8. p.echo \in [Echoed -> STRING \cup {None}] BY DEF DaybreakInput
<1>9. Partition(p, ranking, best, failing) =
        [status |-> status, approved |-> approved, qualified |-> qualified, excluded |-> excluded,
         failures |-> {}, blockers |-> {}, echo |-> p.echo]
  <2>1. [n \in 1 .. Len(ranking) - best |-> [ranking[best + n] EXCEPT !.rank = best + n]] = qualified
    BY DEF WithRank
  <2>2. Partition(p, ranking, best, failing) =
          [NoAnswer(p) EXCEPT !.status = status, !.approved = approved, !.qualified = qualified,
                              !.excluded = excluded]
    BY <2>1, Zenon DEF Partition
  <2> QED BY <2>2 DEF NoAnswer
<1>10. Partition(p, ranking, best, failing) \in DaybreakOutput
  BY <1>2, <1>3, <1>6, <1>7, <1>8, <1>9 DEF DaybreakOutput
<1> QED BY <1>3, <1>6, <1>9, <1>10 DEF IsPartition


Passing(records) == {r \in records : r.reasons = <<>>}
Failed(records) == {r \in records : r.reasons # <<>>}
Best(n) == IF n < 3 THEN n ELSE 3

LEMMA AnsweredIs ==
  ASSUME NEW p \in DaybreakInput, NEW records, Distinct(records)
  PROVE  /\ Distinct(Passing(records)) /\ Distinct(Failed(records))
         /\ IsPartition(Answered(p, records), p, TrueRanking(Passing(records)),
                        Best(Cardinality(Passing(records))), Failed(records))
<1> PICK P, F, ranking, K : /\ P = Passing(records) /\ F = Failed(records)
                            /\ ranking = TrueRanking(P) /\ K = Cardinality(P)
  OBVIOUS
<1>0. P \in SUBSET records /\ F \in SUBSET records BY DEF Passing, Failed
<1>1. \A T \in SUBSET records : Distinct(T) BY FS_Subset DEF Distinct
<1>2. Distinct(P) /\ Distinct(F) BY <1>0, <1>1
<1>3. ranking \in Seq(P) /\ Len(ranking) = K /\ K \in Nat BY <1>2, TrueRankingIs
<1>4. ranking \in Seq(Record)
  <2>1. P \subseteq Record BY <1>2 DEF Distinct
  <2> QED BY <1>3, <2>1
<1>5. Best(K) \in 0 .. Len(ranking) BY <1>3 DEF Best
<1>6. Answered(p, records) = Partition(p, ranking, Best(K), F)
  BY <1>3 DEF Answered, Ranked, Passing, Failed, Best
<1>7. IsPartition(Partition(p, ranking, Best(K), F), p, ranking, Best(K), F)
  BY <1>2, <1>4, <1>5, PartitionIs
<1> QED BY <1>2, <1>6, <1>7

TrueRecords(p) == {TrueRecord(p, e) : e \in Elements(p.tickers)}

LEMMA TickersAre ==
  ASSUME NEW p \in DaybreakInput
  PROVE  /\ p.tickers \in Seq(TickerInput) /\ Len(p.tickers) \in Nat
         /\ DOMAIN p.tickers = 1 .. Len(p.tickers)
         /\ \A i \in DOMAIN p.tickers : p.tickers[i] \in TickerInput
         /\ \A i, j \in DOMAIN p.tickers : p.tickers[i].ticker = p.tickers[j].ticker => i = j
<1>1. p.tickers \in Seq(TickerInput)
      /\ \A i, j \in DOMAIN p.tickers : p.tickers[i].ticker = p.tickers[j].ticker => i = j
  BY DEF DaybreakInput
<1> QED BY <1>1

LEMMA TrueRecordsAre ==
  ASSUME NEW p \in DaybreakInput
  PROVE  /\ Distinct(TrueRecords(p)) /\ Cardinality(TrueRecords(p)) = Len(p.tickers)
         /\ TrueRecords(p) = {TrueRecord(p, p.tickers[i]) : i \in DOMAIN p.tickers}
<1> PICK D, T, g : /\ D = DOMAIN p.tickers /\ T = TrueRecords(p)
                   /\ g = [i \in D |-> TrueRecord(p, p.tickers[i])]
  OBVIOUS
<1>1. \A i \in D : p.tickers[i] \in TickerInput BY TickersAre
<1>2. \A i \in D : g[i] \in Record /\ g[i].ticker = p.tickers[i].ticker
  BY <1>1, TrueRecordIs DEF TrueOf
<1>3. T = {g[i] : i \in D} BY DEF TrueRecords, Elements
<1>4. IsFiniteSet(D) /\ Cardinality(D) = Len(p.tickers)
  <2>1. p.tickers \in Seq(TickerInput) BY TickersAre
  <2> QED BY <2>1, DomainFinite
<1>5. g \in Surjection(D, T) BY <1>3 DEF Surjection
<1>6. g \in Injection(D, T)
  <2>1. \A i, j \in D : g[i] = g[j] => i = j
    <3> TAKE i, j \in D
    <3>1. g[i].ticker = p.tickers[i].ticker /\ g[j].ticker = p.tickers[j].ticker BY <1>2
    <3>2. p.tickers[i].ticker = p.tickers[j].ticker => i = j BY TickersAre
    <3> QED BY <3>1, <3>2
  <2>2. g \in [D -> T] BY <1>3
  <2> QED BY <2>1, <2>2 DEF Injection, IsInjective
<1>7. IsFiniteSet(T) /\ Cardinality(T) = Cardinality(D)
  <2>1. IsFiniteSet(T) /\ (Cardinality(T) = Cardinality(D) <=> g \in Injection(D, T))
    BY <1>4, <1>5, FS_Surjection
  <2> QED BY <1>6, <2>1
<1>8. \A r, s \in T : r.ticker = s.ticker => r = s
  <2> TAKE r, s \in T
  <2>1. PICK i, j \in D : r = g[i] /\ s = g[j] BY <1>3
  <2>2. r.ticker = p.tickers[i].ticker /\ s.ticker = p.tickers[j].ticker BY <1>2, <2>1
  <2>3. p.tickers[i].ticker = p.tickers[j].ticker => i = j BY TickersAre
  <2> QED BY <2>1, <2>2, <2>3
<1>9. T \subseteq Record BY <1>2, <1>3
<1> QED BY <1>3, <1>4, <1>7, <1>8, <1>9 DEF Distinct

LEMMA TrueAnswerType ==
  ASSUME NEW p \in DaybreakInput
  PROVE  TrueAnswer(p) \in DaybreakOutput
<1>0. p.echo \in [Echoed -> STRING \cup {None}] /\ p.invalid \in SUBSET Nat BY DEF DaybreakInput
<1>1. ASSUME NEW status \in Status, NEW failures \in SUBSET [scope : {"payload", "ticker"}, ticker : Nat],
             NEW blockers \in SUBSET {"MARKET_NOT_NORMAL", "PAYLOAD_STALE"}
      PROVE  [status |-> status, approved |-> <<>>, qualified |-> <<>>, excluded |-> <<>>,
              failures |-> failures, blockers |-> blockers, echo |-> p.echo] \in DaybreakOutput
  <2>1. <<>> \in Seq(Record) OBVIOUS
  <2> QED BY <1>0, <2>1 DEF DaybreakOutput
<1>2. CASE ~ p.valid
  <2> PICK failures : failures = {[scope |-> "payload", ticker |-> 0]} \cup
                                 {[scope |-> "ticker", ticker |-> t] : t \in p.invalid}
    OBVIOUS
  <2>1. failures \in SUBSET [scope : {"payload", "ticker"}, ticker : Nat] BY <1>0
  <2>2. TrueAnswer(p) =
          [status |-> "schema_failure", approved |-> <<>>, qualified |-> <<>>, excluded |-> <<>>,
           failures |-> failures, blockers |-> {}, echo |-> p.echo]
    BY <1>2 DEF TrueAnswer, NoAnswer
  <2>3. "schema_failure" \in Status BY DEF Status
  <2> QED BY <1>1, <2>1, <2>2, <2>3
<1>3. CASE p.valid /\ p.market # "normal"
  <2>1. TrueAnswer(p) =
          [status |-> "blocked_market", approved |-> <<>>, qualified |-> <<>>, excluded |-> <<>>,
           failures |-> {}, blockers |-> {"MARKET_NOT_NORMAL"}, echo |-> p.echo]
    BY <1>3 DEF TrueAnswer, NoAnswer
  <2>2. "blocked_market" \in Status BY DEF Status
  <2> QED BY <1>1, <2>1, <2>2
<1>4. CASE p.valid /\ p.market = "normal" /\ p.age > 180
  <2>1. TrueAnswer(p) =
          [status |-> "stale_payload", approved |-> <<>>, qualified |-> <<>>, excluded |-> <<>>,
           failures |-> {}, blockers |-> {"PAYLOAD_STALE"}, echo |-> p.echo]
    BY <1>4 DEF TrueAnswer, NoAnswer
  <2>2. "stale_payload" \in Status BY DEF Status
  <2> QED BY <1>1, <2>1, <2>2
<1>5. CASE p.valid /\ p.market = "normal" /\ ~ (p.age > 180)
  <2>1. TrueAnswer(p) = Answered(p, TrueRecords(p)) BY <1>5 DEF TrueAnswer, TrueRecords
  <2>2. Distinct(TrueRecords(p)) BY TrueRecordsAre
  <2> QED BY <2>1, <2>2, AnsweredIs DEF IsPartition
<1> QED BY <1>2, <1>3, <1>4, <1>5


-----------------------------------------------------------------------------
(* Answers keep their shape, however far they are from the truth.          *)

\* r with another score.
WithScore(r, s) == [r EXCEPT !.score = s]

LEMMA RecordFields ==
  ASSUME NEW r \in Record
  PROVE  /\ r.score \in Score /\ r.flags \in Seq(Elements(RISK_FLAG_ORDER)) /\ r.conviction \in Int
         /\ r.age \in Nat /\ r.trade \in Nat \X Nat /\ r.rank \in Nat /\ r.ticker \in Nat
         /\ r.reasons \in Seq(Elements(GATES))
  BY DEF Record

LEMMA RecordEdits ==
  ASSUME NEW r \in Record
  PROVE  /\ \A x \in Score : [r EXCEPT !.score = x] \in Record
         /\ \A x \in Score, y \in Int : [r EXCEPT !.score = x, !.conviction = y] \in Record
         /\ \A x \in Seq(Elements(RISK_FLAG_ORDER)) : [r EXCEPT !.flags = x] \in Record
         /\ \A x \in Nat \X Nat : [r EXCEPT !.trade = x] \in Record
         /\ \A x \in Int : [r EXCEPT !.conviction = x] \in Record
         /\ \A x \in Nat : /\ [r EXCEPT !.age = x] \in Record /\ [r EXCEPT !.ticker = x] \in Record
                           /\ [r EXCEPT !.rank = x] \in Record
         /\ \A x \in Seq(Elements(GATES)) : [r EXCEPT !.reasons = x] \in Record
         /\ \A x \in Seq(Elements(GATES)), y \in Nat : [r EXCEPT !.reasons = x, !.rank = y] \in Record
  BY DEF Record

LEMMA ScoreEdits ==
  ASSUME NEW s \in Score
  PROVE  /\ \A x \in Nat : [s EXCEPT !.volume = x] \in Score
         /\ \A x, y \in Nat : [s EXCEPT !.raw = x, !.catalyst = y] \in Score
         /\ [s EXCEPT !.override = FALSE, !.zero = None, !.purpose = "magnitude"] \in Score
         /\ \A x \in Spans : [s EXCEPT !.excerpt = x] \in Score
         /\ \A x \in BOOLEAN : [s EXCEPT !.truncated = x] \in Score
         /\ \A x \in Int : [s EXCEPT !.start = x] \in Score
         /\ \A x \in Spans, y, z \in Int : [s EXCEPT !.excerpt = x, !.start = y, !.end = z] \in Score
<1>1. None \in Zero BY DEF Zero
<1> QED BY <1>1, ZenonT(60) DEF Score

LEMMA SlipType ==
  ASSUME NEW p \in DaybreakInput, NEW r \in Record, NEW s \in Slips(p, r)
  PROVE  s \in Record
<1> PICK c : c = r.score OBVIOUS
<1>0. /\ c \in Score /\ r.flags \in Seq(Elements(RISK_FLAG_ORDER)) /\ r.conviction \in Int
      /\ r.age \in Nat /\ r.trade \in Nat \X Nat /\ r.rank \in Nat /\ r.reasons \in Seq(Elements(GATES))
  BY RecordFields
<1>c. /\ c.volume \in Nat /\ c.raw \in Nat /\ c.catalyst \in Nat /\ c.truncated \in BOOLEAN
      /\ c.start \in Int /\ c.end \in Int
  BY <1>0 DEF Score
<1>1. ASSUME NEW v \in {0, 15, 25, 35},
             s = [r EXCEPT !.score.volume = v, !.conviction = @ + v - r.score.volume]
      PROVE  s \in Record
  <2> PICK d, y : d = [c EXCEPT !.volume = v] /\ y = r.conviction + v - c.volume OBVIOUS
  <2>0. v \in Nat OBVIOUS
  <2>1. d \in Score /\ y \in Int
    <3>1. d \in Score BY <1>0, <2>0, ScoreEdits
    <3>2. y \in Int BY <1>0, <1>c, <2>0, SMTT(30)
    <3> QED BY <3>1, <3>2
  <2>2. s = [r EXCEPT !.score = d, !.conviction = y] BY <1>1
  <2> QED BY <2>1, <2>2, RecordEdits
<1>2. ASSUME s = [r EXCEPT !.score.raw = r.score.raw + 1, !.score.catalyst = r.score.catalyst + 4,
                           !.conviction = @ + 4]
      PROVE  s \in Record
  <2> PICK x, z, y : x = c.raw + 1 /\ z = c.catalyst + 4 /\ y = r.conviction + 4 OBVIOUS
  <2> PICK d : d = [c EXCEPT !.raw = x, !.catalyst = z] OBVIOUS
  <2>0. x \in Nat /\ z \in Nat BY <1>c
  <2>1. d \in Score /\ y \in Int
    <3>1. d \in Score BY <1>0, <2>0, ScoreEdits
    <3>2. y \in Int BY <1>0
    <3> QED BY <3>1, <3>2, SMTT(30)
  <2>2. s = [r EXCEPT !.score = d, !.conviction = y] BY <1>2
  <2> QED BY <2>1, <2>2, RecordEdits, ZenonT(60)
<1>3. ASSUME s = [r EXCEPT !.score.override = FALSE, !.score.zero = None, !.score.purpose = "magnitude"]
      PROVE  s \in Record
  <2> PICK d : d = [c EXCEPT !.override = FALSE, !.zero = None, !.purpose = "magnitude"] BY SMTT(30)
  <2>1. d \in Score BY <1>0, ScoreEdits
  <2>2. s = [r EXCEPT !.score = d] BY <1>3
  <2> QED BY <2>1, <2>2, RecordEdits
<1>4. ASSUME s = [r EXCEPT !.score.excerpt = NotInText] PROVE s \in Record
  <2> PICK d : d = [c EXCEPT !.excerpt = NotInText] OBVIOUS
  <2>0. NotInText \in Spans BY DEF NotInText, Spans
  <2>1. d \in Score BY <1>0, <2>0, ScoreEdits
  <2>2. s = [r EXCEPT !.score = d] BY <1>4
  <2> QED BY <2>1, <2>2, RecordEdits
<1>5. ASSUME s = [r EXCEPT !.score.truncated = ~r.score.truncated] PROVE s \in Record
  <2> PICK t : t = ~ c.truncated OBVIOUS
  <2>0. t \in BOOLEAN BY Zenon
  <2> PICK d : d = [c EXCEPT !.truncated = t] OBVIOUS
  <2>1. d \in Score BY <1>0, <2>0, ScoreEdits
  <2>2. s = [r EXCEPT !.score = d] BY <1>5
  <2> QED BY <2>1, <2>2, RecordEdits
<1>6. ASSUME s = [r EXCEPT !.flags = IF @ = <<>> THEN <<"parabolic">> ELSE Tail(@)] PROVE s \in Record
  <2> PICK x : x = IF r.flags = <<>> THEN <<"parabolic">> ELSE Tail(r.flags) OBVIOUS
  <2>1. <<"parabolic">> \in Seq(Elements(RISK_FLAG_ORDER)) BY DEF Elements, RISK_FLAG_ORDER
  <2>2. x \in Seq(Elements(RISK_FLAG_ORDER)) BY <1>0, <2>1
  <2>3. s = [r EXCEPT !.flags = x] BY <1>6
  <2> QED BY <2>2, <2>3, RecordEdits
<1>7. ASSUME s = [r EXCEPT !.trade = <<@[1] + 1, @[2]>>] PROVE s \in Record
  <2> PICK x : x = <<r.trade[1] + 1, r.trade[2]>> OBVIOUS
  <2>1. x \in Nat \X Nat BY <1>0
  <2>2. s = [r EXCEPT !.trade = x] BY <1>7
  <2> QED BY <2>1, <2>2, RecordEdits
<1>8. ASSUME NEW n \in {-3, 3}, s = [r EXCEPT !.conviction = @ + n] PROVE s \in Record
  <2> PICK x : x = r.conviction + n OBVIOUS
  <2>1. x \in Int BY <1>0
  <2>2. s = [r EXCEPT !.conviction = x] BY <1>8
  <2> QED BY <2>1, <2>2, RecordEdits
<1>9. ASSUME NEW e \in Elements(p.tickers), s = [r EXCEPT !.age = e.age] \/ s = [r EXCEPT !.ticker = e.ticker]
      PROVE  s \in Record
  <2>1. PICK i \in DOMAIN p.tickers : e = p.tickers[i] BY DEF Elements
  <2>2. e \in TickerInput BY <2>1, TickersAre
  <2>3. e.age \in Nat /\ e.ticker \in Nat BY <2>2 DEF TickerInput
  <2> QED BY <1>9, <2>3, RecordEdits
<1>10. ASSUME NEW n \in {1, 3}, s = [r EXCEPT !.score = Shifted(@, n)] PROVE s \in Record
  <2> PICK x, y, z : x = Span(MaxText, c.start + n, c.end + n) /\ y = c.start + n /\ z = c.end + n OBVIOUS
  <2>0. y \in Int /\ z \in Int /\ MaxText \in Int BY <1>c, ReplayAssumption
  <2>1. x \in Spans
    <3> PICK stop : stop = IF z < MaxText THEN z ELSE MaxText OBVIOUS
    <3>1. stop \in Int BY <2>0
    <3>2. x = IF y >= stop THEN NoSpan ELSE <<y, stop>> BY DEF Span
    <3> QED BY <2>0, <3>1, <3>2 DEF Spans
  <2> PICK d : d = [c EXCEPT !.excerpt = x, !.start = y, !.end = z] BY SMTT(30)
  <2>2. d \in Score BY <1>0, <2>0, <2>1, ScoreEdits
  <2>3. s = [r EXCEPT !.score = d] BY <1>10 DEF Shifted
  <2> QED BY <2>2, <2>3, RecordEdits, ZenonT(60)
<1>11. ASSUME s = [r EXCEPT !.score.start = r.score.start - 1] PROVE s \in Record
  <2> PICK x : x = c.start - 1 OBVIOUS
  <2> PICK d : d = [c EXCEPT !.start = x] OBVIOUS
  <2>0. x \in Int BY <1>c
  <2>1. d \in Score BY <1>0, <2>0, ScoreEdits
  <2>2. s = [r EXCEPT !.score = d] BY <1>11
  <2> QED BY <2>1, <2>2, RecordEdits
<1>12. ASSUME s = [r EXCEPT !.rank = @ + 1] PROVE s \in Record
  <2> PICK x : x = r.rank + 1 OBVIOUS
  <2>1. x \in Nat BY <1>0
  <2>2. s = [r EXCEPT !.rank = x] BY <1>12
  <2> QED BY <2>1, <2>2, RecordEdits
<1>13. ASSUME NEW n \in 2 .. Len(r.reasons), s = [r EXCEPT !.reasons = SubSeq(@, n, Len(@))]
       PROVE  s \in Record
  <2> PICK x : x = SubSeq(r.reasons, n, Len(r.reasons)) OBVIOUS
  <2>1. x \in Seq(Elements(GATES)) BY <1>0, SMTT(30)
  <2>2. s = [r EXCEPT !.reasons = x] BY <1>13
  <2> QED BY <2>1, <2>2, RecordEdits
<1> QED
  BY <1>1, <1>2, <1>3, <1>4, <1>5, <1>6, <1>7, <1>8, <1>9, <1>10, <1>11, <1>12, <1>13 DEF Slips


LEMMA ArrayIs ==
  ASSUME NEW out \in DaybreakOutput, NEW a \in Array
  PROVE  /\ out[a] \in Seq(Record)
         /\ \A s \in Seq(Record) : [out EXCEPT ![a] = s] \in DaybreakOutput
         /\ \A b \in Array \ {a}, s, t \in Seq(Record) :
              [out EXCEPT ![a] = s, ![b] = t] \in DaybreakOutput
  BY DEF DaybreakOutput, Array

LEMMA ListEdits ==
  ASSUME NEW S, NEW s \in Seq(S)
  PROVE  /\ \A x \in S : Append(s, x) \in Seq(S)
         /\ \A i \in DOMAIN s, x \in S : At(s, i, x) \in Seq(S)
         /\ \A i \in DOMAIN s : Without(s, i) \in Seq(S)
         /\ \A i \in 2 .. Len(s) : Swapped(s, i) \in Seq(S)
<1>1. \A i \in DOMAIN s, x \in S : At(s, i, x) \in Seq(S) BY DEF At
<1>3. ASSUME NEW i \in 2 .. Len(s) PROVE Swapped(s, i) \in Seq(S)
  <2> PICK x, y, t : x = s[i] /\ y = s[i - 1] /\ t = [s EXCEPT ![i] = y] OBVIOUS
  <2>1. i \in DOMAIN s /\ i - 1 \in DOMAIN s /\ x \in S /\ y \in S OBVIOUS
  <2>2. t \in Seq(S) /\ DOMAIN t = DOMAIN s BY <2>1
  <2>3. [t EXCEPT ![i - 1] = x] \in Seq(S) BY <2>1, <2>2
  <2>4. Swapped(s, i) = [t EXCEPT ![i - 1] = x] BY DEF Swapped
  <2> QED BY <2>3, <2>4
<1>2. ASSUME NEW i \in DOMAIN s PROVE Without(s, i) \in Seq(S)
  <2>1. SubSeq(s, 1, i - 1) \in Seq(S) OBVIOUS
  <2>2. SubSeq(s, i + 1, Len(s)) \in Seq(S) OBVIOUS
  <2> QED BY <2>1, <2>2 DEF Without
<1> QED BY <1>1, <1>2, <1>3

LEMMA InArrayType ==
  ASSUME NEW r \in Record, NEW b
  PROVE  InArray(b, r) \in Record
<1> PICK x, y : /\ x = IF b = "excluded" /\ r.reasons = <<>> THEN <<"HALTED">> ELSE r.reasons
                /\ y = IF b = "qualified" /\ r.rank = NoRank THEN 4 ELSE r.rank
  OBVIOUS
<1>1. <<"HALTED">> \in Seq(Elements(GATES)) BY DEF Elements, GATES
<1>2. x \in Seq(Elements(GATES)) /\ y \in Nat BY <1>1, RecordFields
<1>3. InArray(b, r) = [r EXCEPT !.reasons = x, !.rank = y] BY DEF InArray
<1>4. [r EXCEPT !.reasons = x, !.rank = y] \in Record BY <1>2, RecordEdits
<1> QED BY <1>3, <1>4

\* The report is about an answer that has the shape of one.
ContractInv == ReportInv /\ answer \in DaybreakOutput

LEMMA ShapeStep ==
  ASSUME ContractInv, NEW a \in DaybreakOutput, Answer(a)
  PROVE  ContractInv'
<1>1. ReportInv' BY AnswerStep DEF ContractInv
<1>2. answer' = a BY DEF Answer
<1> QED BY <1>1, <1>2 DEF ContractInv

LEMMA WrongFieldStep == ASSUME ContractInv, WrongField PROVE ContractInv'
<1>1. PICK a \in Array : \E i \in DOMAIN answer[a] : \E r \in Slips(payload, answer[a][i]) :
        Answer([answer EXCEPT ![a] = At(@, i, r)])
  BY DEF WrongField
<1>b. PICK i \in DOMAIN answer[a] : \E r \in Slips(payload, answer[a][i]) :
        Answer([answer EXCEPT ![a] = At(@, i, r)])
  BY <1>1
<1>2. PICK r \in Slips(payload, answer[a][i]) : Answer([answer EXCEPT ![a] = At(@, i, r)])
  BY <1>b
<1>3. answer \in DaybreakOutput /\ payload \in DaybreakInput BY PayloadIs DEF ContractInv
<1>4. answer[a] \in Seq(Record) BY <1>3, ArrayIs
<1>5. answer[a][i] \in Record BY <1>4
<1>6. r \in Record BY <1>3, <1>5, SlipType
<1> PICK s : s = At(answer[a], i, r) OBVIOUS
<1>7. s \in Seq(Record) BY <1>4, <1>6, ListEdits
<1>8. [answer EXCEPT ![a] = s] \in DaybreakOutput BY <1>3, <1>7, ArrayIs
<1>9. Answer([answer EXCEPT ![a] = s]) BY <1>2
<1> QED BY <1>8, <1>9, ShapeStep

LEMMA MisplacedStep == ASSUME ContractInv, Misplaced PROVE ContractInv'
<1>1. PICK a \in Array : \E i \in DOMAIN answer[a] :
        \/ Answer([answer EXCEPT ![a] = Without(@, i)])
        \/ \E b \in Array : Answer([answer EXCEPT ![b] = Append(@, InArray(b, answer[a][i]))])
        \/ \E b \in Array \ {a} :
             Answer([answer EXCEPT ![a] = Without(@, i), ![b] = Append(@, InArray(b, answer[a][i]))])
  BY DEF Misplaced
<1>2. PICK i \in DOMAIN answer[a] :
        \/ Answer([answer EXCEPT ![a] = Without(@, i)])
        \/ \E b \in Array : Answer([answer EXCEPT ![b] = Append(@, InArray(b, answer[a][i]))])
        \/ \E b \in Array \ {a} :
             Answer([answer EXCEPT ![a] = Without(@, i), ![b] = Append(@, InArray(b, answer[a][i]))])
  BY <1>1
<1>3. answer \in DaybreakOutput BY DEF ContractInv
<1>4. \A b \in Array : answer[b] \in Seq(Record) BY <1>3, ArrayIs
<1>5. answer[a][i] \in Record BY <1>4
<1> PICK s : s = Without(answer[a], i) OBVIOUS
<1>6. s \in Seq(Record) BY <1>4, ListEdits
<1>7. CASE Answer([answer EXCEPT ![a] = Without(@, i)])
  <2>1. [answer EXCEPT ![a] = s] \in DaybreakOutput BY <1>3, <1>6, ArrayIs
  <2>2. Answer([answer EXCEPT ![a] = s]) BY <1>7
  <2> QED BY <2>1, <2>2, ShapeStep
<1>8. ASSUME NEW b \in Array, Answer([answer EXCEPT ![b] = Append(@, InArray(b, answer[a][i]))])
      PROVE  ContractInv'
  <2> PICK t : t = Append(answer[b], InArray(b, answer[a][i])) OBVIOUS
  <2>0. InArray(b, answer[a][i]) \in Record BY <1>5, InArrayType
  <2>1. t \in Seq(Record) BY <1>4, <2>0, ListEdits
  <2>2. [answer EXCEPT ![b] = t] \in DaybreakOutput BY <1>3, <2>1, ArrayIs
  <2>3. Answer([answer EXCEPT ![b] = t]) BY <1>8
  <2> QED BY <2>2, <2>3, ShapeStep
<1>9. ASSUME NEW b \in Array \ {a},
             Answer([answer EXCEPT ![a] = Without(@, i), ![b] = Append(@, InArray(b, answer[a][i]))])
      PROVE  ContractInv'
  <2> PICK t : t = Append(answer[b], InArray(b, answer[a][i])) OBVIOUS
  <2>0. InArray(b, answer[a][i]) \in Record BY <1>5, InArrayType
  <2>1. t \in Seq(Record) BY <1>4, <2>0, ListEdits
  <2>2. [answer EXCEPT ![a] = s, ![b] = t] \in DaybreakOutput BY <1>3, <1>6, <2>1, ArrayIs
  <2>3. [answer EXCEPT ![a] = Without(@, i), ![b] = Append(@, InArray(b, answer[a][i]))]
          = [answer EXCEPT ![a] = s, ![b] = t]
    BY <1>3 DEF DaybreakOutput, Array
  <2>4. Answer([answer EXCEPT ![a] = s, ![b] = t]) BY <1>9, <2>3
  <2> QED BY <2>2, <2>4, ShapeStep
<1> QED BY <1>2, <1>7, <1>8, <1>9


LEMMA MisrankedStep == ASSUME ContractInv, Misranked PROVE ContractInv'
<1>1. answer \in DaybreakOutput BY DEF ContractInv
<1>2. \A b \in Array : answer[b] \in Seq(Record) BY <1>1, ArrayIs
<1>3. ASSUME NEW a \in Array, NEW i \in 2 .. Len(answer[a]),
             Answer([answer EXCEPT ![a] = Swapped(@, i)])
      PROVE  ContractInv'
  <2> PICK s : s = Swapped(answer[a], i) OBVIOUS
  <2>1. s \in Seq(Record) BY <1>2, ListEdits
  <2>2. [answer EXCEPT ![a] = s] \in DaybreakOutput BY <1>1, <2>1, ArrayIs
  <2>3. Answer([answer EXCEPT ![a] = s]) BY <1>3
  <2> QED BY <2>2, <2>3, ShapeStep
<1> PICK last, head : last = answer.approved[Len(answer.approved)] /\ head = answer.qualified[1] OBVIOUS
<1>4. ASSUME answer.approved # <<>>, answer.qualified # <<>>,
             Answer([answer EXCEPT !.approved = At(@, Len(@), [head EXCEPT !.rank = NoRank]),
                                   !.qualified = At(@, 1, [last EXCEPT !.rank = head.rank])])
      PROVE  ContractInv'
  <2> PICK s, t, k : s = answer.approved /\ t = answer.qualified /\ k = Len(s) OBVIOUS
  <2>1. s \in Seq(Record) /\ t \in Seq(Record) BY <1>1 DEF DaybreakOutput
  <2>2. k \in DOMAIN s /\ 1 \in DOMAIN t BY <1>4, <2>1
  <2>3. last \in Record /\ head \in Record BY <2>1, <2>2
  <2> PICK x, y : x = [head EXCEPT !.rank = NoRank] /\ y = [last EXCEPT !.rank = head.rank] OBVIOUS
  <2>4. NoRank \in Nat /\ head.rank \in Nat BY <2>3, RecordFields DEF NoRank
  <2>5. x \in Record /\ y \in Record BY <2>3, <2>4, RecordEdits
  <2> PICK u, v : u = At(s, k, x) /\ v = At(t, 1, y) OBVIOUS
  <2>6. u \in Seq(Record) /\ v \in Seq(Record) BY <2>1, <2>2, <2>5, ListEdits
  <2>7. [answer EXCEPT !.approved = u, !.qualified = v] \in DaybreakOutput
    BY <1>1, <2>6, ZenonT(60) DEF DaybreakOutput
  <2>8. Answer([answer EXCEPT !.approved = u, !.qualified = v]) BY <1>4
  <2> QED BY <2>7, <2>8, ShapeStep
<1> QED BY <1>3, <1>4 DEF Misranked

LEMMA WrongStatusStep == ASSUME ContractInv, WrongStatus PROVE ContractInv'
<1>1. answer \in DaybreakOutput /\ payload \in DaybreakInput BY PayloadIs DEF ContractInv
<1>2. ASSUME NEW status \in {"approved", "no_setups", "stale_payload", "schema_failure"},
             Answer([answer EXCEPT !.status = status])
      PROVE  ContractInv'
  <2>1. [answer EXCEPT !.status = status] \in DaybreakOutput BY <1>1 DEF DaybreakOutput, Status
  <2> QED BY <1>2, <2>1, ShapeStep
<1>3. ASSUME Answer([answer EXCEPT !.blockers = {"PAYLOAD_STALE"}]) PROVE ContractInv'
  <2>1. [answer EXCEPT !.blockers = {"PAYLOAD_STALE"}] \in DaybreakOutput BY <1>1 DEF DaybreakOutput
  <2> QED BY <1>3, <2>1, ShapeStep
<1>4. ASSUME Answer([answer EXCEPT !.failures = {}]) PROVE ContractInv'
  <2>1. [answer EXCEPT !.failures = {}] \in DaybreakOutput BY <1>1 DEF DaybreakOutput
  <2> QED BY <1>4, <2>1, ShapeStep
<1>5. ASSUME Answer([answer EXCEPT !.echo.market = None]) PROVE ContractInv'
  <2> PICK e : e = [answer.echo EXCEPT !.market = None] OBVIOUS
  <2>1. answer.echo \in [Echoed -> STRING \cup {None}] BY <1>1 DEF DaybreakOutput
  <2>2. e \in [Echoed -> STRING \cup {None}] BY <2>1
  <2>3. [answer EXCEPT !.echo = e] \in DaybreakOutput BY <1>1, <2>2 DEF DaybreakOutput
  <2>4. Answer([answer EXCEPT !.echo = e]) BY <1>5
  <2> QED BY <2>3, <2>4, ShapeStep
<1>6. ASSUME Answer(TrueAnswer([payload EXCEPT !.valid = TRUE, !.market = "normal", !.age = 0]))
      PROVE  ContractInv'
  <2> PICK p : p = [payload EXCEPT !.valid = TRUE, !.market = "normal", !.age = 0] OBVIOUS
  <2>1. p \in DaybreakInput BY <1>1, ZenonT(60) DEF DaybreakInput, Market
  <2>2. TrueAnswer(p) \in DaybreakOutput BY <2>1, TrueAnswerType
  <2> QED BY <1>6, <2>2, ShapeStep
<1> QED BY <1>2, <1>3, <1>4, <1>5, <1>6 DEF WrongStatus

LEMMA ContractInvariant == ContractSpec => []ContractInv
<1>1. ContractInit => ContractInv
  <2> SUFFICES ASSUME ContractInit PROVE ContractInv OBVIOUS
  <2>1. ReportInv BY DEF ContractInit, ReportInv
  <2>2. payload \in DaybreakInput BY <2>1, PayloadIs
  <2>3. answer = TrueAnswer(payload) BY DEF ContractInit
  <2> QED BY <2>1, <2>2, <2>3, TrueAnswerType DEF ContractInv
<1>2. ContractInv /\ [ContractNext]_contractVars => ContractInv'
  <2> SUFFICES ASSUME ContractInv, [ContractNext]_contractVars PROVE ContractInv' OBVIOUS
  <2>0. ReportInv /\ answer \in DaybreakOutput BY DEF ContractInv
  <2>1. CASE UNCHANGED contractVars BY <2>1 DEF ContractInv, ReportInv, contractVars
  <2>2. CASE WrongField BY <2>2, WrongFieldStep
  <2>3. CASE Misplaced BY <2>3, MisplacedStep
  <2>4. CASE Misranked BY <2>4, MisrankedStep
  <2>5. CASE WrongStatus BY <2>5, WrongStatusStep
  <2>6. CASE Validate
    <3>1. ReportInv' BY <2>0, <2>6, ReportStep
    <3>2. answer' = answer BY <2>6 DEF Validate
    <3> QED BY <2>0, <3>1, <3>2 DEF ContractInv
  <2>7. CASE Compare
    <3>1. ReportInv' BY <2>0, <2>7, ReportStep
    <3>2. answer' = answer BY <2>7 DEF Compare
    <3> QED BY <2>0, <3>1, <3>2 DEF ContractInv
  <2> QED BY <2>1, <2>2, <2>3, <2>4, <2>5, <2>6, <2>7 DEF ContractNext
<1> QED BY <1>1, <1>2, PTL DEF ContractSpec


-----------------------------------------------------------------------------
(* What an accepted answer quotes.                                         *)

LEMMA ElementsJoined ==
  ASSUME NEW S, NEW s \in Seq(S), NEW t \in Seq(S)
  PROVE  Elements(s \o t) = Elements(s) \union Elements(t)
<1> PICK h : h = s \o t OBVIOUS
<1>1. DOMAIN s = 1 .. Len(s) /\ DOMAIN t = 1 .. Len(t) /\ Len(s) \in Nat /\ Len(t) \in Nat OBVIOUS
<1>2. DOMAIN h = 1 .. Len(s) + Len(t)
      /\ \A n \in 1 .. Len(s) + Len(t) : h[n] = IF n =< Len(s) THEN s[n] ELSE t[n - Len(s)]
  OBVIOUS
<1>3. ASSUME NEW x, x \in Elements(h) PROVE x \in Elements(s) \union Elements(t)
  <2>1. PICK n \in DOMAIN h : x = h[n] BY <1>3 DEF Elements
  <2>2. CASE n =< Len(s)
    <3>1. n \in DOMAIN s /\ x = s[n] BY <1>1, <1>2, <2>1, <2>2
    <3> QED BY <3>1 DEF Elements
  <2>3. CASE ~ (n =< Len(s))
    <3> PICK m : m = n - Len(s) OBVIOUS
    <3>1. m \in DOMAIN t /\ x = t[m] BY <1>1, <1>2, <2>1, <2>3
    <3> QED BY <3>1 DEF Elements
  <2> QED BY <2>2, <2>3
<1>4. ASSUME NEW x, x \in Elements(s) PROVE x \in Elements(h)
  <2>1. PICK n \in DOMAIN s : x = s[n] BY <1>4 DEF Elements
  <2>2. n \in DOMAIN h /\ h[n] = s[n] BY <1>1, <1>2
  <2> QED BY <2>1, <2>2 DEF Elements
<1>5. ASSUME NEW x, x \in Elements(t) PROVE x \in Elements(h)
  <2>1. PICK n \in DOMAIN t : x = t[n] BY <1>5 DEF Elements
  <2> PICK m : m = n + Len(s) OBVIOUS
  <2>2. m \in 1 .. Len(s) + Len(t) /\ ~ (m =< Len(s)) /\ m - Len(s) = n BY <1>1
  <2>3. h[m] = t[m - Len(s)] /\ m \in DOMAIN h BY <1>2, <2>2
  <2>4. h[m] = t[n] BY <2>2, <2>3
  <2> QED BY <2>1, <2>3, <2>4 DEF Elements
<1> QED BY <1>3, <1>4, <1>5

LEMMA ElementsAre ==
  ASSUME NEW S, NEW s \in Seq(S)
  PROVE  Elements(s) \subseteq S
  BY DEF Elements

LEMMA OutputIs ==
  ASSUME NEW out \in DaybreakOutput
  PROVE  /\ out.approved \in Seq(Record) /\ out.qualified \in Seq(Record) /\ out.excluded \in Seq(Record)
         /\ passing_records(out) \in Seq(Record) /\ terminal_records(out) \in Seq(Record)
         /\ terminal_records(out) = passing_records(out) \o out.excluded
         /\ Elements(terminal_records(out)) = Elements(passing_records(out)) \union Elements(out.excluded)
         /\ Elements(passing_records(out)) = Elements(out.approved) \union Elements(out.qualified)
         /\ Elements(terminal_records(out)) \subseteq Record
<1>1. out.approved \in Seq(Record) /\ out.qualified \in Seq(Record) /\ out.excluded \in Seq(Record)
  BY DEF DaybreakOutput
<1>2. passing_records(out) = out.approved \o out.qualified BY DEF passing_records
<1>3. terminal_records(out) = passing_records(out) \o out.excluded BY DEF passing_records, terminal_records
<1>4. passing_records(out) \in Seq(Record) BY <1>1, <1>2
<1>5. terminal_records(out) \in Seq(Record) BY <1>1, <1>3, <1>4
<1>6. Elements(passing_records(out)) = Elements(out.approved) \union Elements(out.qualified)
  BY <1>1, <1>2, ElementsJoined
<1>7. Elements(terminal_records(out)) = Elements(passing_records(out)) \union Elements(out.excluded)
  BY <1>1, <1>3, <1>4, ElementsJoined
<1>8. Elements(terminal_records(out)) \subseteq Record BY <1>5, ElementsAre
<1> QED BY <1>1, <1>3, <1>4, <1>5, <1>6, <1>7, <1>8

LEMMA EntriesAre ==
  ASSUME NEW p \in DaybreakInput, NEW ticker, NEW e
  PROVE  e \in EntriesOf(p, ticker) <=>
           \E i \in DOMAIN p.tickers : e = p.tickers[i] /\ e.ticker = ticker
  BY DEF EntriesOf

LEMMA EvidenceIs ==
  ASSUME NEW e \in TickerInput, NEW s \in Score, EvidenceIndexed(e, s), s.excerpt # NoSpan
  PROVE  /\ 0 <= s.excerpt[1] /\ s.excerpt[1] < s.excerpt[2] /\ s.excerpt[2] <= e.text
         /\ Positioned(s) => s.excerpt[1] = s.start /\ s.excerpt[2] <= s.end
         /\ Positioned(s) /\ s.excerpt[2] < s.end => s.truncated
<1>0. /\ e.text \in Nat /\ s.start \in Int /\ s.end \in Int /\ s.truncated \in BOOLEAN
      /\ s.excerpt \in Spans /\ MaxExcerpt \in Nat
  BY ReplayAssumption DEF TickerInput, Score
<1>1. 0 <= s.excerpt[1] /\ s.excerpt[1] < s.excerpt[2] /\ s.excerpt[2] <= e.text
  BY DEF EvidenceIndexed, InText
<1>2. ASSUME Positioned(s)
      PROVE  s.excerpt[1] = s.start /\ s.excerpt[2] <= s.end /\ (s.excerpt[2] < s.end => s.truncated)
  <2>1. 0 <= s.start /\ s.start < s.end /\ s.end <= e.text
    <3>1. InText(e, <<s.start, s.end>>) BY <1>2 DEF EvidenceIndexed
    <3> QED BY <3>1 DEF InText
  <2>2. Span(e.text, s.start, s.end) = <<s.start, s.end>>
    <3> PICK stop : stop = IF s.end < e.text THEN s.end ELSE e.text OBVIOUS
    <3>1. stop = s.end BY <1>0, <2>1
    <3>2. ~ (s.start >= stop) BY <1>0, <2>1, <3>1
    <3> QED BY <3>1, <3>2 DEF Span
  <2>3. CASE ~ s.truncated
    <3>1. s.excerpt = <<s.start, s.end>> BY <1>2, <2>2, <2>3 DEF EvidenceIndexed
    <3> QED BY <1>0, <3>1
  <2>4. CASE s.truncated
    <3> PICK full : full = <<s.start, s.end>> OBVIOUS
    <3>1. full # NoSpan /\ full[2] - full[1] > MaxExcerpt /\ s.excerpt = FirstOf(full)
      BY <2>2, <2>4 DEF EvidenceIndexed
    <3>2. s.excerpt = <<full[1], full[1] + MaxExcerpt>> BY <3>1 DEF FirstOf
    <3>3. s.excerpt[1] = s.start /\ s.excerpt[2] = s.start + MaxExcerpt BY <3>2
    <3>4. s.end - s.start > MaxExcerpt BY <3>1
    <3> QED BY <1>0, <2>4, <3>3, <3>4
  <2> QED BY <1>0, <2>3, <2>4
<1> QED BY <1>1, <1>2

LEMMA QuotedIs == ContractInv => EvidenceIsInText
<1> SUFFICES ASSUME ContractInv, report.valid, payload.valid,
                    NEW r \in Elements(terminal_records(answer)), NEW e \in EntriesOf(payload, r.ticker),
                    r.score.excerpt # NoSpan
             PROVE  /\ 0 <= r.score.excerpt[1] /\ r.score.excerpt[1] < r.score.excerpt[2]
                    /\ r.score.excerpt[2] <= e.text
                    /\ Positioned(r.score) => r.score.excerpt[1] = r.score.start /\ r.score.excerpt[2] <= r.score.end
                    /\ Positioned(r.score) /\ r.score.excerpt[2] < r.score.end => r.score.truncated
  BY DEF EvidenceIsInText
<1>0. ReportInv /\ answer \in DaybreakOutput BY DEF ContractInv
<1>1. EvidenceHolds(payload, answer) BY <1>0, AcceptedIs DEF ChecksPass
<1>2. EvidenceIndexed(e, r.score) BY <1>1 DEF EvidenceHolds
<1>3. r \in Record BY <1>0, OutputIs
<1>4. r.score \in Score BY <1>3, RecordFields
<1>5. e \in TickerInput
  <2>1. payload \in DaybreakInput BY <1>0, PayloadIs
  <2>2. PICK i \in DOMAIN payload.tickers : e = payload.tickers[i] BY <2>1, EntriesAre
  <2> QED BY <2>1, <2>2, TickersAre
<1> QED BY <1>2, <1>4, <1>5, EvidenceIs


-----------------------------------------------------------------------------
(* Every ticker has its one record.                                        *)

DistinctList(s) == \A i, j \in DOMAIN s : s[i].ticker = s[j].ticker => i = j

LEMMA ListsApart ==
  ASSUME NEW s \in Seq(Record), NEW t \in Seq(Record), DistinctList(s \o t)
  PROVE  /\ DistinctList(s) /\ DistinctList(t) /\ Tickers(s) \cap Tickers(t) = {}
<1> PICK h, m, n : h = s \o t /\ m = Len(s) /\ n = Len(t) OBVIOUS
<1>1. DOMAIN s = 1 .. m /\ DOMAIN t = 1 .. n /\ m \in Nat /\ n \in Nat OBVIOUS
<1>2. DOMAIN h = 1 .. m + n /\ \A k \in 1 .. m + n : h[k] = IF k =< m THEN s[k] ELSE t[k - m]
  BY Chained, AsFunction
<1>3. \A i \in DOMAIN s : i \in DOMAIN h /\ h[i] = s[i] BY <1>1, <1>2
<1>4. ASSUME NEW j \in DOMAIN t PROVE j + m \in DOMAIN h /\ h[j + m] = t[j]
  <2> PICK k : k = j + m OBVIOUS
  <2>1. k \in 1 .. m + n /\ ~ (k =< m) /\ k - m = j BY <1>1
  <2>2. h[k] = t[k - m] BY <1>2, <2>1
  <2> QED BY <1>2, <2>1, <2>2
<1>5. \A i, j \in DOMAIN h : h[i].ticker = h[j].ticker => i = j BY DEF DistinctList
<1>6. DistinctList(s) BY <1>3, <1>5 DEF DistinctList
<1>7. DistinctList(t)
  <2> SUFFICES ASSUME NEW i \in DOMAIN t, NEW j \in DOMAIN t, t[i].ticker = t[j].ticker PROVE i = j
    BY DEF DistinctList
  <2>1. h[i + m].ticker = h[j + m].ticker BY <1>4
  <2>2. i + m = j + m BY <1>4, <1>5, <2>1
  <2> QED BY <1>1, <2>2
<1>8. ASSUME NEW i \in DOMAIN s, NEW j \in DOMAIN t, s[i].ticker = t[j].ticker PROVE FALSE
  <2>1. h[i].ticker = h[j + m].ticker BY <1>3, <1>4, <1>8
  <2>2. i = j + m BY <1>3, <1>4, <1>5, <2>1
  <2> QED BY <1>1, <2>2
<1> QED BY <1>6, <1>7, <1>8 DEF Tickers

LEMMA TickersJoined ==
  ASSUME NEW s \in Seq(Record), NEW t \in Seq(Record)
  PROVE  Tickers(s \o t) = Tickers(s) \union Tickers(t)
<1>1. \A u : Tickers(u) = {r.ticker : r \in Elements(u)} BY DEF Tickers, Elements
<1>2. Elements(s \o t) = Elements(s) \union Elements(t) BY ElementsJoined
<1> QED BY <1>1, <1>2

LEMMA ArraysApart ==
  ASSUME NEW out \in DaybreakOutput, TerminalExclusive(out)
  PROVE  /\ DistinctList(terminal_records(out)) /\ DistinctList(passing_records(out))
         /\ DistinctList(out.approved) /\ DistinctList(out.qualified) /\ DistinctList(out.excluded)
         /\ Tickers(out.approved) \cap Tickers(out.qualified) = {}
         /\ Tickers(passing_records(out)) \cap Tickers(out.excluded) = {}
         /\ Tickers(passing_records(out)) = Tickers(out.approved) \union Tickers(out.qualified)
         /\ Tickers(terminal_records(out)) = Tickers(passing_records(out)) \union Tickers(out.excluded)
<1> PICK a, q, x, s, h : /\ a = out.approved /\ q = out.qualified /\ x = out.excluded
                         /\ s = passing_records(out) /\ h = terminal_records(out)
  OBVIOUS
<1>1. /\ a \in Seq(Record) /\ q \in Seq(Record) /\ x \in Seq(Record) /\ s \in Seq(Record)
      /\ s = a \o q /\ h = s \o x
  BY OutputIs DEF passing_records
<1>2. DistinctList(h) BY DEF TerminalExclusive, DistinctList
<1>3. DistinctList(s) /\ DistinctList(x) /\ Tickers(s) \cap Tickers(x) = {} BY <1>1, <1>2, ListsApart, ZenonT(60)
<1>4. DistinctList(a) /\ DistinctList(q) /\ Tickers(a) \cap Tickers(q) = {} BY <1>1, <1>3, ListsApart
<1>5. Tickers(s) = Tickers(a) \union Tickers(q) /\ Tickers(h) = Tickers(s) \union Tickers(x)
  BY <1>1, TickersJoined, ZenonT(60)
<1> QED BY <1>2, <1>3, <1>4, <1>5

\* The last record of a ticker is the only one, and its category is that of its array.
LEMMA RecordOfIs ==
  ASSUME NEW out \in DaybreakOutput, TerminalExclusive(out)
  PROVE  /\ \A r \in Elements(terminal_records(out)) :
              RecordOf(out, r.ticker) = r /\ Terminal(out, r.ticker) # None
         /\ \A t \in Tickers(out.approved) : Terminal(out, t) = "approved"
         /\ \A t \in Tickers(out.qualified) : Terminal(out, t) = "qualified_not_selected"
         /\ \A t \in Tickers(out.excluded) : Terminal(out, t) = "excluded"
         /\ \A t : t \notin Tickers(terminal_records(out)) => Terminal(out, t) = None
<1> PICK a, q, x, s, h : /\ a = Tickers(out.approved) /\ q = Tickers(out.qualified)
                         /\ x = Tickers(out.excluded) /\ s = Tickers(passing_records(out))
                         /\ h = Tickers(terminal_records(out))
  OBVIOUS
<1>1. a \cap q = {} /\ s \cap x = {} /\ s = a \union q /\ h = s \union x BY ArraysApart
<1>2. Tickers(out.qualified \o out.excluded) = q \union x BY OutputIs, TickersJoined
<1>3. \A t \in a : Terminal(out, t) = "approved" BY <1>1, <1>2 DEF Terminal
<1>4. \A t \in q : Terminal(out, t) = "qualified_not_selected" BY <1>1 DEF Terminal
<1>5. \A t \in x : Terminal(out, t) = "excluded" BY <1>1 DEF Terminal
<1>6. \A t : t \notin h => Terminal(out, t) = None BY <1>1 DEF Terminal
<1>7. ASSUME NEW r \in Elements(terminal_records(out))
      PROVE  RecordOf(out, r.ticker) = r /\ Terminal(out, r.ticker) # None
  <2> PICK all : all = terminal_records(out) OBVIOUS
  <2>0. all \in Seq(Record) BY OutputIs
  <2>1. PICK k \in DOMAIN all : r = all[k] BY DEF Elements
  <2> PICK at : at = {i \in DOMAIN all : all[i].ticker = r.ticker} OBVIOUS
  <2>2. at = {k} BY <2>1 DEF TerminalExclusive
  <2>3. k =< k BY <2>0
  <2>4. (CHOOSE i \in at : \A j \in at : j <= i) = k BY <2>2, <2>3
  <2>5. RecordOf(out, r.ticker) = all[k] BY <2>4 DEF RecordOf
  <2>6. r.ticker \in h BY <2>1 DEF Tickers
  <2>7. Terminal(out, r.ticker) # None BY <1>1, <1>3, <1>4, <1>5, <2>6 DEF None
  <2> QED BY <2>1, <2>5, <2>7
<1> QED BY <1>3, <1>4, <1>5, <1>6, <1>7

\* What was checked of an accepted answer to a scored payload.
Checked(p, out) ==
  /\ p \in DaybreakInput /\ out \in DaybreakOutput /\ Scored(p)
  /\ Len(out.approved) <= 3
  /\ TerminalExclusive(out) /\ ExcludedFails(p, out) /\ PassingPasses(p, out)
  /\ PartitionExhaustive(p, out) /\ StatusPrecedence(p, out)
  /\ ScoresReplay(p, out) /\ ScoresConsistent(p, out) /\ RankSplit(out)

LEMMA AcceptedIsChecked ==
  ASSUME ContractInv, report.valid, Scored(payload)
  PROVE  Checked(payload, answer)
<1>1. ReportInv /\ answer \in DaybreakOutput BY DEF ContractInv
<1>2. ValidOutput(answer) /\ ChecksPass(payload, answer, metadata) BY <1>1, AcceptedIs
<1>3. payload \in DaybreakInput BY <1>1, PayloadIs
<1>4. Len(answer.approved) <= 3 BY <1>2 DEF ValidOutput, validate_status_shape
<1>5. payload.valid BY DEF Scored
<1> QED BY <1>1, <1>2, <1>3, <1>4, <1>5 DEF Checked, ChecksPass

LEMMA HasEntry ==
  ASSUME NEW p, NEW out, Checked(p, out), NEW r \in Elements(terminal_records(out))
  PROVE  \E i \in DOMAIN p.tickers : p.tickers[i].ticker = r.ticker
<1>1. p \in DaybreakInput /\ out \in DaybreakOutput /\ ExcludedFails(p, out) /\ PassingPasses(p, out)
  BY DEF Checked
<1>2. r \in Elements(passing_records(out)) \/ r \in Elements(out.excluded) BY <1>1, OutputIs
<1>3. PICK e \in EntriesOf(p, r.ticker) : TRUE BY <1>1, <1>2 DEF ExcludedFails, PassingPasses
<1> QED BY <1>1, <1>3, EntriesAre

LEMMA HasRecord ==
  ASSUME NEW p, NEW out, Checked(p, out)
  PROVE  /\ Len(terminal_records(out)) = Len(p.tickers)
         /\ \A i \in DOMAIN p.tickers : \E r \in Elements(terminal_records(out)) : r.ticker = p.tickers[i].ticker
<1> PICK all, N : all = terminal_records(out) /\ N = Len(p.tickers) OBVIOUS
<1>1. p \in DaybreakInput /\ out \in DaybreakOutput /\ Scored(p) BY DEF Checked
<1>2. out.status \in {"approved", "no_setups"}
  <2>1. p.market = "normal" /\ ~ (p.age > 180)
    <3>1. p.age \in Nat BY <1>1 DEF DaybreakInput
    <3> QED BY <1>1, <3>1 DEF Scored
  <2>2. StatusPrecedence(p, out) BY DEF Checked
  <2> QED BY <2>1, <2>2 DEF StatusPrecedence
<1>3. Len(all) = N BY <1>2 DEF Checked, PartitionExhaustive
<1>4. N \in Nat /\ DOMAIN p.tickers = 1 .. N BY <1>1, TickersAre
<1>5. DOMAIN all = 1 .. N BY <1>1, <1>3, OutputIs
<1>f. PICK f : f = [k \in 1 .. N |-> CHOOSE i \in 1 .. N : p.tickers[i].ticker = all[k].ticker] OBVIOUS
<1>6. \A k \in 1 .. N : f[k] \in 1 .. N /\ p.tickers[f[k]].ticker = all[k].ticker
  <2> TAKE k \in 1 .. N
  <2>1. all[k] \in Elements(terminal_records(out)) BY <1>5 DEF Elements
  <2>2. \E i \in 1 .. N : p.tickers[i].ticker = all[k].ticker BY <1>4, <2>1, HasEntry
  <2> QED BY <1>f, <2>2
<1>7. \A j, k \in 1 .. N : f[j] = f[k] => j = k
  <2>1. TerminalExclusive(out) BY DEF Checked
  <2>2. \A j, k \in 1 .. N : all[j].ticker = all[k].ticker => j = k BY <1>5, <2>1 DEF TerminalExclusive
  <2> TAKE j, k \in 1 .. N
  <2>3. p.tickers[f[j]].ticker = all[j].ticker /\ p.tickers[f[k]].ticker = all[k].ticker BY <1>6
  <2> QED BY <2>2, <2>3
<1>8. f \in Injection(1 .. N, 1 .. N)
  <2>1. f \in [1 .. N -> 1 .. N] BY <1>f, <1>6
  <2> QED BY <1>7, <2>1 DEF Injection, IsInjective
<1>9. IsFiniteSet(1 .. N) /\ Cardinality(1 .. N) = N BY <1>4, Interval
<1>10. f \in Surjection(1 .. N, 1 .. N) BY <1>8, <1>9, FS_Injection
<1>11. ASSUME NEW i \in DOMAIN p.tickers
       PROVE  \E r \in Elements(terminal_records(out)) : r.ticker = p.tickers[i].ticker
  <2>1. PICK k \in 1 .. N : f[k] = i BY <1>4, <1>10 DEF Surjection
  <2>2. all[k] \in Elements(terminal_records(out)) BY <1>5 DEF Elements
  <2>3. all[k].ticker = p.tickers[i].ticker
    <3>1. p.tickers[f[k]].ticker = all[k].ticker BY <1>6
    <3> QED BY <2>1, <3>1
  <2> QED BY <2>2, <2>3
<1> QED BY <1>3, <1>11


-----------------------------------------------------------------------------
(* The truth of the judged payload.                                        *)

\* e, judged as r has it.
AsJudged(e, r) == [e EXCEPT !.bucket = r.score.bucket, !.rankAge = r.age]

JudgedBy(p, out, J) ==
  /\ J \in DaybreakInput /\ Scored(J) /\ J.valid = p.valid /\ J.freshness = p.freshness
  /\ J.echo = p.echo
  /\ DOMAIN J.tickers = DOMAIN p.tickers /\ Len(J.tickers) = Len(p.tickers)
  /\ \A i \in DOMAIN p.tickers : \A r \in Elements(terminal_records(out)) :
       r.ticker = p.tickers[i].ticker => J.tickers[i] = AsJudged(p.tickers[i], r)

LEMMA JudgedIs ==
  ASSUME NEW p, NEW out, Checked(p, out)
  PROVE  JudgedBy(p, out, Judged(p, out, TRUE))
<1>J. PICK J : J = Judged(p, out, TRUE) OBVIOUS
<1>1. p \in DaybreakInput /\ out \in DaybreakOutput /\ Scored(p) /\ TerminalExclusive(out) BY DEF Checked
<1> PICK D, N : D = DOMAIN p.tickers /\ N = Len(p.tickers) OBVIOUS
<1>2. D = 1 .. N /\ N \in Nat BY <1>1, TickersAre
<1>f. PICK f : f = [i \in D |->
                 IF Terminal(out, p.tickers[i].ticker) = None THEN p.tickers[i]
                 ELSE [p.tickers[i] EXCEPT !.bucket = RecordOf(out, p.tickers[i].ticker).score.bucket,
                                           !.rankAge = RecordOf(out, p.tickers[i].ticker).age]]
  OBVIOUS
<1>3. J = [p EXCEPT !.tickers = f] BY <1>J, <1>f DEF Judged
<1>4. ASSUME NEW i \in D, NEW r \in Elements(terminal_records(out)), r.ticker = p.tickers[i].ticker
      PROVE  f[i] = AsJudged(p.tickers[i], r)
  <2>1. RecordOf(out, p.tickers[i].ticker) = r /\ Terminal(out, p.tickers[i].ticker) # None
    BY <1>1, <1>4, RecordOfIs
  <2> QED BY <1>f, <2>1 DEF AsJudged
<1>5. ASSUME NEW i \in D PROVE f[i] \in TickerInput /\ f[i].ticker = p.tickers[i].ticker
  <2>1. PICK r \in Elements(terminal_records(out)) : r.ticker = p.tickers[i].ticker BY HasRecord
  <2>2. r \in Record BY <1>1, OutputIs
  <2>3. r.score.bucket \in Bucket /\ r.age \in Nat BY <2>2 DEF Record, Score
  <2>4. p.tickers[i] \in TickerInput BY <1>1, TickersAre
  <2> PICK b, a, e : b = r.score.bucket /\ a = r.age /\ e = p.tickers[i] OBVIOUS
  <2>5. [e EXCEPT !.bucket = b, !.rankAge = a] \in TickerInput
        /\ [e EXCEPT !.bucket = b, !.rankAge = a].ticker = e.ticker
    BY <2>3, <2>4 DEF TickerInput
  <2>6. f[i] = [e EXCEPT !.bucket = b, !.rankAge = a] BY <1>4, <2>1 DEF AsJudged
  <2> QED BY <2>5, <2>6
<1>6. f \in [1 .. N -> TickerInput] BY <1>2, <1>5, <1>f
<1>7. f \in Seq(TickerInput) /\ Len(f) = N BY <1>2, <1>6, FunctionIsList
<1>8. \A i, j \in DOMAIN f : f[i].ticker = f[j].ticker => i = j
  <2> TAKE i, j \in DOMAIN f
  <2>1. i \in D /\ j \in D BY <1>f
  <2>2. f[i].ticker = p.tickers[i].ticker /\ f[j].ticker = p.tickers[j].ticker BY <1>5, <2>1
  <2>3. p.tickers[i].ticker = p.tickers[j].ticker => i = j BY <1>1, <2>1, TickersAre
  <2> QED BY <2>2, <2>3
<1>9. J.tickers = f /\ J.valid = p.valid /\ J.freshness = p.freshness /\ J.echo = p.echo
      /\ J.market = p.market /\ J.age = p.age
  BY <1>1, <1>3 DEF DaybreakInput
<1>10. J \in DaybreakInput BY <1>1, <1>3, <1>7, <1>8 DEF DaybreakInput
<1>11. Scored(J) BY <1>1, <1>9 DEF Scored
<1>12. DOMAIN f = D BY <1>f
<1>13. JudgedBy(p, out, J) BY <1>4, <1>7, <1>9, <1>10, <1>11, <1>12 DEF JudgedBy
<1> QED BY <1>J, <1>13

\* The scores, flags and reasons do not depend on the ages of the ranking, nor the reasons
\* and flags on the bucket.
Freely(p, J, e, b, a, d) ==
  /\ d \in TickerInput /\ d.ticker = e.ticker /\ d.bucket = b /\ d.rankAge = a
  /\ expected_risk_flags(d) = expected_risk_flags(e)
  /\ \A raw : expected_failed_gates(d, raw) = expected_failed_gates(e, raw)
  /\ expected_score_fields(J, d, b) = expected_score_fields(p, e, b)

LEMMA JudgementIsFree ==
  ASSUME NEW p, NEW J, J.freshness = p.freshness, NEW e \in TickerInput, NEW b \in Bucket, NEW a \in Nat
  PROVE  Freely(p, J, e, b, a, [e EXCEPT !.bucket = b, !.rankAge = a])
<1>d. PICK d : d = [e EXCEPT !.bucket = b, !.rankAge = a] OBVIOUS
<1>1. d \in TickerInput BY <1>d DEF TickerInput
<1>2. /\ d.ticker = e.ticker /\ d.bucket = b /\ d.rankAge = a /\ d.halted = e.halted
      /\ d.source = e.source /\ d.corroborated = e.corroborated /\ d.disqualified = e.disqualified
      /\ d.age = e.age /\ d.text = e.text /\ d.gap = e.gap /\ d.volume = e.volume /\ d.rvol = e.rvol
      /\ d.float = e.float /\ d.profile = e.profile /\ d.borrow = e.borrow /\ d.distance = e.distance
      /\ d.vwap = e.vwap /\ d.chart = e.chart
  BY <1>d DEF TickerInput
<1>t. expected_technical(d) = expected_technical(e) BY <1>2 DEF expected_technical
<1>3. expected_risk_flags(d) = expected_risk_flags(e) BY <1>2, <1>t, Zenon DEF expected_risk_flags
<1>4. ASSUME NEW raw PROVE expected_failed_gates(d, raw) = expected_failed_gates(e, raw)
  <2>1. /\ d.halted = e.halted /\ d.corroborated = e.corroborated /\ d.gap = e.gap /\ d.volume = e.volume
        /\ d.rvol = e.rvol /\ d.distance = e.distance /\ d.chart = e.chart
    BY <1>2
  <2> QED BY <2>1, ZenonT(200) DEF expected_failed_gates
<1>5. expected_zero_reason(J, d, b) = expected_zero_reason(p, e, b) BY <1>2 DEF expected_zero_reason
<1>6. expected_source_quality(d) = expected_source_quality(e) BY <1>2 DEF expected_source_quality
<1>7. expected_volume_points(d) = expected_volume_points(e) BY <1>2 DEF expected_volume_points
<1>8. expected_score_fields(J, d, b) = expected_score_fields(p, e, b)
  BY <1>t, <1>5, <1>6, <1>7, Zenon DEF expected_score_fields
<1>9. Freely(p, J, e, b, a, d) BY <1>1, <1>2, <1>3, <1>4, <1>8 DEF Freely
<1> QED BY <1>d, <1>9

LEMMA OneEntry ==
  ASSUME NEW p \in DaybreakInput, NEW i \in DOMAIN p.tickers
  PROVE  EntriesOf(p, p.tickers[i].ticker) = {p.tickers[i]}
<1>1. ASSUME NEW e PROVE e \in EntriesOf(p, p.tickers[i].ticker) <=> e = p.tickers[i]
  <2>1. e \in EntriesOf(p, p.tickers[i].ticker) <=>
          \E j \in DOMAIN p.tickers : e = p.tickers[j] /\ e.ticker = p.tickers[i].ticker
    BY EntriesAre
  <2>2. \A j \in DOMAIN p.tickers : p.tickers[j].ticker = p.tickers[i].ticker => j = i BY TickersAre
  <2> QED BY <2>1, <2>2
<1> QED BY <1>1

\* t says of its ticker what r says.
Twin(r, t) ==
  /\ Content(t) = Content(r) /\ t.ticker = r.ticker /\ t.age = r.age
  /\ t.score.raw = r.score.raw /\ t.score.volume = r.score.volume
  /\ t.score.technical = r.score.technical

LEMMA FieldsEqual ==
  ASSUME NEW f \in Fields
  PROVE  f = [source |-> f.source, magnitude |-> f.magnitude, override |-> f.override, zero |-> f.zero,
              raw |-> f.raw, catalyst |-> f.catalyst, volume |-> f.volume, grade |-> f.grade,
              base |-> f.base, technical |-> f.technical, adjusted |-> f.adjusted]
  BY DEF Fields

\* The scores of a true record are the replayed ones.
ScoredAs(s, b, f) ==
  Reported(s) = f /\ s.bucket = b /\ s.purpose = expected_evidence_purpose(f.zero)

LEMMA TrueScoreIs ==
  ASSUME NEW b, NEW f \in Fields, NEW full
  PROVE  ScoredAs(TrueScore(b, f, full), b, f)
<1> PICK u, v, w, x, y : /\ u = expected_evidence_purpose(f.zero) /\ v = FirstOf(full)
                         /\ w = (FirstOf(full) # full)
                         /\ x = (IF full = NoSpan THEN NoPosition ELSE full[1])
                         /\ y = (IF full = NoSpan THEN NoPosition ELSE full[2])
  OBVIOUS
<1>1. PICK c : c = [source |-> f.source, bucket |-> b, magnitude |-> f.magnitude,
                    override |-> f.override, zero |-> f.zero, raw |-> f.raw,
                    catalyst |-> f.catalyst, volume |-> f.volume, grade |-> f.grade,
                    base |-> f.base, technical |-> f.technical, adjusted |-> f.adjusted,
                    purpose |-> u, excerpt |-> v, truncated |-> w, start |-> x, end |-> y]
  OBVIOUS
<1>2. TrueScore(b, f, full) = c BY <1>1, Zenon DEF TrueScore
<1>3. /\ c.source = f.source /\ c.magnitude = f.magnitude /\ c.override = f.override
      /\ c.zero = f.zero /\ c.raw = f.raw /\ c.catalyst = f.catalyst /\ c.volume = f.volume
      /\ c.grade = f.grade /\ c.base = f.base /\ c.technical = f.technical
      /\ c.adjusted = f.adjusted /\ c.bucket = b /\ c.purpose = expected_evidence_purpose(f.zero)
  BY <1>1
<1>4. Reported(c) = f
  <2>1. f = [source |-> f.source, magnitude |-> f.magnitude, override |-> f.override, zero |-> f.zero,
             raw |-> f.raw, catalyst |-> f.catalyst, volume |-> f.volume, grade |-> f.grade,
             base |-> f.base, technical |-> f.technical, adjusted |-> f.adjusted]
    BY FieldsEqual
  <2> QED BY <1>3, <2>1, Zenon DEF Reported
<1>5. ScoredAs(c, b, f) BY <1>3, <1>4 DEF ScoredAs
<1> QED BY <1>2, <1>5

\* So are those of a checked answer.
LEMMA SaidScoreIs ==
  ASSUME NEW p, NEW out, Checked(p, out), NEW r \in Elements(terminal_records(out)),
         NEW i \in DOMAIN p.tickers, p.tickers[i].ticker = r.ticker
  PROVE  /\ ScoredAs(r.score, r.score.bucket, expected_score_fields(p, p.tickers[i], r.score.bucket))
         /\ r.flags = expected_risk_flags(p.tickers[i])
<1>1. p \in DaybreakInput /\ ScoresReplay(p, out) /\ ScoresConsistent(p, out) BY DEF Checked
<1>e. PICK e, s, f : e = p.tickers[i] /\ s = r.score /\ f = expected_score_fields(p, e, s.bucket) OBVIOUS
<1>2. EntriesOf(p, r.ticker) = {e} BY <1>1, <1>e, OneEntry
<1>3. Reported(s) = f /\ r.flags = expected_risk_flags(e) BY <1>1, <1>2, <1>e DEF ScoresReplay
<1>4. PurposeMatches(s) BY <1>1, <1>e DEF ScoresConsistent
<1>5. s.zero = f.zero BY <1>3 DEF Reported
<1>6. s.purpose = expected_evidence_purpose(f.zero) BY <1>4, <1>5 DEF PurposeMatches
<1>7. ScoredAs(s, s.bucket, f) BY <1>3, <1>6 DEF ScoredAs
<1> QED BY <1>3, <1>7, <1>e

LEMMA SameContents ==
  ASSUME NEW r, NEW t, NEW b, NEW f, ScoredAs(r.score, b, f), ScoredAs(t.score, b, f),
         t.ticker = r.ticker, t.flags = r.flags
  PROVE  Content(t) = Content(r)
<1>1. /\ Reported(t.score) = Reported(r.score) /\ t.score.bucket = r.score.bucket
      /\ t.score.purpose = r.score.purpose
  BY DEF ScoredAs
<1> QED BY <1>1, Zenon DEF Content

\* t is the true record that goes with r.
TrueTwin(out, J, r, t) ==
  /\ t \in TrueRecords(J) /\ t \in Record /\ Twin(r, t)
  /\ r \in Elements(passing_records(out)) => t.reasons = <<>> /\ t.conviction = r.conviction
  /\ r \in Elements(out.excluded) => t.reasons = r.reasons /\ t.reasons # <<>>

LEMMA TwinIs ==
  ASSUME NEW p, NEW out, Checked(p, out), NEW J, JudgedBy(p, out, J),
         NEW r \in Elements(terminal_records(out)), NEW i \in DOMAIN p.tickers,
         p.tickers[i].ticker = r.ticker
  PROVE  TrueTwin(out, J, r, TrueRecord(J, J.tickers[i]))
<1>t. PICK t : t = TrueRecord(J, J.tickers[i]) OBVIOUS
<1>1. /\ p \in DaybreakInput /\ out \in DaybreakOutput /\ ExcludedFails(p, out) /\ PassingPasses(p, out)
      /\ ScoresReplay(p, out) /\ ScoresConsistent(p, out)
  BY DEF Checked
<1>2. r \in Record BY <1>1, OutputIs
<1>3. J \in DaybreakInput /\ J.freshness = p.freshness /\ i \in DOMAIN J.tickers
      /\ J.tickers[i] = AsJudged(p.tickers[i], r)
  BY DEF JudgedBy
<1>e. PICK e, d, b, a, s : /\ e = p.tickers[i] /\ d = J.tickers[i] /\ b = r.score.bucket /\ a = r.age
                           /\ s = r.score
  OBVIOUS
<1>4. e \in TickerInput BY <1>1, <1>e, TickersAre
<1>5. b \in Bucket /\ a \in Nat /\ s \in Score BY <1>2, <1>e DEF Record, Score
<1>6. d = [e EXCEPT !.bucket = b, !.rankAge = a] BY <1>3, <1>e DEF AsJudged
<1>7. /\ d \in TickerInput /\ d.ticker = e.ticker /\ d.bucket = b /\ d.rankAge = a
      /\ expected_risk_flags(d) = expected_risk_flags(e)
      /\ \A raw : expected_failed_gates(d, raw) = expected_failed_gates(e, raw)
      /\ expected_score_fields(J, d, b) = expected_score_fields(p, e, b)
  <2>1. Freely(p, J, e, b, a, [e EXCEPT !.bucket = b, !.rankAge = a])
    BY <1>3, <1>4, <1>5, JudgementIsFree
  <2>2. Freely(p, J, e, b, a, d) BY <1>6, <2>1
  <2> QED BY <2>2 DEF Freely
<1>8. PICK f : f = expected_score_fields(J, d, b) OBVIOUS
<1>9. f \in Fields BY <1>5, <1>7, <1>8, FieldsAre
<1>10. EntriesOf(p, r.ticker) = {e} BY <1>1, <1>e, OneEntry
<1>11. ScoredAs(s, b, f) /\ r.flags = expected_risk_flags(e)
  BY <1>7, <1>8, <1>e, SaidScoreIs
<1>12. t \in Record /\ TrueOf(J, d, t) BY <1>3, <1>7, <1>e, <1>t, TrueRecordIs
<1>13. /\ t.ticker = e.ticker /\ t.flags = expected_risk_flags(e)
       /\ t.score = TrueScore(b, f, IF f.zero = "no_valid_driver" THEN NoSpan ELSE d.evidence)
       /\ t.conviction = f.catalyst + f.volume + f.technical /\ t.age = a
       /\ t.reasons = expected_failed_gates(e, f.raw)
  BY <1>7, <1>8, <1>12 DEF TrueOf
<1>14. ScoredAs(t.score, b, f) BY <1>9, <1>13, TrueScoreIs
<1>15. /\ s.raw = f.raw /\ s.catalyst = f.catalyst /\ s.volume = f.volume /\ s.technical = f.technical
       /\ t.score.raw = f.raw /\ t.score.volume = f.volume /\ t.score.technical = f.technical
  <2>1. Reported(s) = f /\ Reported(t.score) = f BY <1>11, <1>14 DEF ScoredAs
  <2> QED BY <2>1 DEF Reported
<1>18. Content(t) = Content(r) BY <1>11, <1>13, <1>14, <1>e, SameContents
<1>19. Twin(r, t) BY <1>13, <1>15, <1>18, <1>e DEF Twin
<1>20. t \in TrueRecords(J) BY <1>3, <1>t DEF TrueRecords, Elements
<1>21. ASSUME r \in Elements(passing_records(out)) PROVE t.reasons = <<>> /\ t.conviction = r.conviction
  <2>1. expected_failed_gates(e, s.raw) = <<>> BY <1>1, <1>10, <1>21, <1>e DEF PassingPasses
  <2>2. r.conviction = s.catalyst + s.volume + s.technical BY <1>1, <1>10, <1>21, <1>e DEF ScoresReplay
  <2> QED BY <1>13, <1>15, <2>1, <2>2
<1>22. ASSUME r \in Elements(out.excluded) PROVE t.reasons = r.reasons /\ t.reasons # <<>>
  <2>1. expected_failed_gates(e, s.raw) # <<>> /\ r.reasons = expected_failed_gates(e, s.raw)
    BY <1>1, <1>10, <1>22, <1>e DEF ExcludedFails
  <2> QED BY <1>13, <1>15, <2>1
<1>23. TrueTwin(out, J, r, t) BY <1>12, <1>19, <1>20, <1>21, <1>22 DEF TrueTwin
<1> QED BY <1>t, <1>23

PassingTwin(r, t)  == Twin(r, t) /\ t.conviction = r.conviction
ExcludedTwin(r, t) == Twin(r, t) /\ t.reasons = r.reasons

\* The records of an accepted answer and the true ones go together, category by category.
Paired(out, P, F) ==
  /\ \A r \in Elements(passing_records(out)) : \E t \in P : PassingTwin(r, t)
  /\ \A t \in P : \E r \in Elements(passing_records(out)) : PassingTwin(r, t)
  /\ \A r \in Elements(out.excluded) : \E t \in F : ExcludedTwin(r, t)
  /\ \A t \in F : \E r \in Elements(out.excluded) : ExcludedTwin(r, t)

LEMMA PairedAre ==
  ASSUME NEW p, NEW out, Checked(p, out), NEW J, JudgedBy(p, out, J)
  PROVE  Paired(out, Passing(TrueRecords(J)), Failed(TrueRecords(J)))
<1>1. out \in DaybreakOutput BY DEF Checked
<1>2. Elements(terminal_records(out)) = Elements(passing_records(out)) \union Elements(out.excluded)
  BY <1>1, OutputIs
<1>3. ASSUME NEW r \in Elements(terminal_records(out))
      PROVE  \E t \in TrueRecords(J) :
               /\ r \in Elements(passing_records(out)) => t \in Passing(TrueRecords(J)) /\ PassingTwin(r, t)
               /\ r \in Elements(out.excluded) => t \in Failed(TrueRecords(J)) /\ ExcludedTwin(r, t)
  <2>1. PICK i \in DOMAIN p.tickers : p.tickers[i].ticker = r.ticker BY HasEntry
  <2>2. PICK t : TrueTwin(out, J, r, t) BY <2>1, TwinIs
  <2> QED BY <2>2 DEF TrueTwin, Passing, Failed, PassingTwin, ExcludedTwin
<1>4. ASSUME NEW t \in TrueRecords(J)
      PROVE  \E r \in Elements(terminal_records(out)) :
               /\ r \in Elements(passing_records(out)) => t.reasons = <<>> /\ PassingTwin(r, t)
               /\ r \in Elements(out.excluded) => t.reasons # <<>> /\ ExcludedTwin(r, t)
  <2>0. J \in DaybreakInput /\ DOMAIN J.tickers = DOMAIN p.tickers BY DEF JudgedBy
  <2>1. PICK i \in DOMAIN J.tickers : t = TrueRecord(J, J.tickers[i]) BY <2>0, TrueRecordsAre
  <2>2. PICK r \in Elements(terminal_records(out)) : p.tickers[i].ticker = r.ticker BY <2>0, HasRecord
  <2>3. TrueTwin(out, J, r, t)
    <3>1. TrueTwin(out, J, r, TrueRecord(J, J.tickers[i])) BY <2>0, <2>2, TwinIs
    <3> QED BY <2>1, <3>1
  <2> QED BY <2>2, <2>3 DEF TrueTwin, PassingTwin, ExcludedTwin
<1>5. ASSUME NEW t \in Passing(TrueRecords(J))
      PROVE  \E r \in Elements(passing_records(out)) : PassingTwin(r, t)
  <2>1. t \in TrueRecords(J) /\ t.reasons = <<>> BY DEF Passing
  <2> QED BY <1>2, <1>4, <2>1
<1>6. ASSUME NEW t \in Failed(TrueRecords(J))
      PROVE  \E r \in Elements(out.excluded) : ExcludedTwin(r, t)
  <2>1. t \in TrueRecords(J) /\ t.reasons # <<>> BY DEF Failed
  <2> QED BY <1>2, <1>4, <2>1
<1> QED BY <1>2, <1>3, <1>5, <1>6 DEF Paired


-----------------------------------------------------------------------------
(* Accepted answers have the content of the true ones.                     *)

Truth(J, true) ==
  IsPartition(true, J, TrueRanking(Passing(TrueRecords(J))),
              Best(Cardinality(Passing(TrueRecords(J)))), Failed(TrueRecords(J)))

LEMMA TruthIs ==
  ASSUME NEW J \in DaybreakInput, Scored(J)
  PROVE  /\ Truth(J, TrueAnswer(J))
         /\ Distinct(Passing(TrueRecords(J))) /\ Distinct(Failed(TrueRecords(J)))
<1>1. Distinct(TrueRecords(J)) BY TrueRecordsAre
<1>2. J.market = "normal" /\ J.valid /\ ~ (J.age > 180)
  <2>1. J.age \in Nat BY DEF DaybreakInput
  <2> QED BY <2>1 DEF Scored
<1>3. TrueAnswer(J) = Answered(J, TrueRecords(J)) BY <1>2 DEF TrueAnswer, TrueRecords
<1> QED BY <1>1, <1>3, AnsweredIs DEF Truth

\* What a record says that does not depend on its array.
Bare(r) == <<Content(r), r.conviction>>

LEMMA BareIs ==
  /\ \A s : ContentOf(s) = {Bare(r) : r \in Elements(s)}
  /\ \A r \in Record : \A n \in Nat : Bare(WithRank(r, n)) = Bare(r) /\ Content(WithRank(r, n)) = Content(r)
<1>1. ASSUME NEW s PROVE ContentOf(s) = {Bare(r) : r \in Elements(s)}
  BY DEF ContentOf, Bare, Elements
<1>2. ASSUME NEW r \in Record, NEW n \in Nat
      PROVE  Bare(WithRank(r, n)) = Bare(r) /\ Content(WithRank(r, n)) = Content(r)
  <2>1. /\ WithRank(r, n).ticker = r.ticker /\ WithRank(r, n).score = r.score
        /\ WithRank(r, n).flags = r.flags /\ WithRank(r, n).conviction = r.conviction
    BY WithRankIs
  <2>2. Content(WithRank(r, n)) = Content(r) BY <2>1, Zenon DEF Content
  <2> QED BY <2>1, <2>2 DEF Bare
<1> QED BY <1>1, <1>2

\* The passing records of a partition are its ranking.
LEMMA PassingInOrder ==
  ASSUME NEW a, NEW p, NEW ranking \in Seq(Record), NEW best \in 0 .. Len(ranking), NEW failing,
         IsPartition(a, p, ranking, best, failing)
  PROVE  /\ Len(passing_records(a)) = Len(ranking) /\ DOMAIN passing_records(a) = 1 .. Len(ranking)
         /\ \A n \in 1 .. Len(ranking) :
              passing_records(a)[n] = IF n =< best THEN ranking[n] ELSE WithRank(ranking[n], n)
<1>A. PICK A, Q : A = a.approved /\ Q = a.qualified OBVIOUS
<1>N. PICK N, k : N = Len(ranking) /\ k = N - best OBVIOUS
<1>h. PICK h : h = A \o Q OBVIOUS
<1>1. N \in Nat /\ k \in Nat /\ best \in Nat /\ best + k = N BY <1>N
<1>2. A \in Seq(Record) /\ Q \in Seq(Record) BY <1>A DEF IsPartition, DaybreakOutput
<1>3. Len(A) = best /\ Len(Q) = k /\ (\A n \in 1 .. best : A[n] = ranking[n])
      /\ \A n \in 1 .. k : Q[n] = WithRank(ranking[best + n], best + n)
  BY <1>A, <1>N DEF IsPartition
<1>4. h \in Seq(Record) /\ Len(h) = N /\ \A n \in 1 .. N : h[n] = IF n =< best THEN A[n] ELSE Q[n - best]
  <2>1. /\ A \o Q \in Seq(Record) /\ Len(A \o Q) = best + k
        /\ \A n \in 1 .. best + k : (A \o Q)[n] = IF n =< best THEN A[n] ELSE Q[n - best]
    BY <1>2, <1>3, Chained, SMTT(30)
  <2> QED BY <1>1, <1>h, <2>1
<1>5. ASSUME NEW n \in 1 .. N
      PROVE  h[n] = IF n =< best THEN ranking[n] ELSE WithRank(ranking[n], n)
  <2>1. CASE n =< best
    <3>1. n \in 1 .. best BY <1>1, <2>1
    <3>2. h[n] = A[n] BY <1>4, <2>1
    <3> QED BY <1>3, <2>1, <3>1, <3>2
  <2>2. CASE ~ (n =< best)
    <3> PICK m : m = n - best OBVIOUS
    <3>1. m \in 1 .. k /\ best + m = n BY <1>1, <2>2
    <3>2. Q[m] = WithRank(ranking[best + m], best + m) BY <1>3, <3>1
    <3>3. h[n] = Q[m] BY <1>4, <2>2
    <3> QED BY <2>2, <3>1, <3>2, <3>3
  <2> QED BY <2>1, <2>2
<1>6. passing_records(a) = h BY <1>A, <1>h DEF passing_records
<1>7. DOMAIN h = 1 .. N BY <1>1, <1>4
<1> QED BY <1>1, <1>4, <1>5, <1>6, <1>7, <1>N

LEMMA PartitionHolds ==
  ASSUME NEW a, NEW p, NEW ranking \in Seq(Record), NEW best \in 0 .. Len(ranking),
         NEW failing, Distinct(failing), IsPartition(a, p, ranking, best, failing)
  PROVE  /\ ContentOf(passing_records(a)) = {Bare(r) : r \in Elements(ranking)}
         /\ Elements(a.excluded) = failing
         /\ Len(terminal_records(a)) = Len(ranking) + Cardinality(failing)
<1>0. a \in DaybreakOutput /\ a.excluded = InTickerOrder(failing) BY DEF IsPartition
<1>N. PICK N, h : N = Len(ranking) /\ h = passing_records(a) OBVIOUS
<1>1. /\ Len(h) = N /\ DOMAIN h = 1 .. N
      /\ \A n \in 1 .. N : h[n] = IF n =< best THEN ranking[n] ELSE WithRank(ranking[n], n)
  BY <1>N, PassingInOrder
<1>2. \A n \in 1 .. N : Bare(h[n]) = Bare(ranking[n])
  <2> TAKE n \in 1 .. N
  <2>1. ranking[n] \in Record /\ n \in Nat BY <1>N
  <2> QED BY <1>1, <2>1, BareIs
<1>3. DOMAIN ranking = 1 .. N BY <1>N
<1>4. {Bare(h[n]) : n \in 1 .. N} = {Bare(ranking[n]) : n \in 1 .. N} BY <1>2
<1>5. ContentOf(h) = {Bare(h[n]) : n \in 1 .. N} BY <1>1 DEF ContentOf, Bare
<1>6. {Bare(r) : r \in Elements(ranking)} = {Bare(ranking[n]) : n \in 1 .. N} BY <1>3 DEF Elements
<1>7. /\ Cardinality(failing) \in Nat
      /\ InTickerOrder(failing) \in Seq(failing) /\ Len(InTickerOrder(failing)) = Cardinality(failing)
      /\ \A r \in failing : \E n \in 1 .. Cardinality(failing) : InTickerOrder(failing)[n] = r
  BY InTickerOrderIs
<1>8. Elements(a.excluded) = failing BY <1>0, <1>7 DEF Elements
<1>9. Len(terminal_records(a)) = N + Cardinality(failing)
  <2>x. PICK x : x = a.excluded OBVIOUS
  <2>1. x \in Seq(Record) /\ Len(x) = Cardinality(failing) BY <1>0, <1>7, <2>x, OutputIs
  <2>2. h \in Seq(Record) BY <1>0, <1>N, OutputIs
  <2>3. terminal_records(a) = h \o x BY <1>0, <1>N, <2>x, OutputIs
  <2>4. Len(h \o x) = Len(h) + Len(x)
    <3>1. h \o x \in Seq(Record) /\ Len(h \o x) = N + Len(x) BY <1>1, <2>1, <2>2, Chained
    <3> QED BY <1>1, <3>1
  <2> QED BY <1>1, <2>1, <2>3, <2>4
<1> QED BY <1>4, <1>5, <1>6, <1>8, <1>9, <1>N


LEMMA ApprovedIfPassing ==
  ASSUME NEW out \in DaybreakOutput, RankSplit(out)
  PROVE  out.approved # <<>> <=> Elements(passing_records(out)) # {}
<1>h. PICK h, order : h = passing_records(out) /\ order = expected_passing_order(out) OBVIOUS
<1>1. h \in Seq(Record) /\ out.approved \in Seq(Record) BY <1>h, OutputIs
<1>2. [i \in DOMAIN h |-> h[i].ticker] = order
      /\ \A i \in DOMAIN order : i <= 3 => order[i] \in Tickers(out.approved)
  BY <1>h DEF RankSplit
<1>3. DOMAIN order = DOMAIN h BY <1>2
<1>4. ASSUME Elements(h) # {} PROVE out.approved # <<>>
  <2>1. PICK i \in DOMAIN h : TRUE BY <1>4 DEF Elements
  <2>2. 1 \in DOMAIN h BY <1>1, <2>1
  <2>3. order[1] \in Tickers(out.approved) BY <1>2, <1>3, <2>2
  <2> QED BY <2>3 DEF Tickers
<1>5. ASSUME out.approved # <<>> PROVE Elements(h) # {}
  <2>1. \A s \in Seq(Record) : s # <<>> => 1 \in DOMAIN s OBVIOUS
  <2>i. PICK i \in DOMAIN out.approved : TRUE BY <1>1, <1>5, <2>1
  <2>2. out.approved[i] \in Elements(out.approved) BY DEF Elements
  <2>3. Elements(h) = Elements(out.approved) \union Elements(out.qualified) BY <1>h, OutputIs
  <2> QED BY <2>2, <2>3
<1> QED BY <1>4, <1>5, <1>h

Alike(out, true) ==
  /\ out.status = true.status
  /\ Len(terminal_records(out)) = Len(terminal_records(true))
  /\ ContentOf(passing_records(out)) = ContentOf(passing_records(true))
  /\ {<<Content(r), r.reasons>> : r \in Elements(out.excluded)}
       = {<<Content(r), r.reasons>> : r \in Elements(true.excluded)}

LEMMA StatusIs ==
  ASSUME NEW p, NEW out, Checked(p, out)
  PROVE  out.status = IF out.approved # <<>> THEN "approved" ELSE "no_setups"
<1>1. p.market = "normal" /\ ~ (p.age > 180)
  <2>1. p \in DaybreakInput /\ Scored(p) BY DEF Checked
  <2>2. p.age \in Nat BY <2>1 DEF DaybreakInput
  <2> QED BY <2>1, <2>2 DEF Scored
<1> QED BY <1>1 DEF Checked, StatusPrecedence

LEMMA CountsAdd ==
  ASSUME NEW records, Distinct(records)
  PROVE  Cardinality(Passing(records)) + Cardinality(Failed(records)) = Cardinality(records)
<1>p. PICK P, F : P = Passing(records) /\ F = Failed(records) OBVIOUS
<1>1. IsFiniteSet(records) BY DEF Distinct
<1>2. P \subseteq records /\ F \subseteq records /\ P \cap F = {} /\ P \cup F = records
  BY <1>p DEF Passing, Failed
<1>3. IsFiniteSet(P) /\ IsFiniteSet(F) BY <1>1, <1>2, FS_Subset
<1>4. Cardinality(P) \in Nat /\ Cardinality(F) \in Nat BY <1>3, FS_CardinalityType
<1>5. Cardinality(P \cap F) = 0 BY <1>2, FS_EmptySet
<1>6. Cardinality(P \cup F) = Cardinality(P) + Cardinality(F) - Cardinality(P \cap F) BY <1>3, FS_Union
<1>7. Cardinality(P) + Cardinality(F) = Cardinality(records) BY <1>2, <1>4, <1>5, <1>6
<1> QED BY <1>p, <1>7

LEMMA ContentIsTrue ==
  ASSUME NEW p, NEW out, Checked(p, out), NEW J, JudgedBy(p, out, J)
  PROVE  Alike(out, TrueAnswer(J))
<1>0. /\ out \in DaybreakOutput /\ J \in DaybreakInput /\ Scored(J) /\ Len(J.tickers) = Len(p.tickers)
      /\ RankSplit(out)
  BY DEF Checked, JudgedBy
<1>t. PICK t, P, F : t = TrueAnswer(J) /\ P = Passing(TrueRecords(J)) /\ F = Failed(TrueRecords(J)) OBVIOUS
<1>r. PICK ranking, K, best : ranking = TrueRanking(P) /\ K = Cardinality(P) /\ best = Best(K) OBVIOUS
<1>1. IsPartition(t, J, ranking, best, F) /\ Distinct(P) /\ Distinct(F)
  BY <1>0, <1>t, <1>r, TruthIs DEF Truth
<1>2. ranking \in Seq(P) /\ Len(ranking) = K /\ K \in Nat /\ InLine(ranking, P, TrueOrder(P), K)
  BY <1>1, <1>r, TrueRankingIs
<1>3. ranking \in Seq(Record)
  <2>1. P \subseteq Record BY <1>1 DEF Distinct
  <2> QED BY <1>2, <2>1
<1>4. best \in 0 .. Len(ranking) BY <1>2, <1>r DEF Best
<1>5. /\ ContentOf(passing_records(t)) = {Bare(r) : r \in Elements(ranking)}
      /\ Elements(t.excluded) = F
      /\ Len(terminal_records(t)) = Len(ranking) + Cardinality(F)
  BY <1>1, <1>3, <1>4, PartitionHolds
<1>6. Elements(ranking) = P
  <2>1. DOMAIN ranking = 1 .. K BY <1>2
  <2>2. \A n \in 1 .. K : ranking[n] \in P BY <1>2
  <2>3. \A r \in P : \E n \in 1 .. K : ranking[n] = r BY <1>2 DEF InLine
  <2> QED BY <2>1, <2>2, <2>3 DEF Elements
<1>7. Paired(out, P, F) BY <1>t, PairedAre
<1>8. ContentOf(passing_records(out)) = ContentOf(passing_records(t))
  <2>1. \A r, s : PassingTwin(r, s) => Bare(r) = Bare(s) BY DEF PassingTwin, Twin, Bare
  <2>2. {Bare(r) : r \in Elements(passing_records(out))} = {Bare(r) : r \in P}
    BY <1>7, <2>1 DEF Paired
  <2> QED BY <1>5, <1>6, <2>2, BareIs
<1>9. {<<Content(r), r.reasons>> : r \in Elements(out.excluded)}
        = {<<Content(r), r.reasons>> : r \in Elements(t.excluded)}
  <2>1. \A r, s : ExcludedTwin(r, s) => Content(r) = Content(s) /\ r.reasons = s.reasons
    BY DEF ExcludedTwin, Twin
  <2>2. {<<Content(r), r.reasons>> : r \in Elements(out.excluded)} = {<<Content(r), r.reasons>> : r \in F}
    BY <1>7, <2>1 DEF Paired
  <2> QED BY <1>5, <2>2
<1>10. Len(terminal_records(out)) = Len(terminal_records(t))
  <2>1. Len(terminal_records(out)) = Len(p.tickers) BY HasRecord
  <2>2. Distinct(TrueRecords(J)) /\ Cardinality(TrueRecords(J)) = Len(J.tickers) BY <1>0, TrueRecordsAre
  <2>3. K + Cardinality(F) = Len(J.tickers) BY <2>2, <1>t, <1>r, CountsAdd
  <2> QED BY <1>0, <1>2, <1>5, <2>1, <2>3
<1>11. out.status = t.status
  <2>1. out.approved # <<>> <=> Elements(passing_records(out)) # {} BY <1>0, ApprovedIfPassing
  <2>2. Elements(passing_records(out)) # {} <=> P # {} BY <1>7 DEF Paired
  <2>3. P # {} <=> best > 0
    <3>1. IsFiniteSet(P) BY <1>1 DEF Distinct
    <3>2. K = 0 <=> P = {} BY <1>r, <3>1, FS_EmptySet
    <3>3. K = 0 <=> ~ (best > 0) BY <1>2, <1>r DEF Best
    <3> QED BY <3>2, <3>3
  <2>4. t.status = IF best > 0 THEN "approved" ELSE "no_setups" BY <1>1 DEF IsPartition
  <2>5. out.status = IF out.approved # <<>> THEN "approved" ELSE "no_setups" BY StatusIs
  <2> QED BY <2>1, <2>2, <2>3, <2>4, <2>5
<1> QED BY <1>8, <1>9, <1>10, <1>11, <1>t DEF Alike

LEMMA AcceptedTrue == ContractInv => AcceptedIsTrue
<1> SUFFICES ASSUME ContractInv, report.valid, Scored(payload)
             PROVE  SameContent(answer, TrueAnswer(Judged(payload, answer, TRUE)))
  BY DEF AcceptedIsTrue
<1>1. Checked(payload, answer) BY AcceptedIsChecked
<1>2. PICK J : J = Judged(payload, answer, TRUE) OBVIOUS
<1>3. JudgedBy(payload, answer, J) BY <1>1, <1>2, JudgedIs
<1>4. Alike(answer, TrueAnswer(J)) BY <1>1, <1>3, ContentIsTrue
<1>5. \A r \in Elements(answer.approved) : \A e \in EntriesOf(payload, r.ticker) : r.trade = <<e.price, e.low>>
  BY <1>1 DEF Checked, ScoresReplay
<1> QED BY <1>2, <1>4, <1>5 DEF Alike, SameContent


-----------------------------------------------------------------------------
(* Accepted answers are ranked as the true ones.                           *)

LEMMA AnswerRanking ==
  ASSUME NEW out \in DaybreakOutput, TerminalExclusive(out), NEW P, NEW F, Distinct(P), Paired(out, P, F)
  PROVE  Ranking(passing_records(out), Anchors(P))
<1>s. PICK rs, A : rs = passing_records(out) /\ A = Anchors(P) OBVIOUS
<1>1. rs \in Seq(Record) /\ DistinctList(rs) BY <1>s, OutputIs, ArraysApart
<1>2. IsFiniteSet(P) /\ \A t \in P : t.conviction \in Int BY RecordIs DEF Distinct
<1>3. Kernel(A, {t.conviction : t \in P}) BY <1>2, <1>s, AnchorsAre
<1>4. {rs[i].conviction : i \in DOMAIN rs} = {t.conviction : t \in P}
  <2>1. \A i \in DOMAIN rs : \E t \in P : t.conviction = rs[i].conviction
    BY <1>s DEF Paired, PassingTwin, Elements
  <2>2. \A t \in P : \E i \in DOMAIN rs : t.conviction = rs[i].conviction
    BY <1>s DEF Paired, PassingTwin, Elements
  <2> QED BY <2>1, <2>2
<1>5. Ranking(rs, A) BY <1>1, <1>3, <1>4 DEF Ranking, DistinctList
<1> QED BY <1>5, <1>s

\* An answer whose order is the computed one is in the order of the ranking.
LEMMA RankedAsSaid ==
  ASSUME NEW out, RankSplit(out), NEW A, Ranking(passing_records(out), A)
  PROVE  \A m, n \in DOMAIN passing_records(out) : m < n => <<m, n>> \in Ranks(passing_records(out), A)
<1>s. PICK rs : rs = passing_records(out) OBVIOUS
<1>f. PICK f : f = ByGroups(rs)[DOMAIN rs] OBVIOUS
<1>1. Ranking(rs, A) BY <1>s
<1>2. InLine(f, DOMAIN rs, Ranks(rs, A), Len(rs)) BY <1>1, <1>f, RankedByGroups
<1>3. rs \in Seq(Record) /\ \A i, j \in DOMAIN rs : rs[i].ticker = rs[j].ticker => i = j
  BY <1>1 DEF Ranking
<1>4. DOMAIN rs = 1 .. Len(rs) BY <1>3
<1>5. f \in [DOMAIN rs -> DOMAIN rs] BY <1>2, <1>4 DEF InLine
<1>6. expected_passing_order(out) = [n \in DOMAIN f |-> rs[f[n]].ticker]
  BY <1>s, <1>f DEF expected_passing_order
<1>7. [i \in DOMAIN rs |-> rs[i].ticker] = [n \in DOMAIN f |-> rs[f[n]].ticker]
  BY <1>s, <1>6 DEF RankSplit
<1>8. \A n \in DOMAIN rs : f[n] = n
  <2> TAKE n \in DOMAIN rs
  <2>1. DOMAIN f = DOMAIN rs /\ f[n] \in DOMAIN rs BY <1>5
  <2>2. rs[n].ticker = rs[f[n]].ticker BY <1>7, <2>1
  <2> QED BY <1>3, <2>1, <2>2
<1>9. \A m, n \in DOMAIN rs : m < n => <<f[m], f[n]>> \in Ranks(rs, A) BY <1>2, <1>4 DEF InLine
<1> QED BY <1>8, <1>9, <1>s

\* The ticker of each place is the one of the true ranking.
Places(rs, ranking) ==
  Len(ranking) = Len(rs) /\ \A n \in DOMAIN rs : ranking[n].ticker = rs[n].ticker

LEMMA SamePlaces ==
  ASSUME NEW out \in DaybreakOutput, TerminalExclusive(out), RankSplit(out),
         NEW P, NEW F, Distinct(P), Paired(out, P, F)
  PROVE  Places(passing_records(out), TrueRanking(P))
<1>s. PICK rs, A, R : rs = passing_records(out) /\ A = Anchors(P) /\ R = TrueOrder(P) OBVIOUS
<1>N. PICK N : N = Len(rs) OBVIOUS
<1>1. rs \in Seq(Record) /\ DistinctList(rs) BY <1>s, OutputIs, ArraysApart
<1>2. DOMAIN rs = 1 .. N /\ N \in Nat BY <1>1, <1>N
<1>3. \A m, n \in 1 .. N : m < n => <<m, n>> \in Ranks(rs, A)
  BY <1>2, <1>s, AnswerRanking, RankedAsSaid
<1>g. PICK g : g = [n \in 1 .. N |-> CHOOSE t \in P : PassingTwin(rs[n], t)] OBVIOUS
<1>4. ASSUME NEW n \in 1 .. N PROVE g[n] \in P /\ PassingTwin(rs[n], g[n])
  <2>1. rs[n] \in Elements(passing_records(out)) BY <1>2, <1>s DEF Elements
  <2>2. \E t \in P : PassingTwin(rs[n], t) BY <2>1 DEF Paired
  <2> QED BY <1>g, <2>2
<1>5. \A n \in 1 .. N : g[n].ticker = rs[n].ticker /\ RankKey(A, g[n]) = RankKey(A, rs[n])
  <2> TAKE n \in 1 .. N
  <2>1. /\ g[n].ticker = rs[n].ticker /\ g[n].age = rs[n].age /\ g[n].conviction = rs[n].conviction
        /\ g[n].score.raw = rs[n].score.raw /\ g[n].score.volume = rs[n].score.volume
        /\ g[n].score.technical = rs[n].score.technical
    BY <1>4 DEF PassingTwin, Twin
  <2> QED BY <2>1, Zenon DEF RankKey
<1>6. \A t \in P : \E n \in 1 .. N : g[n] = t
  <2> TAKE t \in P
  <2>1. PICK r \in Elements(passing_records(out)) : PassingTwin(r, t) BY DEF Paired
  <2>2. PICK n \in 1 .. N : r = rs[n] BY <1>2, <1>s, <2>1 DEF Elements
  <2>3. g[n].ticker = t.ticker BY <1>5, <2>1, <2>2 DEF PassingTwin, Twin
  <2>4. g[n] = t BY <1>4, <2>3 DEF Distinct
  <2> QED BY <2>4
<1>7. \A m, n \in 1 .. N : m < n => <<g[m], g[n]>> \in R
  <2> TAKE m, n \in 1 .. N
  <2> HAVE m < n
  <2>1. LexLess(RankKey(A, rs[m]), RankKey(A, rs[n])) BY <1>3 DEF Ranks
  <2>2. LexLess(RankKey(A, g[m]), RankKey(A, g[n])) BY <1>5, <2>1
  <2> QED BY <1>4, <1>s, <2>2 DEF TrueOrder
<1>8. g \in [1 .. N -> P] BY <1>4, <1>g
<1>9. InLine(g, P, R, N) BY <1>6, <1>7, <1>8 DEF InLine
<1>10. Cardinality(P) = N
  <2>1. IsFiniteSet(1 .. N) /\ Cardinality(1 .. N) = N BY <1>2, Interval
  <2>2. g \in Surjection(1 .. N, P) BY <1>6, <1>8 DEF Surjection
  <2>3. \A m, n \in 1 .. N : g[m] = g[n] => m = n
    <3> TAKE m, n \in 1 .. N
    <3>1. g[m].ticker = rs[m].ticker /\ g[n].ticker = rs[n].ticker BY <1>5
    <3>2. rs[m].ticker = rs[n].ticker => m = n BY <1>1, <1>2 DEF DistinctList
    <3> QED BY <3>1, <3>2
  <2>4. g \in Injection(1 .. N, P) BY <1>8, <2>3 DEF Injection, IsInjective
  <2>5. Cardinality(P) = Cardinality(1 .. N) <=> g \in Injection(1 .. N, P) BY <2>1, <2>2, FS_Surjection
  <2> QED BY <2>1, <2>4, <2>5
<1>11. /\ TotalOrder(P, R) /\ TrueRanking(P) \in Seq(P) /\ Len(TrueRanking(P)) = N
       /\ InLine(TrueRanking(P), P, R, N)
  BY <1>10, <1>s, TrueRankingIs
<1>12. TrueRanking(P) = g BY <1>2, <1>9, <1>11, OneLine DEF TotalOrder
<1>13. Len(TrueRanking(P)) = Len(rs) /\ \A n \in DOMAIN rs : TrueRanking(P)[n].ticker = rs[n].ticker
  BY <1>2, <1>5, <1>11, <1>12, <1>N
<1> QED BY <1>13, <1>s DEF Places


\* The best three of the passing records are approved, the others follow with their rank.
Split(out, rs, b) ==
  /\ b = Best(Len(rs)) /\ Len(out.approved) = b /\ Len(out.qualified) = Len(rs) - b
  /\ \A n \in 1 .. b : out.approved[n] = rs[n]
  /\ \A n \in 1 .. Len(rs) - b : out.qualified[n] = rs[b + n] /\ rs[b + n].rank = b + n

LEMMA SplitIs ==
  ASSUME NEW out \in DaybreakOutput, TerminalExclusive(out), RankSplit(out), Len(out.approved) <= 3
  PROVE  Split(out, passing_records(out), Len(out.approved))
<1>s. PICK a, q, rs : a = out.approved /\ q = out.qualified /\ rs = passing_records(out) OBVIOUS
<1>b. PICK b, k, N : b = Len(a) /\ k = Len(q) /\ N = Len(rs) OBVIOUS
<1>1. /\ a \in Seq(Record) /\ q \in Seq(Record) /\ rs \in Seq(Record) /\ DistinctList(rs) /\ DistinctList(q)
  BY <1>s, OutputIs, ArraysApart
<1>2. rs = a \o q BY <1>s DEF passing_records
<1>3. b \in Nat /\ k \in Nat /\ b <= 3 /\ DOMAIN a = 1 .. b /\ DOMAIN q = 1 .. k BY <1>1, <1>b, <1>s
<1>4. N = b + k /\ \A n \in 1 .. N : rs[n] = IF n =< b THEN a[n] ELSE q[n - b]
  <2>1. Len(a \o q) = b + k /\ \A n \in 1 .. b + k : (a \o q)[n] = IF n =< b THEN a[n] ELSE q[n - b]
    BY <1>1, <1>b, Chained
  <2> QED BY <1>2, <1>b, <2>1
<1>5. DOMAIN rs = 1 .. N BY <1>1, <1>b
<1>6. \A n \in 1 .. b : a[n] = rs[n] /\ n \in 1 .. N BY <1>3, <1>4
<1>7. ASSUME NEW n \in 1 .. k PROVE q[n] = rs[b + n] /\ b + n \in 1 .. N
  <2> PICK m : m = b + n OBVIOUS
  <2>1. m \in 1 .. N /\ ~ (m =< b) /\ m - b = n BY <1>3, <1>4
  <2>2. rs[m] = q[m - b] BY <1>4, <2>1
  <2> QED BY <2>1, <2>2
<1>8. \A i \in 1 .. N : /\ i <= 3 => rs[i].ticker \in Tickers(a)
                        /\ i >= 4 => \E r \in Elements(q) : r.ticker = rs[i].ticker /\ r.rank = i
  <2>o. PICK order : order = expected_passing_order(out) OBVIOUS
  <2>1. [i \in DOMAIN rs |-> rs[i].ticker] = order BY <1>s, <2>o DEF RankSplit
  <2>2. \A i \in DOMAIN order :
          /\ i <= 3 => order[i] \in Tickers(a)
          /\ i >= 4 => \E r \in Elements(q) : r.ticker = order[i] /\ r.rank = i
    BY <1>s, <2>o DEF RankSplit
  <2>3. DOMAIN order = 1 .. N /\ \A i \in 1 .. N : order[i] = rs[i].ticker BY <1>5, <2>1
  <2> QED BY <2>2, <2>3
<1>9. \A i \in 1 .. N : i <= 3 => i =< b
  <2> TAKE i \in 1 .. N
  <2> HAVE i <= 3
  <2>1. PICK j \in DOMAIN a : a[j].ticker = rs[i].ticker BY <1>8 DEF Tickers
  <2>2. j \in 1 .. N /\ j =< b /\ rs[j].ticker = rs[i].ticker BY <1>3, <1>6, <2>1
  <2>3. i = j BY <1>1, <1>5, <2>2 DEF DistinctList
  <2> QED BY <2>2, <2>3
<1>10. b = Best(N)
  <2>1. N < 3 => N =< b
    <3>1. N \in Nat BY <1>3, <1>4
    <3>2. CASE N = 0 BY <1>3, <3>2
    <3>3. CASE N # 0
      <4>1. N \in 1 .. N BY <3>1, <3>3
      <4> QED BY <1>9, <3>1, <4>1
    <3> QED BY <3>2, <3>3
  <2>2. N >= 3 => 3 =< b
    <3> HAVE N >= 3
    <3>1. 3 \in 1 .. N BY <1>3, <1>4
    <3> QED BY <1>9, <3>1
  <2> QED BY <1>3, <1>4, <2>1, <2>2 DEF Best
<1>11. ASSUME NEW n \in 1 .. k PROVE rs[b + n].rank = b + n
  <2>i. PICK i : i = b + n OBVIOUS
  <2>1. i \in 1 .. N /\ rs[i] = q[n] /\ i >= 4
    <3>1. N >= 3 /\ b = 3 BY <1>3, <1>4, <1>10 DEF Best
    <3> QED BY <1>7, <2>i, <3>1
  <2>2. PICK m \in DOMAIN q : q[m].ticker = rs[i].ticker /\ q[m].rank = i BY <1>8, <2>1 DEF Elements
  <2>3. n \in DOMAIN q BY <1>3
  <2>4. m = n BY <1>1, <2>1, <2>2, <2>3 DEF DistinctList
  <2> QED BY <2>1, <2>2, <2>4, <2>i
<1>12. k = N - b BY <1>3, <1>4
<1>13. Split(out, rs, b) BY <1>6, <1>7, <1>10, <1>11, <1>12, <1>s, <1>b DEF Split
<1> QED BY <1>13, <1>s, <1>b

\* Further down a ranking the scores are at most two points better.
LEMMA NotOverlooked ==
  ASSUME NEW rs, NEW A, Ranking(rs, A), NEW i \in DOMAIN rs, NEW j \in DOMAIN rs, <<i, j>> \in Ranks(rs, A)
  PROVE  rs[j].conviction - rs[i].conviction <= 2
<1>1. Anchored(rs, A, j) =< Anchored(rs, A, i) BY RanksAre
<1>2. /\ rs[i].conviction \in Int /\ rs[j].conviction \in Int
      /\ Anchored(rs, A, i) \in Int /\ Anchored(rs, A, j) \in Int
      /\ rs[j].conviction =< Anchored(rs, A, j) /\ Anchored(rs, A, i) - rs[i].conviction =< 2
  BY RankedRecord
<1> QED BY <1>1, <1>2

LEMMA RankingIsTrue ==
  ASSUME NEW p, NEW out, Checked(p, out), NEW J, JudgedBy(p, out, J)
  PROVE  /\ SameRanking(out, TrueAnswer(J))
         /\ \A r \in Elements(out.approved) : \A s \in Elements(out.qualified) :
              s.conviction - r.conviction <= 2
<1>0. /\ out \in DaybreakOutput /\ J \in DaybreakInput /\ Scored(J) /\ TerminalExclusive(out)
      /\ RankSplit(out) /\ Len(out.approved) <= 3
  BY DEF Checked, JudgedBy
<1>t. PICK t, P, F : t = TrueAnswer(J) /\ P = Passing(TrueRecords(J)) /\ F = Failed(TrueRecords(J)) OBVIOUS
<1>r. PICK ranking, K : ranking = TrueRanking(P) /\ K = Cardinality(P) OBVIOUS
<1>s. PICK rs, b, N : rs = passing_records(out) /\ b = Len(out.approved) /\ N = Len(rs) OBVIOUS
<1>1. IsPartition(t, J, ranking, Best(K), F) /\ Distinct(P) BY <1>0, <1>t, <1>r, TruthIs DEF Truth
<1>2. ranking \in Seq(P) /\ Len(ranking) = K BY <1>1, <1>r, TrueRankingIs
<1>3. Paired(out, P, F) BY <1>t, PairedAre
<1>4. Places(rs, ranking) BY <1>0, <1>1, <1>3, <1>r, <1>s, SamePlaces
<1>5. Split(out, rs, b) BY <1>0, <1>s, SplitIs
<1>6. rs \in Seq(Record) /\ N \in Nat /\ DOMAIN rs = 1 .. N BY <1>0, <1>s, OutputIs
<1>7. K = N /\ b = Best(N) /\ \A n \in 1 .. N : ranking[n].ticker = rs[n].ticker
  BY <1>2, <1>4, <1>5, <1>6, <1>s DEF Places, Split
<1>8. b \in 0 .. N BY <1>6, <1>7 DEF Best
<1>9. /\ DOMAIN out.approved = 1 .. b /\ DOMAIN t.approved = 1 .. b
      /\ DOMAIN out.qualified = 1 .. N - b /\ DOMAIN t.qualified = 1 .. N - b
  <2>1. Len(out.approved) = b /\ Len(out.qualified) = N - b BY <1>5, <1>s DEF Split
  <2>2. Len(t.approved) = b /\ Len(t.qualified) = N - b BY <1>1, <1>2, <1>7 DEF IsPartition
  <2>3. t \in DaybreakOutput BY <1>1 DEF IsPartition
  <2>4. out.approved \in Seq(Record) /\ out.qualified \in Seq(Record)
        /\ t.approved \in Seq(Record) /\ t.qualified \in Seq(Record)
    BY <1>0, <2>3, OutputIs
  <2>5. \A u \in Seq(Record) : DOMAIN u = 1 .. Len(u) OBVIOUS
  <2> QED BY <2>1, <2>2, <2>4, <2>5
<1>10. \A n \in 1 .. b : out.approved[n].ticker = t.approved[n].ticker
  <2> TAKE n \in 1 .. b
  <2>1. n \in 1 .. N BY <1>6, <1>8
  <2>2. out.approved[n] = rs[n] BY <1>5 DEF Split
  <2>3. t.approved[n] = ranking[n] BY <1>1, <1>7 DEF IsPartition
  <2> QED BY <1>7, <2>1, <2>2, <2>3
<1>11. ASSUME NEW n \in 1 .. N - b
       PROVE  out.qualified[n].ticker = t.qualified[n].ticker /\ out.qualified[n].rank = t.qualified[n].rank
  <2>i. PICK i : i = b + n OBVIOUS
  <2>1. i \in 1 .. N /\ i \in Nat BY <1>6, <1>8, <2>i
  <2>2. out.qualified[n] = rs[i] /\ rs[i].rank = i BY <1>5, <1>s, <2>i DEF Split
  <2>3. t.qualified[n] = WithRank(ranking[i], i) BY <1>1, <1>2, <1>7, <2>i DEF IsPartition
  <2>4. ranking[i] \in Record
    <3>1. P \subseteq Record BY <1>1 DEF Distinct
    <3>2. DOMAIN ranking = 1 .. N
      <4>1. \A u \in Seq(P) : DOMAIN u = 1 .. Len(u) OBVIOUS
      <4>2. Len(ranking) = N BY <1>2, <1>7
      <4> QED BY <1>2, <4>1, <4>2
    <3>3. ranking[i] \in P
      <4>1. \A u \in Seq(P) : \A k \in DOMAIN u : u[k] \in P OBVIOUS
      <4> QED BY <1>2, <2>1, <3>2, <4>1
    <3> QED BY <3>1, <3>3
  <2>5. WithRank(ranking[i], i).ticker = ranking[i].ticker /\ WithRank(ranking[i], i).rank = i
    BY <2>1, <2>4, WithRankIs
  <2> QED BY <1>7, <2>1, <2>2, <2>3, <2>5
<1>12. SameRanking(out, t) BY <1>9, <1>10, <1>11 DEF SameRanking
<1>13. ASSUME NEW r \in Elements(out.approved), NEW s \in Elements(out.qualified)
       PROVE  s.conviction - r.conviction <= 2
  <2>1. PICK m \in 1 .. b : r = out.approved[m] BY <1>9 DEF Elements
  <2>2. PICK n \in 1 .. N - b : s = out.qualified[n] BY <1>9 DEF Elements
  <2>j. PICK j : j = b + n OBVIOUS
  <2>3. m \in 1 .. N /\ j \in 1 .. N /\ m < j BY <1>6, <1>8, <2>j
  <2>4. r = rs[m] /\ s = rs[j] BY <1>5, <1>s, <2>1, <2>2, <2>j DEF Split
  <2>A. PICK A : A = Anchors(P) OBVIOUS
  <2>5. Ranking(rs, A) BY <1>0, <1>1, <1>3, <1>s, <2>A, AnswerRanking
  <2>6. <<m, j>> \in Ranks(rs, A) BY <1>0, <1>6, <1>s, <2>3, <2>5, RankedAsSaid
  <2>7. rs[j].conviction - rs[m].conviction <= 2 BY <1>6, <2>3, <2>5, <2>6, NotOverlooked
  <2> QED BY <2>4, <2>7
<1> QED BY <1>12, <1>13, <1>t

LEMMA AcceptedBest == ContractInv => ApprovedAreBest
<1> SUFFICES ASSUME ContractInv, report.valid, Scored(payload)
             PROVE  /\ SameRanking(answer, TrueAnswer(Judged(payload, answer, TRUE)))
                    /\ \A r \in Elements(answer.approved) : \A s \in Elements(answer.qualified) :
                         s.conviction - r.conviction <= 2
  BY DEF ApprovedAreBest
<1>1. Checked(payload, answer) BY AcceptedIsChecked
<1>2. PICK J : J = Judged(payload, answer, TRUE) OBVIOUS
<1>3. JudgedBy(payload, answer, J) BY <1>1, <1>2, JudgedIs
<1> QED BY <1>1, <1>2, <1>3, RankingIsTrue

-----------------------------------------------------------------------------
(* The true answer has one record of each ticker.                          *)

\* r is the true record of e, but for the rank.
TrueOfEntry(p, e, r) ==
  /\ r \in Record /\ r.ticker = e.ticker /\ r.flags = expected_risk_flags(e)
  /\ r.score = TrueRecord(p, e).score /\ r.trade = <<e.price, e.low>>
  /\ ScoredAs(r.score, e.bucket, expected_score_fields(p, e, e.bucket))
  /\ r.conviction = r.score.catalyst + r.score.volume + r.score.technical
  /\ r.reasons = expected_failed_gates(e, r.score.raw)

LEMMA EntryIsTrue ==
  ASSUME NEW p, NEW e \in TickerInput
  PROVE  /\ TrueOfEntry(p, e, TrueRecord(p, e))
         /\ \A n \in Nat : TrueOfEntry(p, e, WithRank(TrueRecord(p, e), n))
<1>t. PICK t : t = TrueRecord(p, e) OBVIOUS
<1>f. PICK f : f = expected_score_fields(p, e, e.bucket) OBVIOUS
<1>1. t \in Record /\ TrueOf(p, e, t) BY <1>t, TrueRecordIs
<1>2. f \in Fields BY <1>f, FieldsAre DEF TickerInput
<1>3. /\ t.ticker = e.ticker /\ t.flags = expected_risk_flags(e) /\ t.trade = <<e.price, e.low>>
      /\ t.score = TrueScore(e.bucket, f, IF f.zero = "no_valid_driver" THEN NoSpan ELSE e.evidence)
  BY <1>1, <1>f DEF TrueOf
<1>4. ScoredAs(t.score, e.bucket, f) BY <1>2, <1>3, TrueScoreIs
<1>5. /\ t.score.catalyst = f.catalyst /\ t.score.volume = f.volume
      /\ t.score.technical = f.technical /\ t.score.raw = f.raw
  BY <1>4 DEF ScoredAs, Reported
<1>6. t.conviction = f.catalyst + f.volume + f.technical /\ t.reasons = expected_failed_gates(e, f.raw)
  BY <1>1, <1>f DEF TrueOf
<1>7. /\ t.conviction = t.score.catalyst + t.score.volume + t.score.technical
      /\ t.reasons = expected_failed_gates(e, t.score.raw)
  BY <1>5, <1>6
<1>8. TrueOfEntry(p, e, t) BY <1>1, <1>3, <1>4, <1>7, <1>t, <1>f DEF TrueOfEntry
<1>9. ASSUME NEW n \in Nat PROVE TrueOfEntry(p, e, WithRank(t, n))
  <2> PICK w : w = WithRank(t, n) OBVIOUS
  <2>1. /\ w \in Record /\ w.ticker = t.ticker /\ w.score = t.score /\ w.flags = t.flags /\ w.trade = t.trade
        /\ w.conviction = t.conviction /\ w.reasons = t.reasons
    BY <1>1, WithRankIs
  <2>2. TrueOfEntry(p, e, w) BY <1>8, <2>1 DEF TrueOfEntry
  <2> QED BY <2>2
<1> QED BY <1>8, <1>9, <1>t

\* All records of the true answer are true, and there is one of each ticker.
TrueList(p, all) ==
  /\ Len(all) = Len(p.tickers)
  /\ \A r \in Elements(all) : \E i \in DOMAIN p.tickers : TrueOfEntry(p, p.tickers[i], r)
  /\ \A i \in DOMAIN p.tickers : \E r \in Elements(all) : TrueOfEntry(p, p.tickers[i], r)

LEMMA TruthLists ==
  ASSUME NEW p \in DaybreakInput, Scored(p)
  PROVE  TrueAnswer(p) \in DaybreakOutput /\ TrueList(p, terminal_records(TrueAnswer(p)))
<1>t. PICK t, P, F : t = TrueAnswer(p) /\ P = Passing(TrueRecords(p)) /\ F = Failed(TrueRecords(p)) OBVIOUS
<1>r. PICK ranking, K, best : ranking = TrueRanking(P) /\ K = Cardinality(P) /\ best = Best(K) OBVIOUS
<1>1. IsPartition(t, p, ranking, best, F) /\ Distinct(P) /\ Distinct(F) BY <1>t, <1>r, TruthIs DEF Truth
<1>2. ranking \in Seq(P) /\ Len(ranking) = K /\ K \in Nat /\ InLine(ranking, P, TrueOrder(P), K)
  BY <1>1, <1>r, TrueRankingIs
<1>3. ranking \in Seq(Record)
  <2>1. P \subseteq Record BY <1>1 DEF Distinct
  <2> QED BY <1>2, <2>1
<1>4. best \in 0 .. Len(ranking) BY <1>2, <1>r DEF Best
<1>5. Elements(t.excluded) = F /\ Len(terminal_records(t)) = Len(ranking) + Cardinality(F)
  <2>1. /\ ContentOf(passing_records(t)) = {Bare(r) : r \in Elements(ranking)}
        /\ Elements(t.excluded) = F
        /\ Len(terminal_records(t)) = Len(ranking) + Cardinality(F)
    BY <1>1, <1>3, <1>4, PartitionHolds
  <2> QED BY <2>1
<1>6. t \in DaybreakOutput BY <1>1 DEF IsPartition
<1>7. Len(terminal_records(t)) = Len(p.tickers)
  <2>1. Distinct(TrueRecords(p)) /\ Cardinality(TrueRecords(p)) = Len(p.tickers) BY TrueRecordsAre
  <2>2. K + Cardinality(F) = Len(p.tickers) BY <2>1, <1>t, <1>r, CountsAdd
  <2> QED BY <1>2, <1>5, <2>2
<1>s. PICK rs : rs = passing_records(t) OBVIOUS
<1>8. /\ Len(rs) = K /\ DOMAIN rs = 1 .. K
      /\ \A n \in 1 .. K : rs[n] = IF n =< best THEN ranking[n] ELSE WithRank(ranking[n], n)
  BY <1>1, <1>2, <1>3, <1>4, <1>s, PassingInOrder
<1>9. Elements(terminal_records(t)) = Elements(rs) \union F BY <1>5, <1>6, <1>s, OutputIs
<1>10. TrueRecords(p) = P \union F BY <1>t DEF Passing, Failed
<1>11. \A i \in DOMAIN p.tickers : p.tickers[i] \in TickerInput BY TickersAre
<1>12. TrueRecords(p) = {TrueRecord(p, p.tickers[i]) : i \in DOMAIN p.tickers} BY TrueRecordsAre
<1>13. ASSUME NEW i \in DOMAIN p.tickers, NEW n \in 1 .. K, ranking[n] = TrueRecord(p, p.tickers[i])
       PROVE  TrueOfEntry(p, p.tickers[i], rs[n])
  <2>e. PICK e : e = p.tickers[i] OBVIOUS
  <2>1. e \in TickerInput /\ n \in Nat BY <1>2, <1>11, <2>e
  <2>2. TrueOfEntry(p, e, TrueRecord(p, e)) /\ TrueOfEntry(p, e, WithRank(TrueRecord(p, e), n))
    BY <2>1, EntryIsTrue
  <2>3. rs[n] = TrueRecord(p, e) \/ rs[n] = WithRank(TrueRecord(p, e), n) BY <1>8, <1>13, <2>e
  <2>4. TrueOfEntry(p, e, rs[n]) BY <2>2, <2>3
  <2> QED BY <2>4, <2>e
<1>14. ASSUME NEW i \in DOMAIN p.tickers PROVE TrueOfEntry(p, p.tickers[i], TrueRecord(p, p.tickers[i]))
  BY <1>11, EntryIsTrue
<1>15. \A n \in 1 .. K : ranking[n] \in P
  <2>1. DOMAIN ranking = 1 .. K /\ \A n \in DOMAIN ranking : ranking[n] \in P BY <1>2
  <2> QED BY <2>1
<1>16. ASSUME NEW r \in Elements(terminal_records(t))
       PROVE  \E i \in DOMAIN p.tickers : TrueOfEntry(p, p.tickers[i], r)
  <2>1. CASE r \in F
    <3>1. PICK i \in DOMAIN p.tickers : r = TrueRecord(p, p.tickers[i]) BY <1>10, <1>12, <2>1
    <3>2. TrueOfEntry(p, p.tickers[i], TrueRecord(p, p.tickers[i])) BY <1>14
    <3> QED BY <3>1, <3>2
  <2>2. CASE r \in Elements(rs)
    <3>1. PICK n \in 1 .. K : r = rs[n] BY <1>8, <2>2 DEF Elements
    <3>2. ranking[n] \in TrueRecords(p) BY <1>10, <1>15
    <3>3. PICK i \in DOMAIN p.tickers : ranking[n] = TrueRecord(p, p.tickers[i]) BY <1>12, <3>2
    <3>4. TrueOfEntry(p, p.tickers[i], rs[n]) BY <1>13, <3>3
    <3> QED BY <3>1, <3>4
  <2> QED BY <1>9, <2>1, <2>2
<1>17. ASSUME NEW i \in DOMAIN p.tickers
       PROVE  \E r \in Elements(terminal_records(t)) : TrueOfEntry(p, p.tickers[i], r)
  <2>1. TrueRecord(p, p.tickers[i]) \in P \union F BY <1>10, <1>12
  <2>2. CASE TrueRecord(p, p.tickers[i]) \in F BY <1>9, <1>14, <2>2
  <2>3. CASE TrueRecord(p, p.tickers[i]) \in P
    <3>1. PICK n \in 1 .. K : ranking[n] = TrueRecord(p, p.tickers[i]) BY <1>2, <2>3 DEF InLine
    <3>2. TrueOfEntry(p, p.tickers[i], rs[n]) BY <1>13, <3>1
    <3>3. rs[n] \in Elements(terminal_records(t)) BY <1>8, <1>9 DEF Elements
    <3> QED BY <3>2, <3>3
  <2> QED BY <2>1, <2>2, <2>3
<1>18. TrueList(p, terminal_records(t)) BY <1>7, <1>16, <1>17 DEF TrueList
<1> QED BY <1>6, <1>18, <1>t

\* As many records as tickers, and one of each: none is said twice.
LEMMA NoneTwice ==
  ASSUME NEW p \in DaybreakInput, NEW all \in Seq(Record), TrueList(p, all)
  PROVE  DistinctList(all)
<1>N. PICK N : N = Len(all) OBVIOUS
<1>1. N \in Nat /\ DOMAIN all = 1 .. N /\ DOMAIN p.tickers = 1 .. N /\ Len(p.tickers) = N
  <2>1. Len(p.tickers) = N BY <1>N DEF TrueList
  <2>2. DOMAIN all = 1 .. N /\ N \in Nat BY <1>N
  <2> QED BY <2>1, <2>2, TickersAre
<1>f. PICK f : f = [k \in 1 .. N |-> CHOOSE i \in 1 .. N : p.tickers[i].ticker = all[k].ticker] OBVIOUS
<1>2. \A k \in 1 .. N : f[k] \in 1 .. N /\ p.tickers[f[k]].ticker = all[k].ticker
  <2> TAKE k \in 1 .. N
  <2>1. all[k] \in Elements(all) BY <1>1 DEF Elements
  <2>2. \E i \in 1 .. N : p.tickers[i].ticker = all[k].ticker BY <1>1, <2>1 DEF TrueList, TrueOfEntry
  <2> QED BY <1>f, <2>2
<1>3. f \in [1 .. N -> 1 .. N] BY <1>2, <1>f
<1>4. \A i \in 1 .. N : \E k \in 1 .. N : f[k] = i
  <2> TAKE i \in 1 .. N
  <2>1. PICK r \in Elements(all) : r.ticker = p.tickers[i].ticker BY <1>1 DEF TrueList, TrueOfEntry
  <2>2. PICK k \in 1 .. N : r = all[k] BY <1>1, <2>1 DEF Elements
  <2>3. p.tickers[f[k]].ticker = p.tickers[i].ticker BY <1>2, <2>1, <2>2
  <2>4. f[k] = i BY <1>1, <1>2, <2>3, TickersAre
  <2> QED BY <2>4
<1>5. f \in Injection(1 .. N, 1 .. N)
  <2>1. IsFiniteSet(1 .. N) BY <1>1, Interval
  <2>2. f \in Surjection(1 .. N, 1 .. N) BY <1>3, <1>4 DEF Surjection
  <2>3. Cardinality(1 .. N) = Cardinality(1 .. N) <=> f \in Injection(1 .. N, 1 .. N)
    BY <2>1, <2>2, FS_Surjection
  <2> QED BY <2>3
<1>6. \A j, k \in 1 .. N : f[j] = f[k] => j = k BY <1>5 DEF Injection, IsInjective
<1>7. \A j, k \in 1 .. N : all[j].ticker = all[k].ticker => j = k
  <2> TAKE j, k \in 1 .. N
  <2> HAVE all[j].ticker = all[k].ticker
  <2>1. f[j] = f[k] BY <1>f
  <2> QED BY <1>6, <2>1
<1> QED BY <1>1, <1>7 DEF DistinctList

LEMMA TruthIsExclusive ==
  ASSUME NEW p \in DaybreakInput, Scored(p)
  PROVE  TerminalExclusive(TrueAnswer(p))
<1>t. PICK t, all : t = TrueAnswer(p) /\ all = terminal_records(t) OBVIOUS
<1>1. t \in DaybreakOutput /\ TrueList(p, all) BY <1>t, TruthLists
<1>2. all \in Seq(Record) BY <1>1, <1>t, OutputIs
<1>3. DistinctList(all) BY <1>1, <1>2, NoneTwice
<1>4. t.failures = {} BY <1>t, TruthIs DEF Truth, IsPartition
<1>5. FailedTickers(t) = {} BY <1>4 DEF FailedTickers
<1>6. TerminalExclusive(t) BY <1>3, <1>5, <1>t DEF TerminalExclusive, DistinctList
<1> QED BY <1>6, <1>t

-----------------------------------------------------------------------------
(* Where the comparison finds no difference.                               *)

\* What the comparison found, t being the true answer.
NoDifference(t, out) ==
  /\ Len(t.approved) = Len(out.approved)
  /\ \A i \in DOMAIN t.approved : t.approved[i].ticker = out.approved[i].ticker
  /\ \A ticker \in Tickers(terminal_records(t)) \cup Tickers(terminal_records(out)) :
       ~ Disagree(t, out, ticker)

LEMMA NoDifferenceIs ==
  ASSUME NEW t, NEW out, NEW c, c = compare_outputs(t, out), c.sameOrder, c.disagreements = {}
  PROVE  NoDifference(t, out)
<1>1. c.sameOrder = (Len(t.approved) = Len(out.approved) /\
                     \A i \in DOMAIN t.approved : t.approved[i].ticker = out.approved[i].ticker)
  BY Zenon DEF compare_outputs
<1>2. c.disagreements = {u \in Tickers(terminal_records(t)) \cup Tickers(terminal_records(out)) :
                           Disagree(t, out, u)}
  BY Zenon DEF compare_outputs
<1> QED BY <1>1, <1>2 DEF NoDifference

\* The judgement of the answer is that of the payload.
LEMMA BucketAgrees ==
  ASSUME NEW p, NEW out, Checked(p, out), NEW r \in Elements(terminal_records(out)),
         NEW i \in DOMAIN p.tickers, p.tickers[i].ticker = r.ticker,
         ~ Disagree(TrueAnswer(p), out, r.ticker)
  PROVE  r.score.bucket = p.tickers[i].bucket
<1>0. p \in DaybreakInput /\ Scored(p) /\ out \in DaybreakOutput /\ TerminalExclusive(out) BY DEF Checked
<1>t. PICK t : t = TrueAnswer(p) OBVIOUS
<1>1. t \in DaybreakOutput /\ TrueList(p, terminal_records(t)) /\ TerminalExclusive(t)
  BY <1>0, <1>t, TruthLists, TruthIsExclusive
<1>2. PICK u \in Elements(terminal_records(t)) : TrueOfEntry(p, p.tickers[i], u) BY <1>1 DEF TrueList
<1>3. u.ticker = r.ticker /\ u.score.bucket = p.tickers[i].bucket BY <1>2 DEF TrueOfEntry, ScoredAs
<1>4. RecordOf(t, u.ticker) = u BY <1>1, RecordOfIs
<1>5. RecordOf(out, r.ticker) = r BY <1>0, RecordOfIs
<1>6. RecordOf(t, r.ticker).score.bucket = RecordOf(out, r.ticker).score.bucket BY <1>t DEF Disagree
<1> QED BY <1>3, <1>4, <1>5, <1>6

LEMMA SameWhereScored ==
  ASSUME NEW p, NEW out, Checked(p, out), NoDifference(TrueAnswer(p), out)
  PROVE  SameTrades(out, TrueAnswer(p))
<1>0. /\ p \in DaybreakInput /\ Scored(p) /\ out \in DaybreakOutput /\ TerminalExclusive(out)
      /\ ScoresReplay(p, out)
  BY DEF Checked
<1>t. PICK t : t = TrueAnswer(p) OBVIOUS
<1>1. t \in DaybreakOutput /\ TrueList(p, terminal_records(t)) /\ TerminalExclusive(t)
  BY <1>0, <1>t, TruthLists, TruthIsExclusive
<1>2. /\ Tickers(out.qualified) \subseteq Tickers(terminal_records(out))
      /\ Tickers(t.qualified) \subseteq Tickers(terminal_records(t))
  BY <1>0, <1>1, ArraysApart
<1>3. ASSUME NEW ticker \in Tickers(terminal_records(t)) \cup Tickers(terminal_records(out))
      PROVE  ~ Disagree(t, out, ticker) /\ Terminal(t, ticker) = Terminal(out, ticker)
  BY <1>t DEF NoDifference, Disagree
<1>4. \A x, ticker : Terminal(x, ticker) = "qualified_not_selected" => ticker \in Tickers(x.qualified)
  BY DEF Terminal, None
<1>5. Tickers(out.qualified) = Tickers(t.qualified)
  <2>1. \A ticker \in Tickers(out.qualified) : Terminal(out, ticker) = "qualified_not_selected"
    BY <1>0, RecordOfIs
  <2>2. \A ticker \in Tickers(t.qualified) : Terminal(t, ticker) = "qualified_not_selected"
    BY <1>1, RecordOfIs
  <2>3. \A ticker \in Tickers(out.qualified) : ticker \in Tickers(t.qualified) BY <1>2, <1>3, <1>4, <2>1
  <2>4. \A ticker \in Tickers(t.qualified) : ticker \in Tickers(out.qualified) BY <1>2, <1>3, <1>4, <2>2
  <2> QED BY <2>3, <2>4
<1>6. /\ out.approved \in Seq(Record) /\ t.approved \in Seq(Record)
      /\ Elements(out.approved) \subseteq Elements(terminal_records(out))
      /\ Elements(t.approved) \subseteq Elements(terminal_records(t))
  BY <1>0, <1>1, OutputIs
<1>D. PICK D : D = DOMAIN out.approved OBVIOUS
<1>7. DOMAIN t.approved = D /\ \A i \in D : t.approved[i].ticker = out.approved[i].ticker
  <2>1. Len(t.approved) = Len(out.approved)
        /\ \A i \in DOMAIN t.approved : t.approved[i].ticker = out.approved[i].ticker
    BY <1>t DEF NoDifference
  <2>2. \A s \in Seq(Record) : DOMAIN s = 1 .. Len(s) OBVIOUS
  <2>3. DOMAIN t.approved = DOMAIN out.approved BY <1>6, <2>1, <2>2
  <2> QED BY <2>1, <2>3, <1>D
<1>8. ASSUME NEW i \in D
      PROVE  /\ Content(t.approved[i]) = Content(out.approved[i])
             /\ t.approved[i].trade = out.approved[i].trade
  <2>r. PICK r, u : r = out.approved[i] /\ u = t.approved[i] OBVIOUS
  <2>1. r \in Elements(out.approved) /\ u \in Elements(t.approved) BY <1>7, <1>D, <2>r DEF Elements
  <2>2. r \in Elements(terminal_records(out)) /\ u \in Elements(terminal_records(t)) BY <1>6, <2>1
  <2>3. u.ticker = r.ticker BY <1>7, <2>r
  <2>4. PICK k \in DOMAIN p.tickers : TrueOfEntry(p, p.tickers[k], u) BY <1>1, <2>2 DEF TrueList
  <2>e. PICK e : e = p.tickers[k] OBVIOUS
  <2>5. /\ u.ticker = e.ticker /\ u.flags = expected_risk_flags(e) /\ u.trade = <<e.price, e.low>>
        /\ ScoredAs(u.score, e.bucket, expected_score_fields(p, e, e.bucket))
    BY <2>4, <2>e DEF TrueOfEntry
  <2>6. r.ticker \in Tickers(terminal_records(out)) BY <2>2 DEF Tickers, Elements
  <2>7. ~ Disagree(TrueAnswer(p), out, r.ticker) BY <1>3, <1>t, <2>6
  <2>8. r.score.bucket = e.bucket BY <2>2, <2>3, <2>5, <2>7, <2>e, BucketAgrees
  <2>9. /\ ScoredAs(r.score, r.score.bucket, expected_score_fields(p, e, r.score.bucket))
        /\ r.flags = expected_risk_flags(e)
    BY <2>2, <2>3, <2>5, <2>e, SaidScoreIs
  <2>10. Content(u) = Content(r) BY <2>3, <2>5, <2>8, <2>9, SameContents
  <2>11. EntriesOf(p, r.ticker) = {e} BY <1>0, <2>3, <2>5, <2>e, OneEntry
  <2>12. r.trade = <<e.price, e.low>> BY <1>0, <2>1, <2>11 DEF ScoresReplay
  <2> QED BY <2>5, <2>10, <2>12, <2>r
<1>9. Contents(out.approved) = Contents(t.approved) BY <1>7, <1>8, <1>D DEF Contents
<1> QED BY <1>5, <1>8, <1>9, <1>t, <1>D DEF SameTrades

\* Neither trades where nothing is scored.
LEMMA SameWhereUnscored ==
  ASSUME ContractInv, report.valid, ~ Scored(payload)
  PROVE  SameTrades(answer, TrueAnswer(payload))
<1>0. ReportInv /\ answer \in DaybreakOutput BY DEF ContractInv
<1>t. PICK t : t = TrueAnswer(payload) OBVIOUS
<1>1. t.approved = <<>> /\ t.qualified = <<>>
  <2>1. payload.age \in Nat BY <1>0, PayloadIs
  <2>2. CASE ~ payload.valid BY <1>t, <2>2 DEF TrueAnswer, NoAnswer
  <2>3. CASE payload.valid /\ payload.market # "normal" BY <1>t, <2>3 DEF TrueAnswer, NoAnswer
  <2>4. CASE payload.valid /\ payload.market = "normal" /\ payload.age > 180
    BY <1>t, <2>4 DEF TrueAnswer, NoAnswer
  <2> QED BY <2>1, <2>2, <2>3, <2>4 DEF Scored
<1>2. terminal_records(answer) = <<>> BY <1>0, UnscoredIs DEF UnscoredTradesNothing
<1>3. Elements(terminal_records(answer)) = {} BY <1>2 DEF Elements
<1>4. /\ answer.approved \in Seq(Record) /\ answer.qualified \in Seq(Record)
      /\ Elements(answer.approved) = {} /\ Elements(answer.qualified) = {}
  BY <1>0, <1>3, OutputIs
<1>5. \A s \in Seq(Record) : Elements(s) = {} => s = <<>>
  <2> TAKE s \in Seq(Record)
  <2>1. s # <<>> => 1 \in DOMAIN s OBVIOUS
  <2> QED BY <2>1 DEF Elements
<1>6. answer.approved = <<>> /\ answer.qualified = <<>> BY <1>4, <1>5
<1>7. DOMAIN answer.approved = {} BY <1>6
<1> QED BY <1>1, <1>6, <1>7, <1>t DEF SameTrades

LEMMA NoDifferenceHolds == ContractInv => NoDifferenceMeansSameTrades
<1> SUFFICES ASSUME ContractInv, report.valid, comparison.done, comparison.sameStatus,
                    comparison.sameOrder, comparison.disagreements = {}
             PROVE  SameTrades(answer, TrueAnswer(payload))
  BY DEF NoDifferenceMeansSameTrades
<1>1. comparison = compare_outputs(TrueAnswer(payload), answer)
  BY DEF ContractInv, ReportInv, NoComparison
<1>2. NoDifference(TrueAnswer(payload), answer) BY <1>1, NoDifferenceIs
<1>3. CASE Scored(payload) BY <1>2, <1>3, AcceptedIsChecked, SameWhereScored
<1>4. CASE ~ Scored(payload) BY <1>4, SameWhereUnscored
<1> QED BY <1>3, <1>4

\* An answer the 77 checks let through has the content of the true answer, its ranking and
\* its best three, quotes evidence that is in the text, and trades nothing on a payload that
\* was not to be scored: whatever the payload and however far the model's answer is from
\* the truth.
THEOREM AcceptedIsSoundTheorem == ContractSpec => []AcceptedIsSound
<1>1. ContractInv => AcceptedIsSound
  <2> SUFFICES ASSUME ContractInv PROVE AcceptedIsSound OBVIOUS
  <2>1. ReportInv BY DEF ContractInv
  <2>2. AcceptedIsTrue BY AcceptedTrue
  <2>3. ApprovedAreBest BY AcceptedBest
  <2>4. EvidenceIsInText BY QuotedIs
  <2>5. UnscoredTradesNothing BY <2>1, UnscoredIs
  <2> QED BY <2>2, <2>3, <2>4, <2>5 DEF AcceptedIsSound
<1>2. ContractSpec => []ContractInv BY ContractInvariant
<1> QED BY <1>1, <1>2, PTL

\* Two accepted answers between which compare_outputs finds no difference trade the same.
THEOREM NoDifferenceTheorem == ContractSpec => []NoDifferenceMeansSameTrades
<1>1. ContractInv => NoDifferenceMeansSameTrades BY NoDifferenceHolds
<1>2. ContractSpec => []ContractInv BY ContractInvariant
<1> QED BY <1>1, <1>2, PTL

-----------------------------------------------------------------------------
(* The scores of a true answer pass the checks.                            *)

\* What a true score quotes: its evidence, or the first of it.
Quotes(s, full) ==
  /\ s.excerpt = FirstOf(full) /\ s.truncated = (FirstOf(full) # full)
  /\ s.start = (IF full = NoSpan THEN NoPosition ELSE full[1])
  /\ s.end = (IF full = NoSpan THEN NoPosition ELSE full[2])

SoundQuote(e, s, full) ==
  /\ EvidenceIndexed(e, s)
  /\ s.excerpt = NoSpan \/ s.excerpt[2] - s.excerpt[1] <= MaxExcerpt
  /\ (s.start = NoPosition) <=> (s.end = NoPosition)
  /\ full = NoSpan => NoEvidence(s) /\ ~ s.truncated
  /\ full # NoSpan => s.excerpt # NoSpan

LEMMA QuoteIsSound ==
  ASSUME NEW e \in TickerInput, NEW full \in Spans, full # NoSpan => InText(e, full),
         NEW s, Quotes(s, full)
  PROVE  SoundQuote(e, s, full)
<1>0. MaxExcerpt \in Nat /\ MaxExcerpt # 0 BY ReplayAssumption
<1>1. CASE full = NoSpan
  <2>1. FirstOf(full) = NoSpan BY <1>1 DEF FirstOf
  <2>2. s.excerpt = NoSpan /\ s.truncated = FALSE /\ s.start = NoPosition /\ s.end = NoPosition
    BY <1>1, <2>1 DEF Quotes
  <2> QED BY <1>1, <2>2 DEF SoundQuote, EvidenceIndexed, Positioned, NoEvidence
<1>2. CASE full # NoSpan
  <2>1. PICK a \in Int, b \in Int : full = <<a, b>> BY <1>2 DEF Spans
  <2>2. 0 <= a /\ a < b /\ b <= e.text BY <1>2, <2>1 DEF InText
  <2>3. e.text \in Nat BY DEF TickerInput
  <2>c. PICK c \in Int : c = IF b - a > MaxExcerpt THEN a + MaxExcerpt ELSE b
    <3>1. (IF b - a > MaxExcerpt THEN a + MaxExcerpt ELSE b) \in Int BY <1>0
    <3> QED BY <3>1
  <2>4. FirstOf(full) = <<a, c>> BY <1>2, <2>1, <2>c DEF FirstOf
  <2>5. s.excerpt = <<a, c>> /\ s.start = a /\ s.end = b /\ s.truncated = (<<a, c>> # <<a, b>>)
    BY <1>2, <2>1, <2>4 DEF Quotes
  <2>6. a < c /\ c <= b /\ c - a <= MaxExcerpt /\ (c = b \/ b - a > MaxExcerpt)
    BY <1>0, <2>2, <2>c
  <2>7. Positioned(s) BY <2>2, <2>5 DEF Positioned, NoPosition
  <2>8. Span(e.text, a, b) = <<a, b>> BY <2>2, <2>3 DEF Span
  <2>9. InText(e, <<a, b>>) /\ InText(e, <<a, c>>) BY <2>2, <2>3, <2>6 DEF InText
  <2>10. <<a, c>> # NoSpan /\ <<a, b>> # NoSpan BY DEF NoSpan
  <2>11. CASE c = b
    <3>1. s.truncated = FALSE BY <2>5, <2>11
    <3>2. EvidenceIndexed(e, s) BY <2>5, <2>8, <2>9, <2>11, <3>1 DEF EvidenceIndexed
    <3> QED BY <1>2, <2>2, <2>5, <2>6, <2>10, <3>2 DEF SoundQuote, NoPosition
  <2>12. CASE c # b
    <3>1. s.truncated = TRUE BY <2>5, <2>12
    <3>2. <<a, b>>[2] - <<a, b>>[1] > MaxExcerpt /\ FirstOf(<<a, b>>) = <<a, c>>
      BY <2>1, <2>4, <2>6, <2>12
    <3>3. EvidenceIndexed(e, s)
      BY <2>5, <2>7, <2>8, <2>9, <2>10, <3>1, <3>2 DEF EvidenceIndexed
    <3> QED BY <1>2, <2>2, <2>5, <2>6, <2>10, <3>3 DEF SoundQuote, NoPosition
  <2> QED BY <2>11, <2>12
<1> QED BY <1>1, <1>2

LEMMA QuotesAre ==
  ASSUME NEW b, NEW f, NEW full
  PROVE  Quotes(TrueScore(b, f, full), full)
<1>1. PICK excerpt, truncated : excerpt = FirstOf(full) /\ truncated = (FirstOf(full) # full) OBVIOUS
<1>2. PICK start, end : /\ start = IF full = NoSpan THEN NoPosition ELSE full[1]
                        /\ end = IF full = NoSpan THEN NoPosition ELSE full[2] OBVIOUS
<1>3. TrueScore(b, f, full) =
        [source |-> f.source, bucket |-> b, magnitude |-> f.magnitude,
         override |-> f.override, zero |-> f.zero, raw |-> f.raw,
         catalyst |-> f.catalyst, volume |-> f.volume, grade |-> f.grade,
         base |-> f.base, technical |-> f.technical, adjusted |-> f.adjusted,
         purpose |-> expected_evidence_purpose(f.zero), excerpt |-> excerpt, truncated |-> truncated,
         start |-> start, end |-> end]
  BY <1>1, <1>2 DEF TrueScore
<1> QED BY <1>1, <1>2, <1>3 DEF Quotes

\* A true score passes the checks on it.
SoundScore(p, e, s) ==
  /\ ScoreBreakdown(s) /\ EvidenceIndexed(e, s) /\ TechnicalConsistent(s) /\ ZeroConsistent(s)
  /\ NoDriverShape(s) /\ PurposeMatches(s) /\ ContentEvidence(s) /\ VolumeRules(e, s)
  /\ ZeroPrecedence(p, e, s)

LEMMA ZeroOf ==
  ASSUME NEW p, NEW e \in TickerInput, NEW b
  PROVE  /\ expected_zero_reason(p, e, b) \in Zero
         /\ expected_zero_reason(p, e, b) = "disqualifier_flag" <=> e.disqualified
         /\ expected_zero_reason(p, e, b) = "no_valid_driver" => b = "no_valid_driver"
  BY DEF expected_zero_reason, Zero, None

\* The fields go together.
LEMMA FieldsFit ==
  ASSUME NEW p, NEW e \in TickerInput, NEW b \in Bucket, NEW f, f = expected_score_fields(p, e, b)
  PROVE  /\ f.grade = "C" => ~ f.adjusted
         /\ <<f.grade, f.technical>> \in {<<"A+", 25>>, <<"A+", 19>>, <<"A", 22>>, <<"A", 16>>,
                                          <<"B", 13>>, <<"B", 7>>, <<"C", 0>>}
         /\ f.zero # None => f.raw = 0 /\ f.catalyst = 0
<1>0. FieldsAgree(p, e, b, f) BY FieldsAre
<1>1. /\ Points(f.grade, f.base, f.technical, f.adjusted)
      /\ f.raw = (IF f.zero = None THEN f.source + f.magnitude ELSE 0) /\ f.catalyst = f.raw * 4
  BY <1>0 DEF FieldsAgree
<1>2. PICK g, n, t, a : g = f.grade /\ n = f.base /\ t = f.technical /\ a = f.adjusted OBVIOUS
<1>3. Points(g, n, t, a) BY <1>1, <1>2
<1>4. g = "C" => ~ a BY <1>3 DEF Points
<1>5. <<g, t>> \in {<<"A+", 25>>, <<"A+", 19>>, <<"A", 22>>, <<"A", 16>>,
                    <<"B", 13>>, <<"B", 7>>, <<"C", 0>>}
  BY <1>3 DEF Points
<1>6. f.zero # None => f.raw = 0 /\ f.catalyst = 0 BY <1>1
<1> QED BY <1>2, <1>4, <1>5, <1>6

LEMMA PurposeIs ==
  \A zero : /\ expected_evidence_purpose(zero) = "disqualifier" <=> zero = "disqualifier_flag"
            /\ expected_evidence_purpose(zero) = "none" <=> zero = "no_valid_driver"
  BY DEF expected_evidence_purpose

\* And it follows from its ticker.
Follows(e, s) ==
  /\ s.zero = "disqualifier_flag" <=> e.disqualified
  /\ e.evidence = NoSpan => NoEvidence(s)
  /\ e.distance < Unit \/ e.chart = "capped" =>
       s.grade = "C" /\ s.base = 0 /\ s.technical = 0 /\ s.adjusted = FALSE
  /\ s.adjusted = expected_technical(e).adjusted

LEMMA ScoreIsSound ==
  ASSUME NEW p, NEW e \in TickerInput, Judgeable(e), NEW s, s = TrueRecord(p, e).score
  PROVE  SoundScore(p, e, s) /\ Follows(e, s)
<1>b. PICK b : b = e.bucket OBVIOUS
<1>f. PICK f : f = expected_score_fields(p, e, b) OBVIOUS
<1>0. PICK full : full = IF f.zero = "no_valid_driver" THEN NoSpan ELSE e.evidence OBVIOUS
<1>1. b \in Bucket /\ e.evidence \in Spans BY <1>b DEF TickerInput
<1>2. /\ f \in Fields /\ f.zero = expected_zero_reason(p, e, b) /\ (f.override <=> f.zero # None)
      /\ f.magnitude = MAGNITUDE_POINTS[b] /\ f.volume = expected_volume_points(e)
      /\ e.distance < Unit \/ e.chart = "capped" =>
           f.grade = "C" /\ f.base = 0 /\ f.technical = 0 /\ f.adjusted = FALSE
  <2>1. f \in Fields /\ FieldsAgree(p, e, b, f) BY <1>1, <1>f, FieldsAre
  <2> QED BY <2>1, Zenon DEF FieldsAgree
<1>3. s = TrueScore(b, f, full)
  <2>1. TrueOf(p, e, TrueRecord(p, e)) BY TrueRecordIs
  <2> QED BY <2>1, <1>b, <1>f, <1>0 DEF TrueOf
<1>4. ScoredAs(s, b, f) /\ Quotes(s, full) BY <1>2, <1>3, TrueScoreIs, QuotesAre
<1>5. /\ s.source = f.source /\ s.magnitude = f.magnitude /\ s.override = f.override
      /\ s.zero = f.zero /\ s.raw = f.raw /\ s.catalyst = f.catalyst /\ s.volume = f.volume
      /\ s.grade = f.grade /\ s.base = f.base /\ s.technical = f.technical
      /\ s.adjusted = f.adjusted /\ s.bucket = b /\ s.purpose = expected_evidence_purpose(f.zero)
  BY <1>4 DEF ScoredAs, Reported
<1>6. full \in Spans /\ (full # NoSpan => InText(e, full))
  BY <1>1, <1>0 DEF Spans, Judgeable
<1>7. SoundQuote(e, s, full) BY <1>4, <1>6, QuoteIsSound
<1>8. /\ EvidenceIndexed(e, s)
      /\ s.excerpt = NoSpan \/ s.excerpt[2] - s.excerpt[1] <= MaxExcerpt
      /\ (s.start = NoPosition) <=> (s.end = NoPosition)
      /\ full = NoSpan => NoEvidence(s) /\ ~ s.truncated
      /\ full # NoSpan => s.excerpt # NoSpan
  BY <1>7 DEF SoundQuote
<1>9. /\ f.grade = "C" => ~ f.adjusted
      /\ <<f.grade, f.technical>> \in {<<"A+", 25>>, <<"A+", 19>>, <<"A", 22>>, <<"A", 16>>,
                                       <<"B", 13>>, <<"B", 7>>, <<"C", 0>>}
      /\ f.zero # None => f.raw = 0 /\ f.catalyst = 0
  BY <1>1, <1>f, FieldsFit
<1>10. /\ f.zero \in Zero
       /\ f.zero = "disqualifier_flag" <=> e.disqualified
       /\ f.zero = "no_valid_driver" => b = "no_valid_driver"
  BY <1>2, ZeroOf
<1>11. /\ s.purpose = "disqualifier" <=> s.zero = "disqualifier_flag"
       /\ s.purpose = "none" <=> s.zero = "no_valid_driver"
  BY <1>5, PurposeIs
<1>12. s.override <=> s.zero # None BY <1>2, <1>5, Zenon
<1>13. s.zero = "no_valid_driver" => NoEvidence(s) /\ ~ s.truncated BY <1>0, <1>5, <1>8
<1>14. ScoreBreakdown(s)
  <2>1. /\ s.source \in 0 .. 6 /\ s.bucket \in Bucket /\ s.magnitude \in 0 .. 4
        /\ s.raw \in 0 .. 10 /\ s.catalyst \in 0 .. 40
        /\ s.volume \in {0, 15, 25, 35} /\ s.base \in {0, 13, 22, 25}
        /\ s.technical \in {0, 7, 13, 16, 19, 22, 25}
    BY <1>1, <1>2, <1>5 DEF Fields
  <2>2. /\ s.purpose = "disqualifier" => s.zero = "disqualifier_flag"
        /\ s.purpose = "none" =>
             /\ s.zero = "no_valid_driver"
             /\ s.excerpt = NoSpan /\ ~ s.truncated /\ s.start = NoPosition
        /\ s.purpose = "magnitude" => s.zero \notin {"disqualifier_flag", "no_valid_driver"}
    BY <1>11, <1>13 DEF NoEvidence
  <2> QED BY <1>8, <1>12, <2>1, <2>2, Zenon DEF ScoreBreakdown
<1>15. TechnicalConsistent(s) BY <1>5, <1>9 DEF TechnicalConsistent
<1>16. ZeroConsistent(s)
  <2>1. s.override => s.raw = 0 /\ s.catalyst = 0 BY <1>5, <1>9, <1>12
  <2>2. s.magnitude = MAGNITUDE_POINTS[s.bucket] BY <1>2, <1>5
  <2> QED BY <1>12, <2>1, <2>2, Zenon DEF ZeroConsistent
<1>17. NoDriverShape(s)
  <2>1. s.zero = "no_valid_driver" => s.bucket = "no_valid_driver" BY <1>5, <1>10
  <2>2. s.bucket = "no_valid_driver" => s.magnitude = 0 BY <1>1, <1>2, <1>5, MagnitudeIs
  <2> QED BY <1>13, <2>1, <2>2 DEF NoDriverShape
<1>18. PurposeMatches(s) BY <1>5 DEF PurposeMatches
<1>19. ContentEvidence(s)
  <2> SUFFICES ASSUME s.zero \in {"unconfirmed_source", "stale_catalyst"}, s.bucket # "no_valid_driver"
               PROVE  s.excerpt # NoSpan
    BY DEF ContentEvidence
  <2>1. full = e.evidence /\ ~ e.disqualified BY <1>0, <1>5, <1>10
  <2>2. e.evidence # NoSpan BY <1>5, <1>b, <2>1 DEF Judgeable
  <2> QED BY <1>8, <2>1, <2>2
<1>20. VolumeRules(e, s)
  <2>1. s.volume = expected_volume_points(e) BY <1>2, <1>5
  <2>2. PICK n \in Nat, u \in Nat : n = e.rvol /\ u = 5 * Unit BY ReplayAssumption DEF TickerInput
  <2>3. e.profile = "spiky" => s.volume = 15 BY <2>1 DEF expected_volume_points
  <2>4. ASSUME e.profile = "clean", n < u PROVE s.volume = 0
    <3>1. e.profile # "spiky" /\ e.rvol < 5 * Unit BY <2>2, <2>4
    <3>2. expected_volume_points(e) =
            CASE e.profile = "spiky" -> 15
              [] e.profile # "spiky" /\ e.rvol < 5 * Unit -> 0
              [] e.profile # "spiky" /\ e.rvol \in 5 * Unit .. 10 * Unit -> 25
              [] OTHER -> 35
      BY DEF expected_volume_points
    <3>3. 5 * Unit \in Int /\ 10 * Unit \in Int /\ e.rvol \in Int BY ReplayAssumption DEF TickerInput
    <3>4. ~ (e.rvol \in 5 * Unit .. 10 * Unit) BY <3>1, <3>3
    <3>5. expected_volume_points(e) = 0 BY <3>1, <3>2, <3>4, Zenon
    <3> QED BY <2>1, <3>5
  <2> QED BY <2>2, <2>3, <2>4 DEF VolumeRules
<1>21. ZeroPrecedence(p, e, s) BY <1>2, <1>5 DEF ZeroPrecedence
<1>22. SoundScore(p, e, s)
  BY <1>8, <1>14, <1>15, <1>16, <1>17, <1>18, <1>19, <1>20, <1>21 DEF SoundScore
<1>23. s.zero = "disqualifier_flag" <=> e.disqualified BY <1>5, <1>10
<1>24. e.evidence = NoSpan => NoEvidence(s) BY <1>0, <1>8
<1>25. f.adjusted = expected_technical(e).adjusted BY <1>f DEF expected_score_fields
<1>26. e.distance < Unit \/ e.chart = "capped" =>
         s.grade = "C" /\ s.base = 0 /\ s.technical = 0 /\ s.adjusted = FALSE
  BY <1>2, <1>5
<1>27. Follows(e, s) BY <1>5, <1>23, <1>24, <1>25, <1>26 DEF Follows
<1> QED BY <1>22, <1>27

-----------------------------------------------------------------------------
(* So do its flags and its reasons.                                        *)

\* What is kept is what stands at the positions, earlier ones first.
InPlace(k, s, I, f) ==
  /\ DOMAIN k = 1 .. Len(k) /\ f \in [1 .. Len(k) -> I]
  /\ \A n \in 1 .. Len(k) : k[n] = s[f[n]]
  /\ \A i \in I : \E n \in 1 .. Len(k) : f[n] = i
  /\ \A m, n \in 1 .. Len(k) : m < n => f[m] < f[n]

LEMMA KeptInPlace ==
  ASSUME NEW S, NEW s \in Seq(S), NEW I \in SUBSET DOMAIN s
  PROVE  Kept(s, I) \in Seq(S) /\ \E f : InPlace(Kept(s, I), s, I, f)
<1>1. /\ Kept(s, I) \in Seq(S)
      /\ \E f : /\ Lists(Kept(s, I), s, I, f)
                /\ \A m, n \in 1 .. Cardinality(I) : m < n => f[m] < f[n]
  BY KeptIs
<1>2. PICK f : /\ Lists(Kept(s, I), s, I, f)
               /\ \A m, n \in 1 .. Cardinality(I) : m < n => f[m] < f[n]
  BY <1>1
<1>3. InPlace(Kept(s, I), s, I, f) BY <1>2 DEF Lists, InPlace
<1> QED BY <1>1, <1>3

LEMMA FlagsAreSound ==
  ASSUME NEW e \in TickerInput
  PROVE  /\ _validate_risk_flags(expected_risk_flags(e))
         /\ "parabolic" \in Elements(expected_risk_flags(e)) <=> expected_technical(e).adjusted
<1>r. PICK raised : raised =
                [parabolic        |-> expected_technical(e).adjusted,
                 hard_to_borrow   |-> e.borrow = "hard_to_borrow",
                 unknown_borrow   |-> e.borrow = "unknown",
                 low_float        |-> e.float < 50,
                 spiky_volume     |-> e.profile = "spiky",
                 secondary_source |-> e.source = "secondary"]
  OBVIOUS
<1>I. PICK I : I = {i \in DOMAIN RISK_FLAG_ORDER : raised[RISK_FLAG_ORDER[i]]} OBVIOUS
<1>k. PICK k : k = expected_risk_flags(e) OBVIOUS
<1>1. k = Kept(RISK_FLAG_ORDER, I) BY <1>r, <1>I, <1>k DEF expected_risk_flags
<1>2. I \in SUBSET DOMAIN RISK_FLAG_ORDER BY <1>I
<1>3. RISK_FLAG_ORDER \in Seq(Elements(RISK_FLAG_ORDER)) /\ DOMAIN RISK_FLAG_ORDER = 1 .. 6
  BY OrdersAreLists
<1>4. k \in Seq(Elements(RISK_FLAG_ORDER)) /\ \E f : InPlace(k, RISK_FLAG_ORDER, I, f)
  BY <1>1, <1>2, <1>3, KeptInPlace
<1>5. PICK f : InPlace(k, RISK_FLAG_ORDER, I, f) BY <1>4
<1>6. Len(k) \in Nat BY <1>4
<1>7. \A i, j \in 1 .. 6 : RISK_FLAG_ORDER[i] = RISK_FLAG_ORDER[j] => i = j BY DEF RISK_FLAG_ORDER
<1>8. \A i \in 1 .. 6 : FlagIndex(RISK_FLAG_ORDER[i]) = i BY <1>3, <1>7 DEF FlagIndex
<1>9. \A n \in 1 .. Len(k) : f[n] \in I /\ f[n] \in 1 .. 6 /\ k[n] = RISK_FLAG_ORDER[f[n]]
  BY <1>2, <1>3, <1>5 DEF InPlace
<1>10. _validate_risk_flags(k)
  <2> SUFFICES ASSUME NEW i \in 2 .. Len(k) PROVE FlagIndex(k[i - 1]) < FlagIndex(k[i])
    BY DEF _validate_risk_flags
  <2>1. i \in 1 .. Len(k) /\ i - 1 \in 1 .. Len(k) /\ i - 1 < i BY <1>6
  <2>2. f[i - 1] < f[i] BY <1>5, <2>1 DEF InPlace
  <2>3. FlagIndex(k[i]) = f[i] /\ FlagIndex(k[i - 1]) = f[i - 1] BY <1>8, <1>9, <2>1
  <2> QED BY <2>2, <2>3
<1>11. "parabolic" \in Elements(k) <=> 1 \in I
  <2>1. RISK_FLAG_ORDER[1] = "parabolic" BY DEF RISK_FLAG_ORDER
  <2>2. ASSUME "parabolic" \in Elements(k) PROVE 1 \in I
    <3>1. PICK n \in 1 .. Len(k) : k[n] = "parabolic" BY <1>5, <2>2 DEF Elements, InPlace
    <3>2. RISK_FLAG_ORDER[f[n]] = "parabolic" BY <1>9, <3>1
    <3>3. f[n] = 1 BY <1>7, <1>9, <2>1, <3>2
    <3> QED BY <1>9, <3>3
  <2>3. ASSUME 1 \in I PROVE "parabolic" \in Elements(k)
    <3>1. PICK n \in 1 .. Len(k) : f[n] = 1 BY <1>5, <2>3 DEF InPlace
    <3>2. k[n] = "parabolic" BY <1>9, <2>1, <3>1
    <3> QED BY <1>5, <3>2 DEF Elements, InPlace
  <2> QED BY <2>2, <2>3
<1>12. 1 \in I <=> expected_technical(e).adjusted
  <2>1. RISK_FLAG_ORDER[1] = "parabolic" BY DEF RISK_FLAG_ORDER
  <2>2. 1 \in I <=> raised["parabolic"] BY <1>3, <1>I, <2>1
  <2>3. raised["parabolic"] = expected_technical(e).adjusted BY <1>r
  <2> QED BY <2>2, <2>3
<1> QED BY <1>10, <1>11, <1>12, <1>k

\* The gates of a chart that fails are the last two.
LEMMA ChartReasons ==
  ASSUME NEW e \in TickerInput, NEW raw, NEW k, k = expected_failed_gates(e, raw)
  PROVE  /\ "RESISTANCE_TOO_CLOSE" \in Elements(k) <=> e.distance < Unit
         /\ "CAPPED_CHART" \in Elements(k) <=> e.chart = "capped"
         /\ Head(k) \in {"RESISTANCE_TOO_CLOSE", "CAPPED_CHART"} /\ k # <<>> =>
              Head(k) = IF e.distance < Unit THEN "RESISTANCE_TOO_CLOSE" ELSE "CAPPED_CHART"
<1> DEFINE fails ==
               [HALTED                   |-> e.halted,
                CATALYST_SCORE_TOO_LOW   |-> raw < 7,
                UNCORROBORATED_CATALYST  |-> ~e.corroborated /\ raw < 9,
                GAP_TOO_SMALL            |-> e.gap < 4 * Unit,
                PREMARKET_VOLUME_TOO_LOW |-> e.volume < 500,
                RVOL_TOO_LOW             |-> e.rvol < 5 * Unit,
                RESISTANCE_TOO_CLOSE     |-> e.distance < Unit,
                CAPPED_CHART             |-> e.chart = "capped"]
<1>1. k = Kept(GATES, {i \in DOMAIN GATES : fails[GATES[i]]}) BY DEF expected_failed_gates
<1>r. fails["RESISTANCE_TOO_CLOSE"] = (e.distance < Unit) /\ fails["CAPPED_CHART"] = (e.chart = "capped")
  OBVIOUS
<1> HIDE DEF fails
<1>I. PICK I : I = {i \in DOMAIN GATES : fails[GATES[i]]} OBVIOUS
<1>2. I \in SUBSET DOMAIN GATES BY <1>I
<1>3. GATES \in Seq(Elements(GATES)) /\ DOMAIN GATES = 1 .. 8 BY OrdersAreLists
<1>4. k \in Seq(Elements(GATES)) /\ \E f : InPlace(k, GATES, I, f)
  BY <1>1, <1>I, <1>2, <1>3, KeptInPlace
<1>5. PICK f : InPlace(k, GATES, I, f) BY <1>4
<1>6. Len(k) \in Nat BY <1>4
<1>7. \A i, j \in 1 .. 8 : GATES[i] = GATES[j] => i = j BY DEF GATES
<1>8. \A n \in 1 .. Len(k) : f[n] \in I /\ f[n] \in 1 .. 8 /\ k[n] = GATES[f[n]]
  BY <1>2, <1>3, <1>5 DEF InPlace
<1>9. \A i \in 1 .. 8 : GATES[i] \in Elements(k) <=> i \in I
  <2> TAKE i \in 1 .. 8
  <2>1. ASSUME GATES[i] \in Elements(k) PROVE i \in I
    <3>1. PICK n \in 1 .. Len(k) : k[n] = GATES[i] BY <1>5, <2>1 DEF Elements, InPlace
    <3>2. f[n] = i BY <1>7, <1>8, <3>1, SMTT(30)
    <3> QED BY <1>8, <3>2
  <2>2. ASSUME i \in I PROVE GATES[i] \in Elements(k)
    <3>1. PICK n \in 1 .. Len(k) : f[n] = i BY <1>5, <2>2 DEF InPlace
    <3>2. k[n] = GATES[i] BY <1>8, <3>1
    <3> QED BY <1>5, <3>2 DEF Elements, InPlace
  <2> QED BY <2>1, <2>2
<1>10. GATES[7] = "RESISTANCE_TOO_CLOSE" /\ GATES[8] = "CAPPED_CHART" BY DEF GATES
<1>11. 7 \in I <=> e.distance < Unit
  <2>1. 7 \in I <=> fails["RESISTANCE_TOO_CLOSE"] BY <1>3, <1>I, <1>10
  <2>2. fails["RESISTANCE_TOO_CLOSE"] = (e.distance < Unit) BY <1>r
  <2> QED BY <2>1, <2>2
<1>12. 8 \in I <=> e.chart = "capped"
  <2>1. 8 \in I <=> fails["CAPPED_CHART"] BY <1>3, <1>I, <1>10
  <2>2. fails["CAPPED_CHART"] = (e.chart = "capped") BY <1>r
  <2> QED BY <2>1, <2>2
<1>13. "RESISTANCE_TOO_CLOSE" \in Elements(k) <=> e.distance < Unit
  <2>1. GATES[7] \in Elements(k) <=> 7 \in I BY <1>9
  <2> QED BY <1>10, <1>11, <2>1
<1>14. "CAPPED_CHART" \in Elements(k) <=> e.chart = "capped"
  <2>1. GATES[8] \in Elements(k) <=> 8 \in I BY <1>9
  <2> QED BY <1>10, <1>12, <2>1
<1>15. ASSUME Head(k) \in {"RESISTANCE_TOO_CLOSE", "CAPPED_CHART"}, k # <<>>
       PROVE  Head(k) = IF e.distance < Unit THEN "RESISTANCE_TOO_CLOSE" ELSE "CAPPED_CHART"
  <2>1. 1 \in 1 .. Len(k) /\ Head(k) = k[1] BY <1>4, <1>15
  <2>2. f[1] = 7 \/ f[1] = 8
    <3>1. k[1] = GATES[7] \/ k[1] = GATES[8] BY <1>10, <1>15, <2>1
    <3> QED BY <1>7, <1>8, <2>1, <3>1
  <2>3. CASE e.distance < Unit
    <3>1. PICK n \in 1 .. Len(k) : f[n] = 7 BY <1>5, <1>11, <2>3 DEF InPlace
    <3>2. n # 1 => f[1] < f[n] BY <1>5, <1>6, <2>1 DEF InPlace
    <3>3. f[1] = 7 BY <2>2, <3>1, <3>2
    <3> QED BY <1>8, <1>10, <2>1, <2>3, <3>3
  <2>4. CASE ~ (e.distance < Unit)
    <3>1. f[1] # 7 BY <1>8, <1>11, <2>1, <2>4
    <3>2. f[1] = 8 BY <2>2, <3>1
    <3> QED BY <1>8, <1>10, <2>1, <2>4, <3>2
  <2> QED BY <2>3, <2>4
<1> QED BY <1>13, <1>14, <1>15

-----------------------------------------------------------------------------
(* The ranking of the true answer is the one that is computed of it.       *)

\* An answer in the order of the ranking is in the computed order.
LEMMA SaidAsRanked ==
  ASSUME NEW out, NEW A, Ranking(passing_records(out), A),
         \A m, n \in DOMAIN passing_records(out) : m < n => <<m, n>> \in Ranks(passing_records(out), A)
  PROVE  expected_passing_order(out) =
           [n \in DOMAIN passing_records(out) |-> passing_records(out)[n].ticker]
<1>s. PICK rs : rs = passing_records(out) OBVIOUS
<1>f. PICK f : f = ByGroups(rs)[DOMAIN rs] OBVIOUS
<1>N. PICK N : N = Len(rs) OBVIOUS
<1>R. PICK D, R : D = DOMAIN rs /\ R = Ranks(rs, A) OBVIOUS
<1>1. Ranking(rs, A) BY <1>s
<1>2. InLine(f, D, R, N) BY <1>1, <1>f, <1>N, <1>R, RankedByGroups
<1>3. D = 1 .. N /\ N \in Nat BY <1>1, <1>N, <1>R DEF Ranking
<1>h. PICK h : h = [n \in 1 .. N |-> n] OBVIOUS
<1>4. InLine(h, D, R, N)
  <2>1. h \in [1 .. N -> D] BY <1>3, <1>h
  <2>2. \A i \in D : \E n \in 1 .. N : h[n] = i BY <1>3, <1>h
  <2>3. \A m, n \in 1 .. N : m < n => <<h[m], h[n]>> \in R BY <1>3, <1>h, <1>s, <1>R
  <2> QED BY <2>1, <2>2, <2>3 DEF InLine
<1>5. StrictOrder(D, R) BY <1>1, <1>R, RanksAre DEF TotalOrder
<1>6. f = h BY <1>2, <1>3, <1>4, <1>5, OneLine
<1>7. expected_passing_order(out) = [n \in DOMAIN f |-> rs[f[n]].ticker]
  BY <1>s, <1>f DEF expected_passing_order
<1>8. DOMAIN f = DOMAIN rs /\ \A n \in DOMAIN rs : f[n] = n BY <1>3, <1>6, <1>h, <1>R
<1>9. [n \in DOMAIN f |-> rs[f[n]].ticker] = [n \in DOMAIN rs |-> rs[n].ticker] BY <1>8
<1> QED BY <1>7, <1>9, <1>s

\* Its records are those of the ranking, the best three first.
TrueSplit(t, rs, P) ==
  /\ Len(rs) = Cardinality(P) /\ Cardinality(P) \in Nat /\ DOMAIN rs = 1 .. Len(rs)
  /\ Len(t.approved) = Best(Len(rs)) /\ Len(t.qualified) = Len(rs) - Best(Len(rs))
  /\ \A n \in 1 .. Best(Len(rs)) : t.approved[n] = rs[n]
  /\ \A n \in 1 .. Len(rs) - Best(Len(rs)) :
       t.qualified[n] = rs[Best(Len(rs)) + n] /\ rs[Best(Len(rs)) + n].rank = Best(Len(rs)) + n
  /\ \A n \in 1 .. Len(rs) : \E q \in P :
       rs[n] = q \/ \E k \in Nat : rs[n] = WithRank(q, k)
  /\ rs \in Seq(Record)
  /\ Ranking(rs, Anchors(P))
  /\ \A m, n \in DOMAIN rs : m < n => <<m, n>> \in Ranks(rs, Anchors(P))

LEMMA TruthSplit ==
  ASSUME NEW p \in DaybreakInput, Scored(p)
  PROVE  TrueSplit(TrueAnswer(p), passing_records(TrueAnswer(p)), Passing(TrueRecords(p)))
<1>t. PICK t, P, F : t = TrueAnswer(p) /\ P = Passing(TrueRecords(p)) /\ F = Failed(TrueRecords(p)) OBVIOUS
<1>r. PICK ranking, K, best, A : /\ ranking = TrueRanking(P) /\ K = Cardinality(P) /\ best = Best(K)
                                 /\ A = Anchors(P) OBVIOUS
<1>1. IsPartition(t, p, ranking, best, F) /\ Distinct(P) /\ Distinct(F) BY <1>t, <1>r, TruthIs DEF Truth
<1>2. ranking \in Seq(P) /\ Len(ranking) = K /\ K \in Nat /\ InLine(ranking, P, TrueOrder(P), K)
  BY <1>1, <1>r, TrueRankingIs
<1>3. ranking \in Seq(Record)
  <2>1. P \subseteq Record BY <1>1 DEF Distinct
  <2> QED BY <1>2, <2>1
<1>4. best \in 0 .. Len(ranking) /\ best \in Nat BY <1>2, <1>r DEF Best
<1>s. PICK rs : rs = passing_records(t) OBVIOUS
<1>5. /\ Len(rs) = K /\ DOMAIN rs = 1 .. K
      /\ \A n \in 1 .. K : rs[n] = IF n =< best THEN ranking[n] ELSE WithRank(ranking[n], n)
  BY <1>1, <1>2, <1>3, <1>4, <1>s, PassingInOrder
<1>6. \A n \in 1 .. K : ranking[n] \in P /\ ranking[n] \in Record
  <2>1. DOMAIN ranking = 1 .. K /\ \A n \in DOMAIN ranking : ranking[n] \in P BY <1>2
  <2> QED BY <1>1, <2>1 DEF Distinct
<1>7. t \in DaybreakOutput BY <1>1 DEF IsPartition
<1>8. rs \in Seq(Record) /\ DistinctList(rs) BY <1>7, <1>s, <1>t, OutputIs, TruthIsExclusive, ArraysApart
<1>9. \A n \in 1 .. K : /\ rs[n].ticker = ranking[n].ticker /\ rs[n].conviction = ranking[n].conviction
                        /\ rs[n].age = ranking[n].age /\ rs[n].score = ranking[n].score
  <2> TAKE n \in 1 .. K
  <2>1. n \in Nat BY <1>2
  <2>2. /\ WithRank(ranking[n], n).ticker = ranking[n].ticker
        /\ WithRank(ranking[n], n).score = ranking[n].score
        /\ WithRank(ranking[n], n).conviction = ranking[n].conviction
        /\ WithRank(ranking[n], n).age = ranking[n].age
    BY <1>6, <2>1, WithRankIs
  <2>3. rs[n] = ranking[n] \/ rs[n] = WithRank(ranking[n], n) BY <1>5
  <2> QED BY <2>2, <2>3
<1>10. Ranking(rs, A)
  <2>1. IsFiniteSet(P) /\ \A q \in P : q.conviction \in Int BY <1>1, RecordIs DEF Distinct
  <2>2. Kernel(A, {q.conviction : q \in P}) BY <2>1, <1>r, AnchorsAre
  <2>3. {rs[i].conviction : i \in DOMAIN rs} = {q.conviction : q \in P}
    <3>1. \A i \in DOMAIN rs : \E q \in P : q.conviction = rs[i].conviction BY <1>5, <1>6, <1>9
    <3>2. ASSUME NEW q \in P PROVE \E i \in DOMAIN rs : q.conviction = rs[i].conviction
      <4>1. PICK n \in 1 .. K : ranking[n] = q BY <1>2 DEF InLine
      <4> QED BY <1>5, <1>9, <4>1
    <3> QED BY <3>1, <3>2
  <2> QED BY <1>8, <2>2, <2>3 DEF Ranking, DistinctList
<1>11. \A m, n \in DOMAIN rs : m < n => <<m, n>> \in Ranks(rs, A)
  <2> TAKE m, n \in DOMAIN rs
  <2> HAVE m < n
  <2>1. m \in 1 .. K /\ n \in 1 .. K BY <1>5
  <2>2. <<ranking[m], ranking[n]>> \in TrueOrder(P) BY <1>2, <2>1 DEF InLine
  <2>3. LexLess(RankKey(A, ranking[m]), RankKey(A, ranking[n])) BY <1>r, <2>2 DEF TrueOrder
  <2>4. \A i \in 1 .. K : RankKey(A, rs[i]) = RankKey(A, ranking[i])
    <3> TAKE i \in 1 .. K
    <3>1. /\ rs[i].ticker = ranking[i].ticker /\ rs[i].conviction = ranking[i].conviction
          /\ rs[i].age = ranking[i].age /\ rs[i].score = ranking[i].score
      BY <1>9
    <3> QED BY <3>1, Zenon DEF RankKey
  <2>5. LexLess(RankKey(A, rs[m]), RankKey(A, rs[n])) BY <2>1, <2>3, <2>4
  <2> QED BY <2>5 DEF Ranks
<1>12. /\ Len(t.approved) = best /\ Len(t.qualified) = K - best
       /\ \A n \in 1 .. best : t.approved[n] = rs[n]
       /\ \A n \in 1 .. K - best : t.qualified[n] = rs[best + n] /\ rs[best + n].rank = best + n
  <2>1. Len(t.approved) = best /\ Len(t.qualified) = K - best BY <1>1, <1>2 DEF IsPartition
  <2>2. \A n \in 1 .. best : t.approved[n] = rs[n]
    <3> TAKE n \in 1 .. best
    <3>1. n \in 1 .. K /\ n =< best BY <1>2, <1>4
    <3>2. t.approved[n] = ranking[n] BY <1>1 DEF IsPartition
    <3> QED BY <1>5, <3>1, <3>2
  <2>3. ASSUME NEW n \in 1 .. K - best
        PROVE  t.qualified[n] = rs[best + n] /\ rs[best + n].rank = best + n
    <3>x. PICK x : x = best + n OBVIOUS
    <3>1. x \in 1 .. K /\ x \in Nat /\ ~ (x =< best) BY <1>2, <1>4, <3>x
    <3>2. n \in 1 .. Len(ranking) - best BY <1>2
    <3>3. t.qualified[n] = WithRank(ranking[best + n], best + n) BY <1>1, <3>2 DEF IsPartition
    <3>4. rs[x] = WithRank(ranking[x], x) BY <1>5, <3>1
    <3>5. WithRank(ranking[x], x).rank = x BY <1>6, <3>1, WithRankIs
    <3> QED BY <3>3, <3>4, <3>5, <3>x
  <2> QED BY <2>1, <2>2, <2>3
<1>13. \A n \in 1 .. K : \E q \in P : rs[n] = q \/ \E k \in Nat : rs[n] = WithRank(q, k)
  <2> TAKE n \in 1 .. K
  <2>1. n \in Nat BY <1>2
  <2>2. rs[n] = ranking[n] \/ rs[n] = WithRank(ranking[n], n) BY <1>5
  <2> QED BY <1>6, <2>1, <2>2
<1>14. TrueSplit(t, rs, P)
  <2>1. best = Best(Len(rs)) /\ Len(rs) = K BY <1>5, <1>r
  <2> QED BY <1>2, <1>5, <1>8, <1>10, <1>11, <1>12, <1>13, <1>r, <2>1 DEF TrueSplit
<1> QED BY <1>14, <1>t, <1>s

LEMMA TruthIsRanked ==
  ASSUME NEW p \in DaybreakInput, Scored(p)
  PROVE  RankSplit(TrueAnswer(p))
<1>t. PICK t, P, rs : t = TrueAnswer(p) /\ P = Passing(TrueRecords(p)) /\ rs = passing_records(t) OBVIOUS
<1>1. TrueSplit(t, rs, P) BY <1>t, TruthSplit
<1>2. t \in DaybreakOutput BY <1>t, TruthLists
<1>3. t.approved \in Seq(Record) /\ t.qualified \in Seq(Record) BY <1>2, OutputIs
<1>N. PICK N, best : N = Len(rs) /\ best = Best(N) OBVIOUS
<1>4. /\ N \in Nat /\ DOMAIN rs = 1 .. N /\ best \in Nat
      /\ DOMAIN t.approved = 1 .. best /\ DOMAIN t.qualified = 1 .. N - best
  <2>1. N \in Nat /\ DOMAIN rs = 1 .. N BY <1>1, <1>N DEF TrueSplit
  <2>2. Len(t.approved) = best /\ Len(t.qualified) = N - best BY <1>1, <1>N, SMTT(30) DEF TrueSplit
  <2>3. best \in Nat BY <2>1, <1>N DEF Best
  <2> QED BY <1>3, <2>1, <2>2, <2>3
<1>5. /\ \A n \in 1 .. best : t.approved[n] = rs[n]
      /\ \A n \in 1 .. N - best : t.qualified[n] = rs[best + n] /\ rs[best + n].rank = best + n
  BY <1>1, <1>N DEF TrueSplit
<1>6. expected_passing_order(t) = [n \in DOMAIN rs |-> rs[n].ticker]
  <2>A. PICK A : A = Anchors(P) OBVIOUS
  <2>1. Ranking(rs, A) /\ \A m, n \in DOMAIN rs : m < n => <<m, n>> \in Ranks(rs, A)
    BY <1>1, <2>A DEF TrueSplit
  <2>2. /\ Ranking(passing_records(t), A)
        /\ \A m, n \in DOMAIN passing_records(t) : m < n => <<m, n>> \in Ranks(passing_records(t), A)
    BY <2>1, <1>t
  <2>3. expected_passing_order(t) = [n \in DOMAIN passing_records(t) |-> passing_records(t)[n].ticker]
    BY <2>2, SaidAsRanked
  <2> QED BY <2>3, <1>t
<1>b. best = (IF N < 3 THEN N ELSE 3) BY <1>N DEF Best
<1>7. \A i \in 1 .. N : /\ i <= 3 => rs[i].ticker \in Tickers(t.approved)
                        /\ i >= 4 => \E r \in Elements(t.qualified) : r.ticker = rs[i].ticker /\ r.rank = i
  <2> TAKE i \in 1 .. N
  <2>1. ASSUME i <= 3 PROVE rs[i].ticker \in Tickers(t.approved)
    <3>1. i \in 1 .. best BY <1>4, <1>b, <2>1
    <3>2. t.approved[i].ticker = rs[i].ticker BY <1>5, <3>1
    <3> QED BY <1>4, <3>1, <3>2 DEF Tickers
  <2>2. ASSUME i >= 4 PROVE \E r \in Elements(t.qualified) : r.ticker = rs[i].ticker /\ r.rank = i
    <3>1. best = 3 BY <1>4, <1>b, <2>2
    <3>n. PICK n : n = i - 3 OBVIOUS
    <3>2. n \in 1 .. N - best /\ best + n = i BY <1>4, <2>2, <3>1, <3>n
    <3>3. t.qualified[n] = rs[i] /\ rs[i].rank = i BY <1>5, <3>2
    <3>4. t.qualified[n] \in Elements(t.qualified) BY <1>4, <3>2 DEF Elements
    <3> QED BY <3>3, <3>4
  <2> QED BY <2>1, <2>2
<1>8. RankSplit(t) BY <1>4, <1>6, <1>7, <1>t DEF RankSplit
<1> QED BY <1>8, <1>t

\* The true record of a ticker is in the array its gates put it in.
TrueOutcome(p, t) ==
  /\ t \in DaybreakOutput
  /\ \A r \in Elements(passing_records(t)) :
       r.reasons = <<>> /\ \E i \in DOMAIN p.tickers : TrueOfEntry(p, p.tickers[i], r)
  /\ \A r \in Elements(t.excluded) :
       r.reasons # <<>> /\ \E i \in DOMAIN p.tickers : TrueOfEntry(p, p.tickers[i], r)
  /\ \A i \in DOMAIN p.tickers : TrueRecord(p, p.tickers[i]).reasons # <<>> =>
       TrueRecord(p, p.tickers[i]) \in Elements(t.excluded)
  /\ \A i \in DOMAIN p.tickers : TrueOfEntry(p, p.tickers[i], TrueRecord(p, p.tickers[i]))

LEMMA TruthOutcomes ==
  ASSUME NEW p \in DaybreakInput, Scored(p)
  PROVE  TrueOutcome(p, TrueAnswer(p))
<1>t. PICK t, P, F : t = TrueAnswer(p) /\ P = Passing(TrueRecords(p)) /\ F = Failed(TrueRecords(p)) OBVIOUS
<1>s. PICK rs : rs = passing_records(t) OBVIOUS
<1>1. TrueSplit(t, rs, P) BY <1>t, <1>s, TruthSplit
<1>2. t \in DaybreakOutput BY <1>t, TruthLists
<1>3. Elements(t.excluded) = F
  <2>r. PICK ranking, K, best : ranking = TrueRanking(P) /\ K = Cardinality(P) /\ best = Best(K) OBVIOUS
  <2>1. IsPartition(t, p, ranking, best, F) /\ Distinct(P) /\ Distinct(F) BY <1>t, <2>r, TruthIs DEF Truth
  <2>2. ranking \in Seq(P) /\ Len(ranking) = K /\ K \in Nat BY <2>1, <2>r, TrueRankingIs
  <2>3. ranking \in Seq(Record)
    <3>1. P \subseteq Record BY <2>1 DEF Distinct
    <3> QED BY <2>2, <3>1
  <2>4. best \in 0 .. Len(ranking) BY <2>2, <2>r DEF Best
  <2>5. /\ ContentOf(passing_records(t)) = {Bare(r) : r \in Elements(ranking)}
        /\ Elements(t.excluded) = F
        /\ Len(terminal_records(t)) = Len(ranking) + Cardinality(F)
    BY <2>1, <2>3, <2>4, PartitionHolds
  <2> QED BY <2>5
<1>4. TrueRecords(p) = {TrueRecord(p, p.tickers[i]) : i \in DOMAIN p.tickers} BY TrueRecordsAre
<1>5. \A i \in DOMAIN p.tickers : p.tickers[i] \in TickerInput BY TickersAre
<1>6. ASSUME NEW i \in DOMAIN p.tickers
      PROVE  /\ TrueOfEntry(p, p.tickers[i], TrueRecord(p, p.tickers[i]))
             /\ \A k \in Nat : TrueOfEntry(p, p.tickers[i], WithRank(TrueRecord(p, p.tickers[i]), k))
             /\ \A k \in Nat : WithRank(TrueRecord(p, p.tickers[i]), k).reasons
                                 = TrueRecord(p, p.tickers[i]).reasons
  <2>1. TrueRecord(p, p.tickers[i]) \in Record BY <1>5, TrueRecordIs
  <2> QED BY <1>5, <2>1, EntryIsTrue, WithRankIs
<1>7. ASSUME NEW r \in Elements(rs)
      PROVE  r.reasons = <<>> /\ \E i \in DOMAIN p.tickers : TrueOfEntry(p, p.tickers[i], r)
  <2>1. PICK n \in 1 .. Len(rs) : r = rs[n] BY <1>1, <1>7 DEF TrueSplit, Elements
  <2>2. PICK q \in P : rs[n] = q \/ \E k \in Nat : rs[n] = WithRank(q, k) BY <1>1 DEF TrueSplit
  <2>3. q \in TrueRecords(p) /\ q.reasons = <<>> BY <2>2, <1>t DEF Passing
  <2>4. PICK i \in DOMAIN p.tickers : q = TrueRecord(p, p.tickers[i]) BY <1>4, <2>3
  <2>5. /\ TrueOfEntry(p, p.tickers[i], q)
        /\ \A k \in Nat : TrueOfEntry(p, p.tickers[i], WithRank(q, k)) /\ WithRank(q, k).reasons = q.reasons
    BY <1>6, <2>4
  <2> QED BY <2>1, <2>2, <2>3, <2>5
<1>8. ASSUME NEW r \in Elements(t.excluded)
      PROVE  r.reasons # <<>> /\ \E i \in DOMAIN p.tickers : TrueOfEntry(p, p.tickers[i], r)
  <2>1. r \in TrueRecords(p) /\ r.reasons # <<>> BY <1>3, <1>t DEF Failed
  <2>2. PICK i \in DOMAIN p.tickers : r = TrueRecord(p, p.tickers[i]) BY <1>4, <2>1
  <2>3. TrueOfEntry(p, p.tickers[i], r) BY <1>6, <2>2
  <2> QED BY <2>1, <2>3
<1>9. ASSUME NEW i \in DOMAIN p.tickers, TrueRecord(p, p.tickers[i]).reasons # <<>>
      PROVE  TrueRecord(p, p.tickers[i]) \in Elements(t.excluded)
  <2>1. TrueRecord(p, p.tickers[i]) \in TrueRecords(p) BY <1>4
  <2> QED BY <1>3, <1>9, <1>t, <2>1 DEF Failed
<1>10. TrueOutcome(p, t) BY <1>2, <1>6, <1>7, <1>8, <1>9, <1>s DEF TrueOutcome
<1> QED BY <1>10, <1>t

-----------------------------------------------------------------------------
(* The true answer passes the checks.                                      *)

\* What the checks ask of a record, e being its ticker.
SoundRecord(p, e, r) ==
  /\ EntriesOf(p, r.ticker) = {e} /\ r.ticker = e.ticker
  /\ SoundScore(p, e, r.score) /\ FlagsConsistent(r.score, r.flags)
  /\ Reported(r.score) = expected_score_fields(p, e, r.score.bucket)
  /\ r.flags = expected_risk_flags(e) /\ r.trade = <<e.price, e.low>>
  /\ r.conviction = r.score.catalyst + r.score.volume + r.score.technical
  /\ r.reasons = expected_failed_gates(e, r.score.raw)
  /\ Follows(e, r.score)

LEMMA RecordIsSound ==
  ASSUME NEW p \in DaybreakInput, NEW i \in DOMAIN p.tickers, Judgeable(p.tickers[i]),
         NEW r, TrueOfEntry(p, p.tickers[i], r)
  PROVE  SoundRecord(p, p.tickers[i], r)
<1>e. PICK e, s : e = p.tickers[i] /\ s = r.score OBVIOUS
<1>1. e \in TickerInput /\ EntriesOf(p, e.ticker) = {e} BY <1>e, TickersAre, OneEntry
<1>2. /\ r.ticker = e.ticker /\ r.flags = expected_risk_flags(e)
      /\ s = TrueRecord(p, e).score /\ r.trade = <<e.price, e.low>>
      /\ ScoredAs(s, e.bucket, expected_score_fields(p, e, e.bucket))
      /\ r.conviction = s.catalyst + s.volume + s.technical
      /\ r.reasons = expected_failed_gates(e, s.raw)
  BY <1>e DEF TrueOfEntry
<1>3. Judgeable(e) /\ s = TrueRecord(p, e).score BY <1>2, <1>e
<1>4. SoundScore(p, e, s) /\ Follows(e, s) BY <1>1, <1>3, ScoreIsSound
<1>5. Reported(s) = expected_score_fields(p, e, s.bucket) BY <1>2 DEF ScoredAs
<1>6. /\ _validate_risk_flags(r.flags)
      /\ "parabolic" \in Elements(r.flags) <=> expected_technical(e).adjusted
  BY <1>1, <1>2, FlagsAreSound
<1>7. s.adjusted <=> "parabolic" \in Elements(r.flags) BY <1>4, <1>6 DEF Follows
<1>8. FlagsConsistent(s, r.flags) BY <1>6, <1>7 DEF FlagsConsistent
<1>9. SoundRecord(p, e, r) BY <1>1, <1>2, <1>4, <1>5, <1>8, <1>e DEF SoundRecord
<1> QED BY <1>9, <1>e

\* All records are sound, the passing ones without a reason and the excluded ones with one.
SoundRecords(p, t) ==
  /\ t \in DaybreakOutput
  /\ Elements(terminal_records(t)) = Elements(passing_records(t)) \union Elements(t.excluded)
  /\ Elements(passing_records(t)) = Elements(t.approved) \union Elements(t.qualified)
  /\ \A r \in Elements(terminal_records(t)) : \E e \in Elements(p.tickers) : SoundRecord(p, e, r)
  /\ \A r \in Elements(passing_records(t)) : r.reasons = <<>>
  /\ \A r \in Elements(t.excluded) : r.reasons # <<>>
  /\ \A e \in Elements(p.tickers) : /\ SoundRecord(p, e, TrueRecord(p, e))
                                    /\ TrueRecord(p, e).reasons # <<>> =>
                                         TrueRecord(p, e) \in Elements(t.excluded)
  /\ \A e \in Elements(p.tickers) :
       e \in TickerInput /\ \E r \in Elements(terminal_records(t)) : SoundRecord(p, e, r)

LEMMA RecordsAreSound ==
  ASSUME NEW p \in DaybreakInput, Scored(p), \A e \in Elements(p.tickers) : Judgeable(e)
  PROVE  SoundRecords(p, TrueAnswer(p))
<1>t. PICK t : t = TrueAnswer(p) OBVIOUS
<1>1. TrueOutcome(p, t) /\ TrueList(p, terminal_records(t)) BY <1>t, TruthOutcomes, TruthLists
<1>2. t \in DaybreakOutput BY <1>1 DEF TrueOutcome
<1>3. \A i \in DOMAIN p.tickers : \A r : TrueOfEntry(p, p.tickers[i], r) => SoundRecord(p, p.tickers[i], r)
  <2> TAKE i \in DOMAIN p.tickers
  <2>1. Judgeable(p.tickers[i]) BY DEF Elements
  <2> QED BY <2>1, RecordIsSound
<1>4. /\ Elements(terminal_records(t)) = Elements(passing_records(t)) \union Elements(t.excluded)
      /\ Elements(passing_records(t)) = Elements(t.approved) \union Elements(t.qualified)
  BY <1>2, OutputIs
<1>5. \A r \in Elements(terminal_records(t)) : \E i \in DOMAIN p.tickers : TrueOfEntry(p, p.tickers[i], r)
  BY <1>1 DEF TrueList
<1>6. \A r \in Elements(terminal_records(t)) : \E e \in Elements(p.tickers) : SoundRecord(p, e, r)
  BY <1>3, <1>5 DEF Elements
<1>7. /\ \A r \in Elements(passing_records(t)) : r.reasons = <<>>
      /\ \A r \in Elements(t.excluded) : r.reasons # <<>>
  BY <1>1 DEF TrueOutcome
<1>8. ASSUME NEW e \in Elements(p.tickers)
      PROVE  /\ SoundRecord(p, e, TrueRecord(p, e))
             /\ TrueRecord(p, e).reasons # <<>> => TrueRecord(p, e) \in Elements(t.excluded)
             /\ e \in TickerInput /\ \E r \in Elements(terminal_records(t)) : SoundRecord(p, e, r)
  <2>1. PICK i \in DOMAIN p.tickers : e = p.tickers[i] BY DEF Elements
  <2>2. TrueOfEntry(p, p.tickers[i], TrueRecord(p, p.tickers[i])) BY <1>1 DEF TrueOutcome
  <2>3. PICK r \in Elements(terminal_records(t)) : TrueOfEntry(p, p.tickers[i], r) BY <1>1 DEF TrueList
  <2>4. TrueRecord(p, p.tickers[i]).reasons # <<>> => TrueRecord(p, p.tickers[i]) \in Elements(t.excluded)
    BY <1>1 DEF TrueOutcome
  <2>5. p.tickers[i] \in TickerInput BY TickersAre
  <2> QED BY <1>3, <2>1, <2>2, <2>3, <2>4, <2>5
<1>9. SoundRecords(p, t) BY <1>2, <1>4, <1>6, <1>7, <1>8 DEF SoundRecords
<1> QED BY <1>9, <1>t

\* The checks that compare the records with the payload.
LEMMA ReplayChecks ==
  ASSUME NEW p, NEW t, SoundRecords(p, t)
  PROVE  /\ ExcludedFails(p, t) /\ PassingPasses(p, t) /\ ScoresReplay(p, t) /\ EvidenceHolds(p, t)
         /\ ScoresConsistent(p, t)
<1>1. /\ Elements(terminal_records(t)) = Elements(passing_records(t)) \union Elements(t.excluded)
      /\ Elements(passing_records(t)) = Elements(t.approved) \union Elements(t.qualified)
  BY DEF SoundRecords
<1>2. \A r \in Elements(terminal_records(t)) : \E e : SoundRecord(p, e, r) BY DEF SoundRecords
<1>3. \A r \in Elements(passing_records(t)) : r.reasons = <<>> BY DEF SoundRecords
<1>4. \A r \in Elements(t.excluded) : r.reasons # <<>> BY DEF SoundRecords
<1>5. ExcludedFails(p, t)
  <2> SUFFICES ASSUME NEW r \in Elements(t.excluded)
               PROVE  \E e \in EntriesOf(p, r.ticker) :
                        /\ expected_failed_gates(e, r.score.raw) # <<>>
                        /\ r.reasons = expected_failed_gates(e, r.score.raw)
    BY DEF ExcludedFails
  <2>1. PICK e : SoundRecord(p, e, r) BY <1>1, <1>2
  <2>2. e \in EntriesOf(p, r.ticker) /\ r.reasons = expected_failed_gates(e, r.score.raw)
    BY <2>1 DEF SoundRecord
  <2> QED BY <1>4, <2>2
<1>6. PassingPasses(p, t)
  <2> SUFFICES ASSUME NEW r \in Elements(passing_records(t))
               PROVE  \E e \in EntriesOf(p, r.ticker) : expected_failed_gates(e, r.score.raw) = <<>>
    BY DEF PassingPasses
  <2>1. PICK e : SoundRecord(p, e, r) BY <1>1, <1>2
  <2>2. e \in EntriesOf(p, r.ticker) /\ r.reasons = expected_failed_gates(e, r.score.raw)
    BY <2>1 DEF SoundRecord
  <2> QED BY <1>3, <2>2
<1>7. ASSUME NEW r \in Elements(terminal_records(t)), NEW e \in EntriesOf(p, r.ticker)
      PROVE  SoundRecord(p, e, r)
  <2>1. PICK d : SoundRecord(p, d, r) BY <1>2
  <2>2. d = e BY <2>1, <1>7 DEF SoundRecord
  <2> QED BY <2>1, <2>2
<1>8. ScoresReplay(p, t)
  <2>1. \A r \in Elements(terminal_records(t)) : \A e \in EntriesOf(p, r.ticker) :
          /\ Reported(r.score) = expected_score_fields(p, e, r.score.bucket)
          /\ r.flags = expected_risk_flags(e)
          /\ r.conviction = r.score.catalyst + r.score.volume + r.score.technical
          /\ r.trade = <<e.price, e.low>>
    BY <1>7 DEF SoundRecord
  <2>2. \A r \in Elements(passing_records(t)) : EntriesOf(p, r.ticker) # {} =>
          r.conviction = r.score.catalyst + r.score.volume + r.score.technical
    BY <1>1, <2>1
  <2>3. \A r \in Elements(t.approved) : \A e \in EntriesOf(p, r.ticker) : r.trade = <<e.price, e.low>>
    BY <1>1, <2>1
  <2> QED BY <2>1, <2>2, <2>3, Zenon DEF ScoresReplay
<1>9. EvidenceHolds(p, t) BY <1>7 DEF SoundRecord, SoundScore, EvidenceHolds
<1>10. ScoresConsistent(p, t)
  <2> SUFFICES ASSUME NEW r \in Elements(terminal_records(t))
               PROVE  /\ TechnicalConsistent(r.score) /\ ZeroConsistent(r.score) /\ NoDriverShape(r.score)
                      /\ FlagsConsistent(r.score, r.flags) /\ PurposeMatches(r.score)
                      /\ p.valid => ContentEvidence(r.score) /\
                           \A e \in EntriesOf(p, r.ticker) : VolumeRules(e, r.score) /\ ZeroPrecedence(p, e, r.score)
    BY DEF ScoresConsistent
  <2>1. PICK d : SoundRecord(p, d, r) BY <1>2
  <2>2. SoundScore(p, d, r.score) /\ FlagsConsistent(r.score, r.flags) BY <2>1 DEF SoundRecord
  <2>3. \A e \in EntriesOf(p, r.ticker) : VolumeRules(e, r.score) /\ ZeroPrecedence(p, e, r.score)
    BY <1>7 DEF SoundRecord, SoundScore
  <2> QED BY <2>2, <2>3 DEF SoundScore
<1> QED BY <1>5, <1>6, <1>8, <1>9, <1>10

\* The checks on charts that fail.
LEMMA ChartChecks ==
  ASSUME NEW p, NEW t, SoundRecords(p, t), Answerable(p)
  PROVE  ChartReachability(p, t) /\ ChartFailureGradesC(t)
<1>1. ASSUME NEW e \in Elements(p.tickers), NEW r, SoundRecord(p, e, r)
      PROVE  /\ "RESISTANCE_TOO_CLOSE" \in Elements(r.reasons) <=> e.distance < Unit
             /\ "CAPPED_CHART" \in Elements(r.reasons) <=> e.chart = "capped"
             /\ Head(r.reasons) \in {"RESISTANCE_TOO_CLOSE", "CAPPED_CHART"} /\ r.reasons # <<>> =>
                  Head(r.reasons) = IF e.distance < Unit THEN "RESISTANCE_TOO_CLOSE" ELSE "CAPPED_CHART"
             /\ e.distance < Unit \/ e.chart = "capped" =>
                  /\ r.score.grade = "C" /\ r.score.base = 0
                  /\ r.score.technical = 0 /\ r.score.adjusted = FALSE
  <2>1. e \in TickerInput BY DEF SoundRecords
  <2>2. PICK k, raw : k = r.reasons /\ raw = r.score.raw OBVIOUS
  <2>3. k = expected_failed_gates(e, raw) BY <1>1, <2>2 DEF SoundRecord
  <2>4. /\ "RESISTANCE_TOO_CLOSE" \in Elements(k) <=> e.distance < Unit
        /\ "CAPPED_CHART" \in Elements(k) <=> e.chart = "capped"
        /\ Head(k) \in {"RESISTANCE_TOO_CLOSE", "CAPPED_CHART"} /\ k # <<>> =>
             Head(k) = IF e.distance < Unit THEN "RESISTANCE_TOO_CLOSE" ELSE "CAPPED_CHART"
    BY <2>1, <2>3, ChartReasons
  <2>5. e.distance < Unit \/ e.chart = "capped" =>
          /\ r.score.grade = "C" /\ r.score.base = 0
          /\ r.score.technical = 0 /\ r.score.adjusted = FALSE
    BY <1>1 DEF SoundRecord, Follows
  <2> QED BY <2>2, <2>4, <2>5
<1>2. ChartFailureGradesC(t)
  <2> SUFFICES ASSUME NEW r \in Elements(t.excluded),
                      Elements(r.reasons) \cap {"RESISTANCE_TOO_CLOSE", "CAPPED_CHART"} # {}
               PROVE  [grade |-> r.score.grade, base |-> r.score.base, points |-> r.score.technical,
                       adjusted |-> r.score.adjusted] = Failing
    BY DEF ChartFailureGradesC
  <2>1. r \in Elements(terminal_records(t)) BY DEF SoundRecords
  <2>2. PICK e \in Elements(p.tickers) : SoundRecord(p, e, r) BY <2>1 DEF SoundRecords
  <2>3. e.distance < Unit \/ e.chart = "capped" BY <1>1, <2>2
  <2>4. /\ r.score.grade = "C" /\ r.score.base = 0
        /\ r.score.technical = 0 /\ r.score.adjusted = FALSE
    BY <1>1, <2>2, <2>3
  <2> QED BY <2>4 DEF Failing
<1>3. ASSUME NEW e \in Elements(p.tickers)
      PROVE  /\ e.distance < Unit => ExcludedFor(t, e.ticker, {"RESISTANCE_TOO_CLOSE"})
             /\ e.chart = "capped" =>
                  /\ ExcludedFor(t, e.ticker, {"CAPPED_CHART"})
                  /\ \E r \in Elements(t.excluded) :
                       /\ r.ticker = e.ticker
                       /\ Head(r.reasons) = IF e.distance < Unit THEN "RESISTANCE_TOO_CLOSE" ELSE "CAPPED_CHART"
  <2>r. PICK r : r = TrueRecord(p, e) OBVIOUS
  <2>1. /\ SoundRecord(p, e, r)
        /\ r.reasons # <<>> => r \in Elements(t.excluded)
    BY <2>r DEF SoundRecords
  <2>2. r.ticker = e.ticker BY <2>1 DEF SoundRecord
  <2>3. r.reasons = <<>> => Elements(r.reasons) = {} BY DEF Elements
  <2>4. ASSUME e.distance < Unit PROVE ExcludedFor(t, e.ticker, {"RESISTANCE_TOO_CLOSE"})
    <3>1. r.score.grade = "C" /\ "RESISTANCE_TOO_CLOSE" \in Elements(r.reasons) BY <1>1, <2>1, <2>4
    <3>2. r \in Elements(t.excluded) BY <2>1, <2>3, <3>1
    <3> QED BY <2>2, <3>1, <3>2 DEF ExcludedFor
  <2>5. ASSUME e.chart = "capped"
        PROVE  /\ ExcludedFor(t, e.ticker, {"CAPPED_CHART"})
               /\ \E q \in Elements(t.excluded) :
                    /\ q.ticker = e.ticker
                    /\ Head(q.reasons) = IF e.distance < Unit THEN "RESISTANCE_TOO_CLOSE" ELSE "CAPPED_CHART"
    <3>1. r.score.grade = "C" /\ "CAPPED_CHART" \in Elements(r.reasons) BY <1>1, <2>1, <2>5
    <3>2. r.reasons # <<>> /\ r \in Elements(t.excluded) BY <2>1, <2>3, <3>1
    <3>3. Head(r.reasons) \in {"RESISTANCE_TOO_CLOSE", "CAPPED_CHART"} BY <2>5, <2>r DEF Answerable
    <3>4. Head(r.reasons) = IF e.distance < Unit THEN "RESISTANCE_TOO_CLOSE" ELSE "CAPPED_CHART"
      BY <1>1, <2>1, <3>2, <3>3
    <3>5. ExcludedFor(t, e.ticker, {"CAPPED_CHART"}) BY <2>2, <3>1, <3>2 DEF ExcludedFor
    <3> QED BY <2>2, <3>2, <3>4, <3>5
  <2> QED BY <2>4, <2>5
<1>4. ChartReachability(p, t) BY <1>3 DEF ChartReachability
<1> QED BY <1>2, <1>4

\* Its status says what became of the payload.
LEMMA ScoredStatus ==
  ASSUME NEW p \in DaybreakInput, Scored(p)
  PROVE  LET t == TrueAnswer(p)
         IN  /\ t.status = IF t.approved # <<>> THEN "approved" ELSE "no_setups"
             /\ t.approved = <<>> => t.qualified = <<>>
             /\ Len(t.approved) <= 3 /\ t.failures = {} /\ t.blockers = {} /\ t.echo = p.echo
             /\ \A r \in Elements(t.qualified) : r.rank >= 4
<1>t. PICK t, P, rs : t = TrueAnswer(p) /\ P = Passing(TrueRecords(p)) /\ rs = passing_records(t) OBVIOUS
<1>N. PICK N, best : N = Len(rs) /\ best = Best(N) OBVIOUS
<1>1. TrueSplit(t, rs, P) BY <1>t, TruthSplit
<1>2. t \in DaybreakOutput BY <1>t, TruthLists
<1>3. t.approved \in Seq(Record) /\ t.qualified \in Seq(Record) BY <1>2, OutputIs
<1>4. /\ N \in Nat /\ N = Cardinality(P) /\ Len(t.approved) = best /\ Len(t.qualified) = N - best
      /\ \A n \in 1 .. N - best : t.qualified[n] = rs[best + n] /\ rs[best + n].rank = best + n
  BY <1>1, <1>N DEF TrueSplit
<1>5. best \in 0 .. 3 /\ best <= N /\ (best < N => best = 3) /\ (best = 0 => N = 0) BY <1>4, <1>N DEF Best
<1>6. /\ t.status = (IF best > 0 THEN "approved" ELSE "no_setups")
      /\ t.failures = {} /\ t.blockers = {} /\ t.echo = p.echo
  <2>1. IsPartition(t, p, TrueRanking(P), best, Failed(TrueRecords(p)))
    BY <1>t, <1>4, <1>N, TruthIs DEF Truth
  <2> QED BY <2>1 DEF IsPartition
<1>7. \A s \in Seq(Record) : s = <<>> <=> Len(s) = 0 OBVIOUS
<1>8. t.approved = <<>> <=> best = 0 BY <1>3, <1>4, <1>7
<1>9. t.approved = <<>> => t.qualified = <<>> BY <1>3, <1>4, <1>5, <1>7, <1>8
<1>10. t.status = IF t.approved # <<>> THEN "approved" ELSE "no_setups" BY <1>5, <1>6, <1>8
<1>11. \A r \in Elements(t.qualified) : r.rank >= 4
  <2> TAKE r \in Elements(t.qualified)
  <2>1. DOMAIN t.qualified = 1 .. N - best BY <1>3, <1>4
  <2>2. PICK n \in 1 .. N - best : r = t.qualified[n] BY <2>1 DEF Elements
  <2>3. r.rank = best + n BY <1>4, <2>2
  <2>4. best = 3 BY <1>4, <1>5, <2>2
  <2> QED BY <2>2, <2>3, <2>4, <1>4
<1> QED BY <1>4, <1>5, <1>6, <1>9, <1>10, <1>11, <1>t

\* What is taken as given, for a payload and what is said of its run.
LEMMA TruthGiven ==
  ASSUME NEW p \in Payloads, NEW m \in Metadata
  PROVE  /\ p \in DaybreakInput /\ p.age \in Nat /\ DOMAIN p.echo = Echoed
         /\ p.valid => (\A f \in Echoed : p.echo[f] # None) /\ \A e \in Elements(p.tickers) : Judgeable(e)
         /\ ~ p.valid => \A f \in p.missing : p.echo[f] = None
         /\ WithinHardMaximum(p, m) /\ OmissionsLogged(m) /\ LateAuthorizesNothing(m)
         /\ StagesInOrder(m) /\ m.blockersAfter # "no"
         /\ m.prequalifiedOut \cap (Tickers(p.tickers) \cup p.invalid) = {}
         /\ \A x \in m.invisible :
              /\ Scored(p)
              /\ \E e \in Elements(p.tickers) : e.ticker = x /\ e.disqualified /\ e.evidence = NoSpan
<1>1. p \in DaybreakInput BY ContractAssumption
<1>2. p.age \in Nat /\ DOMAIN p.echo = Echoed BY <1>1 DEF DaybreakInput
<1>3. MetadataInOrder(p, m) BY TruthAssumption
<1>4. /\ p.valid => (\A f \in Echoed : p.echo[f] # None) /\ \A e \in Elements(p.tickers) : Judgeable(e)
      /\ ~ p.valid => \A f \in p.missing : p.echo[f] = None
  BY TruthAssumption
<1> QED BY <1>1, <1>2, <1>3, <1>4, Zenon DEF MetadataInOrder

LEMMA ScoredTruth ==
  ASSUME NEW p \in Payloads, NEW m \in Metadata, Scored(p), Answerable(p)
  PROVE  ValidOutput(TrueAnswer(p)) /\ ChecksPass(p, TrueAnswer(p), m)
<1>t. PICK t : t = TrueAnswer(p) OBVIOUS
<1>0. p.valid /\ p.market = "normal" /\ p.age <= 180 BY DEF Scored
<1>1. /\ p \in DaybreakInput /\ DOMAIN p.echo = Echoed
      /\ \A f \in Echoed : p.echo[f] # None
      /\ \A e \in Elements(p.tickers) : Judgeable(e)
  BY <1>0, TruthGiven
<1>2. SoundRecords(p, t) BY <1>1, <1>t, RecordsAreSound
<1>3. /\ t.status = IF t.approved # <<>> THEN "approved" ELSE "no_setups"
      /\ t.approved = <<>> => t.qualified = <<>>
      /\ Len(t.approved) <= 3 /\ t.failures = {} /\ t.blockers = {} /\ t.echo = p.echo
      /\ \A r \in Elements(t.qualified) : r.rank >= 4
  BY <1>1, <1>t, ScoredStatus
<1>4. t \in DaybreakOutput BY <1>2 DEF SoundRecords
<1>5. ValidOutput(t)
  <2>1. validate_status_shape(t) BY <1>1, <1>3 DEF validate_status_shape
  <2>2. \A r \in {t.qualified[i] : i \in DOMAIN t.qualified} : r.rank >= 4 BY <1>3 DEF Elements
  <2>3. ASSUME NEW i \in DOMAIN terminal_records(t)
        PROVE  /\ ScoreBreakdown(terminal_records(t)[i].score)
               /\ _validate_risk_flags(terminal_records(t)[i].flags)
    <3>r. PICK r : r = terminal_records(t)[i] OBVIOUS
    <3>1. r \in Elements(terminal_records(t)) BY <3>r DEF Elements
    <3>2. PICK e \in Elements(p.tickers) : SoundRecord(p, e, r) BY <1>2, <3>1 DEF SoundRecords
    <3>3. ScoreBreakdown(r.score) /\ _validate_risk_flags(r.flags)
      BY <3>2 DEF SoundRecord, SoundScore, FlagsConsistent
    <3> QED BY <3>3, <3>r
  <2> QED BY <2>1, <2>2, <2>3 DEF ValidOutput, terminal_records
<1>6. TerminalExclusive(t) /\ RankSplit(t) BY <1>1, <1>t, TruthIsExclusive, TruthIsRanked
<1>7. /\ ExcludedFails(p, t) /\ PassingPasses(p, t) /\ ScoresReplay(p, t) /\ EvidenceHolds(p, t)
      /\ ScoresConsistent(p, t)
  BY <1>2, ReplayChecks
<1>8. ChartReachability(p, t) /\ ChartFailureGradesC(t) BY <1>2, ChartChecks
<1>9. NonScoringEmpty(t) BY <1>3 DEF NonScoringEmpty
<1>10. PartitionExhaustive(p, t)
  <2>1. TrueList(p, terminal_records(t)) BY <1>1, <1>t, TruthLists
  <2> QED BY <2>1 DEF TrueList, PartitionExhaustive
<1>11. StatusPrecedence(p, t)
  <2>1. ~ (p.age > 180)
    <3>1. p.age \in Nat BY TruthGiven
    <3> QED BY <1>0, <3>1
  <2> QED BY <1>0, <1>3, <2>1 DEF StatusPrecedence
<1>12. InvisibleDisqualifier(t, m)
  <2> SUFFICES ASSUME NEW x \in m.invisible
               PROVE  \E r \in Elements(terminal_records(t)) :
                        r.ticker = x /\ r.score.zero = "disqualifier_flag" /\ NoEvidence(r.score)
    BY DEF InvisibleDisqualifier
  <2>1. PICK e \in Elements(p.tickers) : e.ticker = x /\ e.disqualified /\ e.evidence = NoSpan
    BY TruthGiven
  <2>2. PICK r \in Elements(terminal_records(t)) : SoundRecord(p, e, r) BY <1>2, <2>1 DEF SoundRecords
  <2>3. r.ticker = x /\ r.score.zero = "disqualifier_flag" /\ NoEvidence(r.score)
    BY <2>1, <2>2 DEF SoundRecord, Follows
  <2> QED BY <2>3
<1>13. EchoesHold(p, t) BY <1>1, <1>3 DEF EchoesHold
<1>14. DuplicatesReported(p, t) BY <1>0 DEF DuplicatesReported
<1>15. PrequalifiedOutAbsent(t, m)
  <2>1. FailedTickers(t) = {} BY <1>3 DEF FailedTickers
  <2>2. ASSUME NEW x \in Tickers(terminal_records(t)) PROVE x \in Tickers(p.tickers)
    <3>1. PICK r \in Elements(terminal_records(t)) : x = r.ticker BY <2>2 DEF Tickers, Elements
    <3>2. PICK e \in Elements(p.tickers) : SoundRecord(p, e, r) BY <1>2, <3>1 DEF SoundRecords
    <3>3. x = e.ticker BY <3>1, <3>2 DEF SoundRecord
    <3> QED BY <3>3 DEF Tickers, Elements
  <2>3. m.prequalifiedOut \cap (Tickers(p.tickers) \cup p.invalid) = {} BY TruthGiven
  <2> QED BY <2>1, <2>2, <2>3 DEF PrequalifiedOutAbsent
<1>16. BlockersLast(t, m)
  <2>1. m.blockersAfter # "no" BY TruthGiven
  <2> QED BY <1>3, <2>1 DEF BlockersLast
<1>17. WithinHardMaximum(p, m) /\ OmissionsLogged(m) /\ LateAuthorizesNothing(m) /\ StagesInOrder(m)
  BY TruthGiven
<1>18. ChecksPass(p, t, m)
  BY <1>6, <1>7, <1>8, <1>9, <1>10, <1>11, <1>12, <1>13, <1>14, <1>15, <1>16, <1>17 DEF ChecksPass
<1> QED BY <1>5, <1>18, <1>t

\* What is answered where nothing is scored.
Untraded(p, t) ==
  /\ t.approved = <<>> /\ t.qualified = <<>> /\ t.excluded = <<>> /\ t.echo = p.echo
  /\ \/ /\ ~ p.valid /\ t.status = "schema_failure" /\ t.blockers = {}
        /\ t.failures = {[scope |-> "payload", ticker |-> 0]} \cup
                        {[scope |-> "ticker", ticker |-> x] : x \in p.invalid}
     \/ /\ p.valid /\ p.market # "normal" /\ t.status = "blocked_market"
        /\ t.blockers = {"MARKET_NOT_NORMAL"} /\ t.failures = {}
     \/ /\ p.valid /\ p.market = "normal" /\ p.age > 180 /\ t.status = "stale_payload"
        /\ t.blockers = {"PAYLOAD_STALE"} /\ t.failures = {}

LEMMA UntradedIs ==
  ASSUME NEW p, p.age \in Nat, ~ Scored(p)
  PROVE  Untraded(p, TrueAnswer(p))
<1>1. CASE ~ p.valid BY <1>1 DEF TrueAnswer, NoAnswer, Untraded
<1>2. CASE p.valid /\ p.market # "normal" BY <1>2 DEF TrueAnswer, NoAnswer, Untraded
<1>3. CASE p.valid /\ p.market = "normal" /\ p.age > 180 BY <1>3 DEF TrueAnswer, NoAnswer, Untraded
<1> QED BY <1>1, <1>2, <1>3 DEF Scored

LEMMA UnscoredTruth ==
  ASSUME NEW p \in Payloads, NEW m \in Metadata, ~ Scored(p), p.valid => Answerable(p)
  PROVE  /\ ValidOutput(TrueAnswer(p)) /\ ChecksPass(p, TrueAnswer(p), m)
         /\ p.valid \/ TrueAnswer(p).status = "schema_failure"
<1>t. PICK t : t = TrueAnswer(p) OBVIOUS
<1>1. Untraded(p, t) BY <1>t, TruthGiven, UntradedIs
<1>2. t.approved = <<>> /\ t.qualified = <<>> /\ t.excluded = <<>> /\ t.echo = p.echo
  BY <1>1 DEF Untraded
<1>3. passing_records(t) = <<>> /\ terminal_records(t) = <<>>
  BY <1>2 DEF passing_records, terminal_records
<1>4. /\ Elements(terminal_records(t)) = {} /\ Elements(passing_records(t)) = {}
      /\ Elements(t.approved) = {} /\ Elements(t.excluded) = {} /\ Tickers(terminal_records(t)) = {}
      /\ DOMAIN t.qualified = {} /\ DOMAIN terminal_records(t) = {}
  BY <1>2, <1>3 DEF Elements, Tickers
<1>5. t.status \in {"schema_failure", "blocked_market", "stale_payload"} BY <1>1 DEF Untraded
<1>6. p.valid <=> t.status # "schema_failure" BY <1>1 DEF Untraded
<1>7. /\ DOMAIN p.echo = Echoed
      /\ p.valid => \A f \in Echoed : p.echo[f] # None
      /\ ~ p.valid => \A f \in p.missing : p.echo[f] = None
  BY TruthGiven
<1>8. ValidOutput(t)
  <2>1. t.failures = {} \/ t.blockers = {} BY <1>1 DEF Untraded
  <2>2. /\ t.status = "schema_failure" => t.failures # {} /\ t.blockers = {}
        /\ t.status # "schema_failure" => t.failures = {}
    BY <1>1 DEF Untraded
  <2>3. t.status # "schema_failure" => \A f \in DOMAIN t.echo : t.echo[f] # None BY <1>2, <1>6, <1>7
  <2>4. /\ t.status = "blocked_market" => "MARKET_NOT_NORMAL" \in t.blockers
        /\ t.status = "stale_payload" =>
             "PAYLOAD_STALE" \in t.blockers /\ "MARKET_NOT_NORMAL" \notin t.blockers
    BY <1>1 DEF Untraded
  <2>5. Len(t.approved) <= 3 BY <1>2
  <2>6. validate_status_shape(t)
    BY <1>3, <1>5, <2>1, <2>2, <2>3, <2>4, <2>5 DEF validate_status_shape, terminal_records
  <2> QED BY <1>4, <2>6 DEF ValidOutput, terminal_records
<1>9. TerminalExclusive(t) /\ NonScoringEmpty(t) BY <1>3, <1>4 DEF TerminalExclusive, NonScoringEmpty
<1>10. ExcludedFails(p, t) /\ PassingPasses(p, t) /\ ScoresReplay(p, t) /\ EvidenceHolds(p, t)
  BY <1>4 DEF ExcludedFails, PassingPasses, ScoresReplay, EvidenceHolds
<1>11. ScoresConsistent(p, t) /\ ChartFailureGradesC(t) BY <1>4 DEF ScoresConsistent, ChartFailureGradesC
<1>12. PartitionExhaustive(p, t) BY <1>5 DEF PartitionExhaustive
<1>13. p.valid => StatusPrecedence(p, t)
  <2>1. p.age \in Nat BY TruthGiven
  <2> QED BY <1>1, <2>1 DEF Untraded, StatusPrecedence
<1>14. p.valid => ChartReachability(p, t) BY DEF ChartReachability, Answerable
<1>15. InvisibleDisqualifier(t, m)
  <2>1. \A x \in m.invisible : Scored(p) BY TruthGiven
  <2> QED BY <2>1 DEF InvisibleDisqualifier
<1>16. EchoesHold(p, t) BY <1>2, <1>6, <1>7 DEF EchoesHold
<1>17. DuplicatesReported(p, t)
  <2> SUFFICES ASSUME ~ p.valid
               PROVE  /\ t.status = "schema_failure" /\ terminal_records(t) = <<>> /\ t.blockers = {}
                      /\ p.invalid \subseteq FailedTickers(t)
    BY DEF DuplicatesReported
  <2>1. t.failures = {[scope |-> "payload", ticker |-> 0]} \cup
                     {[scope |-> "ticker", ticker |-> x] : x \in p.invalid}
    BY <1>1 DEF Untraded
  <2>2. ASSUME NEW x \in p.invalid PROVE x \in FailedTickers(t)
    <3>f. PICK f : f = [scope |-> "ticker", ticker |-> x] OBVIOUS
    <3>1. f \in t.failures /\ f.scope = "ticker" /\ f.ticker = x BY <2>1, <3>f
    <3> QED BY <3>1 DEF FailedTickers
  <2> QED BY <1>1, <1>3, <2>2 DEF Untraded
<1>18. PrequalifiedOutAbsent(t, m)
  <2>1. ASSUME NEW x \in FailedTickers(t) PROVE x \in p.invalid
    <3>1. PICK f \in t.failures : f.scope = "ticker" /\ f.ticker = x BY <2>1 DEF FailedTickers
    <3>2. t.failures = {[scope |-> "payload", ticker |-> 0]} \cup
                       {[scope |-> "ticker", ticker |-> y] : y \in p.invalid}
      BY <1>1, <3>1 DEF Untraded
    <3>3. f # [scope |-> "payload", ticker |-> 0] BY <3>1
    <3>4. PICK y \in p.invalid : f = [scope |-> "ticker", ticker |-> y] BY <3>2, <3>3
    <3> QED BY <3>1, <3>4
  <2>2. m.prequalifiedOut \cap (Tickers(p.tickers) \cup p.invalid) = {} BY TruthGiven
  <2> QED BY <1>4, <2>1, <2>2 DEF PrequalifiedOutAbsent
<1>19. BlockersLast(t, m)
  <2>1. m.blockersAfter # "no" BY TruthGiven
  <2>2. t.failures # {} => t.status = "schema_failure" /\ t.blockers = {} BY <1>1 DEF Untraded
  <2> QED BY <2>1, <2>2 DEF BlockersLast
<1>20. RankSplit(t)
  <2>r. PICK rs : rs = passing_records(t) OBVIOUS
  <2>1. rs \in Seq(Record) /\ DOMAIN rs = {} BY <1>3, <2>r
  <2>2. {rs[i].conviction : i \in DOMAIN rs} = {} BY <2>1
  <2>3. Kernel({}, {}) BY DEF Kernel
  <2>4. Ranking(rs, {}) BY <2>1, <2>2, <2>3 DEF Ranking
  <2>5. \A i, j \in DOMAIN rs : i < j => <<i, j>> \in Ranks(rs, {}) BY <2>1
  <2>6. expected_passing_order(t) = [n \in DOMAIN rs |-> rs[n].ticker]
    BY <2>4, <2>5, <2>r, SaidAsRanked
  <2> QED BY <2>1, <2>6, <2>r DEF RankSplit
<1>21. WithinHardMaximum(p, m) /\ OmissionsLogged(m) /\ LateAuthorizesNothing(m) /\ StagesInOrder(m)
  BY TruthGiven
<1>22. ChecksPass(p, t, m)
  BY <1>9, <1>10, <1>11, <1>12, <1>13, <1>14, <1>15, <1>16, <1>17, <1>18, <1>19, <1>20, <1>21
  DEF ChecksPass
<1> QED BY <1>6, <1>8, <1>22, <1>t

\* validate_daybreak_run lets the true answer through, for every payload in order that can
\* be answered: the replayed scores, gates, flags, ranking and split are those of the
\* specification.
THEOREM TruthIsAcceptedTheorem == ContractSpec => []TruthIsAccepted
<1>1. ContractInv => TruthIsAccepted
  <2> SUFFICES ASSUME ContractInv, report.done, altered = 0, payload.valid => Answerable(payload)
               PROVE  report.valid
    BY DEF TruthIsAccepted
  <2>1. payload \in Payloads /\ metadata \in Metadata /\ answer = TrueAnswer(payload)
    BY DEF ContractInv, ReportInv
  <2>2. report = validate_daybreak_run(payload, answer, metadata)
    BY DEF ContractInv, ReportInv, NoReport
  <2>3. /\ ValidOutput(answer) /\ ChecksPass(payload, answer, metadata)
        /\ payload.valid \/ answer.status = "schema_failure"
    <3>1. CASE Scored(payload)
      <4>1. payload.valid BY <3>1 DEF Scored
      <4> QED BY <2>1, <3>1, <4>1, ScoredTruth
    <3>2. CASE ~ Scored(payload) BY <2>1, <3>2, UnscoredTruth
    <3> QED BY <3>1, <3>2
  <2> QED BY <2>2, <2>3 DEF validate_daybreak_run
<1>2. ContractSpec => []ContractInv BY ContractInvariant
<1> QED BY <1>1, <1>2, PTL
=============================================================================
