---------------------------- MODULE MCContracts -----------------------------
EXTENDS Contracts

\* A ticker that passes every gate with a score of 100, and what is varied of it.
Strong(t) ==
  [ticker |-> t, halted |-> FALSE, source |-> "primary", corroborated |-> TRUE, age |-> 2,
   rankAge |-> 2, disqualified |-> FALSE, text |-> 4, gap |-> 4, volume |-> 500, rvol |-> 11,
   float |-> 50, profile |-> "clean", borrow |-> "easy", distance |-> 3, vwap |-> 3,
   chart |-> "blue_sky", price |-> 5, low |-> 4, bucket |-> "major_concrete",
   evidence |-> <<1, 2>>]
Aged(e, a)  == [e EXCEPT !.age = a, !.rankAge = a]
Weaker(t)   == [Strong(t) EXCEPT !.chart = "clean_short_term"]                     \* 97
Weak(t)     == [Strong(t) EXCEPT !.bucket = "material_partially_quantified"]       \* 96
Parabolic(t) == [Strong(t) EXCEPT !.vwap = 4, !.borrow = "unknown", !.float = 49]  \* 94
Slow(t)     == [Strong(t) EXCEPT !.rvol = 5, !.chart = "moderate_room", !.distance = 2]
Spiky(t)    == [Strong(t) EXCEPT !.profile = "spiky", !.borrow = "hard_to_borrow"]
Halted(t)   == [Strong(t) EXCEPT !.halted = TRUE, !.rvol = 4, !.gap = 3, !.volume = 499]
Promoted(t) == [Strong(t) EXCEPT !.disqualified = TRUE, !.evidence = <<0, 4>>]
Rumour(t)   == [Strong(t) EXCEPT !.source = "unconfirmed", !.corroborated = FALSE]
Second(t)   == [Strong(t) EXCEPT !.source = "secondary"]
Stale(t)    == Aged(Strong(t), 25)
Empty(t)    == [Strong(t) EXCEPT !.bucket = "no_valid_driver"]
Capped(t)   == [Strong(t) EXCEPT !.chart = "capped"]
NearTop(t)  == [Strong(t) EXCEPT !.distance = 0]

Payload(tickers) ==
  [valid |-> TRUE, market |-> "normal", age |-> 180, freshness |-> 24, tickers |-> tickers,
   echo |-> [evaluation |-> "t1", payload |-> "t0", market |-> "normal"],
   missing |-> {}, duplicates |-> FALSE, invalid |-> {}]

MCPayloads ==
  {Payload(<<Weaker(1), Aged(Strong(2), 3), Weak(3), Strong(4), Halted(5)>>),
   Payload(<<Parabolic(1), Aged(Weak(2), 1), Weaker(3), Aged(Strong(4), 5)>>),
   Payload(<<Aged(Parabolic(1), 1), Weak(2)>>),
   Payload(<<Slow(1), Spiky(2), Promoted(3)>>),
   Payload(<<Second(1), Rumour(2), Stale(3), Empty(4)>>),
   Payload(<<Capped(1), NearTop(2), [Capped(3) EXCEPT !.distance = 0], Strong(4)>>),
   [Payload(<<Strong(1)>>) EXCEPT !.age = 181],
   [Payload(<<Strong(1), Halted(2)>>) EXCEPT !.market = "circuit_breaker_halt", !.age = 181],
   [Payload(<<Strong(1)>>) EXCEPT !.valid = FALSE, !.invalid = {7}],
   [Payload(<<>>) EXCEPT !.valid = FALSE, !.duplicates = TRUE, !.invalid = {7},
                         !.missing = {"payload"}, !.echo.payload = None]}

MCMetadata ==
  {[count |-> NoLimit, limit |-> 25, prequalifiedOut |-> {9}, omitted |-> {8}, logged |-> {8},
    policy |-> TRUE, late |-> "no", authorized |-> "no", scoringFirst |-> "yes",
    duplicatesStaged |-> None, blockersAfter |-> "yes", invisible |-> {}]}
=============================================================================
