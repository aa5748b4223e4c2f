---------------------------- MODULE MCFeatures ------------------------------
EXTENDS Features

Today == 10 * DayLength
Now   == Today + 22                \* four buckets after the start of the pre-market

Id == <<"t1", "t2", "t3", "t4", "t5", "t6", "t7", "t8">>

Event(seq, id, action, original, eligible, at, price, size) ==
  [seq |-> seq, id |-> Id[id], action |-> action, original |-> original, eligible |-> eligible,
   time |-> at, price |-> price, size |-> size]
Trade(seq, id, at, price, size) == Event(seq, id, "new", None, TRUE, at, price, size)

\* One trade in each bucket, the last at the price.
Steady(price, size) ==
  [i \in 1 .. 4 |-> Trade(10 + i, 4 + i, Today + 4 + 4 * i, IF i = 4 THEN price ELSE 29, size)]
Bar(high)          == [high |-> high, low |-> high - 2, close |-> high - 1]
Bars(highs)        == [i \in DOMAIN highs |-> Bar(highs[i])]
Session(day, size) == [day |-> day, complete |-> TRUE,
                       events |-> <<Trade(1, 1, day * DayLength + (IF size = 0 THEN 7 ELSE 20), 20, size + 1),
                                    Trade(2, 2, day * DayLength + 23, 20, 900)>>]
Catalyst(id, source, at) ==
  [id |-> id, source |-> source, time |-> at, observed |-> at, corroborated |-> TRUE,
   disqualified |-> FALSE, text |-> 4]
Float(shares, observed) ==
  [effective |-> 9, observed |-> observed, validated |-> observed, expires |-> Now + 9, shares |-> shares]

Candidate(t) ==
  [ticker |-> t, halted |-> FALSE, borrow |-> "easy", close |-> 28, events |-> Steady(30, 130),
   sessions |-> <<Session(8, 100), Session(9, 100), Session(7, 0)>>, listed |-> TRUE,
   bars |-> Bars(<<34, 29, 36, 30, 29, 29>>),
   floats |-> <<Float(60, Today), Float(40, Today + 1)>>,
   catalysts |-> <<Catalyst(1, "primary", Now - 9), Catalyst(2, "primary", Now - 8)>>]

Context(candidates) ==
  [now |-> Now, evaluation |-> Now + 1, freshness |-> 24 * Unit, market |-> "normal",
   candidates |-> candidates]

Alone(s) == Context(<<s>>)

\* Four ledger events on up to four trades, the last of them perhaps after the snapshot.
LedgerEvents(seq, at, ids, originals, eligible) ==
  LET price == 28 + seq
  IN  {Event(seq, i, "new", None, e, at, price, 140) : i \in ids, e \in eligible} \union
      {Event(seq, i, "correction", Id[o], e, at, price, 140) : i \in ids, o \in originals, e \in eligible} \union
      {Event(seq, seq, "cancel", Id[o], TRUE, at, price, 140) : o \in originals}

Corrected ==
  \E b \in LedgerEvents(2, Today + 11, 1 .. 2, {1}, BOOLEAN),
     c \in LedgerEvents(3, Today + 12, 1 .. 3, 1 .. 2, BOOLEAN),
     d \in LedgerEvents(4, Today + 13, {4}, 1 .. 3, {TRUE}) \union
           LedgerEvents(4, Now + 1, {4}, {2}, {TRUE}) :
    context = Alone([Candidate(1) EXCEPT !.events = <<Trade(1, 1, Today + 10, 29, 140), b, c, d>> \o @])

Charts ==
  \E highs \in [1 .. 7 -> {29, 32, 35}], price \in {30, 33, 35}, listed \in BOOLEAN :
    /\ price < 35 => listed
    /\ price = 33 => highs[1] = 35
    /\ context = Alone([Candidate(1) EXCEPT !.bars = Bars(highs), !.events = Steady(price, 130),
                                            !.listed = listed])

Catalysts ==
  {Catalyst(1, "primary", Now - 8), Catalyst(2, "primary", Now - 8), Catalyst(3, "primary", Now - 97),
   [Catalyst(4, "primary", Now - 97) EXCEPT !.observed = Now + 1], Catalyst(5, "secondary", Now - 3),
   [Catalyst(6, "secondary", Now - 2) EXCEPT !.corroborated = FALSE], Catalyst(7, "unconfirmed", Now - 1),
   [Catalyst(8, "primary", Now - 7) EXCEPT !.disqualified = TRUE],
   [Catalyst(9, "primary", Now - 6) EXCEPT !.text = MaxText + 1],
   [Catalyst(10, "primary", Now + 1) EXCEPT !.observed = Now],
   Catalyst(11, "primary", Now - 96)}
Floats ==
  {Float(60, Today), Float(40, Today + 1), Float(30, Now + 1), [Float(70, Today) EXCEPT !.effective = 11],
   [Float(20, Today) EXCEPT !.expires = Now], [Float(50, Now) EXCEPT !.validated = Now + 1],
   [Float(80, Today) EXCEPT !.effective = 10]}

Joins ==
  \/ \E c \in Catalysts, d \in Catalysts, f \in Floats :
       context = Alone([Candidate(1) EXCEPT !.catalysts = <<c, d>>, !.floats = <<Float(55, Today + 2), f>>])
  \/ context = Alone([Candidate(1) EXCEPT !.catalysts = <<>>])
  \/ \E f \in Floats : context = Alone([Candidate(1) EXCEPT !.floats = <<f>>])

\* Histories that are short, incomplete or empty, and values at their thresholds.
Edges ==
  \/ \E s \in
     {<<Session(9, 100)>>, <<Session(8, 0), Session(9, 0)>>, <<Session(8, 104), Session(9, 104)>>,
      <<Session(8, 105), Session(9, 104)>>,
      <<[Session(8, 100) EXCEPT !.complete = FALSE], Session(9, 100)>>,
      <<[Session(8, 100) EXCEPT !.events = @ \o @], [Session(9, 100) EXCEPT !.complete = FALSE]>>} :
       context = Alone([Candidate(1) EXCEPT !.sessions = s])
  \/ \E b \in
     {Bars(<<30, 31>>), Bars(<<30, 31, 32>>), [i \in 1 .. 5 |-> [high |-> 30, low |-> 30, close |-> 30]],
      [i \in 1 .. 5 |-> [high |-> IF i = 3 THEN 31 ELSE 30, low |-> 30, close |-> 30]]} :
       context = Alone([Candidate(1) EXCEPT !.bars = b])
  \/ \E c \in {28, 29}, h \in BOOLEAN, z \in {124, 125, 130} :
       context = Alone([Candidate(1) EXCEPT !.close = c, !.halted = h, !.events = Steady(30, z)])
  \/ \E at \in {Today - 18, Today + 7, Today + 8, Now, Now + 1}, size \in {130, 1000} :
       context = Alone([Candidate(1) EXCEPT !.events[1] = Trade(11, 5, at, 29, size)])
  \/ context = Alone([Candidate(1) EXCEPT !.events = <<>>])

\* More candidates than the payload takes.
Kinds(t) ==
  {Candidate(t), [Candidate(t) EXCEPT !.halted = TRUE],
   [Candidate(t) EXCEPT !.events = Steady(30, 150)],
   [Candidate(t) EXCEPT !.catalysts = <<Catalyst(5, "secondary", Now - 3)>>]}
Crowds ==
  \E a \in Kinds(1), b \in Kinds(2), c \in Kinds(3), d \in Kinds(4) : context = Context(<<c, a, d, b>>)

MCInit == (Corrected \/ Charts \/ Joins \/ Edges \/ Crowds) /\ FeatureInit

MCSpec == MCInit /\ [][FeatureNext]_featureVars
=============================================================================
