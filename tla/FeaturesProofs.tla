--------------------------- MODULE FeaturesProofs ---------------------------
(***************************************************************************)
(* Proofs about Features, for every context that validates, every number   *)
(* of candidates, trades, bars and records in it, and every width, period  *)
(* and capacity the configuration takes.                                   *)
(***************************************************************************)
EXTENDS Features, ReplayProofs, TLAPS

-----------------------------------------------------------------------------
(* Sums.                                                                   *)

OneOf(s) == CHOOSE x \in s : TRUE

Totals(f, w, D) == f = [s \in SUBSET D |-> IF s = {} THEN 0 ELSE w[OneOf(s)] + f[s \ {OneOf(s)}]]

LEMMA SumExists ==
  ASSUME NEW D, IsFiniteSet(D), NEW w \in [D -> Nat]
  PROVE  \E f : Totals(f, w, D)
<1> DEFINE M == [s \in SUBSET D |-> IF s = {} THEN {} ELSE {OneOf(s)}]
           G == [p \in (SUBSET D) \X Nat |-> IF p[1] = {} THEN 0 ELSE w[OneOf(p[1])] + p[2]]
<1>1. \A s \in SUBSET D : s # {} => OneOf(s) \in s BY DEF OneOf
<1>2. Removes(D, M) BY <1>1 DEF Removes
<1>3. \A s \in SUBSET D : \A v \in Nat :
        G[<<s, v>>] = IF s = {} THEN 0 ELSE w[OneOf(s)] + v
  <2> TAKE s \in SUBSET D
  <2> TAKE v \in Nat
  <2> PICK p : p = <<s, v>> OBVIOUS
  <2>1. p \in (SUBSET D) \X Nat /\ p[1] = s /\ p[2] = v OBVIOUS
  <2>2. G[p] = IF p[1] = {} THEN 0 ELSE w[OneOf(p[1])] + p[2] BY <2>1
  <2> HIDE DEF G
  <2> QED BY <2>1, <2>2
<1>4. Steps(D, Nat, G)
  <2> HIDE DEF G, M
  <2> SUFFICES ASSUME NEW s \in SUBSET D, NEW v \in Nat PROVE G[<<s, v>>] \in Nat BY DEF Steps
  <2>1. CASE s = {} BY <1>3, <2>1
  <2>2. CASE s # {}
    <3>1. w[OneOf(s)] \in Nat BY <1>1, <2>2
    <3>2. G[<<s, v>>] = w[OneOf(s)] + v BY <1>3, <2>2
    <3> QED BY <3>1, <3>2
  <2> QED BY <2>1, <2>2
<1>5. \A s \in SUBSET D : s # {} => M[s] = {OneOf(s)} OBVIOUS
<1> HIDE DEF M, G
<1>6. PICK f \in [SUBSET D -> Nat] : \A s \in SUBSET D : f[s] = Unfold(f, 0, M, G, s)
  <2>1. PICK e \in Nat : e = 0 OBVIOUS
  <2>2. PICK f : Solves(f, D, Nat, e, M, G) BY <1>2, <1>4, RecursionOnSubsets
  <2> QED BY <2>1, <2>2 DEF Solves
<1>7. ASSUME NEW s \in SUBSET D
      PROVE  f[s] = IF s = {} THEN 0 ELSE w[OneOf(s)] + f[s \ {OneOf(s)}]
  <2>1. CASE s = {} BY <1>6, <2>1 DEF Unfold
  <2>2. CASE s # {}
    <3>1. f[s] = G[<<s, f[s \ {OneOf(s)}]>>] BY <1>5, <1>6, <2>2 DEF Unfold
    <3>2. f[s \ {OneOf(s)}] \in Nat OBVIOUS
    <3> QED BY <1>3, <2>2, <3>1, <3>2
  <2> QED BY <2>1, <2>2
<1>8. f = [s \in SUBSET D |-> f[s]] OBVIOUS
<1>9. f = [s \in SUBSET D |-> IF s = {} THEN 0 ELSE w[OneOf(s)] + f[s \ {OneOf(s)}]]
  BY <1>7, <1>8
<1> QED BY <1>9 DEF Totals

\* A sum of natural numbers is one, and no less than any of them.
LEMMA SumIs ==
  ASSUME NEW D, IsFiniteSet(D), NEW w \in [D -> Nat]
  PROVE  SumFunction(w) \in Nat /\ \A x \in D : w[x] =< SumFunction(w)
<1> DEFINE c == CHOOSE g : Totals(g, w, D)
<1>1. SumFunction(w) = c[D]
  <2>1. DOMAIN w = D OBVIOUS
  <2>2. SumFunction(w) = SumFunctionOnSet(w, D) BY <2>1 DEF SumFunction
  <2> QED BY <2>2 DEF SumFunctionOnSet, FoldFunctionOnSet, MapThenFoldSet, Totals, OneOf
<1>2. \E g : Totals(g, w, D) BY SumExists
<1>3. Totals(c, w, D) BY <1>2
<1> PICK h : h = c OBVIOUS
<1>4. \A s \in SUBSET D : h[s] = IF s = {} THEN 0 ELSE w[OneOf(s)] + h[s \ {OneOf(s)}]
  <2> HIDE DEF c
  <2>1. h = [s \in SUBSET D |-> IF s = {} THEN 0 ELSE w[OneOf(s)] + h[s \ {OneOf(s)}]] BY <1>3 DEF Totals
  <2> QED BY <2>1
<1> HIDE DEF c
<1> DEFINE Right(s) == h[s] \in Nat /\ \A x \in s : w[x] =< h[s]
           T == {n \in Nat : \E s \in SUBSET D : Cardinality(s) = n /\ ~ Right(s)}
<1>5. ASSUME T # {} PROVE FALSE
  <2>1. PICK m \in T : \A j \in T : m =< j BY <1>5, LeastNumber
  <2>2. PICK s \in SUBSET D : Cardinality(s) = m /\ ~ Right(s) BY <2>1
  <2>3. CASE s = {}
    <3>1. h[s] = 0 BY <1>4, <2>3
    <3> QED BY <3>1, <2>2, <2>3
  <2>4. CASE s # {}
    <3> PICK a : a = OneOf(s) OBVIOUS
    <3>1. a \in s /\ h[s] = w[a] + h[s \ {a}] BY <1>4, <2>4 DEF OneOf
    <3>2. IsFiniteSet(s) BY FS_Subset
    <3>3. Cardinality(s \ {a}) = Cardinality(s) - 1 /\ IsFiniteSet(s \ {a})
      BY <3>1, <3>2, FS_RemoveElement
    <3>4. Cardinality(s \ {a}) \in Nat BY <3>3, FS_CardinalityType
    <3>5. Right(s \ {a})
      <4>0. m \in Nat OBVIOUS
      <4>1. Cardinality(s \ {a}) \notin T
        <5> HIDE DEF T
        <5> QED BY <2>1, <2>2, <3>3, <3>4, <4>0
      <4> HIDE DEF Right
      <4> QED BY <3>4, <4>1
    <3>6. w[a] \in Nat /\ h[s \ {a}] \in Nat BY <3>1, <3>5
    <3>7. h[s] \in Nat /\ w[a] =< h[s] /\ h[s \ {a}] =< h[s] BY <3>1, <3>6
    <3>8. ASSUME NEW x \in s PROVE w[x] =< h[s]
      <4>1. CASE x = a BY <3>7, <4>1
      <4>2. CASE x # a
        <5>1. x \in s \ {a} BY <4>2
        <5>2. w[x] =< h[s \ {a}] /\ w[x] \in Nat BY <3>5, <5>1
        <5> QED BY <5>2, <3>6, <3>7
      <4> QED BY <4>1, <4>2
    <3> QED BY <3>7, <3>8, <2>2
  <2> QED BY <2>3, <2>4
<1>6. Right(D)
  <2>1. Cardinality(D) \in Nat /\ D \in SUBSET D BY FS_CardinalityType
  <2> HIDE DEF Right
  <2> QED BY <1>5, <2>1
<1> QED BY <1>1, <1>6

-----------------------------------------------------------------------------
(* The greatest and the least of a finite set of integers.                 *)

LEMMA MaxIs ==
  ASSUME NEW S \in SUBSET Int, IsFiniteSet(S), S # {}
  PROVE  Max(S) \in S /\ \A y \in S : y =< Max(S)
<1> DEFINE R == {p \in S \X S : p[1] > p[2]}
<1>1. StrictOrder(S, R) BY DEF StrictOrder
<1>2. PICK x \in S : \A y \in S : <<y, x>> \notin R
  <2> HIDE DEF R
  <2> QED BY <1>1, FirstExists
<1>3. ASSUME NEW y \in S PROVE x >= y
  <2>1. <<y, x>> \notin R BY <1>2
  <2>2. ~ (y > x) BY <2>1
  <2>3. x \in Int /\ y \in Int OBVIOUS
  <2> QED BY <2>2, <2>3
<1>4. PICK m : m = Max(S) OBVIOUS
<1>5. m \in S /\ \A y \in S : m >= y BY <1>3, <1>4 DEF Max
<1> QED BY <1>4, <1>5

LEMMA MinIs ==
  ASSUME NEW S \in SUBSET Int, IsFiniteSet(S), S # {}
  PROVE  Min(S) \in S /\ \A y \in S : Min(S) =< y
<1> DEFINE R == {p \in S \X S : p[1] < p[2]}
<1>1. StrictOrder(S, R) BY DEF StrictOrder
<1>2. PICK x \in S : \A y \in S : <<y, x>> \notin R
  <2> HIDE DEF R
  <2> QED BY <1>1, FirstExists
<1>3. ASSUME NEW y \in S PROVE x =< y
  <2>1. <<y, x>> \notin R BY <1>2
  <2>2. ~ (y < x) BY <2>1
  <2>3. x \in Int /\ y \in Int OBVIOUS
  <2> QED BY <2>2, <2>3
<1>4. PICK m : m = Min(S) OBVIOUS
<1>5. m \in S /\ \A y \in S : m =< y BY <1>3, <1>4 DEF Min
<1> QED BY <1>4, <1>5

-----------------------------------------------------------------------------
(* Recursion on the numbers b .. N, where n looks back to p[n].            *)

Climbs(b, N, p, V, G) ==
  /\ b \in Nat /\ N \in Nat /\ b =< N
  /\ \A n \in b + 1 .. N : p[n] \in b .. n - 1 /\ \A v \in V : G[<<n, v>>] \in V

SolvesUp(f, b, N, p, V, e, G) ==
  f \in [b .. N -> V] /\ f[b] = e /\ \A n \in b + 1 .. N : f[n] = G[<<n, f[p[n]]>>]

LEMMA RecursionOnNumbers ==
  ASSUME NEW b, NEW N, NEW p, NEW V, NEW G, Climbs(b, N, p, V, G), NEW e \in V
  PROVE  \E f : SolvesUp(f, b, N, p, V, e, G)
<1>0. /\ b \in Nat /\ N \in Nat /\ b =< N
      /\ \A n \in b + 1 .. N : p[n] \in b .. n - 1 /\ \A v \in V : G[<<n, v>>] \in V
  BY DEF Climbs
<1> DEFINE T == {n \in Nat : n \in b .. N /\ ~ \E f : SolvesUp(f, b, n, p, V, e, G)}
<1>1. ASSUME T # {} PROVE FALSE
  <2>1. PICK m \in T : \A j \in T : m =< j
    <3> HIDE DEF T
    <3>1. T \in SUBSET Nat BY DEF T
    <3> QED BY <1>1, <3>1, LeastNumber
  <2>2. m \in b .. N /\ ~ \E f : SolvesUp(f, b, m, p, V, e, G) BY <2>1
  <2>3. CASE m = b
    <3> PICK f : f = [n \in b .. b |-> e] OBVIOUS
    <3>1. f \in [b .. b -> V] /\ f[b] = e BY <1>0
    <3>2. b + 1 .. b = {} BY <1>0
    <3>3. SolvesUp(f, b, b, p, V, e, G) BY <3>1, <3>2 DEF SolvesUp
    <3> QED BY <3>3, <2>2, <2>3
  <2>4. CASE m # b
    <3>1. m - 1 \in b .. N /\ m - 1 \in Nat /\ m \in b + 1 .. N BY <1>0, <2>2, <2>4
    <3>2. \E f : SolvesUp(f, b, m - 1, p, V, e, G)
      <4>1. m - 1 \notin T
        <5> HIDE DEF T
        <5> QED BY <2>1, <3>1
      <4> QED BY <4>1, <3>1
    <3>3. PICK f : SolvesUp(f, b, m - 1, p, V, e, G) BY <3>2
    <3>4. f \in [b .. m - 1 -> V] /\ f[b] = e /\ \A n \in b + 1 .. m - 1 : f[n] = G[<<n, f[p[n]]>>]
      BY <3>3 DEF SolvesUp
    <3>5. p[m] \in b .. m - 1 BY <1>0, <3>1
    <3>6. G[<<m, f[p[m]]>>] \in V BY <1>0, <3>1, <3>4, <3>5
    <3> PICK g : g = [n \in b .. m |-> IF n = m THEN G[<<m, f[p[m]]>>] ELSE f[n]] OBVIOUS
    <3>7. \A n \in b .. m - 1 : n \in b .. m /\ n # m /\ g[n] = f[n] BY <1>0, <3>1
    <3>8. g[m] = G[<<m, f[p[m]]>>] BY <1>0, <3>1
    <3>9. \A n \in b .. m : n = m \/ n \in b .. m - 1 BY <1>0, <3>1
    <3>10. g \in [b .. m -> V] BY <3>4, <3>6, <3>7, <3>8, <3>9
    <3>11. g[b] = e
      <4>1. b \in b .. m - 1 BY <1>0, <3>1
      <4> QED BY <4>1, <3>4, <3>7
    <3>12. ASSUME NEW n \in b + 1 .. m PROVE g[n] = G[<<n, g[p[n]]>>]
      <4>1. n \in b + 1 .. N /\ p[n] \in b .. n - 1 BY <1>0, <3>1
      <4>2. p[n] \in b .. m - 1 BY <1>0, <3>1, <4>1
      <4>3. g[p[n]] = f[p[n]] BY <4>2, <3>7
      <4>4. CASE n = m BY <4>3, <4>4, <3>8
      <4>5. CASE n # m
        <5>1. n \in b + 1 .. m - 1 /\ n \in b .. m - 1 BY <1>0, <3>1, <4>5
        <5> QED BY <5>1, <4>3, <3>4, <3>7
      <4> QED BY <4>4, <4>5
    <3>13. SolvesUp(g, b, m, p, V, e, G) BY <3>10, <3>11, <3>12 DEF SolvesUp
    <3> QED BY <3>13, <2>2
  <2> QED BY <2>3, <2>4
<1>2. N \notin T BY <1>1
<1> QED BY <1>0, <1>2

\* Whatever obeys the recursion stays in the set its steps stay in.
Obeys(f, b, N, p, V, e, G) ==
  f[b] = e /\ \A n \in b + 1 .. N : f[p[n]] \in V => f[n] = G[<<n, f[p[n]]>>]

LEMMA RecursionStays ==
  ASSUME NEW b, NEW N, NEW p, NEW V, NEW G, Climbs(b, N, p, V, G), NEW e \in V,
         NEW f, Obeys(f, b, N, p, V, e, G)
  PROVE  \A n \in b .. N : f[n] \in V
<1>0. /\ b \in Nat /\ N \in Nat /\ b =< N
      /\ \A n \in b + 1 .. N : p[n] \in b .. n - 1 /\ \A v \in V : G[<<n, v>>] \in V
      /\ f[b] = e /\ \A n \in b + 1 .. N : f[p[n]] \in V => f[n] = G[<<n, f[p[n]]>>]
  BY DEF Climbs, Obeys
<1> DEFINE T == {n \in Nat : n \in b .. N /\ f[n] \notin V}
<1>1. ASSUME T # {} PROVE FALSE
  <2>1. PICK m \in T : \A j \in T : m =< j
    <3> HIDE DEF T
    <3>1. T \in SUBSET Nat BY DEF T
    <3> QED BY <1>1, <3>1, LeastNumber
  <2>2. m \in b .. N /\ f[m] \notin V /\ m \in Nat BY <2>1
  <2>3. m \in b + 1 .. N BY <1>0, <2>2
  <2>4. p[m] \in b .. m - 1 BY <1>0, <2>3
  <2>5. p[m] \in Nat /\ p[m] \in b .. N /\ p[m] < m BY <1>0, <2>2, <2>4
  <2>6. p[m] \notin T
    <3> HIDE DEF T
    <3> QED BY <2>1, <2>2, <2>5
  <2>7. f[p[m]] \in V BY <2>5, <2>6
  <2> QED BY <1>0, <2>2, <2>3, <2>7
<1> QED BY <1>0, <1>1

-----------------------------------------------------------------------------
(* The ledger of trades.                                                   *)

Codes ==
  {"DUPLICATE_TRADE_ID", "UNKNOWN_ORIGINAL_TRADE", "DUPLICATE_INGEST_SEQUENCE",
   "INSUFFICIENT_ATR_HISTORY", "INVALID_ATR", "INCOMPLETE_RVOL_SESSION", "ZERO_RVOL_BASELINE",
   "INSUFFICIENT_RVOL_HISTORY", "INCOMPLETE_HISTORY_FOR_BLUE_SKY_CHECK",
   "INSUFFICIENT_DAILY_HISTORY", "FLOAT_DATA_UNAVAILABLE", "CATALYST_DATA_UNAVAILABLE",
   "FUTURE_CATALYST_TIMESTAMP", "NO_ELIGIBLE_PREMARKET_TRADES"}

Errors == [error : Codes]

LedgerType(E) ==
  [active : SUBSET Range(E), known : SUBSET TradeIds, aliases : [TradeIds -> TradeIds]]

LEMMA LedgerNotFailed == ASSUME NEW E, NEW r \in LedgerType(E) PROVE ~ Failed(r)
  BY DEF LedgerType, Failed

LEMMA ErrorFailed ==
  /\ \A r \in Errors : Failed(r)
  /\ \A c \in Codes : DataQualityError(c) \in Errors /\ Failed(DataQualityError(c))
  BY DEF Errors, Failed, DataQualityError

LEMMA EventFields ==
  ASSUME NEW e \in TradeLedgerEvent
  PROVE  /\ e.id \in TradeIds /\ e.eligible \in BOOLEAN
         /\ e.action # "new" => e.original \in TradeIds
         /\ e.seq \in Nat /\ e.time \in Nat /\ e.price \in Nat \ {0} /\ e.size \in Nat \ {0}
  BY DEF TradeLedgerEvent

\* What an event that is not refused makes of the ledger.
ByNew(l, e, a) ==
  /\ e.id \notin l.known
  /\ a.active = IF e.eligible THEN l.active \union {e} ELSE l.active
  /\ a.known = l.known \union {e.id}
  /\ a.aliases = [l.aliases EXCEPT ![e.id] = e.id]

ByChange(l, e, a) ==
  /\ \E t \in l.active : t.id = l.aliases[e.original]
  /\ a.active = IF e.action = "cancel" \/ ~ e.eligible
                THEN {t \in l.active : t.id # l.aliases[e.original]}
                ELSE {t \in l.active : t.id # l.aliases[e.original] /\ t.id # e.id} \union {e}
  /\ a.known = l.known \union {e.id, e.original}
  /\ a.aliases = [l.aliases EXCEPT ![e.id] = e.id, ![e.original] = e.id]

LEMMA ApplyIs ==
  ASSUME NEW E \in Seq(TradeLedgerEvent), NEW e \in Range(E), NEW l \in LedgerType(E),
         NEW a, a = ApplyEvent(l, e)
  PROVE  /\ Failed(a) => a \in Errors
         /\ ~ Failed(a) => a \in LedgerType(E)
         /\ e.action = "new" /\ ~ Failed(a) => ByNew(l, e, a)
         /\ e.action # "new" /\ ~ Failed(a) => ByChange(l, e, a)
<1>0. e \in TradeLedgerEvent BY DEF Range
<1>1. e.id \in TradeIds /\ e.eligible \in BOOLEAN /\ (e.action # "new" => e.original \in TradeIds)
  BY <1>0, EventFields
<1>2. l.active \in SUBSET Range(E) /\ l.known \in SUBSET TradeIds /\ l.aliases \in [TradeIds -> TradeIds]
  BY DEF LedgerType
<1>3. CASE e.action = "new" /\ e.id \in l.known
  <2>1. a = DataQualityError("DUPLICATE_TRADE_ID") BY <1>3 DEF ApplyEvent
  <2>2. Failed(a) /\ a \in Errors
    <3>1. "DUPLICATE_TRADE_ID" \in Codes BY DEF Codes
    <3> QED BY <2>1, <3>1, ErrorFailed
  <2> QED BY <2>2
<1>4. CASE e.action = "new" /\ e.id \notin l.known
  <2> PICK x : x = IF e.eligible THEN l.active \union {e} ELSE l.active OBVIOUS
  <2> PICK k : k = l.known \union {e.id} OBVIOUS
  <2> PICK s : s = [l.aliases EXCEPT ![e.id] = e.id] OBVIOUS
  <2>1. (e.action = "cancel" \/ ~ e.eligible) <=> ~ e.eligible BY <1>1, <1>4
  <2>2. a = [active |-> x, known |-> k, aliases |-> s] BY <1>1, <1>4, <2>1 DEF ApplyEvent
  <2>3. x \in SUBSET Range(E) /\ k \in SUBSET TradeIds /\ s \in [TradeIds -> TradeIds] BY <1>1, <1>2
  <2>4. a \in LedgerType(E) BY <2>2, <2>3 DEF LedgerType
  <2>5. ~ Failed(a) BY <2>4, LedgerNotFailed
  <2>6. a.active = x /\ a.known = k /\ a.aliases = s BY <2>2
  <2> QED BY <1>4, <2>4, <2>5, <2>6 DEF ByNew
<1>5. CASE e.action # "new"
  <2> PICK r : r = l.aliases[e.original] OBVIOUS
  <2>1. CASE Unknown(l, r)
    <3>1. a = DataQualityError("UNKNOWN_ORIGINAL_TRADE") BY <1>5, <2>1 DEF ApplyEvent
    <3>2. Failed(a) /\ a \in Errors
      <4>1. "UNKNOWN_ORIGINAL_TRADE" \in Codes BY DEF Codes
      <4> QED BY <3>1, <4>1, ErrorFailed
    <3> QED BY <3>2, <1>5
  <2>2. CASE ~ Unknown(l, r)
    <3> DEFINE x == IF e.action = "cancel" \/ ~ e.eligible
                    THEN {t \in l.active : t.id # r}
                    ELSE {t \in l.active : t.id # r /\ t.id # e.id} \union {e}
    <3> PICK k : k = l.known \union {e.id, e.original} OBVIOUS
    <3> PICK s : s = [l.aliases EXCEPT ![e.id] = e.id, ![e.original] = e.id] OBVIOUS
    <3>0. {t \in {u \in l.active : u.id # r} : t.id # e.id} = {t \in l.active : t.id # r /\ t.id # e.id}
      OBVIOUS
    <3>1. a.active = x /\ a = [active |-> a.active, known |-> k, aliases |-> s]
      BY <1>5, <2>2, <3>0 DEF ApplyEvent
    <3>2. x \in SUBSET Range(E) BY <1>2
    <3>3. k \in SUBSET TradeIds /\ s \in [TradeIds -> TradeIds] BY <1>1, <1>2, <1>5
    <3>4. a \in LedgerType(E)
      <4> PICK y : y = a.active OBVIOUS
      <4>1. a = [active |-> y, known |-> k, aliases |-> s] /\ y \in SUBSET Range(E) BY <3>1, <3>2
      <4> QED BY <4>1, <3>3 DEF LedgerType
    <3>5. ~ Failed(a) BY <3>4, LedgerNotFailed
    <3>6. a.known = k /\ a.aliases = s BY <3>1
    <3>7. \E t \in l.active : t.id = r BY <2>2 DEF Unknown
    <3> QED BY <1>5, <3>1, <3>4, <3>5, <3>6, <3>7 DEF ByChange
  <2> QED BY <2>1, <2>2
<1> QED BY <1>3, <1>4, <1>5

IsLedgers(f, E) ==
  f = [n \in 0 .. Len(E) |->
        IF n = 0 THEN EmptyLedger
        ELSE IF Failed(f[n - 1]) THEN f[n - 1]
        ELSE ApplyEvent(f[n - 1], E[n])]

LedgerStep(l, e) == IF Failed(l) THEN l ELSE ApplyEvent(l, e)

LEMMA LedgerStepType ==
  ASSUME NEW E \in Seq(TradeLedgerEvent), NEW n \in 1 .. Len(E),
         NEW l \in LedgerType(E) \union Errors
  PROVE  LedgerStep(l, E[n]) \in LedgerType(E) \union Errors
<1>1. E[n] \in Range(E) BY DEF Range
<1>2. CASE Failed(l) BY <1>2 DEF LedgerStep
<1>3. CASE ~ Failed(l)
  <2>1. l \in LedgerType(E) BY <1>3, ErrorFailed
  <2> QED BY <1>1, <1>3, <2>1, ApplyIs DEF LedgerStep
<1> QED BY <1>2, <1>3

\* The ledger after each event is a ledger, or the error of the event that failed.
LEMMA LedgersAre ==
  ASSUME NEW E \in Seq(TradeLedgerEvent)
  PROVE  /\ Ledgers(E)[0] = EmptyLedger
         /\ \A n \in 0 .. Len(E) : Ledgers(E)[n] \in LedgerType(E) \union Errors
         /\ \A n \in 1 .. Len(E) : Ledgers(E)[n] = LedgerStep(Ledgers(E)[n - 1], E[n])
<1> DEFINE N == Len(E)
           V == LedgerType(E) \union Errors
           p == [n \in 1 .. N |-> n - 1]
           G == [q \in (1 .. N) \X V |-> LedgerStep(q[2], E[q[1]])]
<1>0. N \in Nat OBVIOUS
<1>1. \A n \in 1 .. N : \A v \in V : G[<<n, v>>] = LedgerStep(v, E[n])
  <2> TAKE n \in 1 .. N
  <2> TAKE v \in V
  <2> PICK q : q = <<n, v>> OBVIOUS
  <2>1. q \in (1 .. N) \X V /\ q[1] = n /\ q[2] = v
    <3> HIDE DEF V
    <3> QED OBVIOUS
  <2>2. G[q] = LedgerStep(q[2], E[q[1]])
    <3> HIDE DEF V
    <3> QED BY <2>1
  <2> HIDE DEF G, V
  <2> QED BY <2>1, <2>2
<1>2. \A n \in 1 .. N : \A v \in V : G[<<n, v>>] \in V
  <2> HIDE DEF G
  <2> QED BY <1>1, LedgerStepType
<1>3. \A n \in 1 .. N : p[n] = n - 1 OBVIOUS
<1>4. EmptyLedger \in V
  BY DEF EmptyLedger, LedgerType
<1> HIDE DEF G, V, p, N
<1>5. Climbs(0, N, p, V, G)
  <2>1. \A n \in 0 + 1 .. N : n \in 1 .. N /\ p[n] \in 0 .. n - 1 BY <1>0, <1>3
  <2>2. 0 \in Nat /\ 0 =< N BY <1>0
  <2> QED BY <1>0, <1>2, <2>1, <2>2 DEF Climbs
<1>6. PICK f : SolvesUp(f, 0, N, p, V, EmptyLedger, G)
  <2>1. PICK e \in V : e = EmptyLedger BY <1>4
  <2> QED BY <1>5, <2>1, RecursionOnNumbers
<1>7. f \in [0 .. N -> V] /\ f[0] = EmptyLedger /\ \A n \in 1 .. N : f[n] = G[<<n, f[p[n]]>>]
  <2>1. 0 + 1 = 1 OBVIOUS
  <2> QED BY <1>6, <2>1 DEF SolvesUp
<1>8. \A n \in 1 .. N : f[n] = LedgerStep(f[n - 1], E[n])
  <2> TAKE n \in 1 .. N
  <2>1. p[n] \in 0 .. N /\ p[n] = n - 1 BY <1>0, <1>3
  <2> QED BY <1>1, <1>7, <2>1
<1>9. IsLedgers(f, E)
  <2>1. f = [n \in 0 .. N |-> f[n]] BY <1>7
  <2>2. \A n \in 0 .. N : n # 0 => n \in 1 .. N BY <1>0
  <2>3. \A n \in 0 .. N : f[n] = IF n = 0 THEN EmptyLedger
                                 ELSE IF Failed(f[n - 1]) THEN f[n - 1] ELSE ApplyEvent(f[n - 1], E[n])
    BY <1>7, <1>8, <2>2 DEF LedgerStep
  <2> QED BY <2>1, <2>3 DEF IsLedgers, N
<1>10. PICK c : c = Ledgers(E) OBVIOUS
<1>11. IsLedgers(c, E)
  <2>1. c = CHOOSE g : IsLedgers(g, E) BY <1>10 DEF Ledgers, IsLedgers
  <2> QED BY <1>9, <2>1
<1>12. \A n \in 0 .. N : c[n] = IF n = 0 THEN EmptyLedger
                                ELSE IF Failed(c[n - 1]) THEN c[n - 1] ELSE ApplyEvent(c[n - 1], E[n])
  <2>1. c = [n \in 0 .. N |->
               IF n = 0 THEN EmptyLedger
               ELSE IF Failed(c[n - 1]) THEN c[n - 1] ELSE ApplyEvent(c[n - 1], E[n])]
    BY <1>11 DEF IsLedgers, N
  <2> QED BY <2>1
<1>13. c[0] = EmptyLedger /\ \A n \in 1 .. N : c[n] = LedgerStep(c[n - 1], E[n])
  <2>1. \A n \in 1 .. N : n \in 0 .. N /\ n # 0 BY <1>0
  <2>2. 0 \in 0 .. N BY <1>0
  <2> QED BY <1>12, <2>1, <2>2 DEF LedgerStep
<1>14. Obeys(c, 0, N, p, V, EmptyLedger, G)
  <2>1. 0 + 1 = 1 OBVIOUS
  <2>2. \A n \in 1 .. N : c[p[n]] \in V => c[n] = G[<<n, c[p[n]]>>] BY <1>1, <1>3, <1>13
  <2> QED BY <1>13, <2>1, <2>2 DEF Obeys
<1>15. \A n \in 0 .. N : c[n] \in V
  <2>1. PICK e \in V : e = EmptyLedger BY <1>4
  <2> QED BY <1>5, <1>14, <2>1, RecursionStays
<1> QED BY <1>10, <1>13, <1>15 DEF N, V

-----------------------------------------------------------------------------
(* Which trade an event belongs to.                                        *)

IsRoots(f, E) ==
  f = [i \in 1 .. Len(E) |->
        IF Reported(E, i) = {} THEN i ELSE f[Max(Reported(E, i))]]

\* An event belongs to the trade of an event it refers to, or begins one.
RootFacts(r, E) ==
  \A i \in 1 .. Len(E) :
    /\ r[i] \in 1 .. i
    /\ Reported(E, i) = {} => r[i] = i
    /\ Reported(E, i) # {} => \E m \in Reported(E, i) : r[i] = r[m]

LEMMA ReportedMax ==
  ASSUME NEW E, NEW i \in Nat, Reported(E, i) # {}
  PROVE  Max(Reported(E, i)) \in Reported(E, i) /\ Max(Reported(E, i)) \in 1 .. i - 1
<1>1. Reported(E, i) \in SUBSET (1 .. i) BY DEF Reported
<1>2. IsFiniteSet(1 .. i) BY Interval
<1>3. IsFiniteSet(Reported(E, i)) BY <1>1, <1>2, FS_Subset
<1>4. Reported(E, i) \in SUBSET Int BY <1>1
<1>5. Max(Reported(E, i)) \in Reported(E, i) BY <1>3, <1>4, MaxIs
<1> QED BY <1>5 DEF Reported

LEMMA RootsAre ==
  ASSUME NEW E, Len(E) \in Nat
  PROVE  RootFacts(Roots(E), E)
<1> DEFINE N == Len(E)
           p == [i \in 1 .. N |-> IF Reported(E, i) = {} THEN 0 ELSE Max(Reported(E, i))]
           G == [q \in (1 .. N) \X Nat |-> IF Reported(E, q[1]) = {} THEN q[1] ELSE q[2]]
<1>0. N \in Nat OBVIOUS
<1>1. \A i \in 1 .. N : \A v \in Nat : G[<<i, v>>] = IF Reported(E, i) = {} THEN i ELSE v
  <2> TAKE i \in 1 .. N
  <2> TAKE v \in Nat
  <2> PICK q : q = <<i, v>> OBVIOUS
  <2>1. q \in (1 .. N) \X Nat /\ q[1] = i /\ q[2] = v OBVIOUS
  <2>2. G[q] = IF Reported(E, q[1]) = {} THEN q[1] ELSE q[2] BY <2>1
  <2> HIDE DEF G
  <2> QED BY <2>1, <2>2
<1>2. \A i \in 1 .. N : \A v \in Nat : G[<<i, v>>] \in Nat
  <2> HIDE DEF G, N
  <2> TAKE i \in 1 .. N
  <2> TAKE v \in Nat
  <2>1. i \in Nat BY <1>0
  <2>2. G[<<i, v>>] = i \/ G[<<i, v>>] = v BY <1>1
  <2> QED BY <2>1, <2>2
<1>3. \A i \in 1 .. N : /\ Reported(E, i) = {} => p[i] = 0
                        /\ Reported(E, i) # {} => p[i] = Max(Reported(E, i))
                        /\ p[i] \in 0 .. i - 1
  BY <1>0, ReportedMax
<1> HIDE DEF G, p, N
<1>5. Climbs(0, N, p, Nat, G) BY <1>0, <1>2, <1>3 DEF Climbs
<1>6. PICK f : SolvesUp(f, 0, N, p, Nat, 0, G)
  <2>1. PICK e \in Nat : e = 0 OBVIOUS
  <2> QED BY <1>5, <2>1, RecursionOnNumbers
<1>7. f \in [0 .. N -> Nat] /\ \A n \in 1 .. N : f[n] = G[<<n, f[p[n]]>>]
  <2>1. 0 + 1 = 1 OBVIOUS
  <2> QED BY <1>6, <2>1 DEF SolvesUp
<1> PICK h : h = [i \in 1 .. N |-> f[i]] OBVIOUS
<1>8. \A i \in 1 .. N : h[i] = IF Reported(E, i) = {} THEN i ELSE h[Max(Reported(E, i))]
  <2> TAKE i \in 1 .. N
  <2>1. p[i] \in 0 .. N /\ f[p[i]] \in Nat BY <1>0, <1>3, <1>7, SMTT(30)
  <2>2. h[i] = IF Reported(E, i) = {} THEN i ELSE f[p[i]] BY <1>1, <1>7, <2>1
  <2>3. CASE Reported(E, i) = {} BY <2>2, <2>3
  <2>4. CASE Reported(E, i) # {}
    <3>1. i \in Nat BY <1>0
    <3>2. p[i] = Max(Reported(E, i)) /\ p[i] \in 1 .. N BY <1>0, <1>3, <2>4, <3>1, ReportedMax
    <3> QED BY <2>2, <2>4, <3>2
  <2> QED BY <2>3, <2>4
<1>9. IsRoots(h, E)
  <2>1. h = [i \in 1 .. N |-> h[i]] OBVIOUS
  <2> QED BY <1>8, <2>1 DEF IsRoots, N
<1>10. PICK r : r = Roots(E) OBVIOUS
<1>11. IsRoots(r, E)
  <2>1. r = CHOOSE g : IsRoots(g, E) BY <1>10 DEF Roots, IsRoots
  <2> QED BY <1>9, <2>1
<1>12. \A i \in 1 .. N : r[i] = IF Reported(E, i) = {} THEN i ELSE r[Max(Reported(E, i))]
  <2>1. r = [i \in 1 .. N |-> IF Reported(E, i) = {} THEN i ELSE r[Max(Reported(E, i))]]
    BY <1>11 DEF IsRoots, N
  <2> QED BY <2>1
<1> DEFINE T == {i \in Nat : i \in 1 .. N /\ r[i] \notin 1 .. i}
<1>13. ASSUME T # {} PROVE FALSE
  <2>1. PICK m \in T : \A j \in T : m =< j
    <3> HIDE DEF T
    <3>1. T \in SUBSET Nat BY DEF T
    <3> QED BY <1>13, <3>1, LeastNumber
  <2>2. m \in 1 .. N /\ r[m] \notin 1 .. m /\ m \in Nat BY <2>1
  <2>3. Reported(E, m) # {} BY <1>12, <2>2
  <2>4. PICK k : k = Max(Reported(E, m)) OBVIOUS
  <2>5. k \in 1 .. m - 1 /\ r[m] = r[k] BY <1>12, <2>2, <2>3, <2>4, ReportedMax
  <2>6. k \in Nat /\ k \in 1 .. N /\ k < m BY <1>0, <2>2, <2>5
  <2>7. k \notin T
    <3> HIDE DEF T
    <3> QED BY <2>1, <2>2, <2>6
  <2>8. r[k] \in 1 .. k BY <2>6, <2>7
  <2> QED BY <2>2, <2>5, <2>6, <2>8
<1>14. ASSUME NEW i \in 1 .. N
       PROVE  /\ r[i] \in 1 .. i
              /\ Reported(E, i) = {} => r[i] = i
              /\ Reported(E, i) # {} => \E m \in Reported(E, i) : r[i] = r[m]
  <2>1. i \in Nat BY <1>0
  <2>2. r[i] \in 1 .. i BY <1>13, <2>1
  <2>3. Reported(E, i) # {} => Max(Reported(E, i)) \in Reported(E, i) BY <2>1, ReportedMax
  <2> QED BY <1>12, <2>2, <2>3
<1> QED BY <1>10, <1>14 DEF RootFacts, N

-----------------------------------------------------------------------------
(* Every trade is counted once.                                            *)

Lasts(r, n) == {i \in 1 .. n : \A j \in i + 1 .. n : r[j] # r[i]}
Live(E, i) == E[i].eligible /\ E[i].action # "cancel"
Final(E, r, n) == {E[i] : i \in {i \in Lasts(r, n) : Live(E, i)}}

\* The ledger l after n events: its trades, what an id stands for, and which ids it knows.
Exact(E, r, l, n) ==
  /\ l \in LedgerType(E)
  /\ l.active = Final(E, r, n)
  /\ \A j \in 1 .. n : \E m \in 1 .. n : l.aliases[E[j].id] = E[m].id /\ r[m] = r[j]
  /\ \A x \in TradeIds : (\A j \in 1 .. n : E[j].id # x) => l.aliases[x] = x
  /\ \A j, k \in 1 .. n : E[j].id = E[k].id => r[j] = r[k]
  /\ \A j \in 1 .. n : E[j].id \in l.known

\* An event takes the place of the last one of its trade.
LEMMA LastsStep ==
  ASSUME NEW r, NEW n \in Nat \ {0}
  PROVE  Lasts(r, n) = {i \in Lasts(r, n - 1) : r[i] # r[n]} \union {n}
<1>1. \A i \in 1 .. n : i = n \/ i \in 1 .. n - 1 OBVIOUS
<1>2. \A i \in 1 .. n - 1 : i \in 1 .. n /\ i # n /\ n \in i + 1 .. n OBVIOUS
<1>3. \A i \in 1 .. n - 1 : \A j \in i + 1 .. n : j = n \/ j \in i + 1 .. n - 1 OBVIOUS
<1>4. \A i \in 1 .. n - 1 : \A j \in i + 1 .. n - 1 : j \in i + 1 .. n OBVIOUS
<1>5. n \in 1 .. n /\ n + 1 .. n = {} OBVIOUS
<1>6. ASSUME NEW i \in Lasts(r, n) PROVE i \in {k \in Lasts(r, n - 1) : r[k] # r[n]} \union {n}
  <2>1. i \in 1 .. n /\ \A j \in i + 1 .. n : r[j] # r[i] BY DEF Lasts
  <2>2. CASE i = n BY <2>2
  <2>3. CASE i # n
    <3>1. i \in 1 .. n - 1 BY <1>1, <2>1, <2>3
    <3>2. r[n] # r[i] BY <1>2, <2>1, <3>1
    <3>3. \A j \in i + 1 .. n - 1 : r[j] # r[i] BY <1>4, <2>1, <3>1
    <3> QED BY <3>1, <3>2, <3>3 DEF Lasts
  <2> QED BY <2>2, <2>3
<1>7. ASSUME NEW i \in Lasts(r, n - 1), r[i] # r[n] PROVE i \in Lasts(r, n)
  <2>1. i \in 1 .. n - 1 /\ \A j \in i + 1 .. n - 1 : r[j] # r[i] BY DEF Lasts
  <2>2. i \in 1 .. n BY <1>2, <2>1
  <2>3. \A j \in i + 1 .. n : r[j] # r[i] BY <1>3, <1>7, <2>1
  <2> QED BY <2>2, <2>3 DEF Lasts
<1>8. n \in Lasts(r, n) BY <1>5 DEF Lasts
<1> QED BY <1>6, <1>7, <1>8

\* The events that have the same root are not both the last.
LEMMA OneLast ==
  ASSUME NEW r, NEW n \in Nat
  PROVE  \A i, k \in Lasts(r, n) : r[i] = r[k] => i = k
<1> SUFFICES ASSUME NEW i \in Lasts(r, n), NEW k \in Lasts(r, n), r[i] = r[k], i < k PROVE FALSE
  BY DEF Lasts
<1>1. i \in 1 .. n /\ k \in 1 .. n /\ \A j \in i + 1 .. n : r[j] # r[i] BY DEF Lasts
<1>2. k \in i + 1 .. n BY <1>1
<1> QED BY <1>1, <1>2

LEMMA FinalStep ==
  ASSUME NEW E, NEW r, NEW n \in Nat \ {0}
  PROVE  Final(E, r, n) =
           {E[i] : i \in {i \in Lasts(r, n - 1) : Live(E, i) /\ r[i] # r[n]}} \union
           (IF Live(E, n) THEN {E[n]} ELSE {})
<1>1. Lasts(r, n) = {i \in Lasts(r, n - 1) : r[i] # r[n]} \union {n} BY LastsStep
<1>2. \A t : t \in Final(E, r, n) <=> \E i \in Lasts(r, n) : Live(E, i) /\ t = E[i] BY DEF Final
<1> QED BY <1>1, <1>2

\* A new trade.
LEMMA ExactNew ==
  ASSUME NEW E \in Seq(TradeLedgerEvent), NEW r, RootFacts(r, E), NEW n \in 1 .. Len(E),
         NEW l, Exact(E, r, l, n - 1), E[n].action = "new", ~ Failed(ApplyEvent(l, E[n]))
  PROVE  Exact(E, r, ApplyEvent(l, E[n]), n)
<1> PICK e : e = E[n] OBVIOUS
<1> PICK a : a = ApplyEvent(l, e) OBVIOUS
<1>0. /\ n \in Nat \ {0} /\ e \in Range(E) /\ e \in TradeLedgerEvent /\ l \in LedgerType(E)
      /\ \A j \in 1 .. n : j \in 1 .. Len(E) /\ E[j] \in TradeLedgerEvent /\ E[j].id \in TradeIds
      /\ \A j \in 1 .. n : j = n \/ j \in 1 .. n - 1
      /\ \A j \in 1 .. n - 1 : j \in 1 .. n /\ j # n
  BY EventFields DEF Range, Exact
<1>1. l.aliases \in [TradeIds -> TradeIds] /\ e.id \in TradeIds /\ e.eligible \in BOOLEAN
  BY <1>0, EventFields DEF LedgerType
<1>2. /\ e.id \notin l.known
      /\ a.active = IF e.eligible THEN l.active \union {e} ELSE l.active
      /\ a.known = l.known \union {e.id}
      /\ a.aliases = [l.aliases EXCEPT ![e.id] = e.id]
      /\ a \in LedgerType(E)
  <2>1. e.action = "new" /\ ~ Failed(a) OBVIOUS
  <2>2. ByNew(l, e, a) /\ a \in LedgerType(E) BY <1>0, <2>1, ApplyIs
  <2> QED BY <2>2 DEF ByNew
<1>3. r[n] = n /\ \A j \in 1 .. n - 1 : r[j] # n
  <2>1. Reported(E, n) = {} BY DEF Reported
  <2>2. \A j \in 1 .. n - 1 : r[j] \in 1 .. j BY <1>0 DEF RootFacts
  <2> QED BY <1>0, <2>1, <2>2 DEF RootFacts
<1>4. \A j \in 1 .. n - 1 : E[j].id # e.id BY <1>2 DEF Exact
<1>5. a.active = Final(E, r, n)
  <2>1. {i \in Lasts(r, n - 1) : Live(E, i) /\ r[i] # r[n]} = {i \in Lasts(r, n - 1) : Live(E, i)}
    BY <1>3 DEF Lasts
  <2>2. Final(E, r, n) = Final(E, r, n - 1) \union (IF Live(E, n) THEN {E[n]} ELSE {})
    <3>1. Final(E, r, n) =
           {E[i] : i \in {i \in Lasts(r, n - 1) : Live(E, i) /\ r[i] # r[n]}} \union
           (IF Live(E, n) THEN {E[n]} ELSE {})
      BY <1>0, FinalStep
    <3>2. Final(E, r, n - 1) = {E[i] : i \in {i \in Lasts(r, n - 1) : Live(E, i)}} BY DEF Final
    <3> QED BY <2>1, <3>1, <3>2
  <2>3. Live(E, n) <=> e.eligible BY DEF Live
  <2>4. l.active = Final(E, r, n - 1) BY DEF Exact
  <2> QED BY <1>2, <2>2, <2>3, <2>4
<1>6. \A x \in TradeIds : a.aliases[x] = IF x = e.id THEN e.id ELSE l.aliases[x] BY <1>1, <1>2
<1>7. ASSUME NEW j \in 1 .. n PROVE \E m \in 1 .. n : a.aliases[E[j].id] = E[m].id /\ r[m] = r[j]
  <2>1. CASE j = n
    <3>1. a.aliases[E[n].id] = E[n].id BY <1>1, <1>6
    <3> QED BY <2>1, <3>1
  <2>2. CASE j # n
    <3>1. j \in 1 .. n - 1 BY <1>0, <2>2
    <3>2. PICK m \in 1 .. n - 1 : l.aliases[E[j].id] = E[m].id /\ r[m] = r[j] BY <3>1 DEF Exact
    <3>3. a.aliases[E[j].id] = l.aliases[E[j].id] BY <1>0, <1>4, <1>6, <3>1
    <3> QED BY <1>0, <3>2, <3>3
  <2> QED BY <2>1, <2>2
<1>8. ASSUME NEW x \in TradeIds, \A j \in 1 .. n : E[j].id # x PROVE a.aliases[x] = x
  <2>1. \A j \in 1 .. n - 1 : E[j].id # x BY <1>0, <1>8
  <2>2. l.aliases[x] = x BY <2>1 DEF Exact
  <2> QED BY <1>6, <2>2
<1>9. ASSUME NEW j \in 1 .. n, NEW k \in 1 .. n, E[j].id = E[k].id PROVE r[j] = r[k]
  <2>1. j = k \/ (j \in 1 .. n - 1 /\ k \in 1 .. n - 1) BY <1>0, <1>4, <1>9
  <2> QED BY <2>1, <1>9 DEF Exact
<1>10. ASSUME NEW j \in 1 .. n PROVE E[j].id \in a.known
  <2>1. CASE j = n BY <1>2, <2>1
  <2>2. CASE j # n
    <3>1. j \in 1 .. n - 1 BY <1>0, <2>2
    <3> QED BY <1>2, <3>1 DEF Exact
  <2> QED BY <2>1, <2>2
<1> QED BY <1>2, <1>5, <1>7, <1>8, <1>9, <1>10, SMTT(30) DEF Exact

\* A correction or a cancel.
LEMMA ExactChange ==
  ASSUME NEW E \in Seq(TradeLedgerEvent), OwnIds(E), NEW r, RootFacts(r, E), NEW n \in 1 .. Len(E),
         NEW l, Exact(E, r, l, n - 1), E[n].action # "new", ~ Failed(ApplyEvent(l, E[n]))
  PROVE  Exact(E, r, ApplyEvent(l, E[n]), n)
<1> PICK e : e = E[n] OBVIOUS
<1> PICK a : a = ApplyEvent(l, e) OBVIOUS
<1>0. /\ n \in Nat \ {0} /\ e \in Range(E) /\ e \in TradeLedgerEvent /\ l \in LedgerType(E)
      /\ \A j \in 1 .. n : j \in 1 .. Len(E) /\ E[j] \in TradeLedgerEvent /\ E[j].id \in TradeIds
      /\ \A j \in 1 .. n : j = n \/ j \in 1 .. n - 1
      /\ \A j \in 1 .. n - 1 : j \in 1 .. n /\ j # n
  BY EventFields DEF Range, Exact
<1>1. l.aliases \in [TradeIds -> TradeIds] /\ e.id \in TradeIds /\ e.eligible \in BOOLEAN
        /\ e.original \in TradeIds
  BY <1>0, EventFields DEF LedgerType
<1> PICK b : b = l.aliases[e.original] OBVIOUS
<1> DEFINE drops == e.action = "cancel" \/ ~ e.eligible
<1>2. /\ \E t \in l.active : t.id = b
      /\ a.active = IF drops THEN {t \in l.active : t.id # b}
                    ELSE {t \in l.active : t.id # b /\ t.id # e.id} \union {e}
      /\ a.known = l.known \union {e.id, e.original}
      /\ a.aliases = [l.aliases EXCEPT ![e.id] = e.id, ![e.original] = e.id]
      /\ a \in LedgerType(E)
  <2>1. e.action # "new" /\ ~ Failed(a) OBVIOUS
  <2>2. ByChange(l, e, a) /\ a \in LedgerType(E) BY <1>0, <2>1, ApplyIs
  <2> QED BY <2>2 DEF ByChange
<1>3. \A t : t \in l.active <=> \E i \in Lasts(r, n - 1) : Live(E, i) /\ t = E[i]
  BY DEF Exact, Final
<1>4. PICK k \in Lasts(r, n - 1) : Live(E, k) /\ E[k].id = b BY <1>2, <1>3
<1>5. k \in 1 .. n - 1 BY DEF Lasts
<1>6. PICK h \in 1 .. n - 1 : E[h].id = e.original
  <2>1. ASSUME \A j \in 1 .. n - 1 : E[j].id # e.original PROVE FALSE
    <3>1. b = e.original BY <1>1, <2>1 DEF Exact
    <3> QED BY <1>4, <1>5, <2>1, <3>1
  <2> QED BY <2>1
<1>7. PICK q \in Reported(E, n) : r[n] = r[q]
  <2>1. h \in Reported(E, n) BY <1>6 DEF Reported
  <2> QED BY <2>1 DEF RootFacts
<1>8. q \in 1 .. n - 1 /\ E[q].id = e.original BY <1>7 DEF Reported
<1>same. \A i, j \in 1 .. n - 1 : E[i].id = E[j].id => r[i] = r[j] BY DEF Exact
<1>9. PICK m \in 1 .. n - 1 : b = E[m].id /\ r[m] = r[q]
  <2>1. \E m \in 1 .. n - 1 : l.aliases[E[q].id] = E[m].id /\ r[m] = r[q] BY <1>8 DEF Exact
  <2> QED BY <1>8, <2>1
<1>10. r[k] = r[n] BY <1>4, <1>5, <1>7, <1>9, <1>same
<1>11. ASSUME NEW i \in Lasts(r, n - 1) PROVE E[i].id = b <=> r[i] = r[n]
  <2>1. i \in 1 .. n - 1 BY DEF Lasts
  <2>2. ASSUME E[i].id = b PROVE r[i] = r[n] BY <1>4, <1>5, <1>10, <2>1, <2>2, <1>same
  <2>3. ASSUME r[i] = r[n] PROVE E[i].id = b
    <3>1. n - 1 \in Nat BY <1>0
    <3>2. i = k BY <1>4, <1>10, <2>3, <3>1, OneLast
    <3> QED BY <1>4, <3>2
  <2> QED BY <2>2, <2>3
\* An earlier event with the id of this one belongs to the same trade.
<1>12. ASSUME NEW i \in 1 .. n - 1, E[i].id = e.id \/ E[i].id = e.original PROVE r[i] = r[n]
  <2>1. E[i].id = e.original
    <3>1. CASE E[i].id = e.original BY <3>1
    <3>2. CASE E[i].id = e.id
      <4>1. n \in DOMAIN E BY <1>0
      <4>2. e.id = e.original BY <3>2, <4>1 DEF OwnIds
      <4> QED BY <3>2, <4>2
    <3> QED BY <1>12, <3>1, <3>2
  <2> QED BY <1>7, <1>8, <1>same, <2>1
<1>13. a.active = Final(E, r, n)
  <2>1. Live(E, n) <=> ~ drops BY <1>1 DEF Live
  <2>2. \A t : t \in Final(E, r, n) <=>
          \/ \E i \in Lasts(r, n - 1) : Live(E, i) /\ r[i] # r[n] /\ t = E[i]
          \/ ~ drops /\ t = e
    <3>1. Final(E, r, n) =
           {E[i] : i \in {i \in Lasts(r, n - 1) : Live(E, i) /\ r[i] # r[n]}} \union
           (IF Live(E, n) THEN {E[n]} ELSE {})
      BY <1>0, FinalStep
    <3> HIDE DEF drops
    <3> QED BY <2>1, <3>1
  <2>3. \A t : t \in l.active /\ t.id # b <=>
          \E i \in Lasts(r, n - 1) : Live(E, i) /\ r[i] # r[n] /\ t = E[i]
    BY <1>3, <1>11
  <2>4. \A t : t \in l.active /\ t.id # b => t.id # e.id
    <3> SUFFICES ASSUME NEW t, t \in l.active, t.id # b, t.id = e.id PROVE FALSE OBVIOUS
    <3>1. PICK i \in Lasts(r, n - 1) : r[i] # r[n] /\ t = E[i] BY <2>3
    <3>2. i \in 1 .. n - 1 BY DEF Lasts
    <3> QED BY <1>12, <3>1, <3>2
  <2>5. \A t : t \in a.active <=> (t \in l.active /\ t.id # b) \/ (~ drops /\ t = e)
    <3> HIDE DEF drops
    <3>1. CASE drops BY <1>2, <3>1
    <3>2. CASE ~ drops BY <1>2, <2>4, <3>2
    <3> QED BY <3>1, <3>2
  <2> HIDE DEF drops
  <2>6. \A t : t \in a.active <=> t \in Final(E, r, n) BY <2>2, <2>3, <2>5
  <2> QED BY <2>6
<1>14. \A x \in TradeIds : a.aliases[x] = IF x = e.id \/ x = e.original THEN e.id ELSE l.aliases[x]
  BY <1>1, <1>2
<1>15. ASSUME NEW j \in 1 .. n PROVE \E i \in 1 .. n : a.aliases[E[j].id] = E[i].id /\ r[i] = r[j]
  <2>1. CASE j = n
    <3>1. a.aliases[E[n].id] = E[n].id BY <1>1, <1>14
    <3> QED BY <2>1, <3>1
  <2>2. CASE j # n
    <3>1. j \in 1 .. n - 1 BY <1>0, <2>2
    <3>2. CASE E[j].id = e.id \/ E[j].id = e.original
      <4>1. r[j] = r[n] BY <1>12, <3>1, <3>2
      <4>2. a.aliases[E[j].id] = E[n].id BY <1>0, <1>14, <3>2
      <4>3. n \in 1 .. n BY <1>0
      <4> QED BY <4>1, <4>2, <4>3
    <3>3. CASE ~ (E[j].id = e.id \/ E[j].id = e.original)
      <4>1. PICK i \in 1 .. n - 1 : l.aliases[E[j].id] = E[i].id /\ r[i] = r[j] BY <3>1 DEF Exact
      <4>2. a.aliases[E[j].id] = l.aliases[E[j].id] BY <1>0, <1>14, <3>3
      <4> QED BY <1>0, <4>1, <4>2
    <3> QED BY <3>2, <3>3
  <2> QED BY <2>1, <2>2
<1>16. ASSUME NEW x \in TradeIds, \A j \in 1 .. n : E[j].id # x PROVE a.aliases[x] = x
  <2>1. \A j \in 1 .. n - 1 : E[j].id # x BY <1>0, <1>16
  <2>2. l.aliases[x] = x BY <2>1 DEF Exact
  <2>3. n \in 1 .. n BY <1>0
  <2>4. x # e.id /\ x # e.original BY <1>6, <1>16, <2>1, <2>3
  <2> QED BY <1>14, <2>2, <2>4
<1>17. ASSUME NEW j \in 1 .. n, NEW i \in 1 .. n, E[j].id = E[i].id PROVE r[j] = r[i]
  <2>1. CASE j = n /\ i = n BY <2>1
  <2>2. CASE j = n /\ i # n BY <1>0, <1>12, <1>17, <2>2
  <2>3. CASE j # n /\ i = n BY <1>0, <1>12, <1>17, <2>3
  <2>4. CASE j # n /\ i # n BY <1>0, <1>17, <1>same, <2>4
  <2> QED BY <2>1, <2>2, <2>3, <2>4
<1>18. ASSUME NEW j \in 1 .. n PROVE E[j].id \in a.known
  <2>1. CASE j = n BY <1>2, <2>1
  <2>2. CASE j # n
    <3>1. j \in 1 .. n - 1 BY <1>0, <2>2
    <3> QED BY <1>2, <3>1 DEF Exact
  <2> QED BY <2>1, <2>2
<1> QED BY <1>2, <1>13, <1>15, <1>16, <1>17, <1>18, ZenonT(60) DEF Exact

LEMMA LedgerExact ==
  ASSUME NEW E \in Seq(TradeLedgerEvent), OwnIds(E), ~ Failed(Ledgers(E)[Len(E)])
  PROVE  Ledgers(E)[Len(E)].active = LastVersions(E, Len(E))
<1> DEFINE N == Len(E)
<1> PICK r : r = Roots(E) OBVIOUS
<1> PICK L : L = Ledgers(E) OBVIOUS
<1>0. N \in Nat OBVIOUS
<1>1. RootFacts(r, E) BY <1>0, RootsAre
<1>2. /\ L[0] = EmptyLedger
      /\ \A n \in 0 .. N : L[n] \in LedgerType(E) \union Errors
      /\ \A n \in 1 .. N : L[n] = LedgerStep(L[n - 1], E[n])
  BY LedgersAre
<1> DEFINE Good(n) == ~ Failed(L[n]) => Exact(E, r, L[n], n)
           T == {n \in Nat : n \in 0 .. N /\ ~ Good(n)}
<1>3. ASSUME T # {} PROVE FALSE
  <2>1. PICK m \in T : \A j \in T : m =< j
    <3> HIDE DEF T
    <3>1. T \in SUBSET Nat BY DEF T
    <3> QED BY <1>3, <3>1, LeastNumber
  <2>2. m \in 0 .. N /\ ~ Good(m) /\ m \in Nat BY <2>1
  <2>3. CASE m = 0
    <3>0. 1 .. 0 = {} OBVIOUS
    <3>1. L[0].active = {} /\ L[0].known = {} /\ L[0].aliases = [i \in TradeIds |-> i]
            /\ L[0] \in LedgerType(E)
      BY <1>2 DEF EmptyLedger, LedgerType
    <3>2. Final(E, r, 0) = {} BY <3>0 DEF Final, Lasts
    <3>3. Exact(E, r, L[0], 0) BY <3>0, <3>1, <3>2 DEF Exact
    <3> QED BY <2>2, <2>3, <3>3
  <2>4. CASE m # 0
    <3>1. m \in 1 .. N /\ m - 1 \in Nat /\ m - 1 \in 0 .. N /\ m - 1 < m BY <1>0, <2>2, <2>4
    <3>2. Good(m - 1)
      <4>1. m - 1 \notin T
        <5> HIDE DEF T
        <5> QED BY <2>1, <2>2, <3>1
      <4> HIDE DEF Good
      <4> QED BY <3>1, <4>1
    <3>3. ~ Failed(L[m]) /\ ~ Exact(E, r, L[m], m) BY <2>2
    <3>4. L[m] = LedgerStep(L[m - 1], E[m]) BY <1>2, <3>1
    <3>5. ~ Failed(L[m - 1]) /\ L[m] = ApplyEvent(L[m - 1], E[m]) BY <3>3, <3>4 DEF LedgerStep
    <3> PICK l : l = L[m - 1] OBVIOUS
    <3>6. Exact(E, r, l, m - 1) /\ ~ Failed(ApplyEvent(l, E[m])) BY <3>2, <3>3, <3>5
    <3>7. Exact(E, r, ApplyEvent(l, E[m]), m)
      <4>1. CASE E[m].action = "new" BY <1>1, <3>1, <3>6, <4>1, ExactNew
      <4>2. CASE E[m].action # "new" BY <1>1, <3>1, <3>6, <4>2, ExactChange
      <4> QED BY <4>1, <4>2
    <3> QED BY <3>3, <3>5, <3>7
  <2> QED BY <2>3, <2>4
<1>4. Good(N)
  <2> HIDE DEF Good
  <2> QED BY <1>0, <1>3
<1>5. L[N].active = Final(E, r, N) BY <1>4 DEF Exact
<1>6. Final(E, r, N) = LastVersions(E, N) BY DEF Final, Lasts, Live, LastVersions
<1> QED BY <1>5, <1>6

-----------------------------------------------------------------------------
(* The lists of a context, sorted.                                         *)

LEMMA BySequenceType ==
  ASSUME NEW events \in Seq(TradeLedgerEvent)
  PROVE  /\ BySequence(events) \in Seq(TradeLedgerEvent)
         /\ Len(BySequence(events)) = Len(events)
         /\ \E f : Lists(BySequence(events), events, DOMAIN events, f)
<1> PICK key : key = [i \in DOMAIN events |-> <<events[i].seq>>] OBVIOUS
<1>1. \A i \in DOMAIN events : events[i].seq \in Int BY EventFields
<1>2. key \in [DOMAIN events -> Key(1)] BY <1>1 DEF Key
<1>3. BySequence(events) = SortedBy(events, key) BY DEF BySequence
<1>4. PICK L \in Nat : L = 1 OBVIOUS
<1>5. key \in [DOMAIN events -> Key(L)] BY <1>2, <1>4
<1>6. /\ SortedBy(events, key) \in Seq(TradeLedgerEvent) /\ Len(SortedBy(events, key)) = Len(events)
      /\ \E f : Lists(SortedBy(events, key), events, DOMAIN events, f)
  BY <1>5, SortedIs
<1> QED BY <1>3, <1>6

\* The trades of a ledger are those of its events.
LEMMA MaterializeType ==
  ASSUME NEW events \in Seq(TradeLedgerEvent)
  PROVE  LET ledger == materialize_trades(events)
         IN  IF Failed(ledger) THEN ledger \in Errors
             ELSE /\ ledger.active \in SUBSET Range(events)
                  /\ \A i, j \in DOMAIN events : i # j => events[i].seq # events[j].seq
<1> PICK E : E = BySequence(events) OBVIOUS
<1> PICK ledger : ledger = materialize_trades(events) OBVIOUS
<1>1. E \in Seq(TradeLedgerEvent) /\ Len(E) = Len(events) /\ \E f : Lists(E, events, DOMAIN events, f)
  BY BySequenceType
<1>2. Range(E) \subseteq Range(events)
  <2>1. PICK f : Lists(E, events, DOMAIN events, f) BY <1>1
  <2>2. \A n \in DOMAIN E : f[n] \in DOMAIN events /\ E[n] = events[f[n]] BY <2>1 DEF Lists
  <2> QED BY <2>2 DEF Range
<1>3. CASE \E i, j \in DOMAIN events : i # j /\ events[i].seq = events[j].seq
  <2>1. ledger = DataQualityError("DUPLICATE_INGEST_SEQUENCE") BY <1>3 DEF materialize_trades
  <2>2. "DUPLICATE_INGEST_SEQUENCE" \in Codes BY DEF Codes
  <2>3. ledger \in Errors /\ Failed(ledger) BY <2>1, <2>2, ErrorFailed
  <2> QED BY <2>3
<1>4. CASE ~ \E i, j \in DOMAIN events : i # j /\ events[i].seq = events[j].seq
  <2>1. ledger = Ledgers(E)[Len(E)] BY <1>1, <1>4 DEF materialize_trades
  <2>2. Len(E) \in 0 .. Len(E) BY <1>1
  <2>3. ledger \in LedgerType(E) \union Errors BY <1>1, <2>1, <2>2, LedgersAre
  <2>4. CASE Failed(ledger)
    <3>1. ledger \in Errors BY <2>3, <2>4, LedgerNotFailed
    <3> QED BY <2>4, <3>1
  <2>5. CASE ~ Failed(ledger)
    <3>1. ledger \in LedgerType(E) BY <2>3, <2>5, ErrorFailed
    <3>2. ledger.active \in SUBSET Range(events) BY <1>2, <3>1 DEF LedgerType
    <3> QED BY <1>4, <2>5, <3>2
  <2> QED BY <2>4, <2>5
<1> QED BY <1>3, <1>4

-----------------------------------------------------------------------------
(* The steps of the specification.                                         *)

\* The inductive invariant: the context validates, and a snapshot is what the engine makes of it.
FeatureInv ==
  /\ context \in FeatureContext
  /\ snapshot = Nothing \/ snapshot = build_feature_snapshot(context)

LEMMA ContextFields ==
  ASSUME NEW c \in FeatureContext
  PROVE  /\ c.now \in Nat /\ c.evaluation \in Nat /\ c.now =< c.evaluation
         /\ c.freshness \in Nat \ {0} /\ c.market \in Market
         /\ c.candidates \in Seq(CandidateSourceData) /\ DistinctTickers(c.candidates)
         /\ \A s \in Range(c.candidates) : s \in CandidateSourceData
  BY DEF FeatureContext, Range

LEMMA ReverseType ==
  ASSUME NEW S, NEW s \in Seq(S)
  PROVE  /\ Reverse(s) \in Seq(S)
         /\ DOMAIN Reverse(s) = DOMAIN s
         /\ \A i \in DOMAIN s : Len(s) - i + 1 \in DOMAIN s /\ Reverse(s)[i] = s[Len(s) - i + 1]
<1> PICK n \in Nat : n = Len(s) OBVIOUS
<1>1. DOMAIN s = 1 .. n /\ \A i \in 1 .. n : (n - i) + 1 \in 1 .. n /\ s[(n - i) + 1] \in S OBVIOUS
<1> PICK t : t = [i \in 1 .. n |-> s[(n - i) + 1]] OBVIOUS
<1>2. t \in [1 .. n -> S] BY <1>1
<1>3. t \in Seq(S) /\ DOMAIN t = 1 .. n BY <1>2
<1>4. Reverse(s) = t BY DEF Reverse
<1> QED BY <1>1, <1>3, <1>4

LEMMA TurnedCandidateType ==
  ASSUME NEW s \in CandidateSourceData
  PROVE  TurnedCandidate(s) \in CandidateSourceData /\ TurnedCandidate(s).ticker = s.ticker
<1>1. /\ s.events \in Seq(TradeLedgerEvent) /\ s.sessions \in Seq(PremarketSession)
      /\ s.floats \in Seq(FloatRecord) /\ s.catalysts \in Seq(CatalystRecord)
  BY DEF CandidateSourceData
<1> PICK a, b, c, d : a = Reverse(s.events) /\ b = Reverse(s.sessions) /\ c = Reverse(s.floats)
                        /\ d = Reverse(s.catalysts)
  OBVIOUS
<1>2. /\ a \in Seq(TradeLedgerEvent) /\ b \in Seq(PremarketSession)
      /\ c \in Seq(FloatRecord) /\ d \in Seq(CatalystRecord)
  BY <1>1, ReverseType
<1>3. TurnedCandidate(s) =
        [s EXCEPT !.events = a, !.sessions = b, !.floats = c, !.catalysts = d]
  BY DEF TurnedCandidate, CandidateSourceData
<1> QED BY <1>2, <1>3, ZenonT(60) DEF CandidateSourceData

\* The same records in another order are a context too.
LEMMA TurnedType == ASSUME NEW c \in FeatureContext PROVE Turned(c) \in FeatureContext
<1> PICK q : q = c.candidates OBVIOUS
<1> PICK t : t = [i \in DOMAIN q |-> TurnedCandidate(q[i])] OBVIOUS
<1>0. q \in Seq(CandidateSourceData) /\ DistinctTickers(q) BY ContextFields
<1>1. \A i \in DOMAIN q : t[i] \in CandidateSourceData /\ t[i].ticker = q[i].ticker
  BY <1>0, TurnedCandidateType
<1>2. t \in Seq(CandidateSourceData) /\ DOMAIN t = DOMAIN q /\ Len(t) = Len(q)
  <2>0. Len(q) \in Nat /\ DOMAIN q = 1 .. Len(q) BY <1>0
  <2>1. t \in [1 .. Len(q) -> CandidateSourceData] /\ Len(q) \in Nat BY <2>0, <1>1
  <2> QED BY <1>0, <2>1
<1> PICK u : u = Reverse(t) OBVIOUS
<1>3. /\ u \in Seq(CandidateSourceData) /\ DOMAIN u = DOMAIN t
      /\ \A i \in DOMAIN t : Len(t) - i + 1 \in DOMAIN t /\ u[i] = t[Len(t) - i + 1]
  BY <1>2, ReverseType, ZenonT(60)
<1>4. DistinctTickers(u)
  <2> SUFFICES ASSUME NEW i \in DOMAIN u, NEW j \in DOMAIN u, u[i].ticker = u[j].ticker PROVE i = j
    BY DEF DistinctTickers
  <2>1. /\ Len(t) - i + 1 \in DOMAIN q /\ u[i] = t[Len(t) - i + 1]
        /\ Len(t) - j + 1 \in DOMAIN q /\ u[j] = t[Len(t) - j + 1]
    BY <1>2, <1>3
  <2> PICK x, y : x = Len(t) - i + 1 /\ y = Len(t) - j + 1 OBVIOUS
  <2>2. x = y
    <3>1. q[x].ticker = q[y].ticker BY <1>1, <2>1, ZenonT(60)
    <3> QED BY <1>0, <2>1, <3>1 DEF DistinctTickers
  <2>3. i \in Nat /\ j \in Nat /\ Len(t) \in Nat BY <1>2, <1>3, SMTT(30)
  <2> QED BY <2>2, <2>3
<1>5. Turned(c) = [c EXCEPT !.candidates = u]
  BY DEF Turned, TurnedCandidate
<1> QED BY <1>3, <1>4, <1>5 DEF FeatureContext

LEMMA FeatureInvariant == FeatureSpec => []FeatureInv
<1>1. FeatureInit => FeatureInv BY DEF FeatureInit, FeatureInv
<1>2. FeatureInv /\ [FeatureNext]_featureVars => FeatureInv'
  <2> SUFFICES ASSUME FeatureInv, [FeatureNext]_featureVars PROVE FeatureInv' OBVIOUS
  <2>1. CASE UNCHANGED <<context, snapshot>>
    BY <2>1 DEF FeatureInv
  <2>2. CASE Build
    <3>1. context' = context /\ snapshot' = build_feature_snapshot(context) BY <2>2 DEF Build
    <3>2. snapshot' = build_feature_snapshot(context)' BY <3>1
    <3> QED BY <3>1, <3>2 DEF FeatureInv
  <2>3. CASE Recollect
    <3>1. context' \in FeatureContext BY <2>3, TurnedType DEF Recollect, FeatureInv
    <3>2. snapshot' = Nothing BY <2>3 DEF Recollect
    <3> QED BY <3>1, <3>2 DEF FeatureInv
  <2> QED BY <2>1, <2>2, <2>3 DEF FeatureNext, featureVars, save_context, save_snapshot
<1> QED BY <1>1, <1>2, PTL DEF FeatureSpec

\* A ledger that is accepted counts every trade once, whatever the corrections and cancels, in
\* whatever order they were collected: materialize_trades follows the aliases of ids to the
\* last version of each trade.
THEOREM EveryTradeCountedOnce == FeatureSpec => []LedgerCountsOnce
<1>1. FeatureInv => LedgerCountsOnce
  <2> SUFFICES ASSUME context \in FeatureContext, NEW s \in Range(context.candidates),
                      NEW ledger, ledger = materialize_trades(s.events),
                      NEW E, E = BySequence(s.events), ~ Failed(ledger), OwnIds(E)
               PROVE  ledger.active = LastVersions(E, Len(E))
    BY DEF FeatureInv, LedgerCountsOnce
  <2>1. s.events \in Seq(TradeLedgerEvent) BY ContextFields DEF CandidateSourceData
  <2>2. E \in Seq(TradeLedgerEvent) /\ Len(E) = Len(s.events) BY <2>1, BySequenceType
  <2>3. ledger = Ledgers(E)[Len(E)]
    BY <2>2, ErrorFailed DEF materialize_trades, DataQualityError, Failed
  <2> QED BY <2>2, <2>3, LedgerExact
<1> QED BY <1>1, FeatureInvariant, PTL

-----------------------------------------------------------------------------
(* Rounding.                                                               *)

LEMMA Division ==
  ASSUME NEW n \in Int, NEW d \in Nat \ {0}
  PROVE  /\ n \div d \in Int /\ n % d \in 0 .. d - 1
         /\ n = d * (n \div d) + (n % d)
  OBVIOUS

LEMMA DivisionNat ==
  ASSUME NEW n \in Nat, NEW d \in Nat \ {0}
  PROVE  n \div d \in Nat
<1>1. PICK q \in Int, r \in 0 .. d - 1 : q = n \div d /\ n = d * q + r BY Division
<1>2. q >= 0
  <2>1. ASSUME q < 0 PROVE FALSE
    <3>1. d * q =< 0 - d BY <2>1
    <3> QED BY <1>1, <3>1
  <2> QED BY <2>1
<1> QED BY <1>1, <1>2

\* A number is rounded to the whole number below it or to the next.
LEMMA QuantizeType ==
  ASSUME NEW n \in Int, NEW d \in Nat \ {0}
  PROVE  /\ quantize(n, d) \in Int
         /\ quantize(n, d) = n \div d \/ quantize(n, d) = n \div d + 1
         /\ n >= 0 => quantize(n, d) \in Nat
<1>1. n \div d \in Int BY Division
<1>2. quantize(n, d) = n \div d \/ quantize(n, d) = n \div d + 1 BY DEF quantize
<1>3. n >= 0 => n \div d \in Nat BY DivisionNat
<1> QED BY <1>1, <1>2, <1>3

\* Rounding keeps the order.
LEMMA QuantizeMonotone ==
  ASSUME NEW m \in Int, NEW n \in Int, m =< n, NEW d \in Nat \ {0}
  PROVE  quantize(m, d) =< quantize(n, d)
<1>1. PICK p \in Int, r \in 0 .. d - 1 : p = m \div d /\ r = m % d /\ m = d * p + r BY Division
<1>2. PICK q \in Int, s \in 0 .. d - 1 : q = n \div d /\ s = n % d /\ n = d * q + s BY Division
<1>3. p =< q
  <2>1. ASSUME q + 1 =< p PROVE FALSE
    <3>1. d * (q + 1) =< d * p BY <2>1
    <3>2. d * (q + 1) = d * q + d OBVIOUS
    <3>3. PICK x \in Int, y \in Int : x = d * p /\ y = d * q OBVIOUS
    <3>4. y + d =< x /\ m = x + r /\ n = y + s BY <3>1, <3>2, <3>3, <1>1, <1>2
    <3> QED BY <3>4
  <2> QED BY <2>1
<1>4. quantize(m, d) = IF 2 * r > d \/ (2 * r = d /\ p % 2 = 1) THEN p + 1 ELSE p
  BY <1>1 DEF quantize
<1>5. quantize(n, d) = IF 2 * s > d \/ (2 * s = d /\ q % 2 = 1) THEN q + 1 ELSE q
  BY <1>2 DEF quantize
<1>6. CASE p < q BY <1>4, <1>5, <1>6
<1>7. CASE p = q
  <2>1. r =< s BY <1>1, <1>2, <1>7
  <2>2. (2 * r > d \/ (2 * r = d /\ p % 2 = 1)) => (2 * s > d \/ (2 * s = d /\ q % 2 = 1))
    BY <1>7, <2>1
  <2> QED BY <1>4, <1>5, <1>7, <2>2
<1> QED BY <1>3, <1>6, <1>7

-----------------------------------------------------------------------------
(* The trades of the window.                                               *)

\* What is known of the trades a feature is computed from.
Trades(T) ==
  /\ IsFiniteSet(T) /\ T # {} /\ T \subseteq TradeLedgerEvent
  /\ \A t, u \in T : t # u => t.seq # u.seq

LEMMA WindowTrades ==
  ASSUME NEW events \in Seq(TradeLedgerEvent), NEW ledger, ledger = materialize_trades(events),
         ~ Failed(ledger)
  PROVE  \A T \in SUBSET ledger.active : T # {} => Trades(T)
<1>1. /\ ledger.active \in SUBSET Range(events)
      /\ \A i, j \in DOMAIN events : i # j => events[i].seq # events[j].seq
  BY MaterializeType
<1>2. IsFiniteSet(Range(events))
  BY DomainFinite, FiniteRange DEF Range
<1> SUFFICES ASSUME NEW T \in SUBSET ledger.active, T # {} PROVE Trades(T) OBVIOUS
<1>3. T \in SUBSET Range(events) /\ IsFiniteSet(T) BY <1>1, <1>2, FS_Subset
<1>4. \A t \in T : \E i \in DOMAIN events : t = events[i] BY <1>3 DEF Range
<1>5. T \subseteq TradeLedgerEvent BY <1>4
<1>6. \A t, u \in T : t # u => t.seq # u.seq BY <1>1, <1>4
<1> QED BY <1>3, <1>5, <1>6 DEF Trades

\* The price is that of one of the trades.
LEMMA PriceIsTraded ==
  ASSUME NEW T, Trades(T)
  PROVE  \E t \in T : current_price(T) = t.price
<1>0. IsFiniteSet(T) /\ T # {} /\ \A t \in T : t.time \in Nat /\ t.seq \in Nat
        /\ TradeKey(t) \in Key(2) /\ TradeKey(t)[2] = t.seq
  BY EventFields DEF Trades, TradeKey, Key
<1> PICK L \in Nat : L = 2 OBVIOUS
<1> DEFINE R == {p \in T \X T : LexLess(TradeKey(p[2]), TradeKey(p[1]))}
<1>1. \A t, u, v \in T :
        /\ ~ LexLess(TradeKey(t), TradeKey(t))
        /\ LexLess(TradeKey(t), TradeKey(u)) /\ LexLess(TradeKey(u), TradeKey(v))
             => LexLess(TradeKey(t), TradeKey(v))
        /\ t # u => LexLess(TradeKey(t), TradeKey(u)) \/ LexLess(TradeKey(u), TradeKey(t))
  <2> TAKE t, u, v \in T
  <2> PICK a, b, c : a = TradeKey(t) /\ b = TradeKey(u) /\ c = TradeKey(v) OBVIOUS
  <2>1. a \in Key(L) /\ b \in Key(L) /\ c \in Key(L) BY <1>0
  <2>2. t # u => a # b BY <1>0 DEF Trades
  <2>3. /\ ~ LexLess(a, a)
        /\ LexLess(a, b) /\ LexLess(b, c) => LexLess(a, c)
        /\ a # b => LexLess(a, b) \/ LexLess(b, a)
    BY <2>1, LexOrder
  <2> QED BY <2>2, <2>3
<1>2. \A t, u \in T : <<t, u>> \in R <=> LexLess(TradeKey(u), TradeKey(t)) OBVIOUS
<1> HIDE DEF R
<1>3. StrictOrder(T, R) BY <1>0, <1>1, <1>2 DEF StrictOrder
<1>4. PICK t \in T : \A u \in T : <<u, t>> \notin R BY <1>0, <1>3, FirstExists
<1>5. \A u \in T : u = t \/ LexLess(TradeKey(u), TradeKey(t)) BY <1>1, <1>2, <1>4
<1>6. PICK c : c = CHOOSE x \in T : \A u \in T : u = x \/ LexLess(TradeKey(u), TradeKey(x)) OBVIOUS
<1>7. c \in T BY <1>5, <1>6
<1> QED BY <1>6, <1>7 DEF current_price

\* The volume, the lowest price and the average price of some trades.
LEMMA TradeNumbers ==
  ASSUME NEW T, Trades(T)
  PROVE  /\ premarket_volume(T) \in Nat \ {0}
         /\ premarket_vwap(T) \in Int
         /\ current_price(T) \in Nat \ {0}
         /\ premarket_low(T) \in 1 .. current_price(T)
<1>0. IsFiniteSet(T) /\ T # {} /\ \A t \in T : t.price \in Nat \ {0} /\ t.size \in Nat \ {0}
  BY EventFields DEF Trades
<1>1. premarket_volume(T) \in Nat \ {0}
  <2> PICK w : w = [t \in T |-> t.size] OBVIOUS
  <2>1. w \in [T -> Nat] BY <1>0
  <2>2. SumFunction(w) \in Nat /\ \A t \in T : w[t] =< SumFunction(w) BY <1>0, <2>1, SumIs
  <2>3. PICK t \in T : TRUE BY <1>0
  <2>4. w[t] \in Nat \ {0} /\ w[t] =< SumFunction(w) BY <1>0, <2>2, <2>3
  <2> QED BY <2>2, <2>4 DEF premarket_volume
<1>2. premarket_vwap(T) \in Int
  <2> PICK w : w = [t \in T |-> t.price * t.size] OBVIOUS
  <2>1. w \in [T -> Nat] BY <1>0
  <2>2. SumFunction(w) \in Nat BY <1>0, <2>1, SumIs
  <2>3. SumFunction(w) \in Int BY <2>2
  <2> QED BY <1>1, <2>3, QuantizeType DEF premarket_vwap
<1>3. PICK t \in T : current_price(T) = t.price BY PriceIsTraded
<1>4. PICK f : f = [u \in T |-> u.price] OBVIOUS
<1>5. {f[u] : u \in DOMAIN f} = {u.price : u \in T} BY <1>4
<1>6. IsFiniteSet({u.price : u \in T}) BY <1>0, <1>4, <1>5, FiniteRange
<1> PICK S : S = {u.price : u \in T} OBVIOUS
<1>7. S \in SUBSET Int /\ S \subseteq Nat \ {0} /\ IsFiniteSet(S) /\ t.price \in S BY <1>0, <1>6
<1>8. Min(S) \in S /\ \A y \in S : Min(S) =< y BY <1>7, MinIs
<1>9. Min(S) \in Nat \ {0} /\ Min(S) =< t.price BY <1>7, <1>8
<1> QED BY <1>0, <1>1, <1>2, <1>3, <1>9 DEF premarket_low

-----------------------------------------------------------------------------
(* The average true range.                                                 *)

LEMMA TrueRangeType ==
  ASSUME NEW b \in DailyBar, NEW c \in Nat
  PROVE  true_range(b, c) \in Nat
<1>1. PICK x \in Nat, y \in Int, z \in Int :
        x = b.high - b.low /\ y = Abs(b.high - c) /\ z = Abs(b.low - c)
  BY DEF DailyBar, Abs
<1> PICK S : S = {x, y, z} OBVIOUS
<1>2. IsFiniteSet(S)
  <2>1. IsFiniteSet({x}) /\ IsFiniteSet({y}) /\ IsFiniteSet({z}) BY FS_Singleton
  <2>2. IsFiniteSet({x} \union {y}) BY <2>1, FS_Union
  <2>3. IsFiniteSet(({x} \union {y}) \union {z}) BY <2>1, <2>2, FS_Union
  <2>4. S = ({x} \union {y}) \union {z} OBVIOUS
  <2> QED BY <2>3, <2>4
<1>3. S \in SUBSET Int /\ S # {} /\ x \in S OBVIOUS
<1>4. Max(S) \in S /\ \A n \in S : n =< Max(S) BY <1>2, <1>3, MaxIs
<1>5. Max(S) \in Int /\ x =< Max(S) BY <1>3, <1>4
<1>6. true_range(b, c) = Max(S) BY <1>1 DEF true_range
<1> QED BY <1>5, <1>6

IsAverages(f, ranges) ==
  f = [i \in AtrPeriod .. Len(ranges) |->
        IF i = AtrPeriod
        THEN <<SumFunction([n \in 1 .. AtrPeriod |-> ranges[n]]), AtrPeriod>>
        ELSE <<f[i - 1][1] * (AtrPeriod - 1) + ranges[i] * f[i - 1][2], f[i - 1][2] * AtrPeriod>>]

AverageStep(v, r) == <<v[1] * (AtrPeriod - 1) + r * v[2], v[2] * AtrPeriod>>

\* An average is a natural number over a positive one.
Fraction == Nat \X (Nat \ {0})

LEMMA AverageStepType ==
  ASSUME NEW v \in Fraction, NEW r \in Nat
  PROVE  AverageStep(v, r) \in Fraction
<1>0. AtrPeriod \in Nat \ {0} /\ AtrPeriod - 1 \in Nat BY FeatureAssumption
<1>1. PICK a \in Nat, b \in Nat \ {0} : a = v[1] /\ b = v[2] BY DEF Fraction
<1>2. a * (AtrPeriod - 1) \in Nat /\ r * b \in Nat /\ b * AtrPeriod \in Nat \ {0} BY <1>0
<1>3. a * (AtrPeriod - 1) + r * b \in Nat BY <1>2
<1> QED BY <1>1, <1>2, <1>3 DEF AverageStep, Fraction

LEMMA AveragesType ==
  ASSUME NEW ranges \in Seq(Nat), AtrPeriod =< Len(ranges)
  PROVE  \A n \in AtrPeriod .. Len(ranges) : Averages(ranges)[n] \in Fraction
<1> DEFINE N == Len(ranges)
           b == AtrPeriod
           p == [n \in b + 1 .. N |-> n - 1]
           G == [q \in (b + 1 .. N) \X Fraction |-> AverageStep(q[2], ranges[q[1]])]
<1>0. N \in Nat /\ b \in Nat \ {0} /\ b =< N BY FeatureAssumption
<1> PICK first : first = <<SumFunction([n \in 1 .. b |-> ranges[n]]), b>> OBVIOUS
<1>1. \A n \in b + 1 .. N : \A v \in Fraction : G[<<n, v>>] = AverageStep(v, ranges[n])
  <2> TAKE n \in b + 1 .. N
  <2> TAKE v \in Fraction
  <2> PICK q : q = <<n, v>> OBVIOUS
  <2>1. q \in (b + 1 .. N) \X Fraction /\ q[1] = n /\ q[2] = v OBVIOUS
  <2>2. G[q] = AverageStep(q[2], ranges[q[1]]) BY <2>1
  <2> HIDE DEF G
  <2> QED BY <2>1, <2>2
<1>2. \A n \in b + 1 .. N : ranges[n] \in Nat /\ \A v \in Fraction : G[<<n, v>>] \in Fraction
  <2> HIDE DEF G
  <2>1. \A n \in b + 1 .. N : n \in DOMAIN ranges BY <1>0
  <2> QED BY <1>1, <2>1, AverageStepType
<1>3. \A n \in b + 1 .. N : p[n] = n - 1 OBVIOUS
<1>4. first \in Fraction
  <2> PICK w : w = [n \in 1 .. b |-> ranges[n]] OBVIOUS
  <2>1. w \in [1 .. b -> Nat] BY <1>0
  <2>2. IsFiniteSet(1 .. b) BY <1>0, Interval
  <2>3. SumFunction(w) \in Nat BY <2>1, <2>2, SumIs
  <2> QED BY <1>0, <2>3 DEF Fraction
<1> HIDE DEF G, p, N
<1>5. Climbs(b, N, p, Fraction, G)
  <2>1. \A n \in b + 1 .. N : p[n] \in b .. n - 1 BY <1>0, <1>3
  <2> QED BY <1>0, <1>2, <2>1 DEF Climbs
<1>6. PICK f : SolvesUp(f, b, N, p, Fraction, first, G)
  BY <1>4, <1>5, RecursionOnNumbers
<1>7. f \in [b .. N -> Fraction] /\ f[b] = first /\ \A n \in b + 1 .. N : f[n] = G[<<n, f[p[n]]>>]
  BY <1>6 DEF SolvesUp
<1>8. \A n \in b + 1 .. N : f[n] = AverageStep(f[n - 1], ranges[n])
  <2> TAKE n \in b + 1 .. N
  <2>1. p[n] \in b .. N /\ p[n] = n - 1 BY <1>0, <1>3
  <2> QED BY <1>1, <1>7, <2>1
<1>9. IsAverages(f, ranges)
  <2>1. f = [n \in b .. N |-> f[n]] BY <1>7
  <2>2. \A n \in b .. N : n # b => n \in b + 1 .. N BY <1>0
  <2>3. \A n \in b .. N : f[n] = IF n = b THEN first ELSE AverageStep(f[n - 1], ranges[n])
    BY <1>7, <1>8, <2>2
  <2> QED BY <2>1, <2>3 DEF IsAverages, N, AverageStep
<1>10. PICK c : c = Averages(ranges) OBVIOUS
<1>11. IsAverages(c, ranges)
  <2>1. c = CHOOSE g : IsAverages(g, ranges) BY <1>10 DEF Averages, IsAverages
  <2> QED BY <1>9, <2>1
<1>12. \A n \in b .. N : c[n] = IF n = b THEN first ELSE AverageStep(c[n - 1], ranges[n])
  <2>1. c = [n \in b .. N |-> IF n = b THEN first ELSE AverageStep(c[n - 1], ranges[n])]
    BY <1>11 DEF IsAverages, N, AverageStep
  <2> QED BY <2>1
<1>13. c[b] = first /\ \A n \in b + 1 .. N : c[n] = AverageStep(c[n - 1], ranges[n])
  <2>1. \A n \in b + 1 .. N : n \in b .. N /\ n # b BY <1>0
  <2>2. b \in b .. N BY <1>0
  <2> QED BY <1>12, <2>1, <2>2
<1>14. Obeys(c, b, N, p, Fraction, first, G)
  <2>1. \A n \in b + 1 .. N : c[p[n]] \in Fraction => c[n] = G[<<n, c[p[n]]>>] BY <1>1, <1>3, <1>13
  <2> QED BY <1>13, <2>1 DEF Obeys
<1>15. \A n \in b .. N : c[n] \in Fraction
  BY <1>4, <1>5, <1>14, RecursionStays
<1> QED BY <1>10, <1>15 DEF N

Values == [value : Nat]

LEMMA ValuesNotFailed == \A v \in Values : ~ Failed(v) /\ v.value \in Nat
  BY DEF Values, Failed

LEMMA AtrType ==
  ASSUME NEW bars \in Seq(DailyBar)
  PROVE  wilder_atr_14(bars) \in Errors \union Values
<1>0. Len(bars) \in Nat /\ AtrPeriod \in Nat \ {0} BY FeatureAssumption
<1>1. CASE Len(bars) < AtrPeriod + 1
  BY <1>1, ErrorFailed DEF wilder_atr_14, Codes
<1>2. CASE ~ (Len(bars) < AtrPeriod + 1)
  <2> PICK ranges : ranges = [i \in 1 .. Len(bars) - 1 |-> true_range(bars[i + 1], bars[i].close)]
    OBVIOUS
  <2>1. \A i \in 1 .. Len(bars) - 1 : true_range(bars[i + 1], bars[i].close) \in Nat
    <3> TAKE i \in 1 .. Len(bars) - 1
    <3>1. i \in DOMAIN bars /\ i + 1 \in DOMAIN bars BY <1>0
    <3>2. bars[i + 1] \in DailyBar /\ bars[i] \in DailyBar BY <3>1
    <3>3. bars[i].close \in Nat BY <3>2 DEF DailyBar
    <3> QED BY <3>2, <3>3, TrueRangeType
  <2>2. Len(bars) - 1 \in Nat BY <1>0, <1>2
  <2>3. ranges \in Seq(Nat) /\ Len(ranges) = Len(bars) - 1 BY <2>1, <2>2
  <2>4. AtrPeriod =< Len(ranges) /\ Len(ranges) \in AtrPeriod .. Len(ranges) BY <1>0, <1>2, <2>3
  <2>5. PICK atr : atr = Averages(ranges)[Len(ranges)] OBVIOUS
  <2>6. atr \in Fraction BY <2>3, <2>4, <2>5, AveragesType
  <2>7. atr[1] \in Nat /\ atr[1] \in Int /\ atr[1] >= 0 /\ atr[2] \in Nat \ {0} BY <2>6 DEF Fraction
  <2>8. quantize(atr[1], atr[2]) \in Nat BY <2>7, QuantizeType
  <2>9. wilder_atr_14(bars) = IF atr[1] <= 0 THEN DataQualityError("INVALID_ATR")
                              ELSE [value |-> quantize(atr[1], atr[2])]
    BY <1>2, <2>5 DEF wilder_atr_14
  <2> QED BY <2>8, <2>9, ErrorFailed DEF Codes, Values
<1> QED BY <1>1, <1>2

-----------------------------------------------------------------------------
(* The relative volume.                                                    *)

\* Volumes are summed over trades, of which there may be none.
LEMMA VolumeType ==
  ASSUME NEW T, IsFiniteSet(T), T \subseteq TradeLedgerEvent
  PROVE  premarket_volume(T) \in Nat
<1> PICK w : w = [t \in T |-> t.size] OBVIOUS
<1>1. w \in [T -> Nat] BY EventFields
<1>2. SumFunction(w) \in Nat BY <1>1, SumIs
<1> QED BY <1>2 DEF premarket_volume

LEMMA HistoricalType ==
  ASSUME NEW s \in PremarketSession, NEW now \in Nat
  PROVE  historical_session_volume(s, now) \in Errors \union Values
<1>0. s.events \in Seq(TradeLedgerEvent) BY DEF PremarketSession
<1> PICK ledger : ledger = materialize_trades(s.events) OBVIOUS
<1>1. CASE Failed(ledger)
  <2>1. ledger \in Errors BY <1>0, <1>1, MaterializeType
  <2> QED BY <1>1, <2>1, ErrorFailed DEF historical_session_volume, Codes
<1>2. CASE ~ Failed(ledger)
  <2> PICK T : T = {t \in ledger.active : InWindow(t, s.day, Tick(now))} OBVIOUS
  <2>1. T # {} => Trades(T) BY <1>0, <1>2, WindowTrades
  <2>2. IsFiniteSet(T) /\ T \subseteq TradeLedgerEvent BY <2>1, FS_EmptySet DEF Trades
  <2>3. premarket_volume(T) \in Nat BY <2>2, VolumeType
  <2>4. historical_session_volume(s, now) =
          IF ~ s.complete THEN DataQualityError("INCOMPLETE_RVOL_SESSION")
          ELSE [value |-> premarket_volume(T)]
    BY <1>2 DEF historical_session_volume
  <2> QED BY <2>3, <2>4, ErrorFailed DEF Codes, Values
<1> QED BY <1>1, <1>2

LEMMA RvolAgainstType ==
  ASSUME NEW volume \in Nat, NEW volumes \in [1 .. RvolSessions -> Errors \union Values]
  PROVE  RvolAgainst(volume, volumes) \in Errors \union Values
<1>0. RvolSessions \in Nat \ {0} /\ Unit \in Nat \ {0} /\ DOMAIN volumes = 1 .. RvolSessions
  BY FeatureAssumption, ReplayAssumption
<1> PICK failed : failed = {i \in DOMAIN volumes : Failed(volumes[i])} OBVIOUS
<1>1. IsFiniteSet(1 .. RvolSessions) BY <1>0, Interval
<1>2. CASE failed # {}
  <2>1. failed \in SUBSET Int /\ IsFiniteSet(failed) BY <1>0, <1>1, FS_Subset
  <2>2. Min(failed) \in failed BY <1>2, <2>1, MinIs
  <2>3. RvolAgainst(volume, volumes) = volumes[Min(failed)] BY <1>2 DEF RvolAgainst
  <2> QED BY <2>2, <2>3
<1>3. CASE failed = {}
  <2>1. \A i \in 1 .. RvolSessions : volumes[i] \in Values BY <1>0, <1>3, ErrorFailed
  <2> PICK w : w = [i \in DOMAIN volumes |-> volumes[i].value] OBVIOUS
  <2>2. w \in [1 .. RvolSessions -> Nat] BY <1>0, <2>1, ValuesNotFailed
  <2> PICK sum : sum = SumFunction(w) OBVIOUS
  <2>3. sum \in Nat BY <1>1, <2>2, SumIs
  <2>4. RvolAgainst(volume, volumes) =
          IF sum <= 0 THEN DataQualityError("ZERO_RVOL_BASELINE")
          ELSE [value |-> quantize(volume * RvolSessions * Unit, sum)]
    BY <1>3 DEF RvolAgainst
  <2>5. sum > 0 => quantize(volume * RvolSessions * Unit, sum) \in Nat
    <3>1. volume * RvolSessions \in Nat BY <1>0
    <3>2. volume * RvolSessions * Unit \in Nat BY <1>0, <3>1
    <3> PICK n \in Nat : n = volume * RvolSessions * Unit BY <3>2
    <3>3. n \in Int /\ n >= 0 OBVIOUS
    <3>4. sum > 0 => sum \in Nat \ {0} BY <2>3
    <3> QED BY <3>3, <3>4, QuantizeType
  <2> QED BY <2>3, <2>4, <2>5, ErrorFailed DEF Codes, Values
<1> QED BY <1>2, <1>3

LEMMA RvolType ==
  ASSUME NEW volume \in Nat, NEW sessions \in Seq(PremarketSession), NEW now \in Nat
  PROVE  rvol_time_matched(volume, sessions, now) \in Errors \union Values
<1>0. RvolSessions \in Nat \ {0} /\ Len(sessions) \in Nat BY FeatureAssumption
<1> PICK dated : dated = ByDate(sessions) OBVIOUS
<1>1. dated \in Seq(PremarketSession) /\ Len(dated) = Len(sessions)
  <2> PICK key : key = [i \in DOMAIN sessions |-> <<sessions[i].day>>] OBVIOUS
  <2> PICK L \in Nat : L = 1 OBVIOUS
  <2>1. key \in [DOMAIN sessions -> Key(L)]
    <3>0. \A i \in DOMAIN sessions : sessions[i] \in PremarketSession OBVIOUS
    <3>1. \A i \in DOMAIN sessions : sessions[i].day \in Nat BY <3>0 DEF PremarketSession
    <3>2. \A d \in Nat : <<d>> \in Key(L) BY DEF Key
    <3> QED BY <3>1, <3>2
  <2>2. SortedBy(sessions, key) \in Seq(PremarketSession)
        /\ Len(SortedBy(sessions, key)) = Len(sessions)
    BY <2>1, SortedIs, ZenonT(60)
  <2> QED BY <2>2 DEF ByDate
<1>2. CASE Len(sessions) < RvolSessions
  BY <1>2, ErrorFailed DEF rvol_time_matched, Codes
<1>3. CASE ~ (Len(sessions) < RvolSessions)
  <2> PICK volumes : volumes = [i \in 1 .. RvolSessions |->
        historical_session_volume(dated[Len(sessions) - RvolSessions + i], now)] OBVIOUS
  <2>1. ASSUME NEW i \in 1 .. RvolSessions
        PROVE  historical_session_volume(dated[Len(sessions) - RvolSessions + i], now)
                 \in Errors \union Values
    <3>1. Len(sessions) - RvolSessions + i \in 1 .. Len(dated) BY <1>0, <1>1, <1>3
    <3>2. dated[Len(sessions) - RvolSessions + i] \in PremarketSession BY <1>1, <3>1
    <3> QED BY <3>2, HistoricalType
  <2>2. volumes \in [1 .. RvolSessions -> Errors \union Values] BY <2>1
  <2>3. rvol_time_matched(volume, sessions, now) = RvolAgainst(volume, volumes)
    BY <1>3 DEF rvol_time_matched
  <2> QED BY <2>2, <2>3, RvolAgainstType
<1> QED BY <1>2, <1>3

-----------------------------------------------------------------------------
(* The zones of resistance.                                                *)

PivotSet(P) ==
  IsFiniteSet(P) /\ \A p \in P : p.day \in Nat /\ p.price \in Nat

Members(left, atr) == {p \in left : 2 * (Max({q.price : q \in left}) - p.price) <= atr}

IsClusters(f, P, atr) ==
  f = [left \in SUBSET P |->
        IF left = {} THEN {} ELSE {Members(left, atr)} \union f[left \ Members(left, atr)]]

\* The anchor is a member, and pivots of one price are members together.
LEMMA MembersAre ==
  ASSUME NEW P, PivotSet(P), NEW atr \in Nat, NEW s \in SUBSET P, s # {}
  PROVE  /\ Members(s, atr) # {} /\ Members(s, atr) \subseteq s
         /\ \A p, q \in s : p.price = q.price /\ p \in Members(s, atr) => q \in Members(s, atr)
<1>0. IsFiniteSet(s) /\ \A p \in s : p.price \in Nat BY FS_Subset DEF PivotSet
<1> PICK f : f = [p \in s |-> p.price] OBVIOUS
<1> PICK T : T = {p.price : p \in s} OBVIOUS
<1>1. IsFiniteSet(T)
  <2>1. DOMAIN f = s /\ {f[p] : p \in DOMAIN f} = T OBVIOUS
  <2> QED BY <1>0, <2>1, FiniteRange
<1>2. T \in SUBSET Int /\ T # {} BY <1>0
<1>3. Max(T) \in T BY <1>1, <1>2, MaxIs
<1>4. PICK a \in s : a.price = Max(T) BY <1>3
<1>5. a.price \in Nat /\ 2 * (Max(T) - a.price) <= atr BY <1>0, <1>4
<1>6. a \in Members(s, atr) BY <1>5 DEF Members
<1>7. \A p, q \in s : p.price = q.price /\ p \in Members(s, atr) => q \in Members(s, atr)
  BY DEF Members
<1>8. Members(s, atr) \subseteq s BY DEF Members
<1> QED BY <1>6, <1>7, <1>8

LEMMA ClustersExist ==
  ASSUME NEW P, PivotSet(P), NEW atr \in Nat
  PROVE  \E f : IsClusters(f, P, atr)
<1> DEFINE V == SUBSET SUBSET P
           M == [s \in SUBSET P |-> IF s = {} THEN {} ELSE Members(s, atr)]
           G == [p \in (SUBSET P) \X V |-> {M[p[1]]} \union p[2]]
<1>1. \A s \in SUBSET P : s # {} => Members(s, atr) # {} /\ Members(s, atr) \subseteq s
  BY MembersAre
<1>2. \A s \in SUBSET P : M[s] \in SUBSET P /\ (s # {} => M[s] = Members(s, atr)) BY <1>1
<1>3. Removes(P, M)
  <2>1. M \in [SUBSET P -> SUBSET P] BY <1>1
  <2> HIDE DEF M
  <2>2. \A s \in SUBSET P : s # {} => M[s] # {} /\ M[s] \subseteq s BY <1>1, <1>2
  <2>3. IsFiniteSet(P) BY DEF PivotSet
  <2> QED BY <2>1, <2>2, <2>3 DEF Removes
<1>4. \A s \in SUBSET P : \A v \in V : G[<<s, v>>] = {M[s]} \union v
  <2> HIDE DEF M
  <2> TAKE s \in SUBSET P
  <2> TAKE v \in V
  <2> PICK p : p = <<s, v>> OBVIOUS
  <2>1. p \in (SUBSET P) \X V /\ p[1] = s /\ p[2] = v OBVIOUS
  <2>2. G[p] = {M[p[1]]} \union p[2] BY <2>1
  <2> HIDE DEF G
  <2> QED BY <2>1, <2>2
<1> HIDE DEF M, G
<1>5. Steps(P, V, G)
  <2> SUFFICES ASSUME NEW s \in SUBSET P, NEW v \in V PROVE G[<<s, v>>] \in V BY DEF Steps
  <2>1. G[<<s, v>>] = {M[s]} \union v BY <1>4
  <2>2. M[s] \in SUBSET P BY <1>2
  <2> QED BY <2>1, <2>2
<1>6. {} \in V OBVIOUS
<1> HIDE DEF V
<1>7. PICK f : f \in [SUBSET P -> V] /\ \A s \in SUBSET P : f[s] = Unfold(f, {}, M, G, s)
  <2>1. PICK e \in V : e = {} BY <1>6
  <2>2. PICK f : Solves(f, P, V, e, M, G) BY <1>3, <1>5, RecursionOnSubsets
  <2> QED BY <2>1, <2>2 DEF Solves
<1>8. ASSUME NEW s \in SUBSET P
      PROVE  f[s] = IF s = {} THEN {} ELSE {Members(s, atr)} \union f[s \ Members(s, atr)]
  <2>1. CASE s = {} BY <1>7, <2>1 DEF Unfold
  <2>2. CASE s # {}
    <3>1. M[s] = Members(s, atr) BY <1>2, <2>2
    <3>2. f[s] = G[<<s, f[s \ M[s]]>>] BY <1>7, <2>2 DEF Unfold
    <3>3. s \ M[s] \in SUBSET P OBVIOUS
    <3>4. f[s \ M[s]] \in V BY <1>7, <3>3
    <3>5. f[s] = {M[s]} \union f[s \ M[s]] BY <1>4, <3>2, <3>4
    <3> QED BY <2>2, <3>1, <3>5
  <2> QED BY <2>1, <2>2
<1>9. f = [s \in SUBSET P |-> f[s]] BY <1>7
<1>10. f = [s \in SUBSET P |-> IF s = {} THEN {} ELSE {Members(s, atr)} \union f[s \ Members(s, atr)]]
  BY <1>8, <1>9
<1> QED BY <1>10 DEF IsClusters

SamePrice(P, c) == \A p \in c : \A q \in P : q.price = p.price => q \in c

\* C divides s into clusters that no price is shared by.
Divides(P, s, C) ==
  /\ \A c \in C : c \subseteq s /\ c # {} /\ SamePrice(P, c)
  /\ \A p \in s : \E c \in C : p \in c

LEMMA ClustersAre ==
  ASSUME NEW P, PivotSet(P), NEW atr \in Nat
  PROVE  Divides(P, P, _clusters(P, atr))
<1> PICK h : h = CHOOSE g : IsClusters(g, P, atr) OBVIOUS
<1>1. _clusters(P, atr) = h[P] BY DEF _clusters, IsClusters, Members
<1>2. IsClusters(h, P, atr) BY ClustersExist
<1>3. \A s \in SUBSET P :
        h[s] = IF s = {} THEN {} ELSE {Members(s, atr)} \union h[s \ Members(s, atr)]
  <2>1. h = [s \in SUBSET P |->
              IF s = {} THEN {} ELSE {Members(s, atr)} \union h[s \ Members(s, atr)]]
    BY <1>2 DEF IsClusters
  <2> QED BY <2>1
<1> DEFINE Right(s) == SamePrice(P, s) => Divides(P, s, h[s])
           T == {n \in Nat : \E s \in SUBSET P : Cardinality(s) = n /\ ~ Right(s)}
<1>4. ASSUME T # {} PROVE FALSE
  <2>1. PICK m \in T : \A j \in T : m =< j BY <1>4, LeastNumber
  <2>2. PICK s \in SUBSET P : Cardinality(s) = m /\ ~ Right(s) BY <2>1
  <2>3. CASE s = {}
    <3>1. h[s] = {} BY <1>3, <2>3
    <3> QED BY <3>1, <2>2, <2>3 DEF Divides
  <2>4. CASE s # {}
    <3> PICK c : c = Members(s, atr) OBVIOUS
    <3>1. /\ c # {} /\ c \subseteq s
          /\ \A p, q \in s : p.price = q.price /\ p \in c => q \in c
      BY <2>4, MembersAre
    <3>2. h[s] = {c} \union h[s \ c] BY <1>3, <2>4
    <3>3. SamePrice(P, s) BY <2>2
    <3>4. SamePrice(P, c) BY <3>1, <3>3 DEF SamePrice
    <3>5. SamePrice(P, s \ c) BY <3>1, <3>3 DEF SamePrice
    <3>6. Right(s \ c)
      <4>1. IsFiniteSet(s) BY FS_Subset DEF PivotSet
      <4>2. s \ c \in SUBSET s /\ s \ c # s BY <3>1
      <4>3. IsFiniteSet(s \ c) /\ Cardinality(s \ c) < Cardinality(s)
        <5> PICK r : r = s \ c OBVIOUS
        <5>1. IsFiniteSet(r) /\ Cardinality(r) =< Cardinality(s)
              /\ (Cardinality(s) = Cardinality(r) => r = s)
          BY <4>1, <4>2, FS_Subset
        <5>2. Cardinality(r) \in Nat /\ Cardinality(s) \in Nat BY <4>1, <5>1, FS_CardinalityType
        <5> QED BY <4>2, <5>1, <5>2
      <4>4. Cardinality(s \ c) \in Nat BY <4>3, FS_CardinalityType
      <4>5. Cardinality(s \ c) \notin T
        <5>1. m \in Nat OBVIOUS
        <5> HIDE DEF T
        <5> QED BY <2>1, <2>2, <4>3, <4>4, <5>1
      <4>6. s \ c \in SUBSET P OBVIOUS
      <4> HIDE DEF Right
      <4> QED BY <4>4, <4>5, <4>6
    <3>7. Divides(P, s \ c, h[s \ c]) BY <3>5, <3>6
    <3>8. Divides(P, s, h[s])
      <4> PICK C, D : C = h[s] /\ D = h[s \ c] OBVIOUS
      <4>1. ASSUME NEW d \in C PROVE d \subseteq s /\ d # {} /\ SamePrice(P, d)
        <5>1. CASE d = c BY <3>1, <3>4, <5>1
        <5>2. CASE d \in D BY <3>7, <5>2 DEF Divides
        <5> QED BY <3>2, <5>1, <5>2
      <4>2. ASSUME NEW p \in s PROVE \E d \in C : p \in d
        <5>1. CASE p \in c BY <3>2, <5>1
        <5>2. CASE p \in s \ c
          <6>1. PICK d \in D : p \in d BY <3>7, <5>2 DEF Divides
          <6> QED BY <3>2, <6>1
        <5> QED BY <5>1, <5>2
      <4> QED BY <4>1, <4>2 DEF Divides
    <3> QED BY <2>2, <3>8
  <2> QED BY <2>3, <2>4
<1>5. Right(P)
  <2>1. Cardinality(P) \in Nat /\ P \in SUBSET P BY FS_CardinalityType DEF PivotSet
  <2> HIDE DEF Right
  <2> QED BY <1>4, <2>1
<1>6. SamePrice(P, P) BY DEF SamePrice
<1> QED BY <1>1, <1>5, <1>6

\* The days of the lookback.
Recent(highs) == {d \in DOMAIN highs : d > Len(highs) - Lookback}

LEMMA LookbackDays ==
  ASSUME NEW highs \in Seq(Nat), Len(highs) > 0
  PROVE  /\ Max({1, Len(highs) - Lookback + 1}) .. Len(highs) = Recent(highs)
         /\ Recent(highs) # {} /\ IsFiniteSet(Recent(highs)) /\ Recent(highs) \subseteq Nat
<1>0. Len(highs) \in Nat /\ Lookback \in Nat \ {0} /\ DOMAIN highs = 1 .. Len(highs)
  BY FeatureAssumption, SMTT(30)
<1> PICK k : k = Len(highs) - Lookback + 1 OBVIOUS
<1>k. k \in Int
  <2> PICK n \in Nat, l \in Nat : n = Len(highs) /\ l = Lookback BY <1>0
  <2>1. k = n - l + 1 OBVIOUS
  <2> QED BY <2>1
<1> PICK S : S = {1, k} OBVIOUS
<1>1. IsFiniteSet(S)
  <2>1. IsFiniteSet({1}) /\ IsFiniteSet({k}) BY FS_Singleton
  <2>2. IsFiniteSet({1} \union {k}) BY <2>1, FS_Union
  <2>3. S = {1} \union {k} OBVIOUS
  <2> QED BY <2>2, <2>3
<1>2. S \in SUBSET Int /\ S # {} BY <1>k
<1>3. Max(S) \in S /\ \A y \in S : y =< Max(S) BY <1>1, <1>2, MaxIs
<1>4. PICK m \in Int : m = Max(S) /\ (m = 1 \/ m = k) /\ 1 =< m /\ k =< m BY <1>k, <1>3
<1>5. \A d : d \in m .. Len(highs) <=> d \in Recent(highs) BY <1>0, <1>4 DEF Recent
<1>6. Len(highs) \in Recent(highs) BY <1>0 DEF Recent
<1>7. IsFiniteSet(1 .. Len(highs)) BY <1>0, Interval
<1>8. Recent(highs) \subseteq 1 .. Len(highs) BY <1>0 DEF Recent
<1>9. IsFiniteSet(Recent(highs)) BY <1>7, <1>8, FS_Subset
<1>10. m .. Len(highs) = Recent(highs) BY <1>5
<1> QED BY <1>0, <1>4, <1>6, <1>8, <1>9, <1>10

\* A pivot is a day of the lookback with its high; every day above its neighbours is one.
PivotsOf(P, highs, days) ==
  /\ \A p \in P : p.day \in days /\ p.price = highs[p.day]
  /\ \A d \in days : Top(highs, days, d) => \E p \in P : p.day = d /\ p.price = highs[d]

LEMMA PivotsAre ==
  ASSUME NEW highs \in Seq(Nat), NEW days \in SUBSET DOMAIN highs, days # {}
  PROVE  /\ PivotsOf(_pivot_candidates(highs, days), highs, days)
         /\ PivotSet(_pivot_candidates(highs, days))
<1>0. IsFiniteSet(days) /\ days \in SUBSET Int /\ \A d \in days : highs[d] \in Nat
  BY DomainFinite, FS_Subset
<1> PICK confirmed :
      confirmed = {d \in days : /\ (d - PivotWidth) .. (d + PivotWidth) \subseteq days
                                /\ \A n \in (d - PivotWidth) .. (d + PivotWidth) :
                                     n # d => highs[n] < highs[d]} OBVIOUS
<1> PICK best : best = {d \in days : \A n \in days : highs[n] <= highs[d]} OBVIOUS
<1> PICK top : top = Max(best) OBVIOUS
<1>1. top \in days
  <2> PICK f : f = [d \in days |-> highs[d]] OBVIOUS
  <2> PICK S : S = {highs[d] : d \in days} OBVIOUS
  <2>1. IsFiniteSet(S)
    <3>1. DOMAIN f = days /\ {f[d] : d \in DOMAIN f} = S OBVIOUS
    <3> QED BY <1>0, <3>1, FiniteRange, SMTT(30)
  <2>2. S \in SUBSET Int /\ S # {} BY <1>0
  <2>3. Max(S) \in S /\ \A y \in S : y =< Max(S) BY <2>1, <2>2, MaxIs
  <2>4. PICK d \in days : highs[d] = Max(S) BY <2>3
  <2>5. \A n \in days : highs[n] <= highs[d] BY <2>3, <2>4
  <2>6. best # {} /\ best \in SUBSET Int /\ IsFiniteSet(best) BY <1>0, <2>4, <2>5, FS_Subset
  <2>7. Max(best) \in best BY <2>6, MaxIs
  <2> QED BY <2>7
<1> PICK D : D = confirmed \union {top} OBVIOUS
<1> PICK P : P = _pivot_candidates(highs, days) OBVIOUS
<1> DEFINE Pivot(d) == [day |-> d, price |-> highs[d], lookbackHigh |-> d = top]
<1>2. P = {Pivot(d) : d \in D} BY DEF _pivot_candidates
<1>9. \A d \in D : Pivot(d).day = d /\ Pivot(d).price = highs[d] OBVIOUS
<1> HIDE DEF Pivot
<1>3. D \subseteq days BY <1>1
<1>4. \A p \in P : \E d \in D : p.day = d /\ p.price = highs[d]
  <2> TAKE p \in P
  <2>1. PICK d \in D : p = Pivot(d) BY <1>2
  <2> QED BY <1>9, <2>1
<1>5. \A d \in D : \E p \in P : p.day = d /\ p.price = highs[d] BY <1>2, <1>9, ZenonT(60)
<1>6. \A d \in days : Top(highs, days, d) => d \in D
  <2> SUFFICES ASSUME NEW d \in days, Top(highs, days, d) PROVE d \in confirmed OBVIOUS
  <2>1. \A n \in (d - PivotWidth) .. (d + PivotWidth) : n # d => n \in days /\ highs[n] < highs[d]
    BY DEF Top
  <2>2. (d - PivotWidth) .. (d + PivotWidth) \subseteq days BY <2>1
  <2> QED BY <2>1, <2>2
<1>7. PivotsOf(P, highs, days)
  <2>1. \A p \in P : p.day \in days /\ p.price = highs[p.day] BY <1>3, <1>4
  <2>2. \A d \in days : Top(highs, days, d) => \E p \in P : p.day = d /\ p.price = highs[d]
    BY <1>5, <1>6
  <2> QED BY <2>1, <2>2 DEF PivotsOf
<1>8. PivotSet(P)
  <2>0. PICK f : f = [d \in D |-> Pivot(d)] OBVIOUS
  <2>1. DOMAIN f = D /\ {f[d] : d \in DOMAIN f} = P BY <1>2, <2>0
  <2>2. IsFiniteSet(D) BY <1>0, <1>3, FS_Subset
  <2>3. IsFiniteSet(P)
    <3>1. IsFiniteSet({f[d] : d \in DOMAIN f})
      <4>1. IsFiniteSet(DOMAIN f) BY <2>1, <2>2
      <4> QED BY <4>1, FiniteRange
    <3> QED BY <2>1, <3>1
  <2>4. \A p \in P : p.day \in Nat /\ p.price \in Nat
    <3>1. days \subseteq Nat BY DomainFinite
    <3> QED BY <1>0, <1>3, <1>4, <3>1, SMTT(30)
  <2> QED BY <2>3, <2>4 DEF PivotSet
<1> QED BY <1>7, <1>8

\* A zone: its prices are highs of the lookback.
ZoneSet(Z, highs) ==
  \A z \in Z : IsFiniteSet(z) /\ z # {} /\ z \in SUBSET Int
               /\ \A x \in z : \E d \in DOMAIN highs : x = highs[d]

\* Two days with the same high, both above their neighbours and one of them not long ago.
Shared(highs, c, d) ==
  /\ c \in Recent(highs) /\ d \in Recent(highs)
  /\ c < d /\ Len(highs) - d <= Recency /\ highs[c] = highs[d]
  /\ Top(highs, Recent(highs), c) /\ Top(highs, Recent(highs), d)

\* The prices of the pivots in a finite set of them.
LEMMA PricesFinite ==
  ASSUME NEW c, PivotSet(c)
  PROVE  /\ IsFiniteSet({p.price : p \in c}) /\ {p.price : p \in c} \in SUBSET Int
         /\ IsFiniteSet({p.day : p \in c}) /\ {p.day : p \in c} \in SUBSET Int
<1> PICK f, g : f = [p \in c |-> p.price] /\ g = [p \in c |-> p.day] OBVIOUS
<1>1. DOMAIN f = c /\ DOMAIN g = c /\ {f[p] : p \in DOMAIN f} = {p.price : p \in c}
      /\ {g[p] : p \in DOMAIN g} = {p.day : p \in c}
  OBVIOUS
<1>2. IsFiniteSet(c) BY DEF PivotSet
<1>3. IsFiniteSet({f[p] : p \in DOMAIN f}) /\ IsFiniteSet({g[p] : p \in DOMAIN g})
  BY <1>1, <1>2, FiniteRange
<1>4. \A p \in c : p.price \in Int /\ p.day \in Int BY DEF PivotSet
<1> QED BY <1>1, <1>3, <1>4

LEMMA ZonesAre ==
  ASSUME NEW highs \in Seq(Nat), Len(highs) > 0, NEW atr \in Nat
  PROVE  /\ ZoneSet(Zones(highs, atr), highs)
         /\ \A c, d \in DOMAIN highs : Shared(highs, c, d) =>
              \E z \in Zones(highs, atr) : highs[d] \in z
<1> PICK days : days = Recent(highs) OBVIOUS
<1> PICK P : P = _pivot_candidates(highs, days) OBVIOUS
<1> PICK C : C = _clusters(P, atr) OBVIOUS
<1>0. Len(highs) \in Nat /\ Recency \in Nat BY FeatureAssumption
<1>1. days # {} /\ days \in SUBSET DOMAIN highs BY LookbackDays DEF Recent
<1>2. PivotsOf(P, highs, days) /\ PivotSet(P) BY <1>1, PivotsAre
<1>3. Divides(P, P, C) BY <1>2, ClustersAre
<1>4. Zones(highs, atr) =
        {{p.price : p \in c} : c \in {c \in C : ValidCluster(c, Len(highs))}}
  BY LookbackDays DEF Zones
<1>5. \A c \in C : PivotSet(c)
  <2> TAKE c \in C
  <2>1. c \subseteq P BY <1>3 DEF Divides
  <2> QED BY <1>2, <2>1, FS_Subset DEF PivotSet
<1>6. ZoneSet(Zones(highs, atr), highs)
  <2> SUFFICES ASSUME NEW z \in Zones(highs, atr)
               PROVE  IsFiniteSet(z) /\ z # {} /\ z \in SUBSET Int
                      /\ \A x \in z : \E d \in DOMAIN highs : x = highs[d]
    BY DEF ZoneSet
  <2>1. PICK c \in C : z = {p.price : p \in c} BY <1>4
  <2>2. c \subseteq P /\ c # {} BY <1>3 DEF Divides
  <2>3. IsFiniteSet(z) /\ z \in SUBSET Int BY <1>5, <2>1, PricesFinite
  <2>4. \A x \in z : \E d \in DOMAIN highs : x = highs[d]
    BY <1>1, <1>2, <2>1, <2>2 DEF PivotsOf
  <2> QED BY <2>1, <2>2, <2>3, <2>4
<1>7. ASSUME NEW c \in DOMAIN highs, NEW d \in DOMAIN highs, Shared(highs, c, d)
      PROVE  \E z \in Zones(highs, atr) : highs[d] \in z
  <2>1. PICK p \in P : p.day = c /\ p.price = highs[c] BY <1>2, <1>7 DEF PivotsOf, Shared
  <2>2. PICK q \in P : q.day = d /\ q.price = highs[d] BY <1>2, <1>7 DEF PivotsOf, Shared
  <2>3. p # q /\ p.price = q.price
    <3>1. c < d /\ c \in Int /\ d \in Int /\ highs[c] = highs[d] BY <1>0, <1>7 DEF Shared
    <3>2. c # d BY <3>1
    <3> QED BY <2>1, <2>2, <3>1, <3>2
  <2>4. PICK k \in C : q \in k BY <1>3 DEF Divides
  <2>5. p \in k BY <1>3, <2>3, <2>4 DEF Divides, SamePrice
  <2>6. PivotSet(k) BY <1>5
  <2>7. Cardinality(k) >= 2
    <3>1. IsFiniteSet(k) BY <2>6 DEF PivotSet
    <3>2. IsFiniteSet({p}) /\ Cardinality({p}) = 1 BY FS_Singleton
    <3>a. q \notin {p} BY <2>3
    <3>b. PICK one : one = {p} OBVIOUS
    <3>c. Cardinality(one \union {q}) = Cardinality(one) + 1 BY <3>a, <3>b, <3>2, FS_AddElement
    <3>3. PICK two : two = one \union {q} OBVIOUS
    <3>d. Cardinality(one) = 1 BY <3>b, <3>2
    <3>e. Cardinality(two) = 2 BY <3>c, <3>3, <3>d
    <3>4. two \in SUBSET k BY <2>4, <2>5, <3>b, <3>3
    <3>5. Cardinality(two) =< Cardinality(k) BY <3>1, <3>4, FS_Subset
    <3>6. Cardinality(k) \in Nat BY <3>1, FS_CardinalityType
    <3> QED BY <3>e, <3>5, <3>6
  <2>8. ~ (Len(highs) - Max({x.day : x \in k}) > Recency)
    <3> PICK S : S = {x.day : x \in k} OBVIOUS
    <3>1. S \in SUBSET Int /\ IsFiniteSet(S) /\ d \in S BY <2>2, <2>4, <2>6, PricesFinite
    <3>2. Max(S) \in S /\ d =< Max(S) BY <3>1, MaxIs
    <3>3. Max(S) \in Int /\ d \in Int /\ Len(highs) - d <= Recency BY <1>7, <3>1, <3>2 DEF Shared
    <3> QED BY <1>0, <3>2, <3>3
  <2>9. ValidCluster(k, Len(highs)) BY <2>7, <2>8 DEF ValidCluster
  <2>10. {x.price : x \in k} \in Zones(highs, atr) BY <1>4, <2>9
  <2>11. highs[d] \in {x.price : x \in k} BY <2>2, <2>4
  <2> QED BY <2>10, <2>11
<1> QED BY <1>6, <1>7

-----------------------------------------------------------------------------
(* The room above a price.                                                 *)

LEMMA LeastIs ==
  ASSUME NEW S \in SUBSET Nat, S # {}
  PROVE  Min(S) \in S /\ \A y \in S : Min(S) =< y
<1>1. PICK i \in S : \A j \in S : i =< j BY LeastNumber
<1>2. Min(S) = CHOOSE x \in S : \A y \in S : x =< y BY DEF Min
<1> QED BY <1>1, <1>2

\* How far the eligible zones are: none is farther than the highest high, and a zone that
\* holds a price above this one is no farther than that price.
EligibleFacts(E, Z, highs, price, ath) ==
  /\ E \in SUBSET Nat
  /\ \A x \in E : x =< ath - price
  /\ \A z \in Z : \A y \in z : price < y => \E x \in E : x =< y - price

LEMMA EligibleIs ==
  ASSUME NEW highs, NEW Z, ZoneSet(Z, highs), NEW price \in Nat, NEW ath \in Int,
         \A d \in DOMAIN highs : highs[d] =< ath
  PROVE  EligibleFacts(Eligible(Z, price), Z, highs, price, ath)
<1> DEFINE Far(z) == IF price < Min(z) THEN Min(z) - price ELSE 0
<1> PICK E : E = Eligible(Z, price) OBVIOUS
<1>1. E = {Far(z) : z \in {z \in Z : price <= Max(z)}} BY DEF Eligible
<1>2. ASSUME NEW z \in Z
      PROVE  /\ Min(z) \in Int /\ Max(z) \in Int /\ Min(z) =< Max(z) /\ Max(z) =< ath
             /\ \A y \in z : y \in Int /\ Min(z) =< y /\ y =< Max(z)
  <2>1. IsFiniteSet(z) /\ z # {} /\ z \in SUBSET Int
        /\ \A x \in z : \E d \in DOMAIN highs : x = highs[d]
    BY DEF ZoneSet
  <2>2. Min(z) \in z /\ \A y \in z : Min(z) =< y BY <2>1, MinIs
  <2>3. Max(z) \in z /\ \A y \in z : y =< Max(z) BY <2>1, MaxIs
  <2>4. Max(z) =< ath BY <2>1, <2>3
  <2> QED BY <2>1, <2>2, <2>3, <2>4
<1>3. \A z \in Z : price <= Max(z) => Far(z) \in Nat /\ Far(z) =< ath - price
  <2> SUFFICES ASSUME NEW z \in Z, price <= Max(z) PROVE Far(z) \in Nat /\ Far(z) =< ath - price
    OBVIOUS
  <2>1. PICK lo \in Int, hi \in Int : lo = Min(z) /\ hi = Max(z) /\ lo =< hi /\ hi =< ath
    BY <1>2
  <2>2. CASE price < lo BY <2>1, <2>2
  <2>3. CASE ~ (price < lo) BY <2>1, <2>3
  <2> QED BY <2>2, <2>3
<1>4. \A z \in Z : \A y \in z : price < y =>
        price <= Max(z) /\ Far(z) =< y - price
  <2> SUFFICES ASSUME NEW z \in Z, NEW y \in z, price < y
               PROVE  price <= Max(z) /\ Far(z) =< y - price
    OBVIOUS
  <2>1. PICK lo \in Int, hi \in Int : lo = Min(z) /\ hi = Max(z) BY <1>2
  <2>2. y \in Int /\ lo =< y /\ y =< hi BY <1>2, <2>1
  <2>3. price <= Max(z) BY <2>1, <2>2
  <2>4. CASE price < lo BY <2>1, <2>2, <2>3, <2>4
  <2>5. CASE ~ (price < lo) BY <2>1, <2>2, <2>3, <2>5
  <2> QED BY <2>4, <2>5
<1> HIDE DEF Far
<1>5. E \in SUBSET Nat BY <1>1, <1>3
<1>6. \A x \in E : x =< ath - price BY <1>1, <1>3
<1>7. \A z \in Z : \A y \in z : price < y => \E x \in E : x =< y - price BY <1>1, <1>4
<1> QED BY <1>5, <1>6, <1>7 DEF EligibleFacts

\* What a payload takes for the room: a class that agrees with the distance.
RoomShape(r) ==
  /\ ~ Failed(r) /\ r.distance \in Nat /\ r.chart \in Chart
  /\ r.chart = "clean_short_term" => r.distance > 2 * Unit
  /\ r.chart = "moderate_room" => r.distance \in Unit .. 2 * Unit

LEMMA ResistedIs ==
  ASSUME NEW n \in Nat
  PROVE  RoomShape(Resisted(n)) /\ Resisted(n).distance = n /\ Resisted(n).chart # "blue_sky"
<1>0. Unit \in Nat \ {0} BY ReplayAssumption
<1>1. CASE n > 2 * Unit
  <2>1. chart_structure(n) = "clean_short_term" BY <1>0, <1>1 DEF chart_structure
  <2> QED BY <1>1, <2>1 DEF RoomShape, Resisted, Failed, Chart
<1>2. CASE n \in Unit .. 2 * Unit
  <2>0. ~ (n > 2 * Unit) BY <1>0, <1>2
  <2>1. chart_structure(n) = "moderate_room" BY <1>2, <2>0 DEF chart_structure
  <2> QED BY <1>2, <2>1 DEF RoomShape, Resisted, Failed, Chart
<1>3. CASE n < Unit
  <2>0. ~ (n > 2 * Unit) /\ n \notin Unit .. 2 * Unit BY <1>0, <1>3
  <2>1. chart_structure(n) = "capped" BY <2>0 DEF chart_structure
  <2> QED BY <2>1 DEF RoomShape, Resisted, Failed, Chart
<1>4. n > 2 * Unit \/ n \in Unit .. 2 * Unit \/ n < Unit BY <1>0
<1> QED BY <1>1, <1>2, <1>3, <1>4

Highest(highs) == Max({highs[d] : d \in DOMAIN highs})

RoomTo(high, price, atr) == quantize((high - price) * Unit, atr)

\* The room r is not overstated.
RoomHolds(highs, price, atr, listed, r) ==
  IF r.chart = "blue_sky"
  THEN listed /\ \A d \in DOMAIN highs : highs[d] <= price
  ELSE /\ r.distance <= RoomTo(Highest(highs), price, atr)
       /\ \A c, d \in DOMAIN highs :
            Shared(highs, c, d) /\ highs[d] > price => r.distance <= RoomTo(highs[d], price, atr)

\* A shorter way up is less room.
LEMMA RoomMonotone ==
  ASSUME NEW m \in Int, NEW n \in Int, m =< n, NEW atr \in Nat \ {0}
  PROVE  /\ quantize(m * Unit, atr) =< quantize(n * Unit, atr)
         /\ quantize(m * Unit, atr) \in Int /\ quantize(n * Unit, atr) \in Int
         /\ m >= 0 => quantize(m * Unit, atr) \in Nat
<1>0. Unit \in Nat \ {0} BY ReplayAssumption
<1>1. PICK a \in Int, b \in Int : a = m * Unit /\ b = n * Unit BY <1>0
<1>2. a =< b /\ (m >= 0 => a >= 0) BY <1>0, <1>1
<1>3. quantize(a, atr) =< quantize(b, atr) BY <1>2, QuantizeMonotone
<1>4. quantize(a, atr) \in Int /\ quantize(b, atr) \in Int /\ (a >= 0 => quantize(a, atr) \in Nat)
  BY QuantizeType
<1> QED BY <1>1, <1>2, <1>3, <1>4

LEMMA HighestIs ==
  ASSUME NEW highs \in Seq(Nat), Len(highs) > 0
  PROVE  Highest(highs) \in Nat /\ \A d \in DOMAIN highs : highs[d] =< Highest(highs)
<1> PICK S : S = {highs[d] : d \in DOMAIN highs} OBVIOUS
<1>1. IsFiniteSet(DOMAIN highs) /\ DOMAIN highs = 1 .. Len(highs) /\ Len(highs) \in Nat BY DomainFinite
<1>2. IsFiniteSet(S) BY <1>1, FiniteRange
<1>3. S \in SUBSET Int /\ S \subseteq Nat /\ S # {} BY <1>1
<1>4. Max(S) \in S /\ \A y \in S : y =< Max(S) BY <1>2, <1>3, MaxIs
<1> QED BY <1>3, <1>4 DEF Highest

\* The nearest of the zones, the highest high, or open sky.
LEMMA NearestIs ==
  ASSUME NEW highs \in Seq(Nat), Len(highs) > 0, NEW price \in Nat, NEW atr \in Nat \ {0},
         NEW listed \in BOOLEAN, NEW E, NEW Z,
         EligibleFacts(E, Z, highs, price, Highest(highs)),
         \A c, d \in DOMAIN highs : Shared(highs, c, d) => \E z \in Z : highs[d] \in z,
         NEW r, r = Nearest(E, Highest(highs), price, atr, listed)
  PROVE  r \in Errors \/ (RoomShape(r) /\ RoomHolds(highs, price, atr, listed, r))
<1>0. Unit \in Nat \ {0} BY ReplayAssumption
<1>1. PICK ath \in Nat : ath = Highest(highs) /\ \A d \in DOMAIN highs : highs[d] =< ath
  BY HighestIs
<1>2. /\ E \in SUBSET Nat
      /\ \A x \in E : x =< ath - price
      /\ \A z \in Z : \A y \in z : price < y => \E x \in E : x =< y - price
  BY <1>1 DEF EligibleFacts
<1>3. ASSUME NEW c \in DOMAIN highs, NEW d \in DOMAIN highs, Shared(highs, c, d), highs[d] > price
      PROVE  \E x \in E : x =< highs[d] - price
  <2>1. PICK z \in Z : highs[d] \in z BY <1>3
  <2>2. highs[d] \in Nat OBVIOUS
  <2>3. price < highs[d] BY <1>3, <2>2
  <2> QED BY <1>2, <2>1, <2>3
<1>4. ASSUME NEW n \in Nat, r = Resisted(quantize(n * Unit, atr)), n =< ath - price,
             \A c, d \in DOMAIN highs : Shared(highs, c, d) /\ highs[d] > price => n =< highs[d] - price
      PROVE  RoomShape(r) /\ RoomHolds(highs, price, atr, listed, r)
  <2>1. n \in Int /\ n >= 0 OBVIOUS
  <2>2. PICK q : q = quantize(n * Unit, atr) OBVIOUS
  <2>3. q \in Nat
    <3>1. n =< n OBVIOUS
    <3> QED BY <2>1, <2>2, <3>1, RoomMonotone
  <2>4. RoomShape(r) /\ r.distance = q /\ r.chart # "blue_sky" BY <1>4, <2>2, <2>3, ResistedIs
  <2>5. q <= RoomTo(Highest(highs), price, atr)
    <3>1. ath - price \in Int OBVIOUS
    <3>2. quantize(n * Unit, atr) =< quantize((ath - price) * Unit, atr)
      BY <1>4, <2>1, <3>1, RoomMonotone
    <3> QED BY <1>1, <2>2, <3>2 DEF RoomTo
  <2>6. ASSUME NEW c \in DOMAIN highs, NEW d \in DOMAIN highs, Shared(highs, c, d), highs[d] > price
        PROVE  q <= RoomTo(highs[d], price, atr)
    <3>1. highs[d] \in Nat OBVIOUS
    <3>2. n =< highs[d] - price /\ highs[d] - price \in Int BY <1>4, <2>6, <3>1
    <3>3. quantize(n * Unit, atr) =< quantize((highs[d] - price) * Unit, atr)
      BY <2>1, <3>2, RoomMonotone
    <3> QED BY <2>2, <3>3 DEF RoomTo
  <2> QED BY <2>4, <2>5, <2>6 DEF RoomHolds
<1>5. CASE E # {}
  <2>1. PICK n \in Nat : n = Min(E) /\ n \in E /\ \A y \in E : n =< y BY <1>2, <1>5, LeastIs
  <2>2. r = Resisted(quantize(n * Unit, atr)) BY <1>5, <2>1 DEF Nearest
  <2>3. n =< ath - price BY <1>2, <2>1
  <2>4. \A c, d \in DOMAIN highs : Shared(highs, c, d) /\ highs[d] > price => n =< highs[d] - price
    <3> SUFFICES ASSUME NEW c \in DOMAIN highs, NEW d \in DOMAIN highs,
                        Shared(highs, c, d), highs[d] > price
                 PROVE  n =< highs[d] - price
      OBVIOUS
    <3>1. PICK x \in E : x =< highs[d] - price BY <1>3
    <3>2. x \in Nat /\ n =< x /\ highs[d] \in Nat BY <1>2, <2>1, SMTT(30)
    <3> QED BY <3>1, <3>2
  <2> QED BY <1>4, <2>2, <2>3, <2>4
<1>6. CASE E = {} /\ price < ath
  <2>1. PICK n \in Nat : n = ath - price BY <1>6
  <2>2. r = Resisted(quantize(n * Unit, atr)) BY <1>1, <1>6, <2>1 DEF Nearest
  <2>3. \A c, d \in DOMAIN highs : ~ (Shared(highs, c, d) /\ highs[d] > price) BY <1>3, <1>6
  <2>4. n =< ath - price BY <2>1
  <2> QED BY <1>4, <2>2, <2>3, <2>4
<1>7. CASE E = {} /\ ~ (price < ath) /\ ~ listed
  <2>1. r = DataQualityError("INCOMPLETE_HISTORY_FOR_BLUE_SKY_CHECK") BY <1>1, <1>7 DEF Nearest
  <2> QED BY <2>1, ErrorFailed DEF Codes
<1>8. CASE E = {} /\ ~ (price < ath) /\ listed
  <2>1. r = [distance |-> Sentinel, chart |-> "blue_sky"] BY <1>1, <1>8 DEF Nearest
  <2>2. Sentinel \in Nat BY <1>0 DEF Sentinel
  <2>3. RoomShape(r) BY <2>1, <2>2 DEF RoomShape, Failed, Chart
  <2>4. \A d \in DOMAIN highs : highs[d] <= price
    <3> TAKE d \in DOMAIN highs
    <3>1. highs[d] \in Nat /\ highs[d] =< ath BY <1>1
    <3> QED BY <1>8, <3>1
  <2>a. r.chart = "blue_sky" BY <2>1
  <2>b. listed BY <1>8
  <2>5. RoomHolds(highs, price, atr, listed, r) BY <2>a, <2>b, <2>4, Zenon DEF RoomHolds
  <2> QED BY <2>3, <2>5
<1> QED BY <1>5, <1>6, <1>7, <1>8

Highs(bars) == [d \in DOMAIN bars |-> bars[d].high]

LEMMA HighsType ==
  ASSUME NEW bars \in Seq(DailyBar)
  PROVE  Highs(bars) \in Seq(Nat) /\ Len(Highs(bars)) = Len(bars) /\ DOMAIN Highs(bars) = DOMAIN bars
<1>1. \A d \in DOMAIN bars : bars[d] \in DailyBar OBVIOUS
<1>2. \A d \in DOMAIN bars : bars[d].high \in Nat BY <1>1 DEF DailyBar
<1>3. DOMAIN bars = 1 .. Len(bars) /\ Len(bars) \in Nat OBVIOUS
<1> QED BY <1>2, <1>3 DEF Highs

LEMMA RoomIs ==
  ASSUME NEW bars \in Seq(DailyBar), NEW price \in Nat, NEW atr \in Nat, NEW listed \in BOOLEAN,
         NEW r, r = daily_pivot_cluster_v1(bars, price, atr, listed)
  PROVE  \/ r \in Errors
         \/ atr \in Nat \ {0} /\ RoomShape(r) /\ RoomHolds(Highs(bars), price, atr, listed, r)
<1>0. MinHistory \in Nat \ {0} /\ Len(bars) \in Nat BY FeatureAssumption, SMTT(30)
<1> PICK highs : highs = Highs(bars) OBVIOUS
<1>1. highs \in Seq(Nat) /\ Len(highs) = Len(bars) BY HighsType
<1>2. CASE Len(bars) < MinHistory
  <2>1. r = DataQualityError("INSUFFICIENT_DAILY_HISTORY") BY <1>2 DEF daily_pivot_cluster_v1
  <2> QED BY <2>1, ErrorFailed DEF Codes
<1>3. CASE ~ (Len(bars) < MinHistory) /\ atr <= 0
  <2>1. r = DataQualityError("INVALID_ATR") BY <1>3 DEF daily_pivot_cluster_v1
  <2> QED BY <2>1, ErrorFailed DEF Codes
<1>4. CASE ~ (Len(bars) < MinHistory) /\ ~ (atr <= 0)
  <2>1. Len(highs) > 0 /\ atr \in Nat \ {0} BY <1>0, <1>1, <1>4
  <2> PICK Z : Z = Zones(highs, atr) OBVIOUS
  <2> PICK E : E = Eligible(Z, price) OBVIOUS
  <2>2. Range(highs) = {highs[d] : d \in DOMAIN highs} BY DEF Range
  <2>3. r = Nearest(E, Highest(highs), price, atr, listed)
    BY <1>4, <2>2 DEF daily_pivot_cluster_v1, Highs, Highest
  <2>4. ZoneSet(Z, highs) /\ \A c, d \in DOMAIN highs : Shared(highs, c, d) => \E z \in Z : highs[d] \in z
    BY <1>1, <2>1, ZonesAre
  <2>5. PICK ath \in Nat : ath = Highest(highs) /\ \A d \in DOMAIN highs : highs[d] =< ath
    BY <1>1, <2>1, HighestIs
  <2>6. EligibleFacts(E, Z, highs, price, ath) BY <2>4, <2>5, EligibleIs
  <2>7. EligibleFacts(E, Z, highs, price, Highest(highs)) BY <2>5, <2>6
  <2> QED BY <1>1, <2>1, <2>3, <2>4, <2>7, NearestIs
<1> QED BY <1>2, <1>3, <1>4

-----------------------------------------------------------------------------
(* The float and the catalyst.                                             *)

\* Of some keys one is not above another, and one not below.
LEMMA LexExtremes ==
  ASSUME NEW I, IsFiniteSet(I), I # {}, NEW L \in Nat, NEW key \in [I -> Key(L)]
  PROVE  /\ \E i \in I : \A j \in I : ~ LexLess(key[j], key[i])
         /\ \E i \in I : \A j \in I : ~ LexLess(key[i], key[j])
<1> DEFINE R == {p \in I \X I : LexLess(key[p[1]], key[p[2]])}
           Q == {p \in I \X I : LexLess(key[p[2]], key[p[1]])}
<1>1. \A i, j, k \in I :
        /\ ~ LexLess(key[i], key[i])
        /\ LexLess(key[i], key[j]) /\ LexLess(key[j], key[k]) => LexLess(key[i], key[k])
  <2> TAKE i, j, k \in I
  <2> PICK a, b, c : a = key[i] /\ b = key[j] /\ c = key[k] OBVIOUS
  <2>1. a \in Key(L) /\ b \in Key(L) /\ c \in Key(L) OBVIOUS
  <2> QED BY <2>1, LexOrder
<1>2. \A i, j \in I : <<i, j>> \in R <=> LexLess(key[i], key[j]) OBVIOUS
<1>3. \A i, j \in I : <<i, j>> \in Q <=> LexLess(key[j], key[i]) OBVIOUS
<1> HIDE DEF R, Q
<1>4. StrictOrder(I, R) BY <1>1, <1>2 DEF StrictOrder
<1>5. StrictOrder(I, Q) BY <1>1, <1>3 DEF StrictOrder
<1>6. PICK i \in I : \A j \in I : <<j, i>> \notin R BY <1>4, FirstExists
<1>7. PICK k \in I : \A j \in I : <<j, k>> \notin Q BY <1>5, FirstExists
<1> QED BY <1>2, <1>3, <1>6, <1>7

LEMMA FloatIs ==
  ASSUME NEW records \in Seq(FloatRecord), NEW now \in Nat,
         NEW r, r = select_float_record(records, now)
  PROVE  r \in Errors \/ (~ Failed(r) /\ r.shares \in Nat \ {0})
<1> PICK usable : usable = {i \in DOMAIN records : FloatUsable(records[i], now)} OBVIOUS
<1>1. CASE usable = {}
  <2>1. r = DataQualityError("FLOAT_DATA_UNAVAILABLE") BY <1>1 DEF select_float_record
  <2> QED BY <2>1, ErrorFailed DEF Codes
<1>2. CASE usable # {}
  <2> PICK latest : latest = {i \in usable : \A j \in usable :
                                ~ LexLess(FloatKey(records[i]), FloatKey(records[j]))} OBVIOUS
  <2> PICK key : key = [i \in usable |-> FloatKey(records[i])] OBVIOUS
  <2> PICK L \in Nat : L = 3 OBVIOUS
  <2>1. \A i \in DOMAIN records : records[i] \in FloatRecord OBVIOUS
  <2>2. key \in [usable -> Key(L)]
    <3>1. \A x \in FloatRecord : x.effective \in Int /\ x.observed \in Int /\ x.validated \in Int
      BY DEF FloatRecord
    <3>2. \A a, b, c \in Int : <<a, b, c>> \in Key(L) BY DEF Key
    <3>3. \A x \in FloatRecord : FloatKey(x) \in Key(L) BY <3>1, <3>2 DEF FloatKey
    <3> QED BY <2>1, <3>3
  <2>3. IsFiniteSet(usable) /\ usable \in SUBSET Nat BY DomainFinite, FS_Subset
  <2>4. \E i \in usable : \A j \in usable : ~ LexLess(key[i], key[j])
    BY <1>2, <2>2, <2>3, LexExtremes, ZenonT(60)
  <2>5. latest # {} BY <2>4
  <2>6. latest \in SUBSET Nat BY <2>3
  <2>7. Min(latest) \in latest BY <2>5, <2>6, LeastIs
  <2>8. r = records[Min(latest)] BY <1>2 DEF select_float_record
  <2>9. r \in FloatRecord BY <2>1, <2>7, <2>8
  <2> QED BY <2>9 DEF FloatRecord, Failed
<1> QED BY <1>1, <1>2

LEMMA CatalystIs ==
  ASSUME NEW records \in Seq(CatalystRecord), NEW now \in Nat,
         NEW r, r = select_catalyst(records, now)
  PROVE  \/ r \in Errors
         \/ ~ Failed(r) /\ r \in CatalystRecord /\ r \in Range(records) /\ r.time =< now
<1> PICK known : known = {c \in Range(records) : CatalystKnown(c, now)} OBVIOUS
<1>1. CASE known = {}
  <2>1. r = DataQualityError("CATALYST_DATA_UNAVAILABLE") BY <1>1 DEF select_catalyst
  <2> QED BY <2>1, ErrorFailed DEF Codes
<1>2. CASE known # {}
  <2>1. \A c \in Range(records) : c \in CatalystRecord BY DEF Range
  <2> PICK key : key = [c \in known |-> CatalystKey(c)] OBVIOUS
  <2> PICK L \in Nat : L = 4 OBVIOUS
  <2>2. key \in [known -> Key(L)]
    <3>1. \A x \in CatalystRecord :
            /\ x.source \in {"primary", "secondary", "unconfirmed"}
            /\ x.time \in Nat /\ x.id \in Nat
      BY DEF CatalystRecord
    <3>2. \A a, b, c, d \in Int : <<a, b, c, d>> \in Key(L) BY DEF Key
    <3>3. \A s \in {"primary", "secondary", "unconfirmed"} : Priority[s] \in Int BY DEF Priority
    <3>4. ASSUME NEW x \in CatalystRecord PROVE CatalystKey(x) \in Key(L)
      <4>1. PICK a, b, c, d : /\ a = Priority[x.source] /\ b = IF x.corroborated THEN 0 ELSE 1
                              /\ c = - x.time /\ d = x.id OBVIOUS
      <4>2. a \in Int BY <3>1, <3>3, <4>1
      <4>3. b \in Int BY <4>1
      <4>4. c \in Int /\ d \in Int BY <3>1, <4>1
      <4>5. <<a, b, c, d>> \in Key(L) BY <3>2, <4>2, <4>3, <4>4
      <4> QED BY <4>1, <4>5 DEF CatalystKey
    <3> QED BY <2>1, <3>4
  <2>3. IsFiniteSet(known)
    <3>1. IsFiniteSet(DOMAIN records) BY DomainFinite
    <3>2. IsFiniteSet({records[i] : i \in DOMAIN records}) BY <3>1, FiniteRange
    <3>3. known \in SUBSET {records[i] : i \in DOMAIN records} BY DEF Range
    <3> QED BY <3>2, <3>3, FS_Subset
  <2>4. \E i \in known : \A j \in known : ~ LexLess(key[j], key[i])
    BY <1>2, <2>2, <2>3, LexExtremes
  <2>5. \E i \in known : \A j \in known : ~ LexLess(CatalystKey(j), CatalystKey(i)) BY <2>4
  <2>6. PICK c : c = CHOOSE x \in known : \A d \in known : ~ LexLess(CatalystKey(d), CatalystKey(x))
    OBVIOUS
  <2>7. c \in known BY <2>5, <2>6
  <2>8. r = IF c.time > now THEN DataQualityError("FUTURE_CATALYST_TIMESTAMP") ELSE c
    BY <1>2, <2>6 DEF select_catalyst
  <2>9. c \in CatalystRecord /\ c \in Range(records) BY <2>1, <2>7
  <2>10. ~ Failed(c) /\ c.time \in Nat BY <2>9 DEF CatalystRecord, Failed
  <2>11. CASE c.time > now BY <2>8, <2>11, ErrorFailed DEF Codes
  <2>12. CASE ~ (c.time > now)
    <3>1. c.time =< now BY <2>10, <2>12
    <3>2. r = c BY <2>8, <2>12
    <3> QED BY <2>9, <2>10, <3>1, <3>2
  <2> QED BY <2>11, <2>12
<1> QED BY <1>1, <1>2

-----------------------------------------------------------------------------
(* The features of a candidate.                                            *)

\* What the payload's validators ask of a candidate, but for the length of the text.
FeatureRecord(f) ==
  /\ f.source \in {"primary", "secondary", "unconfirmed"}
  /\ f.text \in Nat \ {0} /\ f.age \in Nat
  /\ f.corroborated \in BOOLEAN /\ f.disqualified \in BOOLEAN /\ f.halted \in BOOLEAN
  /\ LiquidityMetrics(f) /\ TechnicalContext(f)

\* The features of s: its ticker, a text of its catalysts, and room that is not overstated.
FeaturesFor(f, s) ==
  /\ ~ Failed(f) /\ FeatureRecord(f) /\ f.ticker = s.ticker
  /\ \E c \in Range(s.catalysts) : f.text = c.text
  /\ RoomHolds(Highs(s.bars), f.price, wilder_atr_14(s.bars).value, s.listed, f)

LEMMA CandidateFields ==
  ASSUME NEW s \in CandidateSourceData
  PROVE  /\ s.ticker \in Nat /\ s.halted \in BOOLEAN /\ s.listed \in BOOLEAN
         /\ s.borrow \in {"easy", "hard_to_borrow", "unknown"} /\ s.close \in Nat \ {0}
         /\ s.events \in Seq(TradeLedgerEvent) /\ s.sessions \in Seq(PremarketSession)
         /\ s.bars \in Seq(DailyBar) /\ s.floats \in Seq(FloatRecord)
         /\ s.catalysts \in Seq(CatalystRecord)
  BY DEF CandidateSourceData

LEMMA JoinedIs ==
  ASSUME NEW ctx, NEW s, NEW trades, NEW price, NEW atr, NEW rvol, NEW room, NEW float, NEW catalyst,
         NEW f, f = Joined(ctx, s, trades, price, atr, rvol, room, float, catalyst),
         Failed(rvol) => rvol \in Errors, Failed(room) => room \in Errors,
         Failed(float) => float \in Errors, Failed(catalyst) => catalyst \in Errors
  PROVE  \/ f \in Errors
         \/ /\ f = FeaturesOf(ctx, s, trades, price, atr, rvol, room, float, catalyst)
            /\ ~ Failed(rvol) /\ ~ Failed(room) /\ ~ Failed(float) /\ ~ Failed(catalyst)
<1>1. CASE Failed(rvol) BY <1>1 DEF Joined
<1>2. CASE ~ Failed(rvol) /\ Failed(room) BY <1>2 DEF Joined
<1>3. CASE ~ Failed(rvol) /\ ~ Failed(room) /\ Failed(float) BY <1>3 DEF Joined
<1>4. CASE ~ Failed(rvol) /\ ~ Failed(room) /\ ~ Failed(float) /\ Failed(catalyst)
  BY <1>4 DEF Joined
<1>5. CASE ~ Failed(rvol) /\ ~ Failed(room) /\ ~ Failed(float) /\ ~ Failed(catalyst)
  BY <1>5 DEF Joined
<1> QED BY <1>1, <1>2, <1>3, <1>4, <1>5

\* The parts, put together.
LEMMA FeaturesOfIs ==
  ASSUME NEW ctx \in FeatureContext, NEW s \in CandidateSourceData, NEW T, Trades(T),
         NEW price, price = current_price(T), NEW atr \in Nat \ {0}, NEW rvol \in Values,
         NEW room, RoomShape(room), RoomHolds(Highs(s.bars), price, atr, s.listed, room),
         NEW float, float.shares \in Nat \ {0},
         NEW catalyst \in CatalystRecord, catalyst \in Range(s.catalysts), catalyst.time =< ctx.now,
         atr = wilder_atr_14(s.bars).value,
         NEW f, f = FeaturesOf(ctx, s, T, price, atr, rvol, room, float, catalyst)
  PROVE  FeaturesFor(f, s)
<1>0. Unit \in Nat \ {0} /\ HourLength \in Nat \ {0} BY ReplayAssumption, FeatureAssumption
<1>1. /\ s.ticker \in Nat /\ s.halted \in BOOLEAN /\ s.close \in Nat \ {0}
      /\ s.borrow \in {"easy", "hard_to_borrow", "unknown"}
  BY CandidateFields
<1>2. PICK low, gap, volume, vwap, profile, age :
        /\ low = premarket_low(T) /\ gap = gap_pct(price, s.close) /\ volume = premarket_volume(T)
        /\ vwap = distance_from_vwap_atr(price, premarket_vwap(T), atr)
        /\ profile = volume_profile(T, ctx.now)
        /\ age = quantize((ctx.now - catalyst.time) * Unit, HourLength)
  OBVIOUS
<1>3. f = [ticker |-> s.ticker, halted |-> s.halted, price |-> price, low |-> low,
           gap |-> gap, volume |-> volume, rvol |-> rvol.value, vwap |-> vwap,
           profile |-> profile, float |-> float.shares, borrow |-> s.borrow,
           distance |-> room.distance, chart |-> room.chart,
           text |-> catalyst.text, source |-> catalyst.source,
           corroborated |-> catalyst.corroborated,
           disqualified |-> catalyst.disqualified, age |-> age]
  BY <1>2 DEF FeaturesOf
<1>4. /\ volume \in Nat /\ premarket_vwap(T) \in Int /\ price \in Nat \ {0} /\ low \in 1 .. price
  BY <1>2, TradeNumbers
<1>5. gap \in Int
  <2>1. PICK n \in Int : n = (price - s.close) * 100 * Unit
    <3>1. price - s.close \in Int BY <1>1, <1>4
    <3>2. (price - s.close) * 100 \in Int BY <3>1
    <3>3. (price - s.close) * 100 * Unit \in Int BY <1>0, <3>2
    <3> QED BY <3>3
  <2>2. quantize(n, s.close) \in Int BY <1>1, QuantizeType
  <2> QED BY <1>2, <2>1, <2>2 DEF gap_pct
<1>6. vwap \in Int
  <2>1. PICK n \in Int : n = (price - premarket_vwap(T)) * Unit
    <3>1. price - premarket_vwap(T) \in Int BY <1>4
    <3> QED BY <1>0, <3>1
  <2>2. quantize(n, atr) \in Int BY QuantizeType
  <2> QED BY <1>2, <2>1, <2>2 DEF distance_from_vwap_atr
<1>7. profile \in {"clean", "spiky"} BY <1>2 DEF volume_profile
<1>8. age \in Nat
  <2>1. ctx.now \in Nat /\ catalyst.time \in Nat BY ContextFields DEF CatalystRecord
  <2>2. PICK d \in Nat : d = ctx.now - catalyst.time BY <2>1
  <2>3. PICK n \in Nat : n = d * Unit BY <1>0
  <2>4. n \in Int /\ n >= 0 OBVIOUS
  <2>5. quantize(n, HourLength) \in Nat BY <1>0, <2>4, QuantizeType
  <2> QED BY <1>2, <2>2, <2>3, <2>5
<1>9. rvol.value \in Nat BY ValuesNotFailed
<1>10. /\ catalyst.source \in {"primary", "secondary", "unconfirmed"}
       /\ catalyst.text \in Nat \ {0}
       /\ catalyst.corroborated \in BOOLEAN /\ catalyst.disqualified \in BOOLEAN
  BY DEF CatalystRecord
<1>11. LiquidityMetrics(f)
  <2>1. /\ f.gap = gap /\ f.volume = volume /\ f.rvol = rvol.value /\ f.float = float.shares
        /\ f.profile = profile /\ f.borrow = s.borrow
    BY <1>3
  <2> QED BY <1>1, <1>4, <1>5, <1>7, <1>9, <2>1 DEF LiquidityMetrics
<1>a. f.distance = room.distance /\ f.chart = room.chart /\ f.price = price BY <1>3
<1>12. TechnicalContext(f)
  <2>1. f.vwap = vwap /\ f.low = low BY <1>3
  <2> QED BY <1>4, <1>6, <1>a, <2>1 DEF TechnicalContext, RoomShape
<1>13. /\ f.source = catalyst.source /\ f.text = catalyst.text /\ f.age = age
       /\ f.corroborated = catalyst.corroborated /\ f.disqualified = catalyst.disqualified
       /\ f.halted = s.halted /\ f.ticker = s.ticker
  BY <1>3
<1>14. FeatureRecord(f)
  <2>1. f.corroborated \in BOOLEAN /\ f.disqualified \in BOOLEAN /\ f.halted \in BOOLEAN
    BY <1>1, <1>10, <1>13
  <2>2. f.source \in {"primary", "secondary", "unconfirmed"} /\ f.text \in Nat \ {0} /\ f.age \in Nat
    BY <1>8, <1>10, <1>13
  <2> QED BY <1>11, <1>12, <2>1, <2>2 DEF FeatureRecord
<1>15. ~ Failed(f) BY <1>3 DEF Failed
<1>16. RoomHolds(Highs(s.bars), f.price, wilder_atr_14(s.bars).value, s.listed, f)
  BY <1>a DEF RoomHolds
<1>17. \E c \in Range(s.catalysts) : f.text = c.text BY <1>13
<1> QED BY <1>13, <1>14, <1>15, <1>16, <1>17 DEF FeaturesFor

\* A candidate gets features the payload takes, or the error of the first part that failed.
LEMMA CalculateIs ==
  ASSUME NEW ctx \in FeatureContext, NEW s \in CandidateSourceData,
         NEW f, f = _calculate_candidate(ctx, s)
  PROVE  f \in Errors \/ FeaturesFor(f, s)
<1>0. /\ s.events \in Seq(TradeLedgerEvent) /\ s.sessions \in Seq(PremarketSession)
      /\ s.bars \in Seq(DailyBar) /\ s.floats \in Seq(FloatRecord)
      /\ s.catalysts \in Seq(CatalystRecord) /\ s.listed \in BOOLEAN /\ ctx.now \in Nat
  BY CandidateFields, ContextFields
<1>1. PICK ledger : ledger = materialize_trades(s.events) OBVIOUS
<1>2. CASE Failed(ledger)
  <2>1. ledger \in Errors BY <1>0, <1>1, <1>2, MaterializeType
  <2>2. f = ledger BY <1>1, <1>2 DEF _calculate_candidate, FromLedger
  <2> QED BY <2>1, <2>2
<1>3. CASE ~ Failed(ledger)
  <2>1. PICK T : T = current_session_trades(ledger, ctx.now) OBVIOUS
  <2>2. PICK price : price = current_price(T) OBVIOUS
  <2>3. PICK atr : atr = wilder_atr_14(s.bars) OBVIOUS
  <2>4. f = FromTrades(ctx, s, T, price, atr)
    BY <1>1, <1>3, <2>1, <2>2, <2>3 DEF _calculate_candidate, FromLedger
  <2>5. T \in SUBSET ledger.active BY <2>1 DEF current_session_trades
  <2>6. T # {} => Trades(T) BY <1>0, <1>1, <1>3, <2>5, WindowTrades
  <2>7. atr \in Errors \union Values BY <1>0, <2>3, AtrType
  <2>8. CASE T = {}
    <3>1. f = DataQualityError("NO_ELIGIBLE_PREMARKET_TRADES") BY <2>4, <2>8 DEF FromTrades
    <3> QED BY <3>1, ErrorFailed DEF Codes
  <2>9. CASE T # {} /\ Failed(atr)
    <3>1. f = atr BY <2>4, <2>9 DEF FromTrades
    <3>2. atr \notin Values BY <2>9, ValuesNotFailed
    <3> QED BY <2>7, <3>1, <3>2
  <2>10. CASE T # {} /\ ~ Failed(atr)
    <3>1. atr \in Values BY <2>7, <2>10, ErrorFailed
    <3>2. PICK a \in Nat : a = atr.value BY <3>1, ValuesNotFailed
    <3>3. PICK volume \in Nat : volume = premarket_volume(T) BY <2>6, <2>10, TradeNumbers
    <3>4. price \in Nat BY <2>2, <2>6, <2>10, TradeNumbers
    <3>5. PICK rvol, room, float, catalyst :
            /\ rvol = rvol_time_matched(volume, s.sessions, ctx.now)
            /\ room = daily_pivot_cluster_v1(s.bars, price, a, s.listed)
            /\ float = select_float_record(s.floats, ctx.now)
            /\ catalyst = select_catalyst(s.catalysts, ctx.now)
      OBVIOUS
    <3>6. f = Joined(ctx, s, T, price, a, rvol, room, float, catalyst)
      BY <2>4, <2>10, <3>2, <3>3, <3>5 DEF FromTrades
    <3>7. rvol \in Errors \union Values BY <1>0, <3>5, RvolType
    <3>8. \/ room \in Errors
          \/ a \in Nat \ {0} /\ RoomShape(room) /\ RoomHolds(Highs(s.bars), price, a, s.listed, room)
      BY <1>0, <3>4, <3>5, RoomIs
    <3>9. float \in Errors \/ (~ Failed(float) /\ float.shares \in Nat \ {0})
      BY <1>0, <3>5, FloatIs
    <3>10. \/ catalyst \in Errors
           \/ /\ ~ Failed(catalyst) /\ catalyst \in CatalystRecord
              /\ catalyst \in Range(s.catalysts) /\ catalyst.time =< ctx.now
      BY <1>0, <3>5, CatalystIs
    <3>11. /\ Failed(rvol) => rvol \in Errors
           /\ Failed(room) => room \in Errors
           /\ Failed(float) => float \in Errors
           /\ Failed(catalyst) => catalyst \in Errors
      BY <3>7, <3>8, <3>9, <3>10, ValuesNotFailed DEF RoomShape
    <3>12. \/ f \in Errors
           \/ /\ f = FeaturesOf(ctx, s, T, price, a, rvol, room, float, catalyst)
              /\ ~ Failed(rvol) /\ ~ Failed(room) /\ ~ Failed(float) /\ ~ Failed(catalyst)
      BY <3>6, <3>11, JoinedIs
    <3>13. CASE f \notin Errors
      <4>1. /\ f = FeaturesOf(ctx, s, T, price, a, rvol, room, float, catalyst)
            /\ ~ Failed(rvol) /\ ~ Failed(room) /\ ~ Failed(float) /\ ~ Failed(catalyst)
        BY <3>12, <3>13
      <4>2. rvol \in Values /\ room \notin Errors /\ float \notin Errors /\ catalyst \notin Errors
        BY <3>7, <4>1, ErrorFailed
      <4>3. /\ a \in Nat \ {0} /\ RoomShape(room)
            /\ RoomHolds(Highs(s.bars), price, a, s.listed, room)
        BY <3>8, <4>2
      <4>4. float.shares \in Nat \ {0} BY <3>9, <4>2
      <4>5. catalyst \in CatalystRecord /\ catalyst \in Range(s.catalysts) /\ catalyst.time =< ctx.now
        BY <3>10, <4>2
      <4>6. a = wilder_atr_14(s.bars).value BY <2>3, <3>2
      <4>7. Trades(T) BY <2>6, <2>10
      <4>8. FeaturesFor(f, s)
        BY <2>2, <4>1, <4>2, <4>3, <4>4, <4>5, <4>6, <4>7, FeaturesOfIs
      <4> QED BY <4>8
    <3> QED BY <3>13
  <2> QED BY <2>8, <2>9, <2>10
<1> QED BY <1>2, <1>3

-----------------------------------------------------------------------------
(* The gates of prequalification.                                          *)

\* No reason against these features.
Passes(f, freshness) ==
  /\ ~ f.halted /\ ~ (f.gap < 4 * Unit) /\ ~ (f.volume < 500) /\ ~ (f.rvol < 5 * Unit)
  /\ ~ (f.distance < Unit) /\ f.chart # "capped" /\ f.source # "unconfirmed"
  /\ ~ f.disqualified /\ ~ (f.age > freshness)

\* A filter that keeps nothing had nothing to keep.
LEMMA NothingKept ==
  ASSUME NEW S, NEW s \in Seq(S), NEW I \in SUBSET DOMAIN s, Kept(s, I) = <<>>
  PROVE  I = {}
<1> PICK k : k = Kept(s, I) OBVIOUS
<1>1. PICK f : Lists(k, s, I, f) BY KeptIs
<1>2. Len(k) = Cardinality(I) BY <1>1 DEF Lists
<1>3. Len(k) = 0 OBVIOUS
<1>4. IsFiniteSet(I) BY DomainFinite, FS_Subset
<1> QED BY <1>2, <1>3, <1>4, FS_EmptySet

\* What a filter keeps, it was to keep.
LEMMA OnlyKept ==
  ASSUME NEW S, NEW s \in Seq(S), NEW I \in SUBSET DOMAIN s, NEW x \in Range(Kept(s, I))
  PROVE  \E i \in I : x = s[i]
<1> PICK k : k = Kept(s, I) OBVIOUS
<1>1. PICK f : Lists(k, s, I, f) BY KeptIs
<1>2. PICK n \in DOMAIN k : x = k[n] BY DEF Range
<1>3. n \in 1 .. Cardinality(I) /\ f[n] \in I /\ k[n] = s[f[n]] BY <1>1, <1>2 DEF Lists
<1> QED BY <1>2, <1>3

LEMMA NoReasonPasses ==
  ASSUME NEW f, NEW freshness, prequalify(f, freshness) = <<>>
  PROVE  Passes(f, freshness)
<1> PICK a, b, c, d, e, g, h, k, l :
      /\ a = f.halted /\ b = (f.gap < 4 * Unit) /\ c = (f.volume < 500) /\ d = (f.rvol < 5 * Unit)
      /\ e = (f.distance < Unit) /\ g = (f.chart = "capped") /\ h = (f.source = "unconfirmed")
      /\ k = f.disqualified /\ l = Stale(f, freshness)
  OBVIOUS
<1> PICK fails : fails =
      [HALTED |-> a, GAP_TOO_SMALL |-> b, PREMARKET_VOLUME_TOO_LOW |-> c, RVOL_TOO_LOW |-> d,
       RESISTANCE_TOO_CLOSE |-> e, CAPPED_CHART |-> g, UNCONFIRMED_SOURCE |-> h,
       DISQUALIFYING_CATALYST |-> k, STALE_CATALYST |-> l]
  BY ZenonT(60)
<1> PICK I : I = {i \in DOMAIN REASONS : fails[REASONS[i]]} OBVIOUS
<1>1. prequalify(f, freshness) = Kept(REASONS, I) BY DEF prequalify
<1>2. REASONS \in Seq({"HALTED", "GAP_TOO_SMALL", "PREMARKET_VOLUME_TOO_LOW", "RVOL_TOO_LOW",
             "RESISTANCE_TOO_CLOSE", "CAPPED_CHART", "UNCONFIRMED_SOURCE",
             "DISQUALIFYING_CATALYST", "STALE_CATALYST"})
  BY DEF REASONS
<1>3. I \in SUBSET DOMAIN REASONS OBVIOUS
<1>4. I = {} BY <1>1, <1>2, <1>3, NothingKept
<1>5. \A i \in DOMAIN REASONS : ~ fails[REASONS[i]] BY <1>4
<1>6. /\ ~ fails["HALTED"] /\ ~ fails["GAP_TOO_SMALL"] /\ ~ fails["PREMARKET_VOLUME_TOO_LOW"]
      /\ ~ fails["RVOL_TOO_LOW"] /\ ~ fails["RESISTANCE_TOO_CLOSE"] /\ ~ fails["CAPPED_CHART"]
      /\ ~ fails["UNCONFIRMED_SOURCE"] /\ ~ fails["DISQUALIFYING_CATALYST"]
      /\ ~ fails["STALE_CATALYST"]
  <2>1. /\ DOMAIN REASONS = 1 .. 9
        /\ REASONS[1] = "HALTED" /\ REASONS[2] = "GAP_TOO_SMALL"
        /\ REASONS[3] = "PREMARKET_VOLUME_TOO_LOW" /\ REASONS[4] = "RVOL_TOO_LOW"
        /\ REASONS[5] = "RESISTANCE_TOO_CLOSE" /\ REASONS[6] = "CAPPED_CHART"
        /\ REASONS[7] = "UNCONFIRMED_SOURCE" /\ REASONS[8] = "DISQUALIFYING_CATALYST"
        /\ REASONS[9] = "STALE_CATALYST"
    BY DEF REASONS
  <2>2. 1 \in 1 .. 9 /\ 2 \in 1 .. 9 /\ 3 \in 1 .. 9 /\ 4 \in 1 .. 9 /\ 5 \in 1 .. 9 /\ 6 \in 1 .. 9
        /\ 7 \in 1 .. 9 /\ 8 \in 1 .. 9 /\ 9 \in 1 .. 9
    OBVIOUS
  <2> QED BY <1>5, <2>1, <2>2
<1>7. ~ a /\ ~ b /\ ~ c /\ ~ d /\ ~ e /\ ~ g /\ ~ h /\ ~ k /\ ~ l BY <1>6
<1> QED BY <1>7 DEF Passes, Stale

\* The gates of the contract, but for those on the catalyst, ask no more.
LEMMA PassesGates ==
  ASSUME NEW p, NEW e, Passes(e, p.freshness), NEW raw
  PROVE  /\ expected_zero_reason(p, e, "major_concrete") = None
         /\ Range(expected_failed_gates(e, raw)) \subseteq
              {"CATALYST_SCORE_TOO_LOW", "UNCORROBORATED_CATALYST"}
<1>1. expected_zero_reason(p, e, "major_concrete") = None
  <2>1. ~ e.disqualified /\ ~ (e.source = "unconfirmed") /\ ~ (e.age > p.freshness) BY DEF Passes
  <2> QED BY <2>1 DEF expected_zero_reason
<1>2. ASSUME NEW x \in Range(expected_failed_gates(e, raw))
      PROVE  x \in {"CATALYST_SCORE_TOO_LOW", "UNCORROBORATED_CATALYST"}
  <2> PICK a, b, c, d, f, g, h, k :
        /\ a = e.halted /\ b = (raw < 7) /\ c = (~e.corroborated /\ raw < 9)
        /\ d = (e.gap < 4 * Unit) /\ f = (e.volume < 500) /\ g = (e.rvol < 5 * Unit)
        /\ h = (e.distance < Unit) /\ k = (e.chart = "capped")
    OBVIOUS
  <2> PICK fails : fails =
        [HALTED |-> a, CATALYST_SCORE_TOO_LOW |-> b, UNCORROBORATED_CATALYST |-> c,
         GAP_TOO_SMALL |-> d, PREMARKET_VOLUME_TOO_LOW |-> f, RVOL_TOO_LOW |-> g,
         RESISTANCE_TOO_CLOSE |-> h, CAPPED_CHART |-> k]
    BY ZenonT(60)
  <2> PICK I : I = {i \in DOMAIN GATES : fails[GATES[i]]} OBVIOUS
  <2>1. expected_failed_gates(e, raw) = Kept(GATES, I) BY DEF expected_failed_gates
  <2>2. GATES \in Seq({"HALTED", "CATALYST_SCORE_TOO_LOW", "UNCORROBORATED_CATALYST",
                       "GAP_TOO_SMALL", "PREMARKET_VOLUME_TOO_LOW", "RVOL_TOO_LOW",
                       "RESISTANCE_TOO_CLOSE", "CAPPED_CHART"})
    BY DEF GATES
  <2>3. I \in SUBSET DOMAIN GATES OBVIOUS
  <2>4. PICK i \in I : x = GATES[i] BY <1>2, <2>1, <2>2, <2>3, OnlyKept
  <2>5. fails[x] BY <2>4
  <2>6. ~ a /\ ~ d /\ ~ f /\ ~ g /\ ~ h /\ ~ k BY DEF Passes
  <2>7. /\ ~ fails["HALTED"] /\ ~ fails["GAP_TOO_SMALL"] /\ ~ fails["PREMARKET_VOLUME_TOO_LOW"]
        /\ ~ fails["RVOL_TOO_LOW"] /\ ~ fails["RESISTANCE_TOO_CLOSE"] /\ ~ fails["CAPPED_CHART"]
    BY <2>6
  <2>8. x \in {"HALTED", "CATALYST_SCORE_TOO_LOW", "UNCORROBORATED_CATALYST",
               "GAP_TOO_SMALL", "PREMARKET_VOLUME_TOO_LOW", "RVOL_TOO_LOW",
               "RESISTANCE_TOO_CLOSE", "CAPPED_CHART"}
    BY <2>2, <2>3, <2>4
  <2> QED BY <2>5, <2>7, <2>8
<1> QED BY <1>1, <1>2

-----------------------------------------------------------------------------
(* The decisions and the ranking.                                          *)

\* Decision d is about the candidate s.
Decided(d, s, ctx) ==
  /\ d.ticker = s.ticker
  /\ d.accepted <=> d.reasons = <<>>
  /\ d.accepted => FeaturesFor(d.features, s) /\ Passes(d.features, ctx.freshness)

LEMMA DecideIs ==
  ASSUME NEW ctx \in FeatureContext, NEW s \in CandidateSourceData,
         NEW d, d = Decide(_calculate_candidate(ctx, s), s.ticker, ctx.freshness)
  PROVE  Decided(d, s, ctx)
<1>1. PICK f : f = _calculate_candidate(ctx, s) OBVIOUS
<1>2. f \in Errors \/ FeaturesFor(f, s) BY <1>1, CalculateIs
<1>3. PICK reasons : reasons = IF Failed(f) THEN <<f.error>> ELSE prequalify(f, ctx.freshness) OBVIOUS
<1>a. PICK ok : ok = (reasons = <<>>) OBVIOUS
<1>4. d = [ticker |-> s.ticker, features |-> f, accepted |-> ok, reasons |-> reasons]
  BY <1>1, <1>3, <1>a DEF Decide
<1>5. d.ticker = s.ticker /\ d.features = f /\ d.reasons = reasons /\ d.accepted = ok BY <1>4
<1>6. d.accepted <=> d.reasons = <<>> BY <1>5, <1>a
<1>7. ASSUME reasons = <<>> PROVE FeaturesFor(f, s) /\ Passes(f, ctx.freshness)
  <2>1. ~ Failed(f)
    <3>1. ASSUME Failed(f) PROVE FALSE
      <4>1. reasons = <<f.error>> BY <1>3, <3>1
      <4>2. Len(<<f.error>>) = 1 /\ Len(<<>>) = 0 OBVIOUS
      <4> QED BY <1>7, <4>1, <4>2
    <3> QED BY <3>1
  <2>2. FeaturesFor(f, s) BY <1>2, <2>1, ErrorFailed
  <2>3. prequalify(f, ctx.freshness) = <<>> BY <1>3, <1>7, <2>1
  <2> QED BY <2>2, <2>3, NoReasonPasses
<1> QED BY <1>5, <1>6, <1>7 DEF Decided

\* The decisions: one for each candidate, each a ticker of its own.
DecisionsOf(D, ctx) ==
  /\ D \in Seq(Range(D)) /\ DOMAIN D = DOMAIN ctx.candidates /\ Len(D) = Len(ctx.candidates)
  /\ \A i \in DOMAIN D : \E s \in Range(ctx.candidates) :
       s \in CandidateSourceData /\ Decided(D[i], s, ctx)
  /\ \A s \in Range(ctx.candidates) : \E i \in DOMAIN D : D[i].ticker = s.ticker
  /\ \A i, j \in DOMAIN D : D[i].ticker = D[j].ticker => i = j

LEMMA DecisionsAre ==
  ASSUME NEW ctx \in FeatureContext
  PROVE  DecisionsOf(Decisions(ctx, ByTicker(ctx.candidates)), ctx)
<1>C. PICK C : C = ctx.candidates OBVIOUS
<1>1. C \in Seq(CandidateSourceData) /\ DistinctTickers(C) BY <1>C, ContextFields
<1>2. \A i \in DOMAIN C : C[i] \in CandidateSourceData /\ C[i].ticker \in Nat
  <2>1. \A i \in DOMAIN C : C[i] \in CandidateSourceData BY <1>1
  <2> QED BY <2>1, CandidateFields
<1>S. PICK S : S = ByTicker(C) OBVIOUS
<1>3. /\ S \in Seq(CandidateSourceData) /\ Len(S) = Len(C) /\ DOMAIN S = DOMAIN C
      /\ \E f : Lists(S, C, DOMAIN C, f)
  <2>k. PICK key : key = [i \in DOMAIN C |-> <<C[i].ticker>>] OBVIOUS
  <2> PICK L \in Nat : L = 1 OBVIOUS
  <2>1. key \in [DOMAIN C -> Key(L)]
    <3>1. \A d \in Nat : <<d>> \in Key(L) BY DEF Key
    <3> QED BY <1>2, <2>k, <3>1
  <2>2. /\ SortedBy(C, key) \in Seq(CandidateSourceData) /\ Len(SortedBy(C, key)) = Len(C)
        /\ DOMAIN SortedBy(C, key) = DOMAIN C
    BY <1>1, <2>1, SortedIs
  <2>3. \E f : Lists(SortedBy(C, key), C, DOMAIN C, f) BY <1>1, <2>1, SortedList
  <2>4. S = SortedBy(C, key) BY <1>S, <2>k DEF ByTicker
  <2> QED BY <2>2, <2>3, <2>4
<1>4. PICK f : Lists(S, C, DOMAIN C, f) BY <1>3
<1>5. DOMAIN C = 1 .. Len(C) /\ Len(C) \in Nat /\ Cardinality(DOMAIN C) = Len(C) BY <1>1, DomainFinite
<1>6. /\ \A n \in DOMAIN C : f[n] \in DOMAIN C /\ S[n] = C[f[n]]
      /\ \A i \in DOMAIN C : \E n \in DOMAIN C : f[n] = i
      /\ \A m, n \in DOMAIN C : f[m] = f[n] => m = n
  BY <1>4, <1>5 DEF Lists
<1>D. PICK D : D = Decisions(ctx, S) OBVIOUS
<1>7. /\ DOMAIN D = DOMAIN C
      /\ \A i \in DOMAIN C : D[i] = Decide(_calculate_candidate(ctx, S[i]), S[i].ticker, ctx.freshness)
  BY <1>3, <1>D DEF Decisions
<1>8. \A i \in DOMAIN C : S[i] \in CandidateSourceData /\ S[i] \in Range(C)
  <2> TAKE i \in DOMAIN C
  <2>1. PICK j \in DOMAIN C : j = f[i] /\ S[i] = C[j] BY <1>6
  <2>2. C[j] \in Range(C) BY DEF Range
  <2> QED BY <1>2, <2>1, <2>2
<1>9. \A i \in DOMAIN C : Decided(D[i], S[i], ctx) BY <1>7, <1>8, DecideIs
<1>10. \A i \in DOMAIN C : D[i].ticker = S[i].ticker BY <1>9 DEF Decided
<1>11. D \in Seq(Range(D)) /\ Len(D) = Len(C)
  <2>1. D = [i \in 1 .. Len(C) |-> D[i]] BY <1>5, <1>7, <1>3, <1>D DEF Decisions
  <2>2. \A i \in 1 .. Len(C) : D[i] \in Range(D) BY <1>5, <1>7 DEF Range
  <2>3. D \in [1 .. Len(C) -> Range(D)] BY <2>1, <2>2
  <2> QED BY <1>5, <2>3
<1>12. \A i \in DOMAIN D : \E s \in Range(C) : s \in CandidateSourceData /\ Decided(D[i], s, ctx)
  BY <1>7, <1>8, <1>9
<1>13. \A s \in Range(C) : \E i \in DOMAIN D : D[i].ticker = s.ticker
  <2> TAKE s \in Range(C)
  <2>1. PICK j \in DOMAIN C : s = C[j] BY DEF Range
  <2>2. PICK i \in DOMAIN C : f[i] = j BY <1>6
  <2>3. S[i] = s BY <1>6, <2>1, <2>2
  <2>4. D[i].ticker = s.ticker BY <1>10, <2>3
  <2> QED BY <1>7, <2>4
<1>14. \A i, j \in DOMAIN D : D[i].ticker = D[j].ticker => i = j
  <2> TAKE i, j \in DOMAIN D
  <2> HAVE D[i].ticker = D[j].ticker
  <2>1. i \in DOMAIN C /\ j \in DOMAIN C BY <1>7
  <2>d. PICK k \in DOMAIN C : k = f[i] /\ S[i] = C[k] BY <1>6, <2>1, ZenonT(60)
  <2>e. PICK l \in DOMAIN C : l = f[j] /\ S[j] = C[l] BY <1>6, <2>1, ZenonT(60)
  <2>2. k = f[i] /\ l = f[j] /\ S[i] = C[k] /\ S[j] = C[l] BY <2>d, <2>e
  <2>a. D[i].ticker = C[k].ticker /\ D[j].ticker = C[l].ticker BY <1>10, <2>1, <2>2
  <2>b. C[k].ticker = C[l].ticker BY <2>a
  <2>c. k = l BY <1>1, <2>b DEF DistinctTickers
  <2>3. f[i] = f[j] BY <2>2, <2>c
  <2> QED BY <1>6, <2>1, <2>3
<1>15. DecisionsOf(D, ctx) BY <1>C, <1>7, <1>11, <1>12, <1>13, <1>14 DEF DecisionsOf
<1> QED BY <1>C, <1>S, <1>D, <1>15

Accepted(D) == {i \in DOMAIN D : D[i].accepted}

\* R ranks the features of the accepted decisions, by the injection g.
Ranks(R, D, g) ==
  /\ R \in Seq(Range(R)) /\ Len(R) = Cardinality(Accepted(D)) /\ Len(R) \in Nat
  /\ \A n \in 1 .. Len(R) : g[n] \in Accepted(D) /\ R[n] = D[g[n]].features
  /\ \A i \in Accepted(D) : \E n \in 1 .. Len(R) : g[n] = i
  /\ \A m, n \in 1 .. Len(R) : g[m] = g[n] => m = n

Ranking(D) ==
  LET passed == Kept(D, {i \in DOMAIN D : D[i].accepted})
  IN  ByCapacity([i \in DOMAIN passed |-> passed[i].features])

LEMMA KeyType ==
  ASSUME NEW f, FeatureRecord(f), f.ticker \in Nat, NEW L \in Nat, L = 8
  PROVE  capacity_sort_key(f) \in Key(L)
<1>1. /\ f.age \in Nat /\ f.rvol \in Nat /\ f.volume \in Nat /\ f.distance \in Nat
  BY DEF FeatureRecord, LiquidityMetrics, TechnicalContext
<1>2. PICK a, b, c, d, e, g, h, k :
        /\ a = IF f.source = "primary" THEN 0 ELSE 1
        /\ b = IF f.corroborated THEN 0 ELSE 1
        /\ c = IF f.profile = "clean" THEN 0 ELSE 1
        /\ d = f.age /\ e = - f.rvol /\ g = - f.volume /\ h = - f.distance /\ k = f.ticker
  OBVIOUS
<1>3. a \in Int /\ b \in Int /\ c \in Int BY <1>2
<1>4. d \in Int /\ e \in Int /\ g \in Int /\ h \in Int /\ k \in Int BY <1>1, <1>2
<1>5. capacity_sort_key(f) = <<a, b, c, d, e, g, h, k>> BY <1>2 DEF capacity_sort_key
<1>6. <<a, b, c, d, e, g, h, k>> \in [1 .. 8 -> Int] BY <1>3, <1>4
<1> QED BY <1>5, <1>6 DEF Key

LEMMA RankingIs ==
  ASSUME NEW ctx \in FeatureContext, NEW D, DecisionsOf(D, ctx)
  PROVE  \E g : Ranks(Ranking(D), D, g)
<1>I. PICK I : I = Accepted(D) OBVIOUS
<1>K. PICK K : K = Kept(D, I) OBVIOUS
<1>1. D \in Seq(Range(D)) /\ I \in SUBSET DOMAIN D BY <1>I DEF DecisionsOf, Accepted
<1>2. PICK f : Lists(K, D, I, f) BY <1>1, <1>K, KeptIs
<1>3. PICK N \in Nat : N = Cardinality(I) /\ DOMAIN K = 1 .. N
  BY <1>2 DEF Lists
<1>4. /\ \A n \in 1 .. N : f[n] \in I /\ K[n] = D[f[n]]
      /\ \A i \in I : \E n \in 1 .. N : f[n] = i
      /\ \A m, n \in 1 .. N : f[m] = f[n] => m = n
  BY <1>2, <1>3 DEF Lists
<1>F. PICK F : F = [i \in DOMAIN K |-> K[i].features] OBVIOUS
<1>T. PICK T : T = Range(F) OBVIOUS
<1>5. F \in Seq(T) /\ Len(F) = N /\ DOMAIN F = 1 .. N
  <2>1. F \in [1 .. N -> T] BY <1>3, <1>F, <1>T DEF Range
  <2> QED BY <2>1
<1>6. \A n \in 1 .. N : F[n] = D[f[n]].features /\ f[n] \in I BY <1>3, <1>4, <1>F
<1>7. \A i \in I : FeatureRecord(D[i].features) /\ D[i].features.ticker \in Nat
  <2> TAKE i \in I
  <2>1. i \in DOMAIN D /\ D[i].accepted BY <1>I DEF Accepted
  <2>2. PICK s \in CandidateSourceData : Decided(D[i], s, ctx) BY <2>1 DEF DecisionsOf
  <2>3. FeaturesFor(D[i].features, s) BY <2>1, <2>2 DEF Decided
  <2> QED BY <2>3, CandidateFields DEF FeaturesFor
<1>k. PICK key : key = [i \in DOMAIN F |-> capacity_sort_key(F[i])] OBVIOUS
<1>L. PICK L \in Nat : L = 8 OBVIOUS
<1>8. key \in [DOMAIN F -> Key(L)]
  <2>1. \A n \in 1 .. N : capacity_sort_key(F[n]) \in Key(L)
    <3> TAKE n \in 1 .. N
    <3>1. FeatureRecord(F[n]) /\ F[n].ticker \in Nat BY <1>6, <1>7
    <3> QED BY <1>L, <3>1, KeyType
  <2> QED BY <1>5, <1>k, <2>1
<1>R. PICK R : R = SortedBy(F, key) OBVIOUS
<1>9. R \in Seq(T) /\ Len(R) = Len(F) /\ DOMAIN R = DOMAIN F BY <1>5, <1>8, <1>R, SortedIs
<1>10. PICK b : Lists(R, F, DOMAIN F, b) BY <1>5, <1>8, <1>R, SortedList
<1>11. Cardinality(DOMAIN F) = N BY <1>5, Interval
<1>12. /\ \A n \in 1 .. N : b[n] \in 1 .. N /\ R[n] = F[b[n]]
       /\ \A i \in 1 .. N : \E n \in 1 .. N : b[n] = i
       /\ \A m, n \in 1 .. N : b[m] = b[n] => m = n
  <2>0. PICK J : J = DOMAIN F OBVIOUS
  <2>1. J = 1 .. N /\ Cardinality(J) = N BY <1>5, <1>11, <2>0
  <2>2. Lists(R, F, J, b) BY <1>10, <2>0
  <2>3. /\ b \in [1 .. N -> 1 .. N]
        /\ \A n \in 1 .. N : R[n] = F[b[n]]
        /\ \A i \in 1 .. N : \E n \in 1 .. N : b[n] = i
        /\ \A m, n \in 1 .. N : b[m] = b[n] => m = n
    BY <2>1, <2>2 DEF Lists
  <2> QED BY <2>3
<1>g. PICK g : g = [n \in 1 .. N |-> f[b[n]]] OBVIOUS
<1>13. Ranking(D) = R BY <1>I, <1>K, <1>F, <1>k, <1>R DEF Ranking, ByCapacity, Accepted
<1>14. \A n \in 1 .. N : g[n] \in I /\ R[n] = D[g[n]].features
  <2> TAKE n \in 1 .. N
  <2>1. PICK m \in 1 .. N : m = b[n] /\ R[n] = F[m] BY <1>12
  <2>2. g[n] = f[m] BY <1>g, <2>1
  <2> QED BY <1>6, <2>1, <2>2
<1>15. \A i \in I : \E n \in 1 .. N : g[n] = i
  <2> TAKE i \in I
  <2>1. PICK m \in 1 .. N : f[m] = i BY <1>4
  <2>2. PICK n \in 1 .. N : b[n] = m BY <1>12
  <2> QED BY <1>g, <2>1, <2>2
<1>16. \A m, n \in 1 .. N : g[m] = g[n] => m = n BY <1>4, <1>12, <1>g, ZenonT(60)
<1>17. R \in Seq(Range(R)) /\ Len(R) = N
  <2>1. DOMAIN R = 1 .. N /\ Len(R) = N BY <1>5, <1>9
  <2>2. \A n \in 1 .. N : R[n] \in Range(R) BY <2>1 DEF Range
  <2>3. R = [n \in 1 .. N |-> R[n]] BY <1>9, <2>1
  <2>4. R \in [1 .. N -> Range(R)] BY <2>2, <2>3
  <2> QED BY <2>1, <2>4
<1>18. Ranks(R, D, g)
  <2>1. Len(R) = Cardinality(Accepted(D)) /\ Len(R) \in Nat BY <1>3, <1>17, <1>I
  <2>2. \A n \in 1 .. Len(R) : g[n] \in Accepted(D) /\ R[n] = D[g[n]].features BY <1>14, <1>17, <1>I
  <2>3. \A i \in Accepted(D) : \E n \in 1 .. Len(R) : g[n] = i BY <1>15, <1>17, <1>I
  <2>4. \A m, n \in 1 .. Len(R) : g[m] = g[n] => m = n BY <1>16, <1>17
  <2> QED BY <1>17, <2>1, <2>2, <2>3, <2>4 DEF Ranks
<1> QED BY <1>13, <1>18

-----------------------------------------------------------------------------
(* The snapshot.                                                           *)

\* x is the snapshot of ctx, from the decisions D, the ranking R and the payload p, which
\* takes the first k of it.
BuildFacts(x, ctx, D, R, g, p, k) ==
  /\ DecisionsOf(D, ctx) /\ Ranks(R, D, g)
  /\ k \in Nat /\ k =< Capacity /\ k =< Len(R) /\ (k = Capacity \/ k = Len(R))
  /\ p.market = ctx.market /\ p.age = ctx.evaluation - ctx.now /\ p.freshness = ctx.freshness
  /\ Len(p.tickers) = k /\ DOMAIN p.tickers = 1 .. k
  /\ \A n \in 1 .. k : p.tickers[n] = R[n]
  /\ x = Snapshot(ctx, D, R, p)

LEMMA BuildIs ==
  ASSUME NEW ctx \in FeatureContext, NEW x, x = build_feature_snapshot(ctx)
  PROVE  \E D, R, g, p, k : BuildFacts(x, ctx, D, R, g, p, k)
<1>1. PICK D : D = Decisions(ctx, ByTicker(ctx.candidates)) OBVIOUS
<1>2. DecisionsOf(D, ctx) BY <1>1, DecisionsAre
<1>3. PICK R : R = Ranking(D) OBVIOUS
<1>4. PICK g : Ranks(R, D, g) BY <1>2, <1>3, RankingIs
<1>5. PICK p : p = Payload(ctx, R) BY SMTT(30)
<1>6. x = Snapshot(ctx, D, R, p)
  BY <1>1, <1>3, <1>5 DEF build_feature_snapshot, DecidedSnapshot, RankedSnapshot, Ranking
<1>7. Len(R) \in Nat /\ Capacity \in Nat /\ R \in Seq(Range(R)) BY <1>4, FeatureAssumption DEF Ranks
<1>8. PICK k : k = Min({Capacity, Len(R)}) OBVIOUS
<1>9. k \in Nat /\ k =< Capacity /\ k =< Len(R) /\ (k = Capacity \/ k = Len(R))
  <2>1. PICK S : S = {Capacity, Len(R)} OBVIOUS
  <2>2. S \in SUBSET Nat /\ S # {} BY <1>7, <2>1
  <2>3. Min(S) \in S /\ \A y \in S : Min(S) =< y BY <2>2, LeastIs
  <2> QED BY <1>7, <1>8, <2>1, <2>3
<1>10. p = [market |-> ctx.market, age |-> ctx.evaluation - ctx.now, freshness |-> ctx.freshness,
            tickers |-> SubSeq(R, 1, k)]
  BY <1>5, <1>8 DEF Payload
<1>11. /\ p.market = ctx.market /\ p.age = ctx.evaluation - ctx.now /\ p.freshness = ctx.freshness
       /\ p.tickers = SubSeq(R, 1, k)
  BY <1>10
<1>12. PICK t : t = SubSeq(R, 1, k) OBVIOUS
<1>13. Len(t) = k /\ DOMAIN t = 1 .. k /\ \A n \in 1 .. k : t[n] = R[n]
  <2>1. \A n \in 1 .. k : n \in 1 .. Len(R) BY <1>7, <1>9
  <2> QED BY <1>7, <1>9, <1>12, <2>1
<1>14. Len(p.tickers) = k /\ DOMAIN p.tickers = 1 .. k /\ \A n \in 1 .. k : p.tickers[n] = R[n]
  BY <1>11, <1>12, <1>13
<1>15. BuildFacts(x, ctx, D, R, g, p, k) BY <1>2, <1>4, <1>6, <1>9, <1>11, <1>14 DEF BuildFacts
<1> QED BY <1>15

\* Place n of the ranking.
Ranked(ctx, D, R, g, n) ==
  /\ g[n] \in DOMAIN D /\ D[g[n]].reasons = <<>> /\ R[n].ticker = D[g[n]].ticker
  /\ Passes(R[n], ctx.freshness)
  /\ \E s \in Range(ctx.candidates) : s \in CandidateSourceData /\ FeaturesFor(R[n], s)

LEMMA RankedIs ==
  ASSUME NEW x, NEW ctx \in FeatureContext, NEW D, NEW R, NEW g, NEW p, NEW k,
         BuildFacts(x, ctx, D, R, g, p, k), NEW n \in 1 .. Len(R)
  PROVE  Ranked(ctx, D, R, g, n)
<1>1. g[n] \in Accepted(D) /\ R[n] = D[g[n]].features BY DEF BuildFacts, Ranks
<1>2. g[n] \in DOMAIN D /\ D[g[n]].accepted BY <1>1 DEF Accepted
<1>3. PICK s \in Range(ctx.candidates) : s \in CandidateSourceData /\ Decided(D[g[n]], s, ctx)
  BY <1>2 DEF BuildFacts, DecisionsOf
<1>4. /\ D[g[n]].ticker = s.ticker /\ D[g[n]].reasons = <<>>
      /\ FeaturesFor(D[g[n]].features, s) /\ Passes(D[g[n]].features, ctx.freshness)
  BY <1>2, <1>3 DEF Decided
<1>5. R[n].ticker = s.ticker BY <1>1, <1>4 DEF FeaturesFor
<1> QED BY <1>1, <1>2, <1>3, <1>4, <1>5 DEF Ranked

\* Two candidates of the ranking have different tickers.
LEMMA RankedOnce ==
  ASSUME NEW x, NEW ctx \in FeatureContext, NEW D, NEW R, NEW g, NEW p, NEW k,
         BuildFacts(x, ctx, D, R, g, p, k), NEW m \in 1 .. Len(R), NEW n \in 1 .. Len(R),
         R[m].ticker = R[n].ticker
  PROVE  m = n
<1>0. Ranked(ctx, D, R, g, m) /\ Ranked(ctx, D, R, g, n) BY RankedIs
<1>1. g[m] \in DOMAIN D /\ R[m].ticker = D[g[m]].ticker BY <1>0 DEF Ranked
<1>2. g[n] \in DOMAIN D /\ R[n].ticker = D[g[n]].ticker BY <1>0 DEF Ranked
<1>3. PICK i, j : i = g[m] /\ j = g[n] OBVIOUS
<1>4. i \in DOMAIN D /\ j \in DOMAIN D /\ D[i].ticker = D[j].ticker BY <1>1, <1>2, <1>3
<1>5. i = j BY <1>4 DEF BuildFacts, DecisionsOf
<1> QED BY <1>3, <1>5 DEF BuildFacts, Ranks

\* What is sent is one of the first of the ranking.
Sent(R, k, e) == \E n \in 1 .. Len(R) : n \in 1 .. k /\ e = R[n]

LEMMA SentIs ==
  ASSUME NEW x, NEW ctx, NEW D, NEW R, NEW g, NEW p, NEW k,
         BuildFacts(x, ctx, D, R, g, p, k), NEW e \in Range(p.tickers)
  PROVE  Sent(R, k, e)
<1>1. k \in Nat /\ k =< Len(R) /\ Len(R) \in Nat BY DEF BuildFacts, Ranks
<1>2. DOMAIN p.tickers = 1 .. k /\ \A n \in 1 .. k : p.tickers[n] = R[n] BY DEF BuildFacts
<1>3. PICK n \in DOMAIN p.tickers : e = p.tickers[n] BY DEF Range
<1>4. n \in 1 .. k /\ e = R[n] BY <1>2, <1>3
<1>5. n \in 1 .. Len(R) BY <1>1, <1>4
<1> QED BY <1>4, <1>5 DEF Sent

\* A snapshot that was built has the payload of its decisions.
LEMMA BuiltIs ==
  ASSUME FeatureInv, Built
  PROVE  /\ context \in FeatureContext
         /\ \E D, R, g, p, k :
              /\ BuildFacts(snapshot, context, D, R, g, p, k)
              /\ snapshot.payload = p
              /\ snapshot.prequalification =
                   [i \in DOMAIN D |-> [ticker |-> D[i].ticker, reasons |-> D[i].reasons]]
              /\ snapshot.omissions =
                   [i \in 1 .. Len(R) - Len(p.tickers) |->
                      [ticker |-> R[Capacity + i].ticker, rank |-> omission_rank(i)]]
<1>1. context \in FeatureContext BY DEF FeatureInv
<1>2. snapshot.status = "built" BY DEF Built
<1>3. snapshot = build_feature_snapshot(context) BY <1>2 DEF FeatureInv, Nothing
<1>4. PICK D, R, g, p, k : BuildFacts(snapshot, context, D, R, g, p, k) BY <1>1, <1>3, BuildIs
<1>5. snapshot = Snapshot(context, D, R, p) BY <1>4 DEF BuildFacts
<1>6. snapshot # Invalid BY <1>2 DEF Invalid
<1>7. PICK q, o :
        /\ q = [i \in DOMAIN D |-> [ticker |-> D[i].ticker, reasons |-> D[i].reasons]]
        /\ o = [i \in 1 .. Len(R) - Len(p.tickers) |->
                  [ticker |-> R[Capacity + i].ticker, rank |-> omission_rank(i)]]
  OBVIOUS
<1>8. snapshot = [status |-> "built", context |-> context, payload |-> p,
                  prequalification |-> q, omissions |-> o]
  BY <1>5, <1>6, <1>7 DEF Snapshot
<1>9. snapshot.payload = p /\ snapshot.prequalification = q /\ snapshot.omissions = o BY <1>8
<1> QED BY <1>1, <1>4, <1>7, <1>9

\* What the evaluator is asked about can be approved: a candidate of the payload passed every
\* gate of prequalify, and those are the gates the answer will be checked with but for the
\* magnitude of the catalyst.
THEOREM PayloadCanBeApproved == FeatureSpec => []PayloadPassesGates
<1>1. FeatureInv => PayloadPassesGates
  <2> SUFFICES ASSUME FeatureInv, Built, NEW e \in Range(snapshot.payload.tickers)
               PROVE  /\ expected_zero_reason(snapshot.payload, e, "major_concrete") = None
                      /\ Range(expected_failed_gates(e, expected_source_quality(e))) \subseteq
                           {"CATALYST_SCORE_TOO_LOW", "UNCORROBORATED_CATALYST"}
    BY DEF PayloadPassesGates
  <2>1. PICK D, R, g, p, k : BuildFacts(snapshot, context, D, R, g, p, k) /\ snapshot.payload = p
    BY BuiltIs
  <2>2. PICK ctx \in FeatureContext : ctx = context BY DEF FeatureInv
  <2>3. PICK x : x = snapshot OBVIOUS
  <2>4. BuildFacts(x, ctx, D, R, g, p, k) BY <2>1, <2>2, <2>3
  <2>5. e \in Range(p.tickers) BY <2>1
  <2>a. Sent(R, k, e) BY <2>4, <2>5, SentIs
  <2>6. PICK n \in 1 .. Len(R) : e = R[n] BY <2>a DEF Sent
  <2>b. Ranked(ctx, D, R, g, n) BY <2>4, RankedIs
  <2>7. Passes(R[n], ctx.freshness) BY <2>b DEF Ranked
  <2>8. Passes(e, p.freshness) BY <2>4, <2>6, <2>7 DEF BuildFacts
  <2>9. /\ expected_zero_reason(p, e, "major_concrete") = None
        /\ Range(expected_failed_gates(e, expected_source_quality(e))) \subseteq
             {"CATALYST_SCORE_TOO_LOW", "UNCORROBORATED_CATALYST"}
    BY <2>8, PassesGates
  <2> QED BY <2>1, <2>9
<1> QED BY <1>1, FeatureInvariant, PTL

LEMMA SourceIs ==
  ASSUME NEW ctx \in FeatureContext, NEW s \in Range(ctx.candidates)
  PROVE  Source(ctx, s.ticker) = s
<1>1. PICK C : C = ctx.candidates OBVIOUS
<1>2. DistinctTickers(C) BY <1>1, ContextFields
<1>3. PICK i \in DOMAIN C : s = C[i] BY <1>1 DEF Range
<1>4. \A t \in Range(C) : t.ticker = s.ticker => t = s
  <2> TAKE t \in Range(C)
  <2> HAVE t.ticker = s.ticker
  <2>1. PICK j \in DOMAIN C : t = C[j] BY DEF Range
  <2>2. C[i].ticker = C[j].ticker BY <1>3, <2>1
  <2>3. i = j BY <1>2, <2>2 DEF DistinctTickers
  <2> QED BY <1>3, <2>1, <2>3
<1>5. PICK t : t = CHOOSE u \in Range(C) : u.ticker = s.ticker OBVIOUS
<1>6. t \in Range(C) /\ t.ticker = s.ticker BY <1>1, <1>5
<1> QED BY <1>1, <1>4, <1>5, <1>6 DEF Source

\* The room above a price that is sent is not overstated: daily_pivot_cluster_v1 never finds
\* more than there is to the highest high, nor than there is to a level that two pivots share
\* of which one is recent, and calls a price free of resistance only above all history.
THEOREM RoomNeverOverstated == FeatureSpec => []RoomIsNotOverstated
<1>1. FeatureInv => RoomIsNotOverstated
  <2> SUFFICES ASSUME FeatureInv, Built, NEW e \in Range(snapshot.payload.tickers),
                      NEW s, s = Source(context, e.ticker), NEW highs, highs = Highs(s.bars),
                      NEW atr, atr = wilder_atr_14(s.bars).value
               PROVE  IF e.chart = "blue_sky"
                      THEN s.listed /\ \A d \in DOMAIN highs : highs[d] <= e.price
                      ELSE /\ e.distance <= quantize((Max({highs[d] : d \in DOMAIN highs}) - e.price) * Unit, atr)
                           /\ \A c, d \in Recent(highs) :
                                /\ c < d /\ Len(highs) - d <= Recency /\ highs[c] = highs[d] /\ highs[d] > e.price
                                /\ Top(highs, Recent(highs), c) /\ Top(highs, Recent(highs), d)
                                => e.distance <= quantize((highs[d] - e.price) * Unit, atr)
    BY ZenonT(60) DEF RoomIsNotOverstated, Highs, Recent
  <2>1. PICK D, R, g, p, k : BuildFacts(snapshot, context, D, R, g, p, k) /\ snapshot.payload = p
    BY BuiltIs
  <2>2. PICK ctx \in FeatureContext : ctx = context BY DEF FeatureInv
  <2>3. PICK x : x = snapshot OBVIOUS
  <2>4. BuildFacts(x, ctx, D, R, g, p, k) BY <2>1, <2>2, <2>3
  <2>5. e \in Range(p.tickers) BY <2>1
  <2>6. Sent(R, k, e) BY <2>4, <2>5, SentIs
  <2>7. PICK n \in 1 .. Len(R) : e = R[n] BY <2>6 DEF Sent
  <2>8. Ranked(ctx, D, R, g, n) BY <2>4, RankedIs
  <2>9. PICK u \in Range(ctx.candidates) : FeaturesFor(e, u) BY <2>7, <2>8 DEF Ranked
  <2>10. u = s
    <3>1. e.ticker = u.ticker BY <2>9 DEF FeaturesFor
    <3>2. Source(ctx, u.ticker) = u BY SourceIs
    <3> QED BY <2>2, <3>1, <3>2
  <2>11. RoomHolds(highs, e.price, atr, s.listed, e) BY <2>9, <2>10 DEF FeaturesFor
  <2>12. CASE e.chart = "blue_sky" BY <2>11, <2>12 DEF RoomHolds
  <2>13. CASE e.chart # "blue_sky"
    <3>1. e.distance <= quantize((Max({highs[d] : d \in DOMAIN highs}) - e.price) * Unit, atr)
      BY <2>11, <2>13 DEF RoomHolds, RoomTo, Highest
    <3>2. ASSUME NEW c \in Recent(highs), NEW d \in Recent(highs),
                 c < d, Len(highs) - d <= Recency, highs[c] = highs[d], highs[d] > e.price,
                 Top(highs, Recent(highs), c), Top(highs, Recent(highs), d)
          PROVE  e.distance <= quantize((highs[d] - e.price) * Unit, atr)
      <4>1. c \in DOMAIN highs /\ d \in DOMAIN highs BY DEF Recent
      <4>2. Shared(highs, c, d) BY <3>2 DEF Shared
      <4>3. e.distance <= RoomTo(highs[d], e.price, atr) BY <2>11, <2>13, <3>2, <4>1, <4>2 DEF RoomHolds
      <4> QED BY <4>3 DEF RoomTo
    <3> QED BY <2>13, <3>1, <3>2
  <2> QED BY <2>12, <2>13
<1> QED BY <1>1, FeatureInvariant, PTL

-----------------------------------------------------------------------------
(* Every candidate is answered.                                            *)

\* A payload the ranking gives is valid, unless a text is too long.
LEMMA PayloadIsValid ==
  ASSUME NEW x, NEW ctx \in FeatureContext, NEW D, NEW R, NEW g, NEW p, NEW k,
         BuildFacts(x, ctx, D, R, g, p, k),
         \A s \in Range(ctx.candidates) : \A c \in Range(s.catalysts) : ~ (c.text > MaxText)
  PROVE  ValidInput(p)
<1>0. MaxText \in Nat \ {0} /\ Capacity \in 1 .. 25 BY ReplayAssumption, FeatureAssumption
<1>1. p.market \in Market /\ p.age \in Nat /\ p.freshness \in Nat \ {0}
  <2>1. /\ p.market = ctx.market /\ p.age = ctx.evaluation - ctx.now /\ p.freshness = ctx.freshness
    BY DEF BuildFacts
  <2>2. /\ ctx.now \in Nat /\ ctx.evaluation \in Nat /\ ctx.now =< ctx.evaluation
        /\ ctx.freshness \in Nat \ {0} /\ ctx.market \in Market
    BY ContextFields
  <2>3. ctx.evaluation - ctx.now \in Nat BY <2>2
  <2> QED BY <2>1, <2>2, <2>3
<1>2. k \in Nat /\ k =< 25 /\ k =< Len(R) /\ Len(R) \in Nat BY <1>0 DEF BuildFacts, Ranks
<1>3. Len(p.tickers) = k /\ DOMAIN p.tickers = 1 .. k /\ \A n \in 1 .. k : p.tickers[n] = R[n]
  BY DEF BuildFacts
<1>4. \A n \in 1 .. k : n \in 1 .. Len(R) BY <1>2
<1>5. ASSUME NEW n \in 1 .. k
      PROVE  NewsContext(R[n]) /\ LiquidityMetrics(R[n]) /\ TechnicalContext(R[n])
  <2>1. n \in 1 .. Len(R) BY <1>4
  <2>2. Ranked(ctx, D, R, g, n) BY <2>1, RankedIs
  <2>3. PICK s \in Range(ctx.candidates) : s \in CandidateSourceData /\ FeaturesFor(R[n], s)
    BY <2>2 DEF Ranked
  <2>4. FeatureRecord(R[n]) /\ \E c \in Range(s.catalysts) : R[n].text = c.text
    BY <2>3 DEF FeaturesFor
  <2>5. ~ (R[n].text > MaxText) BY <2>3, <2>4
  <2>6. R[n].text \in 1 .. MaxText
    <3>1. R[n].text \in Nat \ {0} BY <2>4 DEF FeatureRecord
    <3> QED BY <1>0, <2>5, <3>1
  <2>7. NewsContext(R[n]) BY <2>4, <2>6 DEF NewsContext, FeatureRecord
  <2> QED BY <2>4, <2>7 DEF FeatureRecord
<1>6. ASSUME NEW n \in 1 .. k, NEW m \in 1 .. n - 1 PROVE p.tickers[m].ticker # p.tickers[n].ticker
  <2>1. m \in 1 .. k /\ m # n BY <1>2
  <2>2. p.tickers[m] = R[m] /\ p.tickers[n] = R[n] BY <1>3, <2>1
  <2>3. m \in 1 .. Len(R) /\ n \in 1 .. Len(R) BY <1>4, <2>1
  <2>4. ASSUME R[m].ticker = R[n].ticker PROVE FALSE
    <3>1. m = n BY <2>3, <2>4, RankedOnce
    <3> QED BY <2>1, <3>1
  <2> QED BY <2>2, <2>4
<1> QED BY <1>1, <1>2, <1>3, <1>5, <1>6 DEF ValidInput

LEMMA OnlyLongTexts == FeatureInv => OnlyLongTextRaises
<1> SUFFICES ASSUME FeatureInv, snapshot.status = "raised",
                    \A s \in Range(context.candidates) : \A c \in Range(s.catalysts) : ~ (c.text > MaxText)
             PROVE  FALSE
  BY DEF OnlyLongTextRaises
<1>1. snapshot = build_feature_snapshot(context) BY DEF FeatureInv, Nothing
<1>2. PICK ctx \in FeatureContext : ctx = context BY DEF FeatureInv
<1>3. PICK x : x = snapshot OBVIOUS
<1>4. PICK D, R, g, p, k : BuildFacts(x, ctx, D, R, g, p, k) BY <1>1, <1>2, <1>3, BuildIs
<1>5. \A s \in Range(ctx.candidates) : \A c \in Range(s.catalysts) : ~ (c.text > MaxText) BY <1>2
<1>6. ValidInput(p) BY <1>4, <1>5, PayloadIsValid
<1>7. x = Snapshot(ctx, D, R, p) BY <1>4 DEF BuildFacts
<1>8. x.status = "built" BY <1>6, <1>7 DEF Snapshot
<1> QED BY <1>3, <1>8

\* Every candidate is answered once.
Answers(ctx, q, p, o) ==
  LET passed == {d \in Range(q) : d.reasons = <<>>}
      sent   == TickersOf(p.tickers)
      left   == TickersOf(o)
  IN  /\ TickersOf(q) = TickersOf(ctx.candidates)
      /\ Len(q) = Len(ctx.candidates)
      /\ sent \union left = {d.ticker : d \in passed} /\ sent \intersect left = {}
      /\ Cardinality(sent) <= Capacity
      /\ left # {} => /\ Cardinality(sent) = Capacity
                      /\ {r.rank : r \in Range(o)} = Capacity + 1 .. Cardinality(passed)

\* q reports the decisions D.
Reports(q, D) ==
  /\ DOMAIN q = DOMAIN D
  /\ \A i \in DOMAIN D : q[i].ticker = D[i].ticker /\ q[i].reasons = D[i].reasons

\* The candidates with no reason against them are those of the ranking.
PassedIs(passed, q, R, g) ==
  /\ \A n \in 1 .. Len(R) : q[g[n]] \in passed /\ q[g[n]].ticker = R[n].ticker
  /\ \A d \in passed : \E n \in 1 .. Len(R) : d = q[g[n]]

LEMMA PassedAreRanked ==
  ASSUME NEW x, NEW ctx \in FeatureContext, NEW D, NEW R, NEW g, NEW p, NEW k,
         BuildFacts(x, ctx, D, R, g, p, k), NEW q, Reports(q, D),
         NEW passed, passed = {d \in Range(q) : d.reasons = <<>>}
  PROVE  PassedIs(passed, q, R, g)
<1>0. /\ DOMAIN q = DOMAIN D
      /\ \A i \in DOMAIN D : q[i].ticker = D[i].ticker /\ q[i].reasons = D[i].reasons
  BY DEF Reports
<1>1. ASSUME NEW n \in 1 .. Len(R) PROVE q[g[n]] \in passed /\ q[g[n]].ticker = R[n].ticker
  <2>1. Ranked(ctx, D, R, g, n) BY RankedIs
  <2>2. PICK i : i = g[n] OBVIOUS
  <2>3. i \in DOMAIN D /\ D[i].reasons = <<>> /\ R[n].ticker = D[i].ticker BY <2>1, <2>2 DEF Ranked
  <2>4. q[i] \in Range(q) /\ q[i].reasons = <<>> /\ q[i].ticker = R[n].ticker BY <1>0, <2>3 DEF Range
  <2> QED BY <2>2, <2>4
<1>2. ASSUME NEW d \in passed PROVE \E n \in 1 .. Len(R) : d = q[g[n]]
  <2>1. PICK i \in DOMAIN D : d = q[i] /\ d.reasons = <<>> BY <1>0 DEF Range
  <2>2. D[i].reasons = <<>> BY <1>0, <2>1
  <2>3. PICK s \in Range(ctx.candidates) : Decided(D[i], s, ctx) BY DEF BuildFacts, DecisionsOf
  <2>4. D[i].accepted BY <2>2, <2>3 DEF Decided
  <2>5. i \in Accepted(D) BY <2>4 DEF Accepted
  <2>6. PICK n \in 1 .. Len(R) : g[n] = i BY <2>5 DEF BuildFacts, Ranks
  <2> QED BY <2>1, <2>6
<1> QED BY <1>1, <1>2 DEF PassedIs

LEMMA AnswersEach ==
  ASSUME NEW x, NEW ctx \in FeatureContext, NEW D, NEW R, NEW g, NEW p, NEW k,
         BuildFacts(x, ctx, D, R, g, p, k),
         NEW q, q = [i \in DOMAIN D |-> [ticker |-> D[i].ticker, reasons |-> D[i].reasons]],
         NEW o, o = [i \in 1 .. Len(R) - Len(p.tickers) |->
                       [ticker |-> R[Capacity + i].ticker, rank |-> omission_rank(i)]]
  PROVE  Answers(ctx, q, p, o)
<1>0. Capacity \in Nat \ {0} BY FeatureAssumption
<1>1. PICK N \in Nat : N = Len(R) BY DEF BuildFacts, Ranks
<1>2. k \in Nat /\ k =< Capacity /\ k =< N /\ (k = Capacity \/ k = N)
      /\ Len(p.tickers) = k /\ DOMAIN p.tickers = 1 .. k /\ \A n \in 1 .. k : p.tickers[n] = R[n]
  BY <1>1 DEF BuildFacts
<1>3. DOMAIN q = DOMAIN D /\ \A i \in DOMAIN D : q[i].ticker = D[i].ticker /\ q[i].reasons = D[i].reasons
  OBVIOUS
<1>4. /\ DOMAIN o = 1 .. N - k
      /\ \A i \in 1 .. N - k : o[i].ticker = R[Capacity + i].ticker /\ o[i].rank = Capacity + i
  BY <1>1, <1>2 DEF omission_rank
<1>5. PICK passed : passed = {d \in Range(q) : d.reasons = <<>>} OBVIOUS
<1>6. /\ \A n \in 1 .. N : q[g[n]] \in passed /\ q[g[n]].ticker = R[n].ticker
      /\ \A d \in passed : \E n \in 1 .. N : d = q[g[n]]
  <2>1. Reports(q, D) BY <1>3 DEF Reports
  <2>2. PassedIs(passed, q, R, g) BY <2>1, <1>5, PassedAreRanked
  <2> QED BY <1>1, <2>2 DEF PassedIs
<1>7. \A m, n \in 1 .. N : R[m].ticker = R[n].ticker => m = n BY <1>1, RankedOnce
<1>8. TickersOf(q) = TickersOf(ctx.candidates)
  <2>1. \A t : t \in TickersOf(q) <=> \E i \in DOMAIN D : t = D[i].ticker BY <1>3 DEF TickersOf
  <2>2. \A t : t \in TickersOf(ctx.candidates) <=> \E s \in Range(ctx.candidates) : t = s.ticker
    BY DEF TickersOf, Range
  <2>3. \A i \in DOMAIN D : \E s \in Range(ctx.candidates) : D[i].ticker = s.ticker
    BY DEF BuildFacts, DecisionsOf, Decided
  <2>4. \A s \in Range(ctx.candidates) : \E i \in DOMAIN D : D[i].ticker = s.ticker
    BY DEF BuildFacts, DecisionsOf
  <2>5. PICK A, B : A = TickersOf(q) /\ B = TickersOf(ctx.candidates) OBVIOUS
  <2>6. ASSUME NEW t \in A PROVE t \in B
    <3>1. PICK i \in DOMAIN D : t = D[i].ticker BY <2>1, <2>5
    <3>2. PICK s \in Range(ctx.candidates) : t = s.ticker BY <2>3, <3>1
    <3> QED BY <2>2, <2>5, <3>2
  <2>7. ASSUME NEW t \in B PROVE t \in A
    <3>1. PICK s \in Range(ctx.candidates) : t = s.ticker BY <2>2, <2>5
    <3>2. PICK i \in DOMAIN D : t = D[i].ticker BY <2>4, <3>1
    <3> QED BY <2>1, <2>5, <3>2
  <2>8. A = B BY <2>6, <2>7
  <2> QED BY <2>5, <2>8
<1>9. Len(q) = Len(ctx.candidates)
  <2>1. D \in Seq(Range(D)) /\ Len(D) = Len(ctx.candidates) BY DEF BuildFacts, DecisionsOf
  <2>2. DOMAIN D = 1 .. Len(D) /\ Len(D) \in Nat BY <2>1
  <2>3. Len(q) = Len(D) BY <2>2
  <2> QED BY <2>1, <2>3
<1>10. PICK sent, left : sent = TickersOf(p.tickers) /\ left = TickersOf(o) OBVIOUS
<1>11. \A t : t \in sent <=> \E n \in 1 .. k : t = R[n].ticker BY <1>2, <1>10 DEF TickersOf
<1>12. \A t : t \in left <=> \E n \in k + 1 .. N : t = R[n].ticker
  <2>1. \A t : t \in left <=> \E i \in 1 .. N - k : t = R[Capacity + i].ticker
    BY <1>4, <1>10 DEF TickersOf
  <2>2. CASE k = Capacity
    <3>1. \A i \in 1 .. N - k : Capacity + i \in k + 1 .. N BY <1>0, <1>2, <2>2
    <3>2. \A n \in k + 1 .. N : n - k \in 1 .. N - k /\ Capacity + (n - k) = n BY <1>0, <1>2, <2>2
    <3> QED BY <2>1, <3>1, <3>2
  <2>3. CASE k = N
    <3>1. \A i : i \notin 1 .. N - k /\ i \notin k + 1 .. N BY <1>2, <2>3
    <3> QED BY <2>1, <3>1
  <2> QED BY <1>2, <2>2, <2>3
<1>13. sent \union left = {d.ticker : d \in passed}
  <2>2. \A n : n \in 1 .. N <=> n \in 1 .. k \/ n \in k + 1 .. N BY <1>2
  <2>3. PICK A, B : A = sent \union left /\ B = {d.ticker : d \in passed} OBVIOUS
  <2>4. ASSUME NEW t \in A PROVE t \in B
    <3>1. PICK n \in 1 .. N : t = R[n].ticker BY <1>11, <1>12, <2>2, <2>3
    <3>2. PICK d : d = q[g[n]] OBVIOUS
    <3>3. d \in passed /\ t = d.ticker BY <1>6, <3>1, <3>2
    <3> QED BY <2>3, <3>3
  <2>5. ASSUME NEW t \in B PROVE t \in A
    <3>1. PICK d \in passed : t = d.ticker BY <2>3
    <3>2. PICK n \in 1 .. N : d = q[g[n]] BY <1>6
    <3>3. t = R[n].ticker BY <1>6, <3>1, <3>2
    <3>4. n \in 1 .. k \/ n \in k + 1 .. N BY <2>2
    <3> QED BY <1>11, <1>12, <2>3, <3>3, <3>4
  <2>6. A = B BY <2>4, <2>5
  <2> QED BY <2>3, <2>6
<1>14. sent \intersect left = {}
  <2> SUFFICES ASSUME NEW t, t \in sent, t \in left PROVE FALSE OBVIOUS
  <2>1. PICK m \in 1 .. k : t = R[m].ticker BY <1>11
  <2>2. PICK n \in k + 1 .. N : t = R[n].ticker BY <1>12
  <2>3. m \in 1 .. N /\ n \in 1 .. N /\ m # n BY <1>2
  <2> QED BY <1>7, <2>1, <2>2, <2>3
<1>15. Cardinality(sent) = k
  <2>1. PICK h : h = [n \in 1 .. k |-> R[n].ticker] OBVIOUS
  <2>2. \A n \in 1 .. k : n \in 1 .. N BY <1>2
  <2>3. h \in [1 .. k -> sent] BY <1>11, <2>1
  <2>4. \A m, n \in 1 .. k : h[m] = h[n] => m = n BY <1>7, <2>1, <2>2
  <2>5. \A t \in sent : \E n \in 1 .. k : h[n] = t BY <1>11, <2>1
  <2>6. h \in Bijection(1 .. k, sent) BY <2>3, <2>4, <2>5 DEF Bijection, Injection, Surjection, IsInjective
  <2>7. IsFiniteSet(1 .. k) /\ Cardinality(1 .. k) = k BY <1>2, Interval
  <2>8. ExistsBijection(1 .. k, sent) BY <2>6 DEF ExistsBijection
  <2> QED BY <2>7, <2>8, FS_Bijection
<1>16. Cardinality(passed) = N
  <2>1. PICK h : h = [n \in 1 .. N |-> q[g[n]]] OBVIOUS
  <2>3. h \in [1 .. N -> passed] BY <1>6, <2>1
  <2>4. \A m, n \in 1 .. N : h[m] = h[n] => m = n BY <1>6, <1>7, <2>1
  <2>5. \A d \in passed : \E n \in 1 .. N : h[n] = d BY <1>6, <2>1
  <2>6. h \in Bijection(1 .. N, passed) BY <2>3, <2>4, <2>5 DEF Bijection, Injection, Surjection, IsInjective
  <2>7. IsFiniteSet(1 .. N) /\ Cardinality(1 .. N) = N BY Interval
  <2>8. ExistsBijection(1 .. N, passed) BY <2>6 DEF ExistsBijection
  <2> QED BY <2>7, <2>8, FS_Bijection
<1>17. ASSUME left # {} PROVE k = Capacity /\ {r.rank : r \in Range(o)} = Capacity + 1 .. N
  <2>1. PICK n \in k + 1 .. N : TRUE BY <1>12, <1>17
  <2>2. k = Capacity BY <1>2, <2>1
  <2>3. PICK O : O = Range(o) OBVIOUS
  <2>7. \A r \in O : \E i \in 1 .. N - k : r = o[i]
    <3> TAKE r \in O
    <3>1. r \in Range(o) BY <2>3
    <3>2. PICK i : i \in DOMAIN o /\ r = o[i] BY <3>1 DEF Range
    <3>3. i \in 1 .. N - k BY <1>4, <3>2
    <3> QED BY <3>2, <3>3
  <2>8. \A i \in 1 .. N - k : o[i] \in O
    <3>1. \A i \in DOMAIN o : o[i] \in Range(o) BY DEF Range
    <3>2. DOMAIN o = 1 .. N - k BY <1>4
    <3> QED BY <2>3, <3>1, <3>2
  <2>4. \A i \in 1 .. N - k : Capacity + i \in Capacity + 1 .. N BY <1>0, <2>2
  <2>5. \A y \in Capacity + 1 .. N : y - Capacity \in 1 .. N - k /\ y = Capacity + (y - Capacity)
    BY <1>0, <2>2
  <2>6. {r.rank : r \in Range(o)} = Capacity + 1 .. N
    <3>1. PICK A, B : A = {r.rank : r \in O} /\ B = Capacity + 1 .. N OBVIOUS
    <3>2. ASSUME NEW y \in A PROVE y \in B
      <4>1. PICK r \in O : y = r.rank BY <3>1
      <4>2. PICK i \in 1 .. N - k : r = o[i] BY <2>7
      <4>3. y = Capacity + i BY <1>4, <4>1, <4>2
      <4> QED BY <2>4, <3>1, <4>3
    <3>3. ASSUME NEW y \in B PROVE y \in A
      <4>1. PICK i \in 1 .. N - k : y = Capacity + i BY <2>5, <3>1
      <4>2. PICK r : r = o[i] OBVIOUS
      <4>3. r \in O /\ y = r.rank BY <1>4, <2>8, <4>1, <4>2
      <4> QED BY <3>1, <4>3
    <3>4. A = B BY <3>2, <3>3
    <3> QED BY <2>3, <3>1, <3>4
  <2> QED BY <2>2, <2>6
<1>18. Cardinality(sent) <= Capacity BY <1>2, <1>15
<1>19. left # {} => Cardinality(sent) = Capacity
                   /\ {r.rank : r \in Range(o)} = Capacity + 1 .. Cardinality(passed)
  BY <1>15, <1>16, <1>17
<1> QED BY <1>5, <1>8, <1>9, <1>10, <1>13, <1>14, <1>18, <1>19 DEF Answers

LEMMA CandidatesAnswered == FeatureInv => EveryCandidateAnswered
<1> SUFFICES ASSUME FeatureInv, Built
             PROVE  Answers(context, snapshot.prequalification, snapshot.payload, snapshot.omissions)
  BY DEF EveryCandidateAnswered, Answers
<1>1. PICK D, R, g, p, k :
        /\ BuildFacts(snapshot, context, D, R, g, p, k)
        /\ snapshot.payload = p
        /\ snapshot.prequalification =
             [i \in DOMAIN D |-> [ticker |-> D[i].ticker, reasons |-> D[i].reasons]]
        /\ snapshot.omissions =
             [i \in 1 .. Len(R) - Len(p.tickers) |->
                [ticker |-> R[Capacity + i].ticker, rank |-> omission_rank(i)]]
  BY BuiltIs
<1>2. PICK ctx \in FeatureContext : ctx = context BY DEF FeatureInv
<1>3. PICK x, q, o : x = snapshot /\ q = snapshot.prequalification /\ o = snapshot.omissions OBVIOUS
<1>4. BuildFacts(x, ctx, D, R, g, p, k) BY <1>1, <1>2, <1>3
<1>5. q = [i \in DOMAIN D |-> [ticker |-> D[i].ticker, reasons |-> D[i].reasons]] BY <1>1, <1>3
<1>6. o = [i \in 1 .. Len(R) - Len(p.tickers) |->
             [ticker |-> R[Capacity + i].ticker, rank |-> omission_rank(i)]]
  BY <1>1, <1>3
<1>7. Answers(ctx, q, p, o) BY <1>4, <1>5, <1>6, AnswersEach
<1> QED BY <1>1, <1>2, <1>3, <1>7

\* build_feature_snapshot answers for every candidate, once: in the payload, as an omission for
\* capacity, or with a reason; and nothing but a catalyst text that is too long keeps it from
\* answering, since what it computes satisfies the payload's validators.
THEOREM EverySnapshotComplete == FeatureSpec => []SnapshotIsComplete
<1>1. FeatureInv => SnapshotIsComplete BY CandidatesAnswered, OnlyLongTexts DEF SnapshotIsComplete
<1> QED BY <1>1, FeatureInvariant, PTL

-----------------------------------------------------------------------------
(* No later record has an influence.                                       *)

\* k is what s has at the positions I, in order.
KeepsOrder(k, s, I, f) ==
  Lists(k, s, I, f) /\ \A m, n \in 1 .. Cardinality(I) : m < n => f[m] < f[n]

LEMMA KeptOrder ==
  ASSUME NEW S, NEW s \in Seq(S), NEW I \in SUBSET DOMAIN s
  PROVE  \E f : KeepsOrder(Kept(s, I), s, I, f)
<1>1. \E f : /\ Lists(Kept(s, I), s, I, f)
             /\ \A m, n \in 1 .. Cardinality(I) : m < n => f[m] < f[n]
  BY KeptIs
<1> QED BY <1>1 DEF KeepsOrder

Usable(records, now) == {i \in DOMAIN records : FloatUsable(records[i], now)}

Latest(records, now) ==
  {i \in Usable(records, now) : \A j \in Usable(records, now) :
     ~ LexLess(FloatKey(records[i]), FloatKey(records[j]))}

LEMMA LatestExists ==
  ASSUME NEW records \in Seq(FloatRecord), NEW now \in Nat, Usable(records, now) # {}
  PROVE  Latest(records, now) # {} /\ Latest(records, now) \in SUBSET Nat
<1>1. PICK U : U = Usable(records, now) OBVIOUS
<1>2. \A i \in U : i \in DOMAIN records /\ records[i] \in FloatRecord BY <1>1 DEF Usable
<1>3. IsFiniteSet(U) /\ U \in SUBSET Nat /\ U # {}
  <2>1. U \in SUBSET DOMAIN records BY <1>2
  <2> QED BY <1>1, <2>1, DomainFinite, FS_Subset
<1>4. PICK L \in Nat : L = 3 OBVIOUS
<1>5. PICK key : key = [i \in U |-> FloatKey(records[i])] OBVIOUS
<1>6. key \in [U -> Key(L)]
  <2>1. \A x \in FloatRecord : x.effective \in Int /\ x.observed \in Int /\ x.validated \in Int
    BY DEF FloatRecord
  <2>2. \A a, b, c \in Int : <<a, b, c>> \in Key(L) BY <1>4 DEF Key
  <2>3. \A x \in FloatRecord : FloatKey(x) \in Key(L) BY <2>1, <2>2 DEF FloatKey
  <2> QED BY <1>2, <1>5, <2>3
<1>7. \E i \in U : \A j \in U : ~ LexLess(key[i], key[j]) BY <1>3, <1>6, LexExtremes
<1>8. PICK i \in U : \A j \in U : ~ LexLess(FloatKey(records[i]), FloatKey(records[j]))
  BY <1>5, <1>7
<1>9. i \in Latest(records, now) BY <1>1, <1>8 DEF Latest
<1>10. Latest(records, now) \subseteq U BY <1>1 DEF Latest
<1> QED BY <1>3, <1>9, <1>10

LEMMA SelectFloat ==
  ASSUME NEW records, NEW now
  PROVE  select_float_record(records, now) =
           IF Usable(records, now) = {} THEN DataQualityError("FLOAT_DATA_UNAVAILABLE")
           ELSE records[Min(Latest(records, now))]
  BY DEF select_float_record, Usable, Latest

\* The float record is chosen among those that were known.
LEMMA KnownFloat ==
  ASSUME NEW records \in Seq(FloatRecord), NEW now \in Nat
  PROVE  select_float_record(Known(records, now), now) = select_float_record(records, now)
<1>1. PICK I : I = {i \in DOMAIN records : records[i].observed <= now} OBVIOUS
<1>2. PICK k : k = Known(records, now) OBVIOUS
<1>3. I \in SUBSET DOMAIN records BY <1>1
<1>4. k = Kept(records, I) BY <1>1, <1>2 DEF Known
<1>5. k \in Seq(FloatRecord) BY <1>3, <1>4, KeptIs
<1>6. PICK f : KeepsOrder(k, records, I, f) BY <1>3, <1>4, KeptOrder
<1>7. PICK N \in Nat : N = Cardinality(I) BY <1>6 DEF KeepsOrder, Lists
<1>8. /\ DOMAIN k = 1 .. N
      /\ \A n \in 1 .. N : f[n] \in I /\ k[n] = records[f[n]]
      /\ \A i \in I : \E n \in 1 .. N : f[n] = i
      /\ \A m, n \in 1 .. N : m < n => f[m] < f[n]
  BY <1>6, <1>7 DEF KeepsOrder, Lists
<1>9. PICK U, V, P, Q : /\ U = Usable(records, now) /\ V = Usable(k, now)
                        /\ P = Latest(records, now) /\ Q = Latest(k, now) OBVIOUS
<1>10. \A i \in U : i \in I /\ i \in DOMAIN records BY <1>1, <1>9 DEF Usable, FloatUsable
<1>11. \A n \in 1 .. N : n \in V <=> f[n] \in U
  <2> TAKE n \in 1 .. N
  <2>1. f[n] \in DOMAIN records /\ k[n] = records[f[n]] BY <1>3, <1>8
  <2>2. n \in V <=> FloatUsable(k[n], now) BY <1>8, <1>9 DEF Usable
  <2>3. f[n] \in U <=> FloatUsable(records[f[n]], now) BY <1>9, <2>1 DEF Usable
  <2> QED BY <2>1, <2>2, <2>3
<1>12. V \subseteq 1 .. N BY <1>8, <1>9 DEF Usable
<1>13. \A i \in U : \E n \in V : f[n] = i
  <2> TAKE i \in U
  <2>1. PICK n \in 1 .. N : f[n] = i BY <1>8, <1>10
  <2> QED BY <1>11, <2>1
<1>14. \A i : i \in P <=> i \in U /\ \A j \in U : ~ LexLess(FloatKey(records[i]), FloatKey(records[j]))
  BY <1>9 DEF Latest
<1>15. \A n : n \in Q <=> n \in V /\ \A m \in V : ~ LexLess(FloatKey(k[n]), FloatKey(k[m]))
  BY <1>9 DEF Latest
<1>16. \A n \in V : f[n] \in U /\ k[n] = records[f[n]] BY <1>8, <1>11, <1>12
<1>17. \A n \in V : n \in Q <=> f[n] \in P
  <2> TAKE n \in V
  <2>1. ASSUME n \in Q PROVE f[n] \in P
    <3>1. f[n] \in U /\ k[n] = records[f[n]] BY <1>16
    <3>2. ASSUME NEW j \in U PROVE ~ LexLess(FloatKey(records[f[n]]), FloatKey(records[j]))
      <4>1. PICK m \in V : f[m] = j BY <1>13
      <4>2. k[m] = records[j] BY <1>16, <4>1
      <4>3. ~ LexLess(FloatKey(k[n]), FloatKey(k[m])) BY <1>15, <2>1, <4>1
      <4> QED BY <3>1, <4>2, <4>3
    <3>3. PICK i : i = f[n] OBVIOUS
    <3>4. i \in P BY <1>14, <3>1, <3>2, <3>3
    <3> QED BY <3>3, <3>4
  <2>2. ASSUME f[n] \in P PROVE n \in Q
    <3>1. k[n] = records[f[n]] BY <1>16
    <3>2. ASSUME NEW m \in V PROVE ~ LexLess(FloatKey(k[n]), FloatKey(k[m]))
      <4>1. f[m] \in U /\ k[m] = records[f[m]] BY <1>16
      <4>2. PICK i, j : i = f[n] /\ j = f[m] OBVIOUS
      <4>3. ~ LexLess(FloatKey(records[i]), FloatKey(records[j])) BY <1>14, <2>2, <4>1, <4>2
      <4> QED BY <3>1, <4>1, <4>2, <4>3
    <3> QED BY <1>15, <3>2
  <2> QED BY <2>1, <2>2
<1>18. CASE U = {}
  <2>1. V = {} BY <1>16, <1>18
  <2> QED BY <1>2, <1>9, <1>18, <2>1, SelectFloat
<1>19. CASE U # {}
  <2>1. V # {} BY <1>13, <1>19
  <2>2. P # {} /\ P \in SUBSET Nat BY <1>9, <1>19, LatestExists
  <2>3. Q # {} /\ Q \in SUBSET Nat BY <1>5, <1>9, <2>1, LatestExists
  <2>4. PICK p \in P : p = Min(P) /\ \A y \in P : p =< y BY <2>2, LeastIs
  <2>5. PICK q \in Q : q = Min(Q) /\ \A y \in Q : q =< y BY <2>3, LeastIs
  <2>6. q \in V BY <1>15
  <2>7. f[q] \in P BY <1>17, <2>6
  <2>8. PICK n \in V : f[n] = p BY <1>13, <1>14
  <2>9. n \in Q BY <1>17, <2>8
  <2>10. q = n
    <3>1. q =< n /\ q \in 1 .. N /\ n \in 1 .. N BY <1>12, <2>5, <2>6, <2>9
    <3>2. ASSUME q < n PROVE FALSE
      <4>1. f[q] < f[n] BY <1>8, <3>1, <3>2
      <4>2. PICK r \in P : r = f[q] BY <2>7
      <4>3. p =< r /\ r < p /\ p \in Nat /\ r \in Nat BY <2>2, <2>4, <2>8, <4>1, <4>2
      <4> QED BY <4>3
    <3> QED BY <3>1, <3>2
  <2>11. k[q] = records[p] BY <1>16, <2>8, <2>10
  <2>12. select_float_record(records, now) = records[p] BY <1>9, <1>19, <2>4, SelectFloat
  <2>13. select_float_record(k, now) = k[q] BY <1>9, <2>1, <2>5, SelectFloat
  <2> QED BY <1>2, <2>11, <2>12, <2>13
<1> QED BY <1>18, <1>19

BestOf(known, now) ==
  LET selected == CHOOSE c \in known : \A d \in known : ~LexLess(CatalystKey(d), CatalystKey(c))
  IN  IF known = {} THEN DataQualityError("CATALYST_DATA_UNAVAILABLE")
      ELSE IF selected.time > now THEN DataQualityError("FUTURE_CATALYST_TIMESTAMP")
      ELSE selected

\* And so is the catalyst.
LEMMA KnownCatalyst ==
  ASSUME NEW records \in Seq(CatalystRecord), NEW now \in Nat
  PROVE  select_catalyst(Known(records, now), now) = select_catalyst(records, now)
<1>1. PICK I : I = {i \in DOMAIN records : records[i].observed <= now} OBVIOUS
<1>2. PICK k : k = Known(records, now) OBVIOUS
<1>3. I \in SUBSET DOMAIN records BY <1>1
<1>4. k = Kept(records, I) BY <1>1, <1>2 DEF Known
<1>5. PICK f : KeepsOrder(k, records, I, f) BY <1>3, <1>4, KeptOrder
<1>6. PICK N : N = Cardinality(I) OBVIOUS
<1>7. /\ DOMAIN k = 1 .. N
      /\ \A n \in 1 .. N : f[n] \in I /\ k[n] = records[f[n]]
      /\ \A i \in I : \E n \in 1 .. N : f[n] = i
  BY <1>5, <1>6 DEF KeepsOrder, Lists
<1>8. PICK A, B : /\ A = {c \in Range(records) : CatalystKnown(c, now)}
                  /\ B = {c \in Range(k) : CatalystKnown(c, now)} OBVIOUS
<1>9. ASSUME NEW c \in A PROVE c \in B
  <2>1. PICK i \in DOMAIN records : c = records[i] BY <1>8 DEF Range
  <2>2. i \in I BY <1>1, <1>8, <2>1 DEF CatalystKnown
  <2>3. PICK n \in 1 .. N : f[n] = i BY <1>7, <2>2
  <2>4. n \in DOMAIN k /\ c = k[n] BY <1>7, <2>1, <2>3
  <2> QED BY <1>8, <2>4 DEF Range
<1>10. ASSUME NEW c \in B PROVE c \in A
  <2>1. PICK n \in DOMAIN k : c = k[n] BY <1>8 DEF Range
  <2>2. f[n] \in DOMAIN records /\ c = records[f[n]] BY <1>3, <1>7, <2>1
  <2> QED BY <1>8, <2>2 DEF Range
<1>11. A = B BY <1>9, <1>10
<1>12. select_catalyst(records, now) = BestOf(A, now) BY <1>8 DEF select_catalyst, BestOf
<1>13. select_catalyst(k, now) = BestOf(B, now) BY <1>8 DEF select_catalyst, BestOf
<1> QED BY <1>2, <1>11, <1>12, <1>13

\* A candidate gets the same features without what was not known.
LEMMA KnownFeatures ==
  ASSUME NEW ctx \in FeatureContext, NEW then, then.now = ctx.now, NEW s \in CandidateSourceData,
         NEW u, u = KnownCandidate(s, ctx.now)
  PROVE  _calculate_candidate(then, u) = _calculate_candidate(ctx, s) /\ u.ticker = s.ticker
<1>1. /\ u.ticker = s.ticker /\ u.halted = s.halted /\ u.borrow = s.borrow /\ u.close = s.close
      /\ u.events = s.events /\ u.sessions = s.sessions /\ u.bars = s.bars /\ u.listed = s.listed
      /\ u.floats = Known(s.floats, ctx.now) /\ u.catalysts = Known(s.catalysts, ctx.now)
  BY DEF CandidateSourceData, KnownCandidate
<1>2. ctx.now \in Nat /\ s.floats \in Seq(FloatRecord) /\ s.catalysts \in Seq(CatalystRecord)
  BY CandidateFields, ContextFields
<1>3. select_float_record(u.floats, then.now) = select_float_record(s.floats, ctx.now)
  BY <1>1, <1>2, KnownFloat
<1>4. select_catalyst(u.catalysts, then.now) = select_catalyst(s.catalysts, ctx.now)
  BY <1>1, <1>2, KnownCatalyst
<1>5. ASSUME NEW T, NEW price, NEW atr, NEW rvol, NEW room, NEW float, NEW catalyst
      PROVE  FeaturesOf(then, u, T, price, atr, rvol, room, float, catalyst) =
             FeaturesOf(ctx, s, T, price, atr, rvol, room, float, catalyst)
  BY <1>1 DEF FeaturesOf
<1>6. ASSUME NEW T, NEW price, NEW atr, NEW rvol, NEW room, NEW float, NEW catalyst
      PROVE  Joined(then, u, T, price, atr, rvol, room, float, catalyst) =
             Joined(ctx, s, T, price, atr, rvol, room, float, catalyst)
  BY <1>5 DEF Joined
<1>7. ASSUME NEW T, NEW price, NEW atr
      PROVE  FromTrades(then, u, T, price, atr) = FromTrades(ctx, s, T, price, atr)
  BY <1>1, <1>3, <1>4, <1>6 DEF FromTrades
<1>8. ASSUME NEW ledger
      PROVE  FromLedger(then, u, ledger) = FromLedger(ctx, s, ledger)
  BY <1>1, <1>7 DEF FromLedger
<1> QED BY <1>1, <1>8 DEF _calculate_candidate

\* Both lists are arranged by f.
BothBy(f, s, t, key) ==
  /\ f \in [DOMAIN s -> DOMAIN s]
  /\ SortedBy(s, key) = [n \in DOMAIN s |-> s[f[n]]]
  /\ SortedBy(t, key) = [n \in DOMAIN s |-> t[f[n]]]

\* Lists with the same keys are put in the same order.
LEMMA SameOrder ==
  ASSUME NEW S, NEW s \in Seq(S), NEW L \in Nat, NEW key \in [DOMAIN s -> Key(L)],
         NEW t, DOMAIN t = DOMAIN s
  PROVE  \E f : BothBy(f, s, t, key)
<1> PICK I : I = DOMAIN s OBVIOUS
<1> PICK R : R = {p \in I \X I : Precedes(key, p[1], p[2])} OBVIOUS
<1>1. I = 1 .. Cardinality(I) BY DomainFinite
<1>2. TotalOrder(I, R) BY KeyOrder
<1>3. PICK f : f = Arranged(I, R) OBVIOUS
<1>4. /\ f \in Seq(I) /\ DOMAIN f = 1 .. Cardinality(I)
      /\ \A m, n \in 1 .. Cardinality(I) : f[n] \in I
  BY <1>2, <1>3, ArrangedIs
<1>5. f \in [I -> I] BY <1>1, <1>4
<1>6. SortedBy(s, key) = [n \in I |-> s[f[n]]] BY <1>3 DEF SortedBy
<1>7. SortedBy(t, key) = [n \in I |-> t[f[n]]] BY <1>3 DEF SortedBy
<1> QED BY <1>5, <1>6, <1>7 DEF BothBy

\* The candidates keep their order.
LEMMA KnownByTicker ==
  ASSUME NEW C \in Seq(CandidateSourceData), NEW now
  PROVE  /\ ByTicker(KnownCandidates(C, now)) = KnownCandidates(ByTicker(C), now)
         /\ DOMAIN ByTicker(C) = DOMAIN C
         /\ \A i \in DOMAIN C : ByTicker(C)[i] \in CandidateSourceData
<1>1. PICK t : t = KnownCandidates(C, now) OBVIOUS
<1>2. PICK key : key = [i \in DOMAIN C |-> <<C[i].ticker>>] OBVIOUS
<1>3. \A i \in DOMAIN C : C[i] \in CandidateSourceData /\ C[i].ticker \in Nat
  <2>1. \A i \in DOMAIN C : C[i] \in CandidateSourceData OBVIOUS
  <2> QED BY <2>1, CandidateFields
<1>4. \A i \in DOMAIN C : KnownCandidate(C[i], now).ticker = C[i].ticker
  BY <1>3 DEF KnownCandidate, CandidateSourceData
<1>5. DOMAIN t = DOMAIN C /\ \A i \in DOMAIN C : t[i] = KnownCandidate(C[i], now)
  BY <1>1 DEF KnownCandidates
<1>6. [i \in DOMAIN t |-> <<t[i].ticker>>] = key BY <1>2, <1>4, <1>5
<1>7. PICK L \in Nat : L = 1 OBVIOUS
<1>8. key \in [DOMAIN C -> Key(L)]
  <2>1. \A d \in Nat : <<d>> \in Key(L) BY <1>7 DEF Key
  <2> QED BY <1>2, <1>3, <2>1
<1>a. PICK f : BothBy(f, C, t, key) BY <1>5, <1>8, SameOrder
<1>9. /\ f \in [DOMAIN C -> DOMAIN C]
      /\ SortedBy(C, key) = [n \in DOMAIN C |-> C[f[n]]]
      /\ SortedBy(t, key) = [n \in DOMAIN C |-> t[f[n]]]
  BY <1>a DEF BothBy
<1>10. ByTicker(C) = [n \in DOMAIN C |-> C[f[n]]] BY <1>2, <1>9 DEF ByTicker
<1>11. ByTicker(t) = [n \in DOMAIN C |-> t[f[n]]] BY <1>6, <1>9 DEF ByTicker
<1>12. PICK s : s = ByTicker(C) OBVIOUS
<1>13. DOMAIN s = DOMAIN C /\ \A n \in DOMAIN C : s[n] = C[f[n]] /\ f[n] \in DOMAIN C
  BY <1>9, <1>10, <1>12
<1>14. KnownCandidates(s, now) = [n \in DOMAIN C |-> KnownCandidate(s[n], now)]
  BY <1>13 DEF KnownCandidates
<1>15. ByTicker(t) = KnownCandidates(s, now) BY <1>5, <1>11, <1>13, <1>14
<1> QED BY <1>1, <1>3, <1>12, <1>13, <1>15

\* Contexts that lead to the same decisions and the same payload.
Alike(c, d) ==
  /\ Decisions(c, ByTicker(c.candidates)) = Decisions(d, ByTicker(d.candidates))
  /\ \A R : Payload(c, R) = Payload(d, R)

\* What was not known has no influence on a decision.
LEMMA KnownDecisions ==
  ASSUME NEW ctx \in FeatureContext, NEW then, then = KnownOnly(ctx)
  PROVE  Alike(then, ctx)
<1>1. PICK C, u : C = ctx.candidates /\ u = KnownCandidates(C, ctx.now) OBVIOUS
<1>2. C \in Seq(CandidateSourceData) BY <1>1, ContextFields
<1>3. then = [ctx EXCEPT !.candidates = u] BY <1>1 DEF KnownOnly
<1>4. /\ then.candidates = u /\ then.now = ctx.now /\ then.market = ctx.market
      /\ then.evaluation = ctx.evaluation /\ then.freshness = ctx.freshness
  BY <1>3 DEF FeatureContext
<1>5. PICK s, q : s = ByTicker(C) /\ q = ByTicker(u) OBVIOUS
<1>6. /\ q = KnownCandidates(s, ctx.now) /\ DOMAIN s = DOMAIN C
      /\ \A i \in DOMAIN s : s[i] \in CandidateSourceData
  BY <1>1, <1>2, <1>5, KnownByTicker
<1>7. DOMAIN q = DOMAIN s /\ \A i \in DOMAIN s : q[i] = KnownCandidate(s[i], ctx.now)
  BY <1>6 DEF KnownCandidates
<1>8. \A i \in DOMAIN s :
        _calculate_candidate(then, q[i]) = _calculate_candidate(ctx, s[i]) /\ q[i].ticker = s[i].ticker
  BY <1>4, <1>6, <1>7, KnownFeatures
<1>9. Decisions(then, q) = Decisions(ctx, s) BY <1>4, <1>7, <1>8 DEF Decisions
<1>10. \A R : Payload(then, R) = Payload(ctx, R) BY <1>4 DEF Payload
<1> QED BY <1>1, <1>4, <1>5, <1>9, <1>10 DEF Alike

\* What a snapshot says: the payload, the decisions and what the ranking R leaves out.
Says(x, p, D, R) ==
  /\ x.payload = p
  /\ x.prequalification = [i \in DOMAIN D |-> [ticker |-> D[i].ticker, reasons |-> D[i].reasons]]
  /\ x.omissions = [i \in 1 .. Len(R) - Len(p.tickers) |->
                      [ticker |-> R[Capacity + i].ticker, rank |-> omission_rank(i)]]

LEMMA SnapshotSays ==
  ASSUME NEW ctx, NEW D, NEW R, NEW p, ValidInput(p)
  PROVE  Says(Snapshot(ctx, D, R, p), p, D, R)
<1>1. PICK q, o :
        /\ q = [i \in DOMAIN D |-> [ticker |-> D[i].ticker, reasons |-> D[i].reasons]]
        /\ o = [i \in 1 .. Len(R) - Len(p.tickers) |->
                  [ticker |-> R[Capacity + i].ticker, rank |-> omission_rank(i)]]
  OBVIOUS
<1>2. Snapshot(ctx, D, R, p) = [status |-> "built", context |-> ctx, payload |-> p,
                                prequalification |-> q, omissions |-> o]
  BY <1>1 DEF Snapshot
<1> QED BY <1>1, <1>2 DEF Says

\* Two snapshots say the same.
Agree(x, y) ==
  x.payload = y.payload /\ x.prequalification = y.prequalification /\ x.omissions = y.omissions

LEMMA AlikeAgree ==
  ASSUME NEW c, NEW d, Alike(c, d), NEW x, x = build_feature_snapshot(c), x # Invalid,
         NEW y, y = build_feature_snapshot(d)
  PROVE  Agree(x, y)
<1>1. PICK D : D = Decisions(c, ByTicker(c.candidates)) OBVIOUS
<1>2. Decisions(d, ByTicker(d.candidates)) = D BY <1>1 DEF Alike
<1>3. PICK R : R = Ranking(D) OBVIOUS
<1>4. PICK p : p = Payload(c, R) OBVIOUS
<1>5. Payload(d, R) = p BY <1>4, SMTT(30) DEF Alike
<1>6. x = Snapshot(c, D, R, p)
  BY <1>1, <1>3, <1>4, ZenonT(60) DEF build_feature_snapshot, DecidedSnapshot, RankedSnapshot, Ranking
<1>7. y = Snapshot(d, D, R, p)
  BY <1>2, <1>3, <1>5 DEF build_feature_snapshot, DecidedSnapshot, RankedSnapshot, Ranking
<1>8. ValidInput(p) BY <1>6 DEF Snapshot
<1>9. Says(x, p, D, R) /\ Says(y, p, D, R) BY <1>6, <1>7, <1>8, SnapshotSays
<1> QED BY <1>9 DEF Says, Agree

LEMMA LaterAddsNothing == FeatureInv => NoLookAhead
<1> SUFFICES ASSUME FeatureInv, Built, NEW then, then = build_feature_snapshot(KnownOnly(context))
             PROVE  then.payload = snapshot.payload /\ then.prequalification = snapshot.prequalification
  BY DEF NoLookAhead
<1>1. PICK ctx \in FeatureContext : ctx = context BY DEF FeatureInv
<1>2. PICK x : x = snapshot OBVIOUS
<1>3. x = build_feature_snapshot(ctx) /\ x # Invalid
  <2>1. x.status = "built" BY <1>2 DEF Built
  <2> QED BY <1>1, <1>2, <2>1 DEF FeatureInv, Nothing, Invalid
<1>4. PICK known : known = KnownOnly(ctx) OBVIOUS
<1>5. Alike(ctx, known)
  <2>1. Alike(known, ctx) BY <1>4, KnownDecisions
  <2> QED BY <2>1 DEF Alike
<1>6. then = build_feature_snapshot(known) BY <1>1, <1>4
<1>7. Agree(x, then) BY <1>3, <1>5, <1>6, AlikeAgree
<1> QED BY <1>2, <1>7 DEF Agree

\* No float record or catalyst that was observed after the snapshot counts in it:
\* select_float_record and select_catalyst take what was known, and without the later records
\* the payload and the decisions are the same.
THEOREM NothingLaterCounts == FeatureSpec => []NoLookAhead
  BY LaterAddsNothing, FeatureInvariant, PTL

-----------------------------------------------------------------------------
(* Nor has the order in which the records were collected.                  *)

\* No two elements have the same key.
Untied(key) == \A i, j \in DOMAIN key : key[i] = key[j] => i = j

\* A list without ties is sorted in one way, whichever way round it was.
LEMMA TurnedSort ==
  ASSUME NEW S, NEW s \in Seq(S), NEW L \in Nat, NEW key \in [DOMAIN s -> Key(L)], Untied(key),
         NEW t, t = Reverse(s), NEW turned, turned = Reverse(key)
  PROVE  SortedBy(t, turned) = SortedBy(s, key)
<1>1. PICK N \in Nat : N = Len(s) OBVIOUS
<1>2. PICK I : I = DOMAIN s OBVIOUS
<1>3. I = 1 .. N /\ Cardinality(I) = N BY <1>1, <1>2, DomainFinite
<1>4. t \in Seq(S) /\ DOMAIN t = I /\ \A i \in I : N - i + 1 \in I /\ t[i] = s[N - i + 1]
  BY <1>1, <1>2, ReverseType
<1>5. key \in Seq(Key(L)) /\ Len(key) = N /\ DOMAIN key = I BY <1>1, <1>2, <1>3
<1>6. DOMAIN turned = I /\ \A i \in I : turned[i] = key[N - i + 1] /\ turned[i] \in Key(L)
  <2>1. /\ Reverse(key) \in Seq(Key(L)) /\ DOMAIN Reverse(key) = DOMAIN key
        /\ \A i \in DOMAIN key : Len(key) - i + 1 \in DOMAIN key /\ Reverse(key)[i] = key[Len(key) - i + 1]
    BY <1>5, ReverseType
  <2> QED BY <1>5, <2>1
<1>7. turned \in [DOMAIN t -> Key(L)]
  <2>1. turned = [i \in I |-> key[N - i + 1]]
    BY <1>5, <1>3 DEF Reverse
  <2> QED BY <1>4, <1>6, <2>1
<1>8. PICK f : Sorts(SortedBy(s, key), s, key, f) BY SortsIt
<1>9. PICK g : Sorts(SortedBy(t, turned), t, turned, g) BY <1>4, <1>7, SortsIt
<1>10. /\ f \in [1 .. N -> I] /\ DOMAIN SortedBy(s, key) = 1 .. N
       /\ \A n \in 1 .. N : SortedBy(s, key)[n] = s[f[n]]
       /\ \A i \in I : \E n \in 1 .. N : f[n] = i
       /\ \A m, n \in 1 .. N : m < n => Precedes(key, f[m], f[n])
  BY <1>2, <1>3, <1>8 DEF Sorts, Lists
<1>11. /\ g \in [1 .. N -> I] /\ DOMAIN SortedBy(t, turned) = 1 .. N
       /\ \A n \in 1 .. N : SortedBy(t, turned)[n] = t[g[n]]
       /\ \A i \in I : \E n \in 1 .. N : g[n] = i
       /\ \A m, n \in 1 .. N : g[m] = g[n] => m = n
       /\ \A m, n \in 1 .. N : m < n => Precedes(turned, g[m], g[n])
  <2>1. PICK b : b = SortedBy(t, turned) OBVIOUS
  <2>2. Lists(b, t, DOMAIN t, g) /\ \A m, n \in DOMAIN t : m < n => Precedes(turned, g[m], g[n])
    BY <1>9, <2>1 DEF Sorts
  <2>3. Lists(b, t, I, g) BY <1>4, <2>2
  <2>4. \A m, n \in 1 .. N : m < n => Precedes(turned, g[m], g[n]) BY <1>3, <1>4, <2>2
  <2>5. /\ g \in [1 .. N -> I] /\ DOMAIN b = 1 .. N
        /\ \A n \in 1 .. N : b[n] = t[g[n]]
        /\ \A i \in I : \E n \in 1 .. N : g[n] = i
        /\ \A m, n \in 1 .. N : g[m] = g[n] => m = n
    BY <1>3, <2>3 DEF Lists
  <2> QED BY <2>1, <2>4, <2>5
<1>12. PICK h : h = [n \in 1 .. N |-> N - g[n] + 1] OBVIOUS
<1>13. \A n \in 1 .. N : g[n] \in I /\ h[n] = N - g[n] + 1 /\ h[n] \in I BY <1>4, <1>11, <1>12
<1>14. PICK R : R = {p \in I \X I : Precedes(key, p[1], p[2])} OBVIOUS
<1>15. StrictOrder(I, R)
  <2>1. TotalOrder(DOMAIN s, R) BY <1>2, <1>14, KeyOrder
  <2> QED BY <1>2, <2>1 DEF TotalOrder
<1>16. InLine(f, I, R, N)
  <2>1. \A m, n \in 1 .. N : m < n => <<f[m], f[n]>> \in R BY <1>10, <1>14
  <2> QED BY <1>10, <2>1 DEF InLine
<1>17. InLine(h, I, R, N)
  <2>1. h \in [1 .. N -> I] BY <1>12, <1>13
  <2>2. ASSUME NEW i \in I PROVE \E n \in 1 .. N : h[n] = i
    <3>1. N - i + 1 \in I BY <1>4
    <3>2. PICK n \in 1 .. N : g[n] = N - i + 1 BY <1>11, <3>1
    <3>3. h[n] = i BY <1>3, <1>13, <3>2
    <3> QED BY <3>3
  <2>3. ASSUME NEW m \in 1 .. N, NEW n \in 1 .. N, m < n PROVE <<h[m], h[n]>> \in R
    <3>1. /\ g[m] \in I /\ g[n] \in I /\ h[m] \in I /\ h[n] \in I
          /\ h[m] = N - g[m] + 1 /\ h[n] = N - g[n] + 1
      BY <1>13
    <3>2. turned[g[m]] = key[h[m]] /\ turned[g[n]] = key[h[n]] BY <1>6, <3>1
    <3>3. key[h[m]] # key[h[n]]
      <4>1. ASSUME key[h[m]] = key[h[n]] PROVE FALSE
        <5>1. h[m] = h[n] BY <1>5, <3>1, <4>1 DEF Untied
        <5>2. g[m] = g[n] BY <1>3, <3>1, <5>1
        <5> QED BY <1>11, <2>3, <5>2
      <4> QED BY <4>1
    <3>4. Precedes(turned, g[m], g[n]) BY <1>11, <2>3
    <3>5. LexLess(key[h[m]], key[h[n]]) BY <3>2, <3>3, <3>4 DEF Precedes
    <3>6. Precedes(key, h[m], h[n]) BY <3>5 DEF Precedes
    <3> QED BY <1>14, <3>1, <3>6
  <2> QED BY <2>1, <2>2, <2>3 DEF InLine
<1>18. f = h BY <1>15, <1>16, <1>17, OneLine
<1>19. \A n \in 1 .. N : t[g[n]] = s[f[n]] BY <1>4, <1>13, <1>18
<1>20. PICK a, b : a = SortedBy(s, key) /\ b = SortedBy(t, turned) OBVIOUS
<1>21. a = [n \in 1 .. N |-> s[f[n]]]
  <2>1. a = [n \in DOMAIN s |-> a[n]] BY <1>20 DEF SortedBy
  <2> QED BY <1>2, <1>3, <1>10, <1>20, <2>1
<1>22. b = [n \in 1 .. N |-> t[g[n]]]
  <2>1. b = [n \in DOMAIN t |-> b[n]] BY <1>20 DEF SortedBy
  <2> QED BY <1>4, <1>3, <1>11, <1>20, <2>1
<1> QED BY <1>19, <1>20, <1>21, <1>22

\* key has the keys v of s.
KeysOf(key, s, v) == key = [i \in DOMAIN s |-> v[s[i]]]

\* t is s the other way round.
Turns(t, s) == t = Reverse(s)

\* Keys are turned round with what they are the keys of.
LEMMA TurnedKeys ==
  ASSUME NEW S, NEW V, NEW v \in [S -> V], NEW s \in Seq(S), NEW key, KeysOf(key, s, v),
         NEW t, Turns(t, s), NEW turned, KeysOf(turned, t, v)
  PROVE  Turns(turned, key) /\ (Untied(turned) <=> Untied(key))
<1>1. PICK N \in Nat : N = Len(s) OBVIOUS
<1>2. DOMAIN s = 1 .. N BY <1>1
<1>3. DOMAIN t = 1 .. N /\ \A i \in 1 .. N : N - i + 1 \in 1 .. N /\ t[i] = s[N - i + 1]
  BY <1>1, <1>2, ReverseType DEF Turns
<1>4. DOMAIN key = 1 .. N /\ \A i \in 1 .. N : key[i] = v[s[i]] BY <1>2 DEF KeysOf
<1>5. DOMAIN turned = 1 .. N /\ \A i \in 1 .. N : turned[i] = v[t[i]] BY <1>3 DEF KeysOf
<1>6. \A i \in 1 .. N : turned[i] = key[N - i + 1] BY <1>3, <1>4, <1>5
<1>7. key \in Seq(V) /\ Len(key) = N
  <2>1. \A i \in 1 .. N : v[s[i]] \in V BY <1>2
  <2>2. key \in [1 .. N -> V] BY <1>2, <2>1 DEF KeysOf
  <2> QED BY <2>2
<1>8. Reverse(key) = [i \in 1 .. N |-> key[N - i + 1]] BY <1>7 DEF Reverse
<1>9. turned = [i \in 1 .. N |-> turned[i]] BY <1>3 DEF KeysOf
<1>10. Turns(turned, key) BY <1>6, <1>8, <1>9 DEF Turns
<1>11. ASSUME Untied(key) PROVE Untied(turned)
  <2> SUFFICES ASSUME NEW i \in 1 .. N, NEW j \in 1 .. N, turned[i] = turned[j] PROVE i = j
    BY <1>5 DEF Untied
  <2> PICK x, y : x = N - i + 1 /\ y = N - j + 1 OBVIOUS
  <2>1. x \in 1 .. N /\ y \in 1 .. N /\ key[x] = key[y] BY <1>6
  <2>2. x = y BY <1>4, <1>11, <2>1, SMTT(30) DEF Untied
  <2> QED BY <2>2
<1>12. ASSUME Untied(turned) PROVE Untied(key)
  <2> SUFFICES ASSUME NEW i \in 1 .. N, NEW j \in 1 .. N, key[i] = key[j] PROVE i = j
    BY <1>4 DEF Untied
  <2> PICK x, y : x = N - i + 1 /\ y = N - j + 1 OBVIOUS
  <2>0. x \in 1 .. N /\ y \in 1 .. N /\ N - x + 1 = i /\ N - y + 1 = j OBVIOUS
  <2>1. turned[x] = key[i] /\ turned[y] = key[j] BY <1>6, <2>0
  <2>2. x = y BY <1>5, <1>12, <2>0, <2>1 DEF Untied
  <2> QED BY <2>2
<1> QED BY <1>10, <1>11, <1>12

\* So a list without ties is sorted alike when it is turned round.
LEMMA TurnedByKeys ==
  ASSUME NEW S, NEW L \in Nat, NEW v \in [S -> Key(L)], NEW s \in Seq(S),
         NEW key, KeysOf(key, s, v), Untied(key), NEW t, Turns(t, s), NEW turned, KeysOf(turned, t, v)
  PROVE  SortedBy(t, turned) = SortedBy(s, key)
<1>1. turned = Reverse(key) /\ t = Reverse(s)
  <2>1. Turns(turned, key) BY TurnedKeys
  <2> QED BY <2>1 DEF Turns
<1>2. key \in [DOMAIN s -> Key(L)] BY DEF KeysOf
<1> QED BY <1>1, <1>2, TurnedSort

LEMMA TurnedLedger ==
  ASSUME NEW s \in Seq(TradeLedgerEvent), NEW t, t = Reverse(s)
  PROVE  materialize_trades(t) = materialize_trades(s)
<1>1. PICK L \in Nat : L = 1 OBVIOUS
<1>2. PICK v : v = [e \in TradeLedgerEvent |-> <<e.seq>>] OBVIOUS
<1>3. v \in [TradeLedgerEvent -> Key(L)]
  <2>1. \A d \in Nat : <<d>> \in Key(L) BY <1>1 DEF Key
  <2>2. \A e \in TradeLedgerEvent : e.seq \in Nat BY DEF TradeLedgerEvent
  <2> QED BY <1>2, <2>1, <2>2
<1>4. PICK key : KeysOf(key, s, v) BY DEF KeysOf
<1>5. PICK turned : KeysOf(turned, t, v) BY DEF KeysOf
<1>t. Turns(t, s) BY DEF Turns
<1>6. t \in Seq(TradeLedgerEvent) /\ DOMAIN t = DOMAIN s /\ Len(t) = Len(s)
  <2>1. t \in Seq(TradeLedgerEvent) /\ DOMAIN t = DOMAIN s BY ReverseType
  <2> QED BY <2>1, DomainFinite
<1>7. \A i \in DOMAIN s : key[i] = <<s[i].seq>>
  <2>1. \A i \in DOMAIN s : s[i] \in TradeLedgerEvent OBVIOUS
  <2> QED BY <1>2, <1>4, <2>1 DEF KeysOf
<1>8. \A i \in DOMAIN t : turned[i] = <<t[i].seq>>
  <2>1. \A i \in DOMAIN t : t[i] \in TradeLedgerEvent BY <1>6
  <2> QED BY <1>2, <1>5, <2>1 DEF KeysOf
<1>9. BySequence(s) = SortedBy(s, key)
  <2>1. key = [i \in DOMAIN s |-> <<s[i].seq>>] BY <1>4, <1>7 DEF KeysOf
  <2> QED BY <2>1 DEF BySequence
<1>10. BySequence(t) = SortedBy(t, turned)
  <2>1. turned = [i \in DOMAIN t |-> <<t[i].seq>>] BY <1>5, <1>8 DEF KeysOf
  <2> QED BY <2>1 DEF BySequence
<1>11. PICK a, b : a = BySequence(s) /\ b = BySequence(t) OBVIOUS
<1>12. Untied(key) => a = b BY <1>3, <1>4, <1>5, <1>t, <1>9, <1>10, <1>11, TurnedByKeys
<1>13. Untied(turned) <=> Untied(key) BY <1>3, <1>4, <1>5, <1>t, TurnedKeys
<1>14. (\E i, j \in DOMAIN s : i # j /\ s[i].seq = s[j].seq) <=> ~ Untied(key)
  <2>1. \A i, j \in DOMAIN s : key[i] = key[j] <=> s[i].seq = s[j].seq BY <1>7
  <2>2. DOMAIN key = DOMAIN s BY <1>4 DEF KeysOf
  <2> QED BY <2>1, <2>2 DEF Untied
<1>15. (\E i, j \in DOMAIN t : i # j /\ t[i].seq = t[j].seq) <=> ~ Untied(turned)
  <2>1. \A i, j \in DOMAIN t : turned[i] = turned[j] <=> t[i].seq = t[j].seq BY <1>8
  <2>2. DOMAIN turned = DOMAIN t BY <1>5 DEF KeysOf
  <2> QED BY <2>1, <2>2 DEF Untied
<1>16. materialize_trades(s) = IF ~ Untied(key) THEN DataQualityError("DUPLICATE_INGEST_SEQUENCE")
                               ELSE Ledgers(a)[Len(s)]
  BY <1>11, <1>14 DEF materialize_trades
<1>17. materialize_trades(t) = IF ~ Untied(turned) THEN DataQualityError("DUPLICATE_INGEST_SEQUENCE")
                               ELSE Ledgers(b)[Len(t)]
  BY <1>11, <1>15 DEF materialize_trades
<1>18. CASE Untied(key) BY <1>6, <1>12, <1>13, <1>16, <1>17, <1>18
<1>19. CASE ~ Untied(key) BY <1>13, <1>16, <1>17, <1>19
<1> QED BY <1>18, <1>19

\* No two sessions of one day.
OneADay(sessions) == \A i, j \in DOMAIN sessions : sessions[i].day = sessions[j].day => i = j

LEMMA TurnedSessions ==
  ASSUME NEW s \in Seq(PremarketSession), OneADay(s), NEW t, t = Reverse(s), NEW volume, NEW now
  PROVE  rvol_time_matched(volume, t, now) = rvol_time_matched(volume, s, now)
<1>1. PICK L \in Nat : L = 1 OBVIOUS
<1>2. PICK v : v = [e \in PremarketSession |-> <<e.day>>] OBVIOUS
<1>3. v \in [PremarketSession -> Key(L)]
  <2>1. \A d \in Nat : <<d>> \in Key(L) BY <1>1 DEF Key
  <2>2. \A e \in PremarketSession : e.day \in Nat BY DEF PremarketSession
  <2> QED BY <1>2, <2>1, <2>2
<1>4. PICK key : KeysOf(key, s, v) BY DEF KeysOf
<1>5. PICK turned : KeysOf(turned, t, v) BY DEF KeysOf
<1>t. Turns(t, s) BY DEF Turns
<1>6. t \in Seq(PremarketSession) /\ DOMAIN t = DOMAIN s /\ Len(t) = Len(s)
  <2>1. t \in Seq(PremarketSession) /\ DOMAIN t = DOMAIN s BY ReverseType
  <2> QED BY <2>1, DomainFinite
<1>7. \A i \in DOMAIN s : key[i] = <<s[i].day>>
  <2>1. \A i \in DOMAIN s : s[i] \in PremarketSession OBVIOUS
  <2> QED BY <1>2, <1>4, <2>1 DEF KeysOf
<1>8. \A i \in DOMAIN t : turned[i] = <<t[i].day>>
  <2>1. \A i \in DOMAIN t : t[i] \in PremarketSession BY <1>6
  <2> QED BY <1>2, <1>5, <2>1 DEF KeysOf
<1>9. ByDate(s) = SortedBy(s, key)
  <2>1. key = [i \in DOMAIN s |-> <<s[i].day>>] BY <1>4, <1>7 DEF KeysOf
  <2> QED BY <2>1 DEF ByDate
<1>10. ByDate(t) = SortedBy(t, turned)
  <2>1. turned = [i \in DOMAIN t |-> <<t[i].day>>] BY <1>5, <1>8 DEF KeysOf
  <2> QED BY <2>1 DEF ByDate
<1>11. Untied(key)
  <2>1. \A i, j \in DOMAIN s : key[i] = key[j] => s[i].day = s[j].day BY <1>7
  <2>2. DOMAIN key = DOMAIN s BY <1>4 DEF KeysOf
  <2> QED BY <2>1, <2>2 DEF Untied, OneADay
<1>12. ByDate(t) = ByDate(s) BY <1>3, <1>4, <1>5, <1>t, <1>9, <1>10, <1>11, TurnedByKeys
<1> QED BY <1>6, <1>12 DEF rvol_time_matched

\* No two float records with one key.
OneFloat(floats) ==
  \A i, j \in DOMAIN floats : FloatKey(floats[i]) = FloatKey(floats[j]) => i = j

\* Of records that do not tie one is the latest.
LEMMA OneLatest ==
  ASSUME NEW records \in Seq(FloatRecord), OneFloat(records), NEW now,
         NEW p \in Latest(records, now), NEW q \in Latest(records, now)
  PROVE  p = q
<1>1. /\ p \in DOMAIN records /\ q \in DOMAIN records
      /\ ~ LexLess(FloatKey(records[p]), FloatKey(records[q]))
      /\ ~ LexLess(FloatKey(records[q]), FloatKey(records[p]))
  BY DEF Latest, Usable
<1>2. PICK L \in Nat : L = 3 OBVIOUS
<1>3. FloatKey(records[p]) \in Key(L) /\ FloatKey(records[q]) \in Key(L)
  <2>1. \A x \in FloatRecord : x.effective \in Int /\ x.observed \in Int /\ x.validated \in Int
    BY DEF FloatRecord
  <2>2. \A a, b, c \in Int : <<a, b, c>> \in Key(L) BY <1>2 DEF Key
  <2>3. \A x \in FloatRecord : FloatKey(x) \in Key(L) BY <2>1, <2>2 DEF FloatKey
  <2>4. records[p] \in FloatRecord /\ records[q] \in FloatRecord BY <1>1
  <2> QED BY <2>3, <2>4
<1>4. FloatKey(records[p]) = FloatKey(records[q]) BY <1>1, <1>3, LexOrder
<1> QED BY <1>1, <1>4 DEF OneFloat

LEMMA TurnedFloats ==
  ASSUME NEW s \in Seq(FloatRecord), OneFloat(s), NEW t, Turns(t, s), NEW now \in Nat
  PROVE  select_float_record(t, now) = select_float_record(s, now)
<1>1. PICK N \in Nat : N = Len(s) OBVIOUS
<1>2. DOMAIN s = 1 .. N BY <1>1
<1>3. /\ t \in Seq(FloatRecord) /\ DOMAIN t = 1 .. N
      /\ \A i \in 1 .. N : N - i + 1 \in 1 .. N /\ t[i] = s[N - i + 1]
  BY <1>1, <1>2, ReverseType DEF Turns
<1>4. PICK U, V, P, Q : /\ U = Usable(s, now) /\ V = Usable(t, now)
                        /\ P = Latest(s, now) /\ Q = Latest(t, now) OBVIOUS
<1>5. \A i \in 1 .. N : i \in V <=> N - i + 1 \in U BY <1>2, <1>3, <1>4 DEF Usable
<1>6. U \subseteq 1 .. N /\ V \subseteq 1 .. N BY <1>2, <1>3, <1>4 DEF Usable
<1>7. \A i \in 1 .. N : N - (N - i + 1) + 1 = i OBVIOUS
<1>8. \A j \in U : N - j + 1 \in V /\ t[N - j + 1] = s[j]
  <2> TAKE j \in U
  <2>1. PICK i \in 1 .. N : i = N - j + 1 BY <1>3, <1>6
  <2>2. N - i + 1 = j BY <1>6, <2>1
  <2> QED BY <1>3, <1>5, <2>1, <2>2
<1>9. CASE U = {}
  <2>1. V = {} BY <1>5, <1>6, <1>9
  <2> QED BY <1>4, <1>9, <2>1, SelectFloat
<1>10. CASE U # {}
  <2>1. V # {} BY <1>8, <1>10
  <2>2. P # {} /\ P \in SUBSET Nat BY <1>4, <1>10, LatestExists
  <2>3. Q # {} /\ Q \in SUBSET Nat BY <1>3, <1>4, <2>1, LatestExists
  <2>4. PICK p \in P : p = Min(P) BY <2>2, LeastIs
  <2>5. PICK q \in Q : q = Min(Q) BY <2>3, LeastIs
  <2>6. q \in V /\ \A m \in V : ~ LexLess(FloatKey(t[q]), FloatKey(t[m])) BY <1>4, <2>5 DEF Latest
  <2>7. PICK r : r = N - q + 1 OBVIOUS
  <2>8. r \in U /\ t[q] = s[r] BY <1>3, <1>5, <1>6, <2>6, <2>7
  <2>9. ASSUME NEW j \in U PROVE ~ LexLess(FloatKey(s[r]), FloatKey(s[j]))
    <3>1. PICK m \in V : t[m] = s[j] BY <1>8
    <3> QED BY <2>6, <2>8, <3>1
  <2>10. r \in P BY <1>4, <2>8, <2>9 DEF Latest
  <2>11. r = p BY <1>4, <2>10, OneLatest
  <2>12. select_float_record(s, now) = s[p] BY <1>4, <1>10, <2>4, SelectFloat
  <2>13. select_float_record(t, now) = t[q] BY <1>4, <2>1, <2>5, SelectFloat
  <2> QED BY <2>8, <2>11, <2>12, <2>13
<1> QED BY <1>9, <1>10

LEMMA TurnedCatalysts ==
  ASSUME NEW s \in Seq(CatalystRecord), NEW t, Turns(t, s), NEW now
  PROVE  select_catalyst(t, now) = select_catalyst(s, now)
<1>1. PICK N \in Nat : N = Len(s) OBVIOUS
<1>2. DOMAIN s = 1 .. N BY <1>1
<1>3. DOMAIN t = 1 .. N /\ \A i \in 1 .. N : N - i + 1 \in 1 .. N /\ t[i] = s[N - i + 1]
  BY <1>1, <1>2, ReverseType DEF Turns
<1>4. PICK A, B : /\ A = {c \in Range(s) : CatalystKnown(c, now)}
                  /\ B = {c \in Range(t) : CatalystKnown(c, now)} OBVIOUS
<1>5. ASSUME NEW c \in A PROVE c \in B
  <2>1. PICK i \in DOMAIN s : c = s[i] BY <1>4 DEF Range
  <2>2. PICK j \in 1 .. N : j = N - i + 1 BY <1>2, <1>3
  <2>3. N - j + 1 = i BY <1>2, <2>2
  <2>4. j \in DOMAIN t /\ c = t[j] BY <1>3, <2>1, <2>2, <2>3
  <2> QED BY <1>4, <2>4 DEF Range
<1>6. ASSUME NEW c \in B PROVE c \in A
  <2>1. PICK i \in DOMAIN t : c = t[i] BY <1>4 DEF Range
  <2>2. N - i + 1 \in DOMAIN s /\ c = s[N - i + 1] BY <1>2, <1>3, <2>1
  <2> QED BY <1>4, <2>2 DEF Range
<1>7. A = B BY <1>5, <1>6
<1>8. select_catalyst(s, now) = BestOf(A, now) BY <1>4 DEF select_catalyst, BestOf
<1>9. select_catalyst(t, now) = BestOf(B, now) BY <1>4 DEF select_catalyst, BestOf
<1> QED BY <1>7, <1>8, <1>9

\* No two catalysts are as good as each other.
OneBest(catalysts) ==
  \A c, d \in Range(catalysts) : CatalystKey(c) = CatalystKey(d) => c = d

\* No two records of the candidate tie in what they are chosen or sorted by.
NoTies(s) == OneADay(s.sessions) /\ OneFloat(s.floats) /\ OneBest(s.catalysts)

\* A candidate without ties has the same features with its records turned round.
LEMMA TurnedFeatures ==
  ASSUME NEW ctx \in FeatureContext, NEW then, then.now = ctx.now, NEW s \in CandidateSourceData,
         NoTies(s), NEW u, u = TurnedCandidate(s)
  PROVE  _calculate_candidate(then, u) = _calculate_candidate(ctx, s) /\ u.ticker = s.ticker
<1>1. /\ u.ticker = s.ticker /\ u.halted = s.halted /\ u.borrow = s.borrow /\ u.close = s.close
      /\ u.bars = s.bars /\ u.listed = s.listed
      /\ u.events = Reverse(s.events) /\ u.sessions = Reverse(s.sessions)
      /\ u.floats = Reverse(s.floats) /\ u.catalysts = Reverse(s.catalysts)
  BY DEF CandidateSourceData, TurnedCandidate
<1>2. ctx.now \in Nat BY ContextFields
<1>3. /\ s.events \in Seq(TradeLedgerEvent) /\ s.sessions \in Seq(PremarketSession)
      /\ s.floats \in Seq(FloatRecord) /\ s.catalysts \in Seq(CatalystRecord)
  BY CandidateFields
<1>4. materialize_trades(u.events) = materialize_trades(s.events) BY <1>1, <1>3, TurnedLedger
<1>5. select_float_record(u.floats, then.now) = select_float_record(s.floats, ctx.now)
  BY <1>1, <1>2, <1>3, TurnedFloats DEF NoTies, Turns
<1>6. select_catalyst(u.catalysts, then.now) = select_catalyst(s.catalysts, ctx.now)
  BY <1>1, <1>3, TurnedCatalysts DEF Turns
<1>7. ASSUME NEW volume
      PROVE  rvol_time_matched(volume, u.sessions, then.now) = rvol_time_matched(volume, s.sessions, ctx.now)
  BY <1>1, <1>3, TurnedSessions DEF NoTies
<1>8. ASSUME NEW T, NEW price, NEW atr, NEW rvol, NEW room, NEW float, NEW catalyst
      PROVE  FeaturesOf(then, u, T, price, atr, rvol, room, float, catalyst) =
             FeaturesOf(ctx, s, T, price, atr, rvol, room, float, catalyst)
  BY <1>1 DEF FeaturesOf
<1>9. ASSUME NEW T, NEW price, NEW atr, NEW rvol, NEW room, NEW float, NEW catalyst
      PROVE  Joined(then, u, T, price, atr, rvol, room, float, catalyst) =
             Joined(ctx, s, T, price, atr, rvol, room, float, catalyst)
  BY <1>8 DEF Joined
<1>10. ASSUME NEW T, NEW price, NEW atr
       PROVE  FromTrades(then, u, T, price, atr) = FromTrades(ctx, s, T, price, atr)
  BY <1>1, <1>5, <1>6, <1>7, <1>9 DEF FromTrades
<1>11. ASSUME NEW ledger
       PROVE  FromLedger(then, u, ledger) = FromLedger(ctx, s, ledger)
  BY <1>1, <1>10 DEF FromLedger
<1> QED BY <1>1, <1>4, <1>11 DEF _calculate_candidate

\* In a context without ties the order of the records changes no decision.
NoTiesIn(ctx) == \A s \in Range(ctx.candidates) : NoTies(s)

LEMMA TurnedDecisions ==
  ASSUME NEW ctx \in FeatureContext, NoTiesIn(ctx), NEW then, then = Turned(ctx)
  PROVE  Alike(then, ctx)
<1>1. PICK C : C = ctx.candidates OBVIOUS
<1>2. C \in Seq(CandidateSourceData) /\ DistinctTickers(C) BY <1>1, ContextFields
<1>3. PICK N \in Nat : DOMAIN C = 1 .. N /\ N = Len(C) BY <1>2
<1>4. \A i \in 1 .. N : C[i] \in CandidateSourceData /\ NoTies(C[i]) /\ C[i].ticker \in Nat
  <2>1. \A i \in 1 .. N : C[i] \in CandidateSourceData /\ C[i] \in Range(C) BY <1>2, <1>3 DEF Range
  <2>2. \A i \in 1 .. N : NoTies(C[i]) BY <1>1, <2>1 DEF NoTiesIn
  <2> QED BY <2>1, <2>2, CandidateFields
<1>5. PICK m : m = [i \in 1 .. N |-> TurnedCandidate(C[i])] OBVIOUS
<1>6. /\ m \in Seq(CandidateSourceData) /\ DOMAIN m = 1 .. N
      /\ \A i \in 1 .. N : m[i] = TurnedCandidate(C[i]) /\ m[i] \in CandidateSourceData
                           /\ m[i].ticker = C[i].ticker
  <2>1. \A i \in 1 .. N : TurnedCandidate(C[i]) \in CandidateSourceData
                          /\ TurnedCandidate(C[i]).ticker = C[i].ticker
    BY <1>4, TurnedCandidateType
  <2>2. m \in [1 .. N -> CandidateSourceData] BY <1>5, <2>1
  <2>3. m \in Seq(CandidateSourceData) /\ DOMAIN m = 1 .. N BY <2>2
  <2> QED BY <1>5, <2>1, <2>3
<1>7. PICK u : u = Reverse(m) OBVIOUS
<1>8. u \in Seq(CandidateSourceData) BY <1>6, <1>7, ReverseType
<1>9. then = [ctx EXCEPT !.candidates = u]
  <2>1. Turned(ctx) = [ctx EXCEPT !.candidates = Reverse([i \in DOMAIN C |-> TurnedCandidate(C[i])])]
    BY <1>1 DEF Turned
  <2> QED BY <1>3, <1>5, <1>7, <2>1
<1>10. /\ then.candidates = u /\ then.now = ctx.now /\ then.market = ctx.market
       /\ then.evaluation = ctx.evaluation /\ then.freshness = ctx.freshness
  BY <1>9 DEF FeatureContext
<1>11. PICK L \in Nat : L = 1 OBVIOUS
<1>12. PICK v : v = [e \in CandidateSourceData |-> <<e.ticker>>] OBVIOUS
<1>13. v \in [CandidateSourceData -> Key(L)]
  <2>1. \A d \in Nat : <<d>> \in Key(L) BY <1>11 DEF Key
  <2>2. \A e \in CandidateSourceData : e.ticker \in Nat BY CandidateFields
  <2> QED BY <1>12, <2>1, <2>2
<1>14. PICK key : KeysOf(key, m, v) BY DEF KeysOf
<1>15. PICK turned : KeysOf(turned, u, v) BY DEF KeysOf
<1>16. DOMAIN key = 1 .. N /\ \A i \in 1 .. N : key[i] = <<C[i].ticker>>
  BY <1>6, <1>12, <1>14 DEF KeysOf
<1>17. Untied(key)
  <2>1. \A i, j \in 1 .. N : key[i] = key[j] => C[i].ticker = C[j].ticker BY <1>16
  <2> QED BY <1>2, <1>3, <1>16, <2>1 DEF Untied, DistinctTickers
<1>18. ByTicker(u) = SortedBy(u, turned)
  <2>1. \A i \in DOMAIN u : u[i] \in CandidateSourceData BY <1>8
  <2>2. turned = [i \in DOMAIN u |-> <<u[i].ticker>>] BY <1>12, <1>15, <2>1 DEF KeysOf
  <2> QED BY <2>2 DEF ByTicker
<1>19. SortedBy(u, turned) = SortedBy(m, key)
  <2>1. Turns(u, m) BY <1>7 DEF Turns
  <2> QED BY <1>6, <1>13, <1>14, <1>15, <1>17, <2>1, TurnedByKeys
<1>20. key \in [DOMAIN C -> Key(L)]
  <2>1. \A d \in Nat : <<d>> \in Key(L) BY <1>11 DEF Key
  <2>2. key = [i \in 1 .. N |-> key[i]] BY <1>6, <1>14 DEF KeysOf
  <2>3. \A i \in 1 .. N : key[i] \in Key(L) BY <1>4, <1>16, <2>1
  <2> QED BY <1>3, <2>2, <2>3
<1>21. PICK f : BothBy(f, C, m, key) BY <1>2, <1>3, <1>6, <1>20, SameOrder
<1>22. /\ f \in [1 .. N -> 1 .. N]
       /\ SortedBy(C, key) = [n \in 1 .. N |-> C[f[n]]]
       /\ SortedBy(m, key) = [n \in 1 .. N |-> m[f[n]]]
  BY <1>3, <1>21 DEF BothBy
<1>23. ByTicker(C) = SortedBy(C, key)
  <2>1. key = [i \in DOMAIN C |-> <<C[i].ticker>>]
    <3>1. key = [i \in 1 .. N |-> key[i]] BY <1>6, <1>14 DEF KeysOf
    <3> QED BY <1>3, <1>16, <3>1
  <2> QED BY <2>1 DEF ByTicker
<1>24. PICK s, q : s = ByTicker(C) /\ q = ByTicker(u) OBVIOUS
<1>25. DOMAIN s = 1 .. N /\ DOMAIN q = 1 .. N
       /\ \A n \in 1 .. N : f[n] \in 1 .. N /\ s[n] = C[f[n]] /\ q[n] = TurnedCandidate(s[n])
  <2>1. s = [n \in 1 .. N |-> C[f[n]]] BY <1>22, <1>23, <1>24
  <2>2. q = [n \in 1 .. N |-> m[f[n]]] BY <1>18, <1>19, <1>22, <1>24
  <2>3. \A n \in 1 .. N : f[n] \in 1 .. N BY <1>22
  <2> QED BY <1>6, <2>1, <2>2, <2>3
<1>26. \A n \in 1 .. N :
         _calculate_candidate(then, q[n]) = _calculate_candidate(ctx, s[n]) /\ q[n].ticker = s[n].ticker
  <2>1. \A n \in 1 .. N : s[n] \in CandidateSourceData /\ NoTies(s[n]) BY <1>4, <1>25
  <2> QED BY <1>10, <1>25, <2>1, TurnedFeatures
<1>27. Decisions(then, q) = Decisions(ctx, s) BY <1>10, <1>25, <1>26 DEF Decisions
<1>28. \A R : Payload(then, R) = Payload(ctx, R) BY <1>10 DEF Payload
<1> QED BY <1>1, <1>10, <1>24, <1>27, <1>28 DEF Alike

LEMMA TurnedRange ==
  ASSUME NEW S, NEW s \in Seq(S)
  PROVE  Range(Reverse(s)) = Range(s)
<1>1. PICK t, N : t = Reverse(s) /\ N = Len(s) OBVIOUS
<1>2. /\ N \in Nat /\ DOMAIN s = 1 .. N /\ DOMAIN t = 1 .. N
      /\ \A i \in 1 .. N : N - i + 1 \in 1 .. N /\ t[i] = s[N - i + 1]
  BY <1>1, ReverseType
<1>3. PICK A, B : A = Range(s) /\ B = Range(t) OBVIOUS
<1>4. ASSUME NEW c \in A PROVE c \in B
  <2>1. PICK i \in DOMAIN s : c = s[i] BY <1>3 DEF Range
  <2>2. PICK j \in 1 .. N : j = N - i + 1 BY <1>2
  <2>3. N - j + 1 = i BY <1>2, <2>2
  <2>4. j \in DOMAIN t /\ c = t[j] BY <1>2, <2>1, <2>2, <2>3
  <2> QED BY <1>3, <2>4 DEF Range
<1>5. ASSUME NEW c \in B PROVE c \in A
  <2>1. PICK i \in DOMAIN t : c = t[i] BY <1>3 DEF Range
  <2>2. N - i + 1 \in DOMAIN s /\ c = s[N - i + 1] BY <1>2, <2>1
  <2> QED BY <1>3, <2>2 DEF Range
<1>6. A = B BY <1>4, <1>5
<1> QED BY <1>1, <1>3, <1>6

\* There are no ties the other way round either.
LEMMA TurnedTies ==
  ASSUME NEW ctx \in FeatureContext, NoTiesIn(ctx)
  PROVE  NoTiesIn(Turned(ctx))
<1>1. PICK C : C = ctx.candidates OBVIOUS
<1>2. C \in Seq(CandidateSourceData) BY <1>1, ContextFields
<1>3. PICK N \in Nat : DOMAIN C = 1 .. N BY <1>2
<1>4. PICK m : m = [i \in 1 .. N |-> TurnedCandidate(C[i])] OBVIOUS
<1>5. m \in Seq(CandidateSourceData)
  <2>1. \A i \in 1 .. N : TurnedCandidate(C[i]) \in CandidateSourceData
    BY <1>2, <1>3, TurnedCandidateType
  <2>2. m \in [1 .. N -> CandidateSourceData] BY <1>4, <2>1
  <2> QED BY <2>2
<1>6. PICK u : u = Reverse(m) OBVIOUS
<1>7. Turned(ctx) = [ctx EXCEPT !.candidates = u] BY <1>1, <1>3, <1>4, <1>6 DEF Turned
<1>8. Turned(ctx).candidates = u BY <1>7 DEF FeatureContext
<1>9. Range(u) = Range(m) BY <1>5, <1>6, TurnedRange
<1>10. ASSUME NEW x \in Range(u) PROVE NoTies(x)
  <2>1. x \in Range(m) BY <1>9
  <2>2. PICK i \in 1 .. N : x = TurnedCandidate(C[i]) BY <1>4, <2>1 DEF Range
  <2>3. PICK s \in CandidateSourceData : s = C[i] BY <1>2, <1>3
  <2>4. NoTies(s)
    <3>1. s \in Range(C) BY <1>3, <2>3 DEF Range
    <3> QED BY <1>1, <3>1 DEF NoTiesIn
  <2>5. /\ s.sessions \in Seq(PremarketSession) /\ s.floats \in Seq(FloatRecord)
        /\ s.catalysts \in Seq(CatalystRecord)
    BY CandidateFields
  <2>6. /\ x.sessions = Reverse(s.sessions) /\ x.floats = Reverse(s.floats)
        /\ x.catalysts = Reverse(s.catalysts)
    BY <2>2, <2>3 DEF TurnedCandidate, CandidateSourceData
  <2>7. OneADay(x.sessions)
    <3>1. PICK a, b, n : a = s.sessions /\ b = x.sessions /\ n = Len(a) OBVIOUS
    <3>2. /\ n \in Nat /\ DOMAIN a = 1 .. n /\ DOMAIN b = 1 .. n
          /\ \A j \in 1 .. n : n - j + 1 \in 1 .. n /\ b[j] = a[n - j + 1]
      BY <2>5, <2>6, <3>1, ReverseType, SMTT(30)
    <3>3. ASSUME NEW j \in 1 .. n, NEW k \in 1 .. n, b[j].day = b[k].day PROVE j = k
      <4>1. PICK y, z : y = n - j + 1 /\ z = n - k + 1 OBVIOUS
      <4>2. y \in 1 .. n /\ z \in 1 .. n /\ a[y].day = a[z].day BY <3>2, <3>3, <4>1
      <4>3. y = z BY <2>4, <3>1, <3>2, <4>2 DEF NoTies, OneADay
      <4> QED BY <3>2, <4>1, <4>3
    <3> QED BY <3>1, <3>2, <3>3 DEF OneADay
  <2>8. OneFloat(x.floats)
    <3>1. PICK a, b, n : a = s.floats /\ b = x.floats /\ n = Len(a) OBVIOUS
    <3>2. /\ n \in Nat /\ DOMAIN a = 1 .. n /\ DOMAIN b = 1 .. n
          /\ \A j \in 1 .. n : n - j + 1 \in 1 .. n /\ b[j] = a[n - j + 1]
      BY <2>5, <2>6, <3>1, ReverseType, SMTT(30)
    <3>3. ASSUME NEW j \in 1 .. n, NEW k \in 1 .. n, FloatKey(b[j]) = FloatKey(b[k]) PROVE j = k
      <4>1. PICK y, z : y = n - j + 1 /\ z = n - k + 1 OBVIOUS
      <4>2. y \in 1 .. n /\ z \in 1 .. n /\ FloatKey(a[y]) = FloatKey(a[z]) BY <3>2, <3>3, <4>1
      <4>3. y = z BY <2>4, <3>1, <3>2, <4>2 DEF NoTies, OneFloat
      <4> QED BY <3>2, <4>1, <4>3
    <3> QED BY <3>1, <3>2, <3>3 DEF OneFloat
  <2>9. OneBest(x.catalysts)
    <3>1. Range(x.catalysts) = Range(s.catalysts) BY <2>5, <2>6, TurnedRange
    <3> QED BY <2>4, <3>1 DEF NoTies, OneBest
  <2> QED BY <2>7, <2>8, <2>9 DEF NoTies
<1> QED BY <1>8, <1>10 DEF NoTiesIn

\* What is stored is the snapshot of a context like the present one.
OfItsTime(x, ctx) == \E c : x = build_feature_snapshot(c) /\ x # Invalid /\ Alike(c, ctx)

\* The inductive invariant behind SamePayloadAnyOrder.
CollectionInv ==
  /\ FeatureInv /\ NoTiesIn(context)
  /\ rows = [contexts |-> rows.contexts, snapshots |-> rows.snapshots]
  /\ \A x \in rows.snapshots : OfItsTime(x, context)

LEMMA CollectionInvStarts == FeatureInit /\ NoTiesIn(context) => CollectionInv
<1> SUFFICES ASSUME FeatureInit, NoTiesIn(context) PROVE CollectionInv OBVIOUS
<1>1. FeatureInv BY DEF FeatureInit, FeatureInv
<1>2. rows = [contexts |-> {}, snapshots |-> {}] BY DEF FeatureInit
<1>3. rows.contexts = {} /\ rows.snapshots = {} BY <1>2
<1> QED BY <1>1, <1>2, <1>3 DEF CollectionInv

LEMMA CollectionInvStep == CollectionInv /\ FeatureInv' /\ [FeatureNext]_featureVars => CollectionInv'
<1> SUFFICES ASSUME CollectionInv, FeatureInv', [FeatureNext]_featureVars PROVE CollectionInv'
  OBVIOUS
<1>0. PICK ctx \in FeatureContext : ctx = context BY DEF CollectionInv, FeatureInv
<1>1. NoTiesIn(ctx) /\ \A x \in rows.snapshots : OfItsTime(x, ctx) BY <1>0 DEF CollectionInv
<1>2. CASE UNCHANGED <<context, rows>> BY <1>2 DEF CollectionInv
<1>3. CASE Build BY <1>2, <1>3 DEF Build
<1>4. CASE save_context
  <2>1. context' = context BY <1>4 DEF save_context
  <2>2. PICK r : r = rows.contexts \union {context} OBVIOUS
  <2>3. rows' = [rows EXCEPT !.contexts = r] BY <1>4, <2>2 DEF save_context
  <2>4. rows' = [contexts |-> r, snapshots |-> rows.snapshots] BY <2>3 DEF CollectionInv
  <2>5. rows'.contexts = r /\ rows'.snapshots = rows.snapshots BY <2>4
  <2> QED BY <1>0, <1>1, <2>1, <2>4, <2>5 DEF CollectionInv
<1>5. CASE save_snapshot
  <2>1. context' = context BY <1>5 DEF save_snapshot
  <2>2. PICK r : r = rows.snapshots \union {snapshot} OBVIOUS
  <2>3. rows' = [rows EXCEPT !.snapshots = r] BY <1>5, <2>2 DEF save_snapshot
  <2>4. rows' = [contexts |-> rows.contexts, snapshots |-> r] BY <2>3 DEF CollectionInv
  <2>5. rows'.contexts = rows.contexts /\ rows'.snapshots = r BY <2>4
  <2>6. OfItsTime(snapshot, ctx)
    <3>1. snapshot.status = "built" BY <1>5 DEF save_snapshot
    <3>2. snapshot = build_feature_snapshot(ctx) /\ snapshot # Invalid
      BY <1>0, <3>1 DEF CollectionInv, FeatureInv, Nothing, Invalid
    <3>3. Alike(ctx, ctx) BY DEF Alike
    <3> QED BY <3>2, <3>3 DEF OfItsTime
  <2>7. \A x \in r : OfItsTime(x, ctx) BY <1>1, <2>2, <2>6
  <2> QED BY <1>0, <1>1, <2>1, <2>4, <2>5, <2>7 DEF CollectionInv
<1>6. CASE Recollect
  <2>1. context' = Turned(ctx) /\ rows' = rows BY <1>0, <1>6 DEF Recollect
  <2>2. PICK then : then = Turned(ctx) OBVIOUS
  <2>3. NoTiesIn(then) BY <1>1, <2>2, TurnedTies
  <2>4. Alike(then, ctx) BY <1>1, <2>2, TurnedDecisions
  <2>5. ASSUME NEW x \in rows.snapshots PROVE OfItsTime(x, then)
    <3>1. PICK c : x = build_feature_snapshot(c) /\ x # Invalid /\ Alike(c, ctx)
      BY <1>1 DEF OfItsTime
    <3>2. Alike(c, then) BY <2>4, <3>1 DEF Alike
    <3> QED BY <3>1, <3>2 DEF OfItsTime
  <2>6. rows' = [contexts |-> rows'.contexts, snapshots |-> rows'.snapshots]
    BY <2>1 DEF CollectionInv
  <2> QED BY <2>1, <2>2, <2>3, <2>5, <2>6 DEF CollectionInv
<1> QED BY <1>2, <1>3, <1>4, <1>5, <1>6 DEF FeatureNext, featureVars

LEMMA AnyOrderAgrees == CollectionInv => SamePayloadAnyOrder
<1> SUFFICES ASSUME CollectionInv, NEW x \in rows.snapshots, NEW y \in rows.snapshots
             PROVE  Agree(x, y)
  BY DEF SamePayloadAnyOrder, Agree
<1>1. PICK ctx : ctx = context OBVIOUS
<1>2. OfItsTime(x, ctx) /\ OfItsTime(y, ctx) BY <1>1 DEF CollectionInv
<1>3. PICK c : x = build_feature_snapshot(c) /\ x # Invalid /\ Alike(c, ctx) BY <1>2 DEF OfItsTime
<1>4. PICK d : y = build_feature_snapshot(d) /\ Alike(d, ctx) BY <1>2 DEF OfItsTime
<1>5. Alike(c, d) BY <1>3, <1>4 DEF Alike
<1> QED BY <1>3, <1>4, <1>5, AlikeAgree

\* build_feature_snapshot is not influenced by a float record or catalyst observed after the
\* snapshot, nor, as long as no two records of a candidate tie in what they are chosen or
\* sorted by, by the order in which candidates, trades, sessions, float records and catalysts
\* were collected.
THEOREM SnapshotsAreOfTheirTime == FeatureSpec /\ NoTiesIn(context) => []SnapshotOfItsTime
<1>1. CollectionInv => SnapshotOfItsTime
  BY LaterAddsNothing, AnyOrderAgrees DEF CollectionInv, SnapshotOfItsTime
<1>2. FeatureInit /\ NoTiesIn(context) => CollectionInv BY CollectionInvStarts
<1>3. CollectionInv /\ FeatureInv' /\ [FeatureNext]_featureVars => CollectionInv' BY CollectionInvStep
<1>4. FeatureSpec => []FeatureInv BY FeatureInvariant
<1> QED BY <1>1, <1>2, <1>3, <1>4, PTL DEF FeatureSpec
=============================================================================
