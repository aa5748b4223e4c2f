----------------------------- MODULE RiskProofs -----------------------------
(***************************************************************************)
(* Proofs about Risk and the sizing of RiskEngine: for every policy, every *)
(* account, session and offer, every size of a batch and any number of     *)
(* calls, failures and repetitions.                                        *)
(*                                                                         *)
(* A position that size_position approves fits what is left of every limit *)
(* (ApprovedFits).  The stored rows of a call are explained by its stored  *)
(* requests (RowsStayExplained) and the reservations keep the ledger of    *)
(* RiskLedger (ServiceKeepsLedger).  Both rest on RiskInv: what a decision *)
(* is about to be stored with is what a caller would read now.             *)
(***************************************************************************)
EXTENDS Risk, FiniteSetTheorems, WellFoundedInduction, SequenceTheorems, TLAPS

Requests == [ticker : Tickers, offer : Offers]
Inputs == [request : Requests, account : Accounts, session : Session(Tickers)]

\* The row of a decision on request r, with the inputs it was made from.
RowOf(r, a, s) == [decision |-> SizePosition(RequestOf(r), a, s),
                   input |-> [request |-> r, account |-> a, session |-> s]]
Rows == {RowOf(i.request, i.account, i.session) : i \in Inputs}

\* The session state a row leads to.
After(row) == AfterDecision(row.input.session, row.decision)

\* The types of what a call works with.
CallOK ==
  /\ opening \in Sessions /\ account \in Accounts
  /\ base \in Session(Tickers) /\ current \in Session(Tickers)
  /\ batch \in Seq(Requests) /\ Len(batch) =< MaxBatch
  /\ call \in 0 .. MaxCalls /\ stored \in 0 .. Len(batch)
  /\ pc \in {"idle", "sizing", "saving", "evaluating", "deciding", "storing",
             "collision", "failed", "done"}
  /\ pc # "idle" => call > 0 /\ Len(batch) > 0
  /\ pc \in {"evaluating", "deciding"} => Len(batch) = 1 /\ stored = 0
  /\ pc \in {"saving", "storing"} => stored < Len(batch)

\* The batch is sized in the order of its ranks, each request with the state the one before
\* it left.
SizedOK ==
  /\ sized \in Seq(Rows)
  /\ Len(sized) =< Len(batch)
  /\ \A n \in 1 .. Len(sized) :
        sized[n] = RowOf(batch[n], account, IF n = 1 THEN base ELSE After(sized[n - 1]))
  /\ pc = "sizing" =>
        /\ Len(sized) < Len(batch) /\ stored = 0
        /\ current = IF sized = << >> THEN base ELSE After(sized[Len(sized)])
  /\ pc \in {"saving", "storing"} => Len(sized) = Len(batch)
  /\ stored =< Len(sized)

\* The stored rows of a call are those of its first ranks, each sized from its stored request
\* with the state the rank before it left.
RowsOK ==
  /\ DOMAIN requestRows \subseteq Ids
  /\ \A id \in DOMAIN requestRows : requestRows[id] \in Inputs
  /\ DOMAIN decisionRows \subseteq DOMAIN requestRows
  /\ decisionRows = [id \in DOMAIN decisionRows |-> decisionRows[id]]
  /\ \A id \in DOMAIN decisionRows : decisionRows[id] \in Rows
  /\ \A c \in 1 .. MaxCalls, n \in 1 .. MaxBatch :
        <<c, n>> \in DOMAIN decisionRows =>
          /\ c =< call
          /\ \A k \in 1 .. n : <<c, k>> \in DOMAIN decisionRows
          /\ decisionRows[<<c, n>>] =
               RowOf(requestRows[<<c, n>>].request, requestRows[<<c, n>>].account,
                     IF n = 1 THEN requestRows[<<c, 1>>].session
                     ELSE After(decisionRows[<<c, n - 1>>]))

\* A reservation for each approved decision, with its amounts.
ReservedOK ==
  /\ reservationRows = [i \in DOMAIN reservationRows |-> reservationRows[i]]
  /\ DOMAIN reservationRows = {i \in DOMAIN decisionRows : decisionRows[i].decision.approved}
  /\ \A i \in DOMAIN reservationRows :
        /\ reservationRows[i].risk = decisionRows[i].decision.modeled_risk
        /\ reservationRows[i].notional = decisionRows[i].decision.notional

\* The last decision of the call under way leads to the state a caller would read now; before
\* the first it is the state the call was given.
ReadsOK ==
  /\ \A n \in 1 .. MaxBatch :
        <<call, n>> \in DOMAIN decisionRows /\ <<call, n + 1>> \notin DOMAIN decisionRows
          => After(decisionRows[<<call, n>>]) = Reread
  /\ pc # "idle" /\ <<call, 1>> \notin DOMAIN decisionRows => base = Reread

\* What the call has stored, or found stored, is what it was given and what it decided.
StoredOK ==
  /\ \A n \in 1 .. stored :
        Id(n) \in DOMAIN decisionRows /\ decisionRows[Id(n)] = sized[n]
  /\ \A n \in 1 .. Len(batch) :
        (n =< stored \/ (n = stored + 1 /\ pc \in {"storing", "deciding"}))
          => Id(n) \in DOMAIN requestRows /\ requestRows[Id(n)] = Input(batch[n], base)

\* The inductive invariant.
RiskInv ==
  /\ CallOK /\ SizedOK /\ RowsOK /\ ReservedOK /\ ReadsOK /\ StoredOK
  /\ CollisionMeansChanged

-----------------------------------------------------------------------------
(* Sums over a table.  Induction over a set is out of the provers' reach;  *)
(* the least cardinality for which a claim fails takes its place.          *)

LEMMA LeastNumber ==
  ASSUME NEW T \in SUBSET Nat, T # {}
  PROVE  \E i \in T : \A j \in T : i =< j
<1> DEFINE R == OpToRel(<, Nat)
<1>1. IsWellFoundedOn(R, Nat)
  BY NatLessThanWellFounded
<1>2. \A i, j \in Nat : j < i => <<j, i>> \in R
  BY DEF OpToRel
<1> HIDE DEF R
<1>3. PICK i \in T : \A j \in T : ~ (<<j, i>> \in R)
  BY <1>1, WFMin
<1>4. ASSUME NEW j \in T PROVE i =< j
  <2>1. i \in Nat /\ j \in Nat /\ ~ (j < i)
    BY <1>2, <1>3
  <2> QED BY <2>1
<1> QED BY <1>4

Pick(s) == CHOOSE x \in s : TRUE

\* f gives every subset of D the total of its weights w, the way MapThenSumSet adds them up.
Value(f, w, s) == IF s = {} THEN 0 ELSE w[Pick(s)] + f[s \ {Pick(s)}]
Adds(f, w, D) == f = [s \in SUBSET D |-> Value(f, w, s)]

LEMMA PickIn == ASSUME NEW s, s # {} PROVE Pick(s) \in s
  BY DEF Pick

\* Taking one element out of a finite set.
LEMMA OneLess ==
  ASSUME NEW D, IsFiniteSet(D), NEW s \in SUBSET D, NEW x \in s
  PROVE  /\ IsFiniteSet(s) /\ Cardinality(s) \in Nat \ {0}
         /\ s \ {x} \in SUBSET D /\ Cardinality(s \ {x}) = Cardinality(s) - 1
<1>1. IsFiniteSet(s) /\ Cardinality(s) \in Nat
  BY FS_Subset, FS_CardinalityType
<1>2. Cardinality(s \ {x}) = Cardinality(s) - 1 /\ IsFiniteSet(s \ {x})
  BY <1>1, FS_RemoveElement
<1>3. Cardinality(s \ {x}) \in Nat
  BY <1>2, FS_CardinalityType
<1> QED BY <1>1, <1>2, <1>3

\* The totals exist.
LEMMA AddsExists ==
  ASSUME NEW D, IsFiniteSet(D), NEW w \in [D -> Nat]
  PROVE  \E f \in [SUBSET D -> Nat] : Adds(f, w, D)
<1> DEFINE P(n) == {s \in SUBSET D : Cardinality(s) =< n}
           Val(f, s) == Value(f, w, s)
           Part(n) == \E f \in [P(n) -> Nat] : \A s \in P(n) : f[s] = Val(f, s)
           T == {n \in Nat : ~ Part(n)}
<1> USE DEF Value
<1>0. \A s \in SUBSET D : IsFiniteSet(s) /\ Cardinality(s) \in Nat
  BY FS_Subset, FS_CardinalityType
<1>e. \A s \in SUBSET D : Cardinality(s) = 0 => s = {}
  BY <1>0, FS_EmptySet
<1>1. ASSUME T # {} PROVE FALSE
  <2>1. PICK m \in T : \A j \in T : m =< j
    BY <1>1, LeastNumber
  <2>2. m # 0
    <3> DEFINE z == [s \in P(0) |-> 0]
    <3>1. \A s \in P(0) : s = {} BY <1>0, <1>e
    <3>2. \A s \in P(0) : z[s] = Val(z, s) BY <3>1
    <3>3. z \in [P(0) -> Nat] OBVIOUS
    <3>4. Part(0)
      <4> HIDE DEF z, P, Val
      <4> QED BY <3>2, <3>3
    <3> HIDE DEF Part
    <3> QED BY <3>4, <2>1
  <2>3. m - 1 \in Nat /\ Part(m - 1)
    <3> HIDE DEF Part
    <3> QED BY <2>1, <2>2
  <2>4. PICK f \in [P(m - 1) -> Nat] : \A s \in P(m - 1) : f[s] = Val(f, s)
    BY <2>3
  <2> DEFINE g == [s \in P(m) |-> Val(f, s)]
  <2>5. ASSUME NEW s \in P(m), s # {}
        PROVE Pick(s) \in s /\ w[Pick(s)] \in Nat /\ s \ {Pick(s)} \in P(m - 1) /\ s \ {Pick(s)} \in P(m)
    <3>1. Pick(s) \in s BY <2>5, PickIn
    <3>2. s \in SUBSET D /\ Cardinality(s) =< m OBVIOUS
    <3>3. Cardinality(s) \in Nat \ {0} /\ s \ {Pick(s)} \in SUBSET D
            /\ Cardinality(s \ {Pick(s)}) = Cardinality(s) - 1
      BY <3>1, <3>2, OneLess
    <3> QED BY <3>1, <3>2, <3>3, <2>3
  <2>6. g \in [P(m) -> Nat]
    <3>1. ASSUME NEW s \in P(m) PROVE Val(f, s) \in Nat
      <4>1. CASE s = {} BY <4>1
      <4>2. CASE s # {} 
        <5>1. w[Pick(s)] \in Nat /\ f[s \ {Pick(s)}] \in Nat BY <4>2, <2>5, <2>4
        <5> QED BY <5>1, <4>2
      <4> QED BY <4>1, <4>2
    <3> HIDE DEF P, Val
    <3> QED BY <3>1
  <2>7. ASSUME NEW s \in P(m) PROVE g[s] = Val(g, s)
    <3>1. CASE s = {} BY <3>1
    <3>2. CASE s # {}
      <4> DEFINE r == s \ {Pick(s)}
      <4>1. r \in P(m - 1) /\ r \in P(m) BY <3>2, <2>5
      <4>2. g[r] = Val(f, r) BY <4>1
      <4>3. f[r] = Val(f, r) BY <4>1, <2>4
      <4>4. g[s] = w[Pick(s)] + f[r] BY <3>2
      <4>5. Val(g, s) = w[Pick(s)] + g[r] BY <3>2
      <4> HIDE DEF g, r
      <4> QED BY <4>2, <4>3, <4>4, <4>5
    <3> QED BY <3>1, <3>2
  <2>8. Part(m)
    <3> HIDE DEF g, Val, P
    <3> QED BY <2>6, <2>7
  <2> QED BY <2>8, <2>1
<1>2. Part(Cardinality(D))
  <2>1. Cardinality(D) \in Nat BY FS_CardinalityType
  <2> HIDE DEF Part
  <2> QED BY <2>1, <1>1
<1>3. P(Cardinality(D)) = SUBSET D
  BY FS_Subset
<1>4. PICK f \in [SUBSET D -> Nat] : \A s \in SUBSET D : f[s] = Val(f, s)
  <2> HIDE DEF P
  <2> QED BY <1>2, <1>3
<1>5. Adds(f, w, D)
  BY <1>4 DEF Adds
<1> QED BY <1>5

\* What Adds says of a subset.
LEMMA AddsStep ==
  ASSUME NEW D, NEW w, NEW f, Adds(f, w, D), NEW s \in SUBSET D
  PROVE  f[s] = Value(f, w, s)
<1>1. f = [t \in SUBSET D |-> Value(f, w, t)]
  BY DEF Adds
<1> QED BY <1>1

\* They do not depend on the set the subsets are taken from.
LEMMA AddsAgree ==
  ASSUME NEW D, IsFiniteSet(D), NEW E, NEW w, NEW v, NEW f, NEW g,
         Adds(f, w, D), Adds(g, v, E), D \subseteq E, \A x \in D : w[x] = v[x]
  PROVE  \A s \in SUBSET D : f[s] = g[s]
<1> DEFINE T == {n \in Nat : \E s \in SUBSET D : Cardinality(s) = n /\ f[s] # g[s]}
<1>1. ASSUME T # {} PROVE FALSE
  <2>1. PICK m \in T : \A j \in T : m =< j
    BY <1>1, LeastNumber
  <2>2. PICK s \in SUBSET D : Cardinality(s) = m /\ f[s] # g[s]
    BY <2>1
  <2>3. s \in SUBSET E OBVIOUS
  <2>8. f[s] = Value(f, w, s) BY AddsStep
  <2>9. g[s] = Value(g, v, s) BY <2>3, AddsStep
  <2>4. s # {}
    BY <2>2, <2>8, <2>9 DEF Value
  <2>5. Pick(s) \in s BY <2>4, PickIn
  <2>6. m \in Nat \ {0} /\ s \ {Pick(s)} \in SUBSET D /\ Cardinality(s \ {Pick(s)}) = m - 1
    BY <2>2, <2>5, OneLess
  <2>7. f[s \ {Pick(s)}] = g[s \ {Pick(s)}]
    <3>1. m - 1 \notin T BY <2>1, <2>6
    <3>2. m - 1 \in Nat BY <2>6
    <3> QED BY <3>1, <3>2, <2>6
  <2>10. w[Pick(s)] = v[Pick(s)] BY <2>5
  <2>11. Value(f, w, s) = Value(g, v, s) BY <2>7, <2>10 DEF Value
  <2> QED BY <2>2, <2>8, <2>9, <2>11
<1>2. \A s \in SUBSET D : Cardinality(s) \in Nat
  BY FS_Subset, FS_CardinalityType
<1> QED BY <1>1, <1>2

\* Any element may be added last.
AddedTo(f, w, s, x) == w[x] + f[s \ {x}]
Totals(f, w, D) == w \in [D -> Nat] /\ f \in [SUBSET D -> Nat] /\ Adds(f, w, D)

LEMMA AddsAnyOrder ==
  ASSUME NEW D, IsFiniteSet(D), NEW w, NEW f, Totals(f, w, D),
         NEW s \in SUBSET D, NEW x \in s
  PROVE  f[s] = AddedTo(f, w, s, x)
<1> USE DEF AddedTo
<1>0. w \in [D -> Nat] /\ f \in [SUBSET D -> Nat] /\ Adds(f, w, D)
  BY DEF Totals
<1> DEFINE Wrong(r, y) == f[r] # w[y] + f[r \ {y}]
           T == {n \in Nat : \E r \in SUBSET D : Cardinality(r) = n /\ \E y \in r : Wrong(r, y)}
<1>1. ASSUME T # {} PROVE FALSE
  <2>1. PICK m \in T : \A j \in T : m =< j
    BY <1>1, LeastNumber
  <2>2. PICK r \in SUBSET D : Cardinality(r) = m /\ \E y \in r : Wrong(r, y)
    BY <2>1
  <2>3. PICK y \in r : Wrong(r, y)
    BY <2>2
  <2> DEFINE p == Pick(r)
  <2>4. p \in r BY PickIn
  <2>5. f[r] = w[p] + f[r \ {p}] BY <1>0, AddsStep, <2>4 DEF Value
  <2>6. p # y BY <2>3, <2>5
  <2> HIDE DEF p
  <2>7. /\ m \in Nat \ {0}
        /\ r \ {p} \in SUBSET D /\ Cardinality(r \ {p}) = m - 1
        /\ r \ {y} \in SUBSET D /\ Cardinality(r \ {y}) = m - 1
    BY <2>2, <2>4, OneLess
  <2>8. ASSUME NEW q \in SUBSET D, Cardinality(q) = m - 1, NEW z \in q
        PROVE  f[q] = w[z] + f[q \ {z}]
    <3>1. m - 1 \notin T BY <2>1, <2>7
    <3>2. m - 1 \in Nat BY <2>7
    <3> QED BY <3>1, <3>2, <2>8
  <2>9. y \in r \ {p} /\ p \in r \ {y} BY <2>4, <2>6
  <2>10. f[r \ {p}] = w[y] + f[(r \ {p}) \ {y}] BY <2>7, <2>8, <2>9
  <2>11. f[r \ {y}] = w[p] + f[(r \ {y}) \ {p}] BY <2>7, <2>8, <2>9
  <2>12. (r \ {y}) \ {p} = (r \ {p}) \ {y} OBVIOUS
  <2>13. w[y] \in Nat /\ w[p] \in Nat /\ f[(r \ {p}) \ {y}] \in Nat
    <3>1. (r \ {p}) \ {y} \in SUBSET D OBVIOUS
    <3> QED BY <1>0, <3>1, <2>4
  <2> HIDE DEF T
  <2>14. PICK k \in Nat : k = f[(r \ {p}) \ {y}] BY <2>13
  <2>15. f[r \ {p}] = w[y] + k /\ f[r \ {y}] = w[p] + k
    BY <2>10, <2>11, <2>12, <2>14
  <2>16. f[r] = w[y] + f[r \ {y}]
    BY <2>5, <2>13, <2>15
  <2> QED BY <2>16, <2>3
<1>2. Cardinality(s) \in Nat
  BY FS_Subset, FS_CardinalityType
<1>3. Cardinality(s) \notin T
  BY <1>1
<1>4. ~ Wrong(s, x)
  <2> HIDE DEF Wrong
  <2> QED BY <1>2, <1>3
<1> QED BY <1>4

\* What a field of the entries D of a table adds up to.
SumOf(t, D, fld) == MapThenSumSet(LAMBDA i : t[i][fld], D)

\* The sum of MapThenSumSet is the total of Adds.
LEMMA SumIs ==
  ASSUME NEW D, IsFiniteSet(D), NEW t, NEW fld, NEW w, \A i \in D : t[i][fld] = w[i],
         NEW f, Adds(f, w, D)
  PROVE  SumOf(t, D, fld) = f[D]
<1> DEFINE Rec(g) == g = [s \in SUBSET D |-> IF s = {} THEN 0 ELSE t[Pick(s)][fld] + g[s \ {Pick(s)}]]
           c == CHOOSE g : Rec(g)
<1>1. SumOf(t, D, fld) = c[D]
  BY DEF SumOf, MapThenSumSet, MapThenFoldSet, Pick
<1>2. ASSUME NEW g PROVE Rec(g) <=> Adds(g, w, D)
  <2>1. \A s \in SUBSET D : Value(g, w, s) = IF s = {} THEN 0 ELSE t[Pick(s)][fld] + g[s \ {Pick(s)}]
    BY PickIn DEF Value
  <2> QED BY <2>1 DEF Adds
<1> HIDE DEF Rec
<1>3. Adds(c, w, D)
  BY <1>2
<1>4. c[D] = f[D]
  <2> HIDE DEF c
  <2> QED BY <1>3, AddsAgree
<1> QED BY <1>1, <1>4

\* Table u has the amounts of table t at D, and one more at x.
OneMore(t, u, D, x, fld) ==
  /\ IsFiniteSet(D) /\ x \notin D /\ u[x][fld] \in Nat
  /\ \A i \in D : t[i][fld] \in Nat /\ u[i][fld] = t[i][fld]
Plus(x, y) == x + y

\* One more entry adds its amount, and the others may be read from either table.
LEMMA SumGrows ==
  ASSUME NEW D, NEW x, NEW t, NEW u, NEW fld, OneMore(t, u, D, x, fld)
  PROVE  /\ SumOf(t, D, fld) \in Nat
         /\ SumOf(u, D, fld) = SumOf(t, D, fld)
         /\ SumOf(u, D \cup {x}, fld) = Plus(SumOf(t, D, fld), u[x][fld])
<1> USE DEF OneMore, Plus
<1> DEFINE E == D \cup {x}
           w == [i \in D |-> t[i][fld]]
           v == [i \in E |-> u[i][fld]]
<1>1. IsFiniteSet(E)
  BY FS_AddElement
<1>2. w \in [D -> Nat] /\ v \in [E -> Nat]
  OBVIOUS
<1>3. PICK f \in [SUBSET D -> Nat] : Adds(f, w, D)
  BY <1>2, AddsExists
<1>4. PICK g \in [SUBSET E -> Nat] : Adds(g, v, E)
  BY <1>1, <1>2, AddsExists
<1>a. \A i \in D : w[i] = v[i] /\ t[i][fld] = w[i] /\ u[i][fld] = w[i]
  OBVIOUS
<1>b. \A i \in E : u[i][fld] = v[i]
  OBVIOUS
<1>c. D \subseteq E /\ D \in SUBSET D /\ E \in SUBSET E /\ x \in E /\ E \ {x} = D
  OBVIOUS
<1>d. v[x] = u[x][fld]
  OBVIOUS
<1> HIDE DEF E, w, v
<1>5. f[D] = g[D]
  BY <1>3, <1>4, <1>a, <1>c, AddsAgree
<1>6. SumOf(t, D, fld) = f[D] /\ SumOf(u, D, fld) = f[D]
  BY <1>3, <1>a, SumIs
<1>7. SumOf(u, E, fld) = g[E]
  BY <1>1, <1>4, <1>b, SumIs
<1>8. g[E] = v[x] + g[D]
  <2>1. E \in SUBSET E /\ x \in E BY <1>c
  <2>2. \A s \in SUBSET E : \A y \in s : g[s] = AddedTo(g, v, s, y)
    <3>1. Totals(g, v, E) BY <1>2, <1>4 DEF Totals
    <3> QED BY <1>1, <3>1, AddsAnyOrder
  <2>3. g[E] = AddedTo(g, v, E, x) BY <2>1, <2>2
  <2> QED BY <2>3, <1>c DEF AddedTo
<1>9. f[D] \in Nat BY <1>c
<1> QED BY <1>5, <1>6, <1>7, <1>8, <1>9, <1>d DEF E

LEMMA SumType ==
  ASSUME NEW D, IsFiniteSet(D), NEW t, NEW fld, \A i \in D : t[i][fld] \in Nat
  PROVE  SumOf(t, D, fld) \in Nat
<1> DEFINE w == [i \in D |-> t[i][fld]]
<1>1. w \in [D -> Nat] OBVIOUS
<1>2. PICK f \in [SUBSET D -> Nat] : Adds(f, w, D)
  BY <1>1, AddsExists
<1>3. \A i \in D : t[i][fld] = w[i] OBVIOUS
<1> HIDE DEF w
<1>4. SumOf(t, D, fld) = f[D]
  BY <1>2, <1>3, SumIs
<1>5. D \in SUBSET D OBVIOUS
<1> QED BY <1>4, <1>5

\* There is nothing in an empty table.
LEMMA SumEmpty == \A t, fld : SumOf(t, {}, fld) = 0
<1> TAKE t, fld
<1>1. PICK f \in [SUBSET {} -> Nat] : Adds(f, << >>, {})
  <2>1. << >> \in [{} -> Nat] OBVIOUS
  <2> QED BY <2>1, AddsExists, FS_EmptySet
<1>2. SumOf(t, {}, fld) = f[{}]
  <2>1. \A i \in {} : t[i][fld] = << >>[i] OBVIOUS
  <2>2. IsFiniteSet({}) BY FS_EmptySet
  <2> QED BY <1>1, <2>1, <2>2, SumIs
<1>3. f[{}] = 0
  <2>1. {} \in SUBSET {} OBVIOUS
  <2>2. f[{}] = Value(f, << >>, {}) BY <1>1, <2>1, AddsStep
  <2> QED BY <2>2 DEF Value
<1> QED BY <1>2, <1>3

-----------------------------------------------------------------------------
(* The sizing.                                                             *)

LEMMA DivisionType ==
  ASSUME NEW a \in Int, NEW b \in Nat \ {0}
  PROVE  a \div b \in Int /\ (a \div b) * b =< a /\ (a \div b) * b \in Int
  OBVIOUS

\* So many whole shares cost no more than what there is.
LEMMA SharesFit ==
  ASSUME NEW a \in Int, NEW b \in Nat \ {0}, NEW n \in Int, n =< a \div b
  PROVE  b * n =< a
<1>1. PICK k \in Int : k = a \div b
  BY DivisionType
<1>2. k * b =< a
  BY <1>1, DivisionType
<1>3. b * n =< k * b
  BY <1>1
<1> QED BY <1>2, <1>3

LEMMA PolicyType ==
  /\ Cent \in Nat \ {0} /\ Whole \in Nat \ {0} /\ Whole * Cent \in Nat \ {0}
  /\ Policy.risk_per_trade \in Nat /\ Policy.max_open_risk \in Nat
  /\ Policy.max_position_notional \in Nat /\ Policy.max_gross_exposure \in Nat
  /\ Policy.soft_daily_loss \in Nat /\ Policy.hard_daily_loss \in Nat
  /\ Policy.max_adv \in Nat /\ Policy.max_premarket \in Nat
  /\ Policy.buying_power_reserve \in Nat /\ Policy.slippage_atr \in Nat
  /\ Policy.slippage_spread \in Nat /\ Policy.max_concurrent \in Nat
<1>1. Cent \in Nat \ {0} /\ Whole \in Nat \ {0}
  BY PolicyCoherence
<1>2. Whole * Cent \in Nat \ {0}
  BY <1>1
<1>3. 1 .. Whole - 1 \subseteq Nat
  BY <1>1
<1>4. /\ Policy.risk_per_trade \in Nat /\ Policy.max_open_risk \in Nat
      /\ Policy.max_position_notional \in Nat /\ Policy.max_gross_exposure \in Nat
      /\ Policy.soft_daily_loss \in Nat /\ Policy.hard_daily_loss \in Nat
      /\ Policy.max_adv \in Nat /\ Policy.max_premarket \in Nat
  BY <1>3, PolicyCoherence DEF RiskPolicyConfig
<1>5. /\ Policy.buying_power_reserve \in Nat /\ Policy.slippage_atr \in Nat
      /\ Policy.slippage_spread \in Nat /\ Policy.max_concurrent \in Nat
  BY PolicyCoherence DEF RiskPolicyConfig
<1> QED BY <1>1, <1>2, <1>4, <1>5

LEMMA FloorToCentDown ==
  ASSUME NEW x \in Int PROVE FloorToCent(x) \in Int /\ FloorToCent(x) =< x
  BY PolicyType, DivisionType DEF FloorToCent

LEMMA ShareOfType ==
  ASSUME NEW x \in Int, NEW r \in Int PROVE ShareOf(x, r) \in Int
<1>1. PICK p \in Int : p = x * r OBVIOUS
<1>2. p \div (Whole * Cent) \in Int BY PolicyType, DivisionType
<1>3. PICK k \in Int : k = p \div (Whole * Cent) BY <1>2
<1>4. ShareOf(x, r) = k * Cent BY <1>1, <1>3 DEF ShareOf
<1> QED BY <1>4, PolicyType

\* The session's limits, and what is left of them, are amounts.
LEMMA SessionAmounts ==
  ASSUME NEW s \in Session(Tickers), NEW a \in Account
  PROVE  /\ HardLossLimit(s) \in Int /\ MaxOpenRisk(s) \in Int
         /\ MaxPositionNotional(s) \in Int /\ MaxGrossExposure(s) \in Int
         /\ ShareOf(s.reference_equity, Policy.risk_per_trade) \in Int
         /\ BrokerPnl(a, s) \in Int /\ InternalPnl(s) \in Int
         /\ CurrentLoss(a, s) \in Int
<1>1. /\ s.reference_equity \in Int /\ s.start_equity \in Int /\ s.cash_flow \in Int
      /\ s.realized \in Int /\ s.unrealized \in Int
  BY DEF Session
<1>2. a.equity \in Int BY DEF Account
<1>3. BrokerPnl(a, s) \in Int /\ InternalPnl(s) \in Int
  BY <1>1, <1>2 DEF BrokerPnl, InternalPnl
<1>4. CurrentLoss(a, s) \in Int
  BY <1>3 DEF CurrentLoss, RiskPnl, Smaller, Larger
<1>5. \A f \in {"risk_per_trade", "max_open_risk", "max_position_notional",
               "max_gross_exposure", "soft_daily_loss", "hard_daily_loss"} : Policy[f] \in Int
  BY PolicyType
<1> QED BY <1>1, <1>3, <1>4, <1>5, PolicyType, ShareOfType
  DEF HardLossLimit, MaxOpenRisk, MaxPositionNotional, MaxGrossExposure

\* The cash a session may still use, before what it has reserved.
Cash(a) == (Smaller(a.cash_buying_power, a.buying_power)
              * (Whole - Policy.buying_power_reserve)) \div Whole

LEMMA CashType == ASSUME NEW a \in Account PROVE Cash(a) \in Int
<1>1. a.cash_buying_power \in Int /\ a.buying_power \in Int BY DEF Account
<1>2. PICK m \in Int : m = Smaller(a.cash_buying_power, a.buying_power)
  BY <1>1 DEF Smaller
<1>3. PICK p \in Int : p = m * (Whole - Policy.buying_power_reserve) BY PolicyType
<1>4. p \div Whole \in Int BY PolicyType, DivisionType
<1> QED BY <1>2, <1>3, <1>4 DEF Cash

\* What is left of each limit is no more than the limit less what is used.
LEMMA RemainingFits ==
  ASSUME NEW s \in Session(Tickers), NEW a \in Account
  PROVE  /\ RemainingOpenRisk(s) \in Int
         /\ RemainingOpenRisk(s) =< MaxOpenRisk(s) - s.open_risk
         /\ RemainingLoss(a, s) \in Int
         /\ RemainingLoss(a, s) =< HardLossLimit(s) - CurrentLoss(a, s) - s.open_risk
         /\ UsableBuyingPower(a, s) \in Int
         /\ UsableBuyingPower(a, s) =< Cash(a) - s.reserved_notional
         /\ RemainingExposure(s) \in Int
         /\ RemainingExposure(s) =< MaxGrossExposure(s) - s.long_value - s.reserved_notional
<1>1. s.open_risk \in Int /\ s.reserved_notional \in Int /\ s.long_value \in Int
  BY DEF Session
<1>2. RemainingOpenRisk(s) \in Int /\ RemainingOpenRisk(s) =< MaxOpenRisk(s) - s.open_risk
  BY <1>1, SessionAmounts, FloorToCentDown DEF RemainingOpenRisk
<1>3. /\ RemainingLoss(a, s) \in Int
      /\ RemainingLoss(a, s) =< HardLossLimit(s) - CurrentLoss(a, s) - s.open_risk
  BY <1>1, SessionAmounts, FloorToCentDown DEF RemainingLoss
<1>4. /\ UsableBuyingPower(a, s) \in Int
      /\ UsableBuyingPower(a, s) =< Cash(a) - s.reserved_notional
  <2>1. UsableBuyingPower(a, s) = FloorToCent(Cash(a) - s.reserved_notional)
    BY DEF UsableBuyingPower, Cash
  <2>2. Cash(a) - s.reserved_notional \in Int BY <1>1, CashType
  <2> QED BY <2>1, <2>2, FloorToCentDown
<1>5. /\ RemainingExposure(s) \in Int
      /\ RemainingExposure(s) =< MaxGrossExposure(s) - s.long_value - s.reserved_notional
  <2>1. MaxGrossExposure(s) - (s.long_value + s.reserved_notional) \in Int
    BY <1>1, SessionAmounts
  <2>2. MaxGrossExposure(s) \in Int BY SessionAmounts
  <2> QED BY <1>1, <2>1, <2>2, FloorToCentDown DEF RemainingExposure
<1> QED BY <1>2, <1>3, <1>4, <1>5

\* The fields of a request.
LEMMA RequestFields ==
  ASSUME NEW r \in Requests
  PROVE  LET q == RequestOf(r)
         IN  /\ q.entry_limit \in Int /\ q.tick \in Nat \ {0} /\ q.reference \in Int
             /\ q.atr \in Int /\ q.stop_multiple \in Int /\ q.target_multiple \in Int
             /\ q.bid \in Int /\ q.ask \in Int /\ q.adv \in Int
             /\ q.premarket_volume \in Int
             /\ q.flags \subseteq DOMAIN Multiplier
<1>1. r.offer \in Offer
  BY RiskAssumption DEF Requests
<1>2. DOMAIN r.offer = {"entry_limit", "tick", "reference", "atr", "premarket_low",
          "stop_multiple", "target_multiple", "bid", "ask", "last", "flags", "adv",
          "premarket_volume", "faults"}
  BY <1>1 DEF Offer
<1>3. \A f \in DOMAIN r.offer : RequestOf(r)[f] = r.offer[f]
  BY <1>2 DEF RequestOf
<1>4. /\ r.offer.entry_limit \in Int /\ r.offer.tick \in Nat \ {0} /\ r.offer.reference \in Int
      /\ r.offer.atr \in Int /\ r.offer.stop_multiple \in Int /\ r.offer.target_multiple \in Int
      /\ r.offer.bid \in Int /\ r.offer.ask \in Int /\ r.offer.adv \in Int
      /\ r.offer.premarket_volume \in Int
  BY <1>1 DEF Offer
<1>5. r.offer.flags \subseteq DOMAIN Multiplier
  BY <1>1 DEF Offer, Multiplier
<1> QED BY <1>2, <1>3, <1>4, <1>5

LEMMA IncrementType ==
  ASSUME NEW x \in Int, NEW t \in Nat \ {0}
  PROVE  RoundUpToIncrement(x, t) \in Int /\ RoundDownToIncrement(x, t) \in Int
  BY DivisionType DEF RoundUpToIncrement, RoundDownToIncrement

\* The prices of a request and the risk of a share are amounts.
LEMMA PriceTypes ==
  ASSUME NEW r \in Requests, NEW q, q = RequestOf(r)
  PROVE  /\ EntryLimit(q) \in Int /\ StopPrice(q) \in Int /\ ModeledRisk(q) \in Int
<1>1. /\ q.entry_limit \in Int /\ q.tick \in Nat \ {0} /\ q.reference \in Int
      /\ q.atr \in Int /\ q.stop_multiple \in Int /\ q.bid \in Int /\ q.ask \in Int
  BY RequestFields
<1>2. EntryLimit(q) \in Int
  BY <1>1, IncrementType DEF EntryLimit
<1>3. StopPrice(q) \in Int
  <2>1. PICK p \in Int : p = q.stop_multiple * q.atr BY <1>1
  <2>2. PICK k \in Int : k = p \div Whole BY PolicyType, DivisionType
  <2>3. StopPrice(q) = RoundDownToIncrement(q.reference - k, q.tick)
    BY <2>1, <2>2 DEF StopPrice
  <2> QED BY <1>1, <2>3, IncrementType
<1>4. ExecutionBuffer(q) \in Int
  <2>1. PICK p \in Int : p = Policy.slippage_atr * q.atr BY <1>1, PolicyType
  <2>2. PICK k \in Int : k = p \div Whole BY PolicyType, DivisionType
  <2>3. Spread(q) \in Int BY <1>1 DEF Spread
  <2>4. PICK u \in Int : u = Policy.slippage_spread * Spread(q) BY <2>3, PolicyType
  <2>5. PICK v \in Int : v = u \div Whole BY PolicyType, DivisionType
  <2>6. ExecutionBuffer(q) = Larger(k, v) BY <2>1, <2>2, <2>4, <2>5 DEF ExecutionBuffer
  <2> QED BY <2>6 DEF Larger
<1>5. ModeledRisk(q) \in Int
  BY <1>2, <1>3, <1>4 DEF ModeledRisk, StructuralRisk
<1> QED BY <1>2, <1>3, <1>5

\* Of several flags the smallest multiplier counts: there is one.
LEMMA FlagMultiplierType ==
  ASSUME NEW flags \in SUBSET (DOMAIN Multiplier)
  PROVE  FlagMultiplier(flags) \in Nat
<1> DEFINE all == {100} \cup {Multiplier[f] : f \in flags}
<1>1. all \in SUBSET Nat /\ all # {}
  BY DEF Multiplier
<1>2. \E m \in all : \A n \in all : m =< n
  BY <1>1, LeastNumber
<1>3. FlagMultiplier(flags) \in all
  BY <1>2 DEF FlagMultiplier
<1> QED BY <1>1, <1>3

\* The quantity caps are numbers, and the smallest of them is below every one.
LEMMA CapsHaveLeast ==
  ASSUME NEW r \in Requests, NEW q, q = RequestOf(r), NEW s \in Session(Tickers),
         NEW a \in Account, EntryLimit(q) > 0, ModeledRisk(q) > 0,
         NEW caps, caps = QuantityCaps(q, a, s)
  PROVE  /\ SmallestCap(caps) \in Int
         /\ \A c \in DOMAIN caps : SmallestCap(caps) =< caps[c]
<1>1. EntryLimit(q) \in Nat \ {0} /\ ModeledRisk(q) \in Nat \ {0}
  BY PriceTypes
<1>2. q.adv \in Int /\ q.premarket_volume \in Int /\ q.flags \subseteq DOMAIN Multiplier
  BY RequestFields
<1>3. TradeRiskBudget(q, s) \in Int
  <2>1. PICK b \in Int : b = ShareOf(s.reference_equity, Policy.risk_per_trade) BY SessionAmounts
  <2>2. PICK m \in Nat : m = FlagMultiplier(q.flags) BY <1>2, FlagMultiplierType
  <2>3. PICK p \in Int : p = b * m OBVIOUS
  <2>4. p \div 100 \in Int BY DivisionType
  <2>5. TradeRiskBudget(q, s) = FloorToCent(p \div 100)
    BY <2>1, <2>2, <2>3 DEF TradeRiskBudget
  <2> QED BY <2>4, <2>5, FloorToCentDown
<1>4. caps.trade_risk \in Int /\ caps.open_risk \in Int /\ caps.daily_loss \in Int
  BY <1>1, <1>3, RemainingFits, DivisionType DEF QuantityCaps
<1>5. caps.buying_power \in Int /\ caps.position_notional \in Int /\ caps.gross_exposure \in Int
  BY <1>1, RemainingFits, SessionAmounts, DivisionType DEF QuantityCaps
<1>6. caps.adv_liquidity \in Int /\ caps.premarket_liquidity \in Int
  <2>1. PICK p \in Int : p = q.adv * Policy.max_adv BY <1>2, PolicyType
  <2>2. PICK u \in Int : u = q.premarket_volume * Policy.max_premarket BY <1>2, PolicyType
  <2>3. p \div Whole \in Int /\ u \div Whole \in Int BY PolicyType, DivisionType
  <2> QED BY <2>1, <2>2, <2>3 DEF QuantityCaps
<1>7. DOMAIN caps = {"trade_risk", "open_risk", "daily_loss", "buying_power",
         "position_notional", "gross_exposure", "adv_liquidity", "premarket_liquidity"}
  BY DEF QuantityCaps
<1>8. \A c \in DOMAIN caps : caps[c] \in Int
  BY <1>4, <1>5, <1>6, <1>7
<1>9. \E n \in {caps[c] : c \in DOMAIN caps} : \A c \in DOMAIN caps : n =< caps[c]
  BY <1>4, <1>5, <1>6, <1>7
<1>10. /\ SmallestCap(caps) \in {caps[c] : c \in DOMAIN caps}
       /\ \A c \in DOMAIN caps : SmallestCap(caps) =< caps[c]
  BY <1>9 DEF SmallestCap
<1> QED BY <1>8, <1>10
\* What a decision reserves for a session state s that the account snapshot a is of: an
\* approved decision reserves something, and with it the session keeps within the limits.
Fits(d, a, s) ==
  /\ d.modeled_risk \in Nat \ {0} /\ d.notional \in Nat \ {0}
  /\ s.open_risk + d.modeled_risk =< MaxOpenRisk(s)
  /\ s.open_risk + d.modeled_risk =< HardLossLimit(s) - CurrentLoss(a, s)
  /\ s.reserved_notional + d.notional =< Cash(a)
  /\ s.reserved_notional + d.notional =< MaxGrossExposure(s) - s.long_value
  /\ s.open_positions + s.reserved_positions + 1 =< Policy.max_concurrent

\* size_position: whatever the policy, the account, the session and the request are, a
\* position it approves fits what the session has left of every limit.
THEOREM ApprovedFits ==
  ASSUME NEW r \in Requests, NEW a \in Account, NEW s \in Session(Tickers),
         SizePosition(RequestOf(r), a, s).approved
  PROVE  Fits(SizePosition(RequestOf(r), a, s), a, s)
<1>1. PICK q : q = RequestOf(r) OBVIOUS
<1>2. PICK caps : caps = QuantityCaps(q, a, s) OBVIOUS
<1>3. PICK d : d = SizePosition(q, a, s) OBVIOUS
<1>4. RejectionReasons(q, a, s) = {} /\ ~ (SmallestCap(caps) < MinimumQuantity)
  BY <1>1, <1>2 DEF SizePosition, Rejected
<1>5. d = ApprovedFor(q, caps)
  BY <1>2, <1>3, <1>4 DEF SizePosition
<1>6. \A c \in DOMAIN Failed(q, a, s) : ~ Failed(q, a, s)[c]
  BY <1>4 DEF RejectionReasons
<1>7. ~ Failed(q, a, s).invalid_price_geometry /\ ~ Failed(q, a, s).max_concurrent_positions
  <2>1. {"invalid_price_geometry", "max_concurrent_positions"} \subseteq DOMAIN Failed(q, a, s)
    BY DEF Failed
  <2> QED BY <1>6, <2>1
<1>8. ~ (StopPrice(q) =< 0) /\ ~ (EntryLimit(q) =< StopPrice(q)) /\ ~ (ModeledRisk(q) =< 0)
  BY <1>7 DEF Failed
<1>9. ~ (s.open_positions + s.reserved_positions >= Policy.max_concurrent)
  BY <1>7 DEF Failed
<1>10. EntryLimit(q) \in Nat \ {0} /\ ModeledRisk(q) \in Nat \ {0}
  BY <1>1, <1>8, PriceTypes
<1>11. PICK n \in Int : n = SmallestCap(caps) /\ \A c \in DOMAIN caps : n =< caps[c]
  BY <1>1, <1>2, <1>10, CapsHaveLeast
<1>12. n \in Nat \ {0}
  BY <1>4, <1>11 DEF MinimumQuantity
<1>13. d.modeled_risk = ModeledRisk(q) * n /\ d.notional = EntryLimit(q) * n
  BY <1>5, <1>11 DEF ApprovedFor
<1>14. d.modeled_risk \in Nat \ {0} /\ d.notional \in Nat \ {0}
  BY <1>10, <1>12, <1>13
<1>15. /\ n =< RemainingOpenRisk(s) \div ModeledRisk(q)
       /\ n =< RemainingLoss(a, s) \div ModeledRisk(q)
       /\ n =< UsableBuyingPower(a, s) \div EntryLimit(q)
       /\ n =< RemainingExposure(s) \div EntryLimit(q)
  <2>1. {"open_risk", "daily_loss", "buying_power", "gross_exposure"} \subseteq DOMAIN caps
    BY <1>2 DEF QuantityCaps
  <2>2. n =< caps.open_risk /\ n =< caps.daily_loss /\ n =< caps.buying_power
          /\ n =< caps.gross_exposure
    BY <1>11, <2>1
  <2> QED BY <1>2, <2>2 DEF QuantityCaps
<1>16. /\ d.modeled_risk =< RemainingOpenRisk(s) /\ d.modeled_risk =< RemainingLoss(a, s)
       /\ d.notional =< UsableBuyingPower(a, s) /\ d.notional =< RemainingExposure(s)
  BY <1>10, <1>12, <1>13, <1>15, SharesFit, RemainingFits
<1>17. /\ s.open_risk \in Nat /\ s.reserved_notional \in Nat /\ s.long_value \in Nat
       /\ s.open_positions \in Nat /\ s.reserved_positions \in Nat
  BY DEF Session
<1>18. /\ MaxOpenRisk(s) \in Int /\ HardLossLimit(s) \in Int /\ CurrentLoss(a, s) \in Int
       /\ MaxGrossExposure(s) \in Int /\ Cash(a) \in Int /\ Policy.max_concurrent \in Int
  BY SessionAmounts, CashType, PolicyType
<1>19. /\ s.open_risk + d.modeled_risk =< MaxOpenRisk(s)
       /\ s.open_risk + d.modeled_risk =< HardLossLimit(s) - CurrentLoss(a, s)
  <2>1. /\ RemainingOpenRisk(s) \in Int
        /\ RemainingOpenRisk(s) =< MaxOpenRisk(s) - s.open_risk
        /\ RemainingLoss(a, s) \in Int
        /\ RemainingLoss(a, s) =< HardLossLimit(s) - CurrentLoss(a, s) - s.open_risk
    BY RemainingFits
  <2> QED BY <1>14, <1>16, <1>17, <1>18, <2>1
<1>20. /\ s.reserved_notional + d.notional =< Cash(a)
       /\ s.reserved_notional + d.notional =< MaxGrossExposure(s) - s.long_value
  <2>1. /\ UsableBuyingPower(a, s) \in Int
        /\ UsableBuyingPower(a, s) =< Cash(a) - s.reserved_notional
        /\ RemainingExposure(s) \in Int
        /\ RemainingExposure(s) =< MaxGrossExposure(s) - s.long_value - s.reserved_notional
    BY RemainingFits
  <2> QED BY <1>14, <1>16, <1>17, <1>18, <2>1
<1>21. s.open_positions + s.reserved_positions + 1 =< Policy.max_concurrent
  BY <1>9, <1>17, <1>18
<1> QED BY <1>1, <1>3, <1>14, <1>19, <1>20, <1>21 DEF Fits

-----------------------------------------------------------------------------
(* Rows and tables.                                                        *)

\* A session state with more reserved: so much risk x, so much notional y and z positions.
Moved(s, x, y, z) ==
  [s EXCEPT !.open_risk = s.open_risk + x, !.reserved_notional = s.reserved_notional + y,
            !.reserved_positions = s.reserved_positions + z]

LEMMA MovedType ==
  ASSUME NEW s \in Session(Tickers), NEW x \in Nat, NEW y \in Nat, NEW z \in Nat
  PROVE  Moved(s, x, y, z) \in Session(Tickers)
<1>1. PICK x1 \in Nat : x1 = s.open_risk + x BY DEF Session
<1>2. PICK y1 \in Nat : y1 = s.reserved_notional + y BY DEF Session
<1>3. PICK z1 \in Nat : z1 = s.reserved_positions + z BY DEF Session
<1>4. Moved(s, x, y, z) = [s EXCEPT !.open_risk = x1, !.reserved_notional = y1,
                                    !.reserved_positions = z1]
  BY <1>1, <1>2, <1>3 DEF Moved
<1>5. [s EXCEPT !.open_risk = x1, !.reserved_notional = y1, !.reserved_positions = z1]
        \in Session(Tickers)
  BY DEF Session
<1> QED BY <1>4, <1>5

\* Moving twice is moving by the sums.
LEMMA MovedTwice ==
  ASSUME NEW s \in Session(Tickers), NEW x \in Nat, NEW y \in Nat, NEW z \in Nat,
         NEW x1 \in Nat, NEW y1 \in Nat
  PROVE  Moved(Moved(s, x, y, z), x1, y1, 1) = Moved(s, Plus(x, x1), Plus(y, y1), Plus(z, 1))
<1> USE DEF Plus
<1>1. PICK p \in Nat : p = s.open_risk + x BY DEF Session
<1>2. PICK q \in Nat : q = s.reserved_notional + y BY DEF Session
<1>3. PICK r \in Nat : r = s.reserved_positions + z BY DEF Session
<1>4. PICK m : m = [s EXCEPT !.open_risk = p, !.reserved_notional = q, !.reserved_positions = r]
  OBVIOUS
<1>5. m = Moved(s, x, y, z) BY <1>1, <1>2, <1>3, <1>4 DEF Moved
<1>6. m.open_risk = p /\ m.reserved_notional = q /\ m.reserved_positions = r
  BY <1>4 DEF Session
<1>7. PICK p1 \in Nat : p1 = p + x1 OBVIOUS
<1>8. PICK q1 \in Nat : q1 = q + y1 OBVIOUS
<1>9. PICK r1 \in Nat : r1 = r + 1 OBVIOUS
<1>10. Moved(m, x1, y1, 1) = [m EXCEPT !.open_risk = p1, !.reserved_notional = q1,
                                       !.reserved_positions = r1]
  BY <1>6, <1>7, <1>8, <1>9 DEF Moved
<1>11. /\ s.open_risk + (x + x1) = p1 /\ s.reserved_notional + (y + y1) = q1
       /\ s.reserved_positions + (z + 1) = r1
  BY <1>1, <1>2, <1>3, <1>7, <1>8, <1>9 DEF Session
<1>12. Moved(s, x + x1, y + y1, z + 1)
         = [s EXCEPT !.open_risk = p1, !.reserved_notional = q1, !.reserved_positions = r1]
  BY <1>11 DEF Moved
<1>13. [m EXCEPT !.open_risk = p1, !.reserved_notional = q1, !.reserved_positions = r1]
      = [s EXCEPT !.open_risk = p1, !.reserved_notional = q1, !.reserved_positions = r1]
  BY <1>4
<1> QED BY <1>5, <1>10, <1>12, <1>13

LEMMA AfterMoves ==
  ASSUME NEW s, NEW d
  PROVE  AfterDecision(s, d) = IF d.approved THEN Moved(s, d.modeled_risk, d.notional, 1) ELSE s
  BY DEF AfterDecision, Moved

\* An approved row reserves something that fits, and every row leads to a session state.
LEMMA RowType ==
  ASSUME NEW row \in Rows
  PROVE  /\ row.input \in Inputs
         /\ row = RowOf(row.input.request, row.input.account, row.input.session)
         /\ row.decision = SizePosition(RequestOf(row.input.request), row.input.account,
                                        row.input.session)
         /\ row.decision.approved \in BOOLEAN
         /\ row.decision.approved => Fits(row.decision, row.input.account, row.input.session)
         /\ After(row) \in Session(Tickers)
<1>1. PICK i \in Inputs : row = RowOf(i.request, i.account, i.session)
  BY DEF Rows
<1>2. i.request \in Requests /\ i.account \in Account /\ i.session \in Session(Tickers)
  BY RiskAssumption DEF Inputs
<1>3. row.input = i
  BY <1>1 DEF RowOf, Inputs
<1>4. row.decision = SizePosition(RequestOf(i.request), i.account, i.session)
  BY <1>1 DEF RowOf
<1>5. row.decision.approved \in BOOLEAN
  BY <1>4 DEF SizePosition, Rejected, ApprovedFor
<1>6. row.decision.approved => Fits(row.decision, i.account, i.session)
  BY <1>2, <1>4, ApprovedFits
<1>7. After(row) \in Session(Tickers)
  <2>1. CASE ~ row.decision.approved
    BY <1>2, <1>3, <2>1 DEF After, AfterDecision
  <2>2. CASE row.decision.approved
    <3>1. row.decision.modeled_risk \in Nat /\ row.decision.notional \in Nat
      BY <1>6, <2>2 DEF Fits
    <3> QED BY <1>2, <1>3, <2>2, <3>1, AfterMoves, MovedType DEF After
  <2> QED BY <2>1, <2>2
<1> QED BY <1>1, <1>3, <1>4, <1>5, <1>6, <1>7

LEMMA RowOfType ==
  ASSUME NEW r \in Requests, NEW a \in Accounts, NEW s \in Session(Tickers)
  PROVE  RowOf(r, a, s) \in Rows
<1> DEFINE i == [request |-> r, account |-> a, session |-> s]
<1>1. i \in Inputs BY DEF Inputs
<1>2. RowOf(r, a, s) = RowOf(i.request, i.account, i.session) OBVIOUS
<1> HIDE DEF i
<1> QED BY <1>1, <1>2 DEF Rows

\* INSERT ... ON CONFLICT DO NOTHING keeps what is there.
LEMMA InsertedKeeps ==
  ASSUME NEW t, NEW id, NEW v, NEW u, u = Inserted(t, id, v)
  PROVE  /\ DOMAIN u = DOMAIN t \cup {id}
         /\ \A i \in DOMAIN t : u[i] = t[i]
         /\ id \notin DOMAIN t => u[id] = v
  BY DEF Inserted

\* The session state that the reservations of table t lead to from state o.
ReadFrom(o, t) ==
  Moved(o, SumOf(t, DOMAIN t, "risk"), SumOf(t, DOMAIN t, "notional"), Cardinality(DOMAIN t))

LEMMA RereadReads == Reread = ReadFrom(opening, reservationRows)
  BY DEF Reread, ReadFrom, Moved, SumOf

\* A table of reservations.
Table(t) == /\ IsFiniteSet(DOMAIN t)
            /\ \A i \in DOMAIN t : t[i].risk \in Nat /\ t[i].notional \in Nat

\* One more reservation leads to the state after its decision.
LEMMA ReadFromGrows ==
  ASSUME NEW o \in Session(Tickers), NEW t, Table(t), NEW id, id \notin DOMAIN t,
         NEW d, d.approved, d.modeled_risk \in Nat, d.notional \in Nat,
         NEW e, e.risk = d.modeled_risk, e.notional = d.notional,
         NEW u, u = Inserted(t, id, e)
  PROVE  /\ ReadFrom(o, u) = AfterDecision(ReadFrom(o, t), d)
         /\ ReadFrom(o, t) \in Session(Tickers)
<1>1. DOMAIN u = DOMAIN t \cup {id} /\ u[id] = e /\ \A i \in DOMAIN t : u[i] = t[i]
  BY DEF Inserted
<1>2. /\ SumOf(t, DOMAIN t, "risk") \in Nat
      /\ SumOf(u, DOMAIN u, "risk") = SumOf(t, DOMAIN t, "risk") + d.modeled_risk
  <2>1. PICK f : f = "risk" OBVIOUS
  <2>2. /\ \A i \in DOMAIN t : t[i][f] \in Nat /\ u[i][f] = t[i][f]
        /\ u[id][f] = d.modeled_risk
    BY <1>1, <2>1 DEF Table
  <2>3. IsFiniteSet(DOMAIN t) BY DEF Table
  <2>4. PICK D : D = DOMAIN t OBVIOUS
  <2>5. OneMore(t, u, D, id, f)
    BY <2>2, <2>3, <2>4 DEF OneMore
  <2>6. SumOf(t, D, f) \in Nat /\ SumOf(u, D \cup {id}, f) = Plus(SumOf(t, D, f), u[id][f])
    BY <2>5, SumGrows
  <2> QED BY <1>1, <2>1, <2>2, <2>4, <2>6 DEF Plus
<1>3. /\ SumOf(t, DOMAIN t, "notional") \in Nat
      /\ SumOf(u, DOMAIN u, "notional") = SumOf(t, DOMAIN t, "notional") + d.notional
  <2>1. PICK f : f = "notional" OBVIOUS
  <2>2. /\ \A i \in DOMAIN t : t[i][f] \in Nat /\ u[i][f] = t[i][f]
        /\ u[id][f] = d.notional
    BY <1>1, <2>1 DEF Table
  <2>3. IsFiniteSet(DOMAIN t) BY DEF Table
  <2>4. PICK D : D = DOMAIN t OBVIOUS
  <2>5. OneMore(t, u, D, id, f)
    BY <2>2, <2>3, <2>4 DEF OneMore
  <2>6. SumOf(t, D, f) \in Nat /\ SumOf(u, D \cup {id}, f) = Plus(SumOf(t, D, f), u[id][f])
    BY <2>5, SumGrows
  <2> QED BY <1>1, <2>1, <2>2, <2>4, <2>6 DEF Plus
<1>4. Cardinality(DOMAIN t) \in Nat /\ Cardinality(DOMAIN u) = Cardinality(DOMAIN t) + 1
  BY <1>1, FS_AddElement, FS_CardinalityType DEF Table
<1>5. ReadFrom(o, t) \in Session(Tickers)
  BY <1>2, <1>3, <1>4, MovedType DEF ReadFrom
<1>6. ReadFrom(o, u) = AfterDecision(ReadFrom(o, t), d)
  <2>1. PICK x \in Nat : x = SumOf(t, DOMAIN t, "risk") BY <1>2
  <2>2. PICK y \in Nat : y = SumOf(t, DOMAIN t, "notional") BY <1>3
  <2>3. PICK z \in Nat : z = Cardinality(DOMAIN t) BY <1>4
  <2>4. ReadFrom(o, u) = Moved(o, Plus(x, d.modeled_risk), Plus(y, d.notional), Plus(z, 1))
    BY <1>2, <1>3, <1>4, <2>1, <2>2, <2>3 DEF ReadFrom, Plus
  <2>5. ReadFrom(o, t) = Moved(o, x, y, z)
    BY <2>1, <2>2, <2>3 DEF ReadFrom
  <2>6. AfterDecision(ReadFrom(o, t), d) = Moved(Moved(o, x, y, z), d.modeled_risk, d.notional, 1)
    BY <2>5, AfterMoves
  <2> QED BY <2>4, <2>6, MovedTwice
<1> QED BY <1>5, <1>6

LEMMA ReadFromType ==
  ASSUME NEW o \in Session(Tickers), NEW t, Table(t)
  PROVE  ReadFrom(o, t) \in Session(Tickers)
<1>1. PICK f, g : f = "risk" /\ g = "notional" OBVIOUS
<1>2. PICK D : D = DOMAIN t OBVIOUS
<1>3. IsFiniteSet(D) /\ (\A i \in D : t[i][f] \in Nat) /\ (\A i \in D : t[i][g] \in Nat)
  BY <1>1, <1>2 DEF Table
<1>4. SumOf(t, D, f) \in Nat /\ SumOf(t, D, g) \in Nat
  BY <1>3, SumType
<1>5. Cardinality(D) \in Nat
  BY <1>3, FS_CardinalityType
<1> QED BY <1>1, <1>2, <1>4, <1>5, MovedType DEF ReadFrom

LEMMA BatchType ==
  ASSUME NEW b \in Batches
  PROVE  b \in Seq(Requests) /\ Len(b) \in 1 .. MaxBatch /\ DOMAIN b = 1 .. Len(b)
<1>1. PICK n \in 1 .. MaxBatch : b \in [1 .. n -> Requests]
  BY DEF Batches, Requests
<1>2. n \in Nat BY RiskAssumption
<1> QED BY <1>1, <1>2

LEMMA FiniteIds == IsFiniteSet(Ids)
<1>1. IsFiniteSet(1 .. MaxCalls) /\ IsFiniteSet(1 .. MaxBatch)
  BY FS_Interval, RiskAssumption
<1> QED BY <1>1, FS_Product DEF Ids

\* The reservations are a table of them.
LEMMA ReservationsTable ==
  ASSUME RowsOK, ReservedOK
  PROVE  Table(reservationRows)
<1>1. DOMAIN reservationRows \subseteq Ids
  BY DEF RowsOK, ReservedOK
<1>2. IsFiniteSet(DOMAIN reservationRows)
  BY <1>1, FiniteIds, FS_Subset
<1>3. ASSUME NEW i \in DOMAIN reservationRows
      PROVE  reservationRows[i].risk \in Nat /\ reservationRows[i].notional \in Nat
  <2>1. decisionRows[i] \in Rows /\ decisionRows[i].decision.approved
    BY <1>3 DEF RowsOK, ReservedOK
  <2>2. decisionRows[i].decision.modeled_risk \in Nat /\ decisionRows[i].decision.notional \in Nat
    BY <2>1, RowType DEF Fits
  <2> QED BY <1>3, <2>2 DEF ReservedOK
<1> QED BY <1>2, <1>3 DEF Table

-----------------------------------------------------------------------------
(* The invariant.                                                          *)

LEMMA RereadType ==
  ASSUME RiskInv PROVE Reread \in Session(Tickers)
<1>1. Table(reservationRows)
  BY ReservationsTable DEF RiskInv
<1>2. opening \in Session(Tickers)
  BY RiskAssumption DEF RiskInv, CallOK
<1> QED BY <1>1, <1>2, ReadFromType, RereadReads

LEMMA RereadReadsNext == Reread' = ReadFrom(opening', reservationRows')
<1>1. (Reread = ReadFrom(opening, reservationRows))'
  BY RereadReads, PTL
<1> QED BY <1>1

LEMMA RereadStays ==
  ASSUME UNCHANGED <<opening, reservationRows>> PROVE Reread' = Reread
  BY RereadReads, RereadReadsNext

\* Steps that leave the tables alone.
LEMMA TablesStay ==
  ASSUME RiskInv, UNCHANGED <<opening, tables>>, call' \in Nat, call' >= call
  PROVE  RowsOK' /\ ReservedOK'
<1>1. call \in Nat
  BY RiskAssumption DEF RiskInv, CallOK
<1>2. RowsOK'
  BY <1>1 DEF RiskInv, RowsOK, tables
<1>3. ReservedOK'
  BY DEF RiskInv, ReservedOK, tables
<1> QED BY <1>2, <1>3

LEMMA RiskStarts == RiskInit => RiskInv
<1> SUFFICES ASSUME RiskInit PROVE RiskInv
  OBVIOUS
<1>1. opening \in Session(Tickers)
  BY RiskAssumption DEF RiskInit
<1>2. CallOK
  BY <1>1, RiskAssumption DEF RiskInit, CallOK
<1>3. SizedOK
  BY DEF RiskInit, SizedOK
<1>4. RowsOK /\ ReservedOK
  BY DEF RiskInit, RowsOK, ReservedOK
<1>5. ReadsOK /\ StoredOK /\ CollisionMeansChanged
  BY DEF RiskInit, ReadsOK, StoredOK, CollisionMeansChanged
<1> QED BY <1>2, <1>3, <1>4, <1>5 DEF RiskInv

\* EvaluateBatch, Evaluate: a call of its own has no rows yet.
LEMMA NewCallInv ==
  ASSUME RiskInv, EvaluateBatch \/ Evaluate PROVE RiskInv'
<1>1. PICK a \in Accounts, b \in Batches :
        /\ Given(a, Reread, b)
        /\ pc' \in {"sizing", "evaluating"} /\ (pc' = "evaluating" => Len(b) = 1)
  BY DEF EvaluateBatch, Evaluate
<1>2. /\ pc = "idle" /\ call < MaxCalls /\ call' = call + 1
      /\ UNCHANGED <<opening, tables>>
  BY DEF EvaluateBatch, Evaluate
<1>3. call \in 0 .. MaxCalls /\ MaxCalls \in Nat /\ MaxBatch \in Nat
  BY RiskAssumption DEF RiskInv, CallOK
<1>4. b \in Seq(Requests) /\ Len(b) \in 1 .. MaxBatch
  BY BatchType
<1>5. RowsOK' /\ ReservedOK'
  BY <1>2, <1>3, TablesStay
<1>6. Reread \in Session(Tickers)
  BY RereadType
<1>7. CallOK'
  BY <1>1, <1>2, <1>3, <1>4, <1>6 DEF RiskInv, CallOK, Given
<1>8. SizedOK'
  BY <1>1, <1>4 DEF SizedOK, Given
<1>9. \A n \in Nat : <<call', n>> \notin DOMAIN decisionRows'
  <2>1. DOMAIN decisionRows \subseteq Ids
    BY DEF RiskInv, RowsOK
  <2>2. \A c \in 1 .. MaxCalls, n \in 1 .. MaxBatch : <<c, n>> \in DOMAIN decisionRows => c =< call
    BY DEF RiskInv, RowsOK
  <2>3. \A n \in Nat : <<call + 1, n>> \notin DOMAIN decisionRows
    BY <1>3, <2>1, <2>2 DEF Ids
  <2> QED BY <1>2, <2>3 DEF tables
<1>10. ReadsOK'
  <2>1. Reread' = Reread
    BY <1>2, RereadStays DEF tables
  <2>2. base' = Reread
    BY <1>1 DEF Given
  <2>3. \A n \in 1 .. MaxBatch : <<call', n>> \notin DOMAIN decisionRows'
    <3> SUFFICES ASSUME NEW n \in 1 .. MaxBatch PROVE <<call', n>> \notin DOMAIN decisionRows'
      OBVIOUS
    <3>1. n \in Nat BY <1>3
    <3> QED BY <3>1, <1>9
  <2> QED BY <2>1, <2>2, <2>3 DEF ReadsOK
<1>11. StoredOK'
  <2>1. stored' = 0 /\ batch' = b /\ pc' \notin {"storing", "deciding"}
    BY <1>1 DEF Given
  <2> QED BY <1>4, <2>1 DEF StoredOK
<1>12. CollisionMeansChanged'
  BY <1>1 DEF CollisionMeansChanged
<1> QED BY <1>5, <1>7, <1>8, <1>10, <1>11, <1>12 DEF RiskInv

\* Retry: the state the caller reads again is the one it was given, as long as nothing of the
\* call is decided.
LEMMA RetryInv ==
  ASSUME RiskInv, Retry PROVE RiskInv'
<1>1. PICK a \in Accounts, s \in {base, Reread}, b \in Batches :
        Len(b) = Len(batch) /\ Given(a, s, b)
  BY DEF Retry
<1>2. /\ pc = "failed" /\ UNCHANGED <<opening, call, tables>>
      /\ pc' \in {"sizing", "evaluating"} /\ (pc' = "evaluating" => Len(batch) = 1)
  BY DEF Retry
<1>3. call \in 0 .. MaxCalls /\ MaxCalls \in Nat /\ MaxBatch \in Nat
  BY RiskAssumption DEF RiskInv, CallOK
<1>4. b \in Seq(Requests) /\ Len(b) \in 1 .. MaxBatch
  BY BatchType
<1>5. RowsOK' /\ ReservedOK'
  BY <1>2, <1>3, TablesStay
<1>6. s \in Session(Tickers)
  BY RereadType DEF RiskInv, CallOK
<1>7. CallOK'
  <2>1. /\ opening' = opening /\ call' = call /\ account' = a /\ base' = s /\ current' = s
        /\ batch' = b /\ stored' = 0
    BY <1>1, <1>2 DEF Given
  <2>2. call > 0 /\ opening \in Sessions
    BY <1>2 DEF RiskInv, CallOK
  <2>3. /\ batch' \in Seq(Requests) /\ Len(batch') =< MaxBatch /\ Len(batch') > 0
        /\ stored' \in 0 .. Len(batch')
    BY <1>3, <1>4, <2>1
  <2>4. pc' = "evaluating" => Len(batch') = 1
    BY <1>1, <1>2, <2>1
  <2>5. base' \in Session(Tickers) /\ current' \in Session(Tickers)
    BY <1>6, <2>1
  <2> QED BY <1>2, <1>3, <2>1, <2>2, <2>3, <2>4, <2>5 DEF CallOK
<1>8. SizedOK'
  BY <1>1, <1>2, <1>4 DEF SizedOK, Given
<1>9. ReadsOK'
  <2>1. Reread' = Reread
    BY <1>2, RereadStays DEF tables
  <2>2. base' = s
    BY <1>1 DEF Given
  <2> QED BY <1>2, <2>1, <2>2 DEF RiskInv, ReadsOK, tables
<1>10. StoredOK'
  <2>1. stored' = 0 /\ batch' = b /\ pc' \notin {"storing", "deciding"}
    BY <1>1, <1>2 DEF Given
  <2> QED BY <1>4, <2>1 DEF StoredOK
<1>11. CollisionMeansChanged'
  BY <1>2 DEF CollisionMeansChanged
<1> QED BY <1>5, <1>7, <1>8, <1>9, <1>10, <1>11 DEF RiskInv

\* Fail and Return drop what the process had in memory.
LEMMA DropInv ==
  ASSUME RiskInv, Fail \/ Return PROVE RiskInv'
<1>1. call \in Nat
  BY RiskAssumption DEF RiskInv, CallOK
<1>2. /\ UNCHANGED <<opening, account, call, tables>>
      /\ current' = base' /\ sized' = << >> /\ stored' = 0
      /\ \/ /\ pc # "idle" /\ pc' = "failed" /\ UNCHANGED <<base, batch>>
         \/ /\ pc' = "idle" /\ base' = opening /\ batch' = << >>
  BY DEF Fail, Return
<1>3. RowsOK' /\ ReservedOK'
  BY <1>1, <1>2, TablesStay
<1>4. opening \in Session(Tickers)
  BY RiskAssumption DEF RiskInv, CallOK
<1>5. CallOK'
  <2>1. CASE pc # "idle" /\ pc' = "failed" /\ UNCHANGED <<base, batch>>
    BY <1>2, <2>1 DEF RiskInv, CallOK
  <2>2. CASE pc' = "idle" /\ base' = opening /\ batch' = << >>
    BY <1>2, <1>4, <2>2, RiskAssumption DEF RiskInv, CallOK
  <2> QED BY <1>2, <2>1, <2>2
<1>6. SizedOK'
  BY <1>2, <1>5 DEF SizedOK, CallOK
<1>7. ReadsOK'
  <2>1. Reread' = Reread
    BY <1>2, RereadStays DEF tables
  <2> QED BY <1>2, <2>1 DEF RiskInv, ReadsOK, tables
<1>8. StoredOK'
  BY <1>2, <1>5 DEF StoredOK, CallOK
<1>9. CollisionMeansChanged'
  BY <1>2 DEF CollisionMeansChanged
<1> QED BY <1>3, <1>5, <1>6, <1>7, <1>8, <1>9 DEF RiskInv

\* size_approved_batch: the next rank is sized with the state the last one left.
LEMMA SizeNextInv ==
  ASSUME RiskInv, SizeNext PROVE RiskInv'
<1>1. PICK n : n = Len(sized) + 1 OBVIOUS
<1>2. PICK d : d = SizePosition(RequestOf(batch[n]), account, current) OBVIOUS
<1>3. /\ pc = "sizing" /\ UNCHANGED <<opening, account, base, batch, call, stored, tables>>
      /\ sized' = Append(sized, [decision |-> d, input |-> Input(batch[n], current)])
      /\ current' = AfterDecision(current, d)
      /\ pc' = IF n = Len(batch) THEN "saving" ELSE "sizing"
  BY <1>1, <1>2 DEF SizeNext
<1>4. /\ batch \in Seq(Requests) /\ Len(batch) =< MaxBatch /\ account \in Accounts
      /\ current \in Session(Tickers) /\ call \in Nat /\ stored = 0
      /\ sized \in Seq(Rows) /\ Len(sized) < Len(batch)
  BY <1>3, RiskAssumption DEF RiskInv, CallOK, SizedOK
<1>5. n \in 1 .. Len(batch) /\ batch[n] \in Requests
  BY <1>1, <1>4
<1>6. PICK row : row = RowOf(batch[n], account, current) OBVIOUS
<1>7. row = [decision |-> d, input |-> Input(batch[n], current)] /\ row \in Rows
  BY <1>2, <1>4, <1>5, <1>6, RowOfType DEF RowOf, Input
<1>8. After(row) = current' /\ After(row) \in Session(Tickers)
  BY <1>3, <1>7, RowType DEF After, Input
<1>9. sized' = Append(sized, row)
  BY <1>3, <1>7
<1>10. /\ sized' \in Seq(Rows) /\ Len(sized') = n /\ sized'[n] = row
       /\ \A k \in 1 .. Len(sized) : sized'[k] = sized[k]
  BY <1>1, <1>4, <1>7, <1>9
<1>11. CallOK'
  BY <1>3, <1>4, <1>5, <1>8 DEF RiskInv, CallOK
<1>12. SizedOK'
  <2>1. current = IF n = 1 THEN base ELSE After(sized[n - 1])
    BY <1>1, <1>3, <1>4 DEF RiskInv, SizedOK
  <2>2. ASSUME NEW k \in 1 .. n
        PROVE  sized'[k] = RowOf(batch[k], account, IF k = 1 THEN base ELSE After(sized'[k - 1]))
    <3>1. CASE k = n
      BY <1>1, <1>4, <1>6, <1>10, <2>1, <3>1
    <3>2. CASE k # n
      <4>1. k \in 1 .. Len(sized) /\ (k # 1 => k - 1 \in 1 .. Len(sized))
        BY <1>1, <1>4, <2>2, <3>2
      <4>2. sized[k] = RowOf(batch[k], account, IF k = 1 THEN base ELSE After(sized[k - 1]))
        BY <4>1 DEF RiskInv, SizedOK
      <4> QED BY <1>10, <4>1, <4>2
    <3> QED BY <3>1, <3>2
  <2>3. sized' # << >>
    BY <1>5, <1>10
  <2>4. Len(sized') =< Len(batch') /\ stored' =< Len(sized')
    BY <1>3, <1>4, <1>5, <1>10
  <2>5. pc' = "sizing" => Len(sized') < Len(batch')
    BY <1>3, <1>5, <1>10
  <2>6. pc' \in {"saving", "storing"} => Len(sized') = Len(batch')
    BY <1>3, <1>10
  <2>7. current' = After(sized'[Len(sized')])
    BY <1>8, <1>10
  <2> QED BY <1>3, <1>4, <1>10, <2>2, <2>3, <2>4, <2>5, <2>6, <2>7 DEF SizedOK
<1>13. RowsOK' /\ ReservedOK'
  BY <1>3, <1>4, TablesStay
<1>14. ReadsOK'
  <2>1. Reread' = Reread
    BY <1>3, RereadStays DEF tables
  <2> QED BY <1>3, <2>1 DEF RiskInv, ReadsOK, tables
<1>15. StoredOK'
  BY <1>3, <1>4 DEF StoredOK
<1>16. CollisionMeansChanged'
  BY <1>3 DEF CollisionMeansChanged
<1> QED BY <1>11, <1>12, <1>13, <1>14, <1>15, <1>16 DEF RiskInv

\* evaluate sizes its one request with the state it was given.
LEMMA SizeOneInv ==
  ASSUME RiskInv, SizeOne PROVE RiskInv'
<1>1. PICK row : row = RowOf(batch[1], account, base) OBVIOUS
<1>2. /\ pc = "deciding" /\ pc' = "storing" /\ sized' = <<row>>
      /\ UNCHANGED <<opening, account, base, batch, call, current, stored, tables>>
  BY <1>1 DEF SizeOne, RowOf, Input
<1>3. /\ batch \in Seq(Requests) /\ Len(batch) = 1 /\ account \in Accounts
      /\ base \in Session(Tickers) /\ call \in Nat /\ stored = 0
  BY <1>2, RiskAssumption DEF RiskInv, CallOK
<1>4. batch[1] \in Requests /\ row \in Rows
  <2>1. batch[1] \in Requests BY <1>3
  <2> QED BY <1>1, <1>3, <2>1, RowOfType
<1>5. CallOK'
  BY <1>2, <1>3 DEF RiskInv, CallOK
<1>6. SizedOK'
  BY <1>1, <1>2, <1>3, <1>4 DEF SizedOK
<1>7. RowsOK' /\ ReservedOK'
  BY <1>2, <1>3, TablesStay
<1>8. ReadsOK'
  <2>1. Reread' = Reread
    BY <1>2, RereadStays DEF tables
  <2> QED BY <1>2, <2>1 DEF RiskInv, ReadsOK, tables
<1>9. StoredOK'
  BY <1>2, <1>3 DEF RiskInv, StoredOK, Id, Input, tables
<1>10. CollisionMeansChanged'
  BY <1>2 DEF CollisionMeansChanged
<1> QED BY <1>5, <1>6, <1>7, <1>8, <1>9, <1>10 DEF RiskInv

\* save_request: the row of the next rank is new, or the one of an earlier attempt.
LEMMA StoreRequestInv ==
  ASSUME RiskInv, StoreRequest PROVE RiskInv'
<1>1. PICK n : n = stored + 1 OBVIOUS
<1>2. PICK in : in = Input(batch[n], base) OBVIOUS
<1>3. /\ pc \in {"saving", "evaluating"}
      /\ UNCHANGED <<opening, account, base, batch, call, current, sized, stored,
                     decisionRows, reservationRows>>
      /\ \/ /\ RequestCollides(Id(n), in) /\ pc' = "collision" /\ UNCHANGED requestRows
         \/ /\ ~ RequestCollides(Id(n), in) /\ SaveRequest(Id(n), in)
            /\ pc' = IF pc = "saving" THEN "storing" ELSE "deciding"
  BY <1>1, <1>2 DEF StoreRequest
<1>4. /\ batch \in Seq(Requests) /\ Len(batch) =< MaxBatch /\ account \in Accounts
      /\ base \in Session(Tickers) /\ call \in 1 .. MaxCalls /\ stored \in 0 .. Len(batch)
      /\ stored < Len(batch) /\ MaxBatch \in Nat
  BY <1>3, RiskAssumption DEF RiskInv, CallOK
<1>5. n \in 1 .. Len(batch) /\ batch[n] \in Requests /\ Id(n) \in Ids
  BY <1>1, <1>4 DEF Id, Ids
<1>6. in \in Inputs
  BY <1>2, <1>4, <1>5 DEF Input, Inputs
<1>7. CallOK'
  BY <1>3, <1>4 DEF RiskInv, CallOK
<1>8. SizedOK'
  <2>1. pc = "saving" => Len(sized) = Len(batch)
    BY DEF RiskInv, SizedOK
  <2> QED BY <1>3, <2>1 DEF RiskInv, SizedOK
<1>9. /\ DOMAIN requestRows \subseteq DOMAIN requestRows' /\ DOMAIN requestRows' \subseteq Ids
      /\ \A id \in DOMAIN requestRows : requestRows'[id] = requestRows[id]
      /\ \A id \in DOMAIN requestRows' : requestRows'[id] \in Inputs
  <2>1. DOMAIN requestRows \subseteq Ids /\ \A id \in DOMAIN requestRows : requestRows[id] \in Inputs
    BY DEF RiskInv, RowsOK
  <2>2. CASE UNCHANGED requestRows
    BY <2>1, <2>2
  <2>3. CASE SaveRequest(Id(n), in)
    <3>1. requestRows' = Inserted(requestRows, Id(n), in) BY <2>3 DEF SaveRequest
    <3> QED BY <1>5, <1>6, <2>1, <3>1 DEF Inserted
  <2> QED BY <1>3, <2>2, <2>3
<1>10. RowsOK'
  <2>1. DOMAIN decisionRows \subseteq DOMAIN requestRows
    BY DEF RiskInv, RowsOK
  <2>2. ASSUME NEW c \in 1 .. MaxCalls, NEW k \in 1 .. MaxBatch, <<c, k>> \in DOMAIN decisionRows
        PROVE  /\ c =< call
               /\ \A j \in 1 .. k : <<c, j>> \in DOMAIN decisionRows
               /\ decisionRows[<<c, k>>] =
                    RowOf(requestRows'[<<c, k>>].request, requestRows'[<<c, k>>].account,
                          IF k = 1 THEN requestRows'[<<c, 1>>].session
                          ELSE After(decisionRows[<<c, k - 1>>]))
    <3>1. /\ c =< call
          /\ \A j \in 1 .. k : <<c, j>> \in DOMAIN decisionRows
          /\ decisionRows[<<c, k>>] =
               RowOf(requestRows[<<c, k>>].request, requestRows[<<c, k>>].account,
                     IF k = 1 THEN requestRows[<<c, 1>>].session
                     ELSE After(decisionRows[<<c, k - 1>>]))
      BY <2>2 DEF RiskInv, RowsOK
    <3>2. requestRows'[<<c, k>>] = requestRows[<<c, k>>]
      BY <1>9, <2>1, <2>2
    <3> QED BY <3>1, <3>2
  <2>3. /\ decisionRows = [id \in DOMAIN decisionRows |-> decisionRows[id]]
        /\ \A id \in DOMAIN decisionRows : decisionRows[id] \in Rows
    BY DEF RiskInv, RowsOK
  <2> QED BY <1>3, <1>9, <2>1, <2>2, <2>3 DEF RowsOK
<1>11. ReservedOK'
  BY <1>3 DEF RiskInv, ReservedOK
<1>12. ReadsOK'
  <2>1. Reread' = Reread
    BY <1>3, RereadStays
  <2> QED BY <1>3, <2>1 DEF RiskInv, ReadsOK
<1>13. StoredOK'
  <2>1. \A k \in 1 .. stored : Id(k)' = Id(k) /\ Id(k) \in DOMAIN decisionRows
                                /\ decisionRows[Id(k)] = sized[k]
    BY <1>3 DEF RiskInv, StoredOK, Id
  <2>2. ASSUME NEW k \in 1 .. Len(batch), k =< stored
        PROVE  Id(k) \in DOMAIN requestRows' /\ requestRows'[Id(k)] = Input(batch[k], base)
    <3>1. Id(k) \in DOMAIN requestRows /\ requestRows[Id(k)] = Input(batch[k], base)
      BY <2>2 DEF RiskInv, StoredOK
    <3> QED BY <1>9, <3>1
  <2>3. ASSUME pc' \in {"storing", "deciding"}
        PROVE  Id(n) \in DOMAIN requestRows' /\ requestRows'[Id(n)] = Input(batch[n], base)
    <3>1. ~ RequestCollides(Id(n), in) /\ requestRows' = Inserted(requestRows, Id(n), in)
      BY <1>3, <2>3 DEF SaveRequest
    <3> QED BY <1>2, <3>1 DEF RequestCollides, Inserted
  <2> QED BY <1>1, <1>3, <2>1, <2>2, <2>3 DEF StoredOK, Id, Input
<1>14. CollisionMeansChanged'
  <2> SUFFICES ASSUME pc' = "collision"
               PROVE  \E k \in DOMAIN batch' : Id(k)' \in DOMAIN requestRows'
                                               /\ requestRows'[Id(k)'] # Input(batch[k], base)'
    BY DEF CollisionMeansChanged
  <2>1. RequestCollides(Id(n), in) /\ UNCHANGED requestRows
    BY <1>3
  <2>2. n \in DOMAIN batch' /\ Id(n)' = Id(n) /\ Input(batch[n], base)' = in
    BY <1>2, <1>3, <1>4, <1>5 DEF Id, Input
  <2> QED BY <2>1, <2>2 DEF RequestCollides
<1> QED BY <1>7, <1>8, <1>10, <1>11, <1>12, <1>13, <1>14 DEF RiskInv

\* A decision about to be stored is the one that is stored already, or it was made from the
\* state a caller would read now.
LEMMA DecisionIsCurrent ==
  ASSUME RiskInv, pc = "storing", NEW n, n = stored + 1
  PROVE  /\ n \in 1 .. Len(batch) /\ Len(batch) = Len(sized) /\ n \in 1 .. MaxBatch
         /\ Id(n) \in DOMAIN requestRows /\ Id(n) \in Ids /\ sized[n] \in Rows
         /\ sized[n].input.account = account
         /\ sized[n] = RowOf(requestRows[Id(n)].request, requestRows[Id(n)].account,
                             IF n = 1 THEN requestRows[Id(1)].session
                             ELSE After(decisionRows[Id(n - 1)]))
         /\ \A k \in 1 .. n - 1 : Id(k) \in DOMAIN decisionRows
         /\ Id(n) \in DOMAIN decisionRows => decisionRows[Id(n)] = sized[n]
         /\ Id(n) \notin DOMAIN decisionRows => sized[n].input.session = Reread
<1>1. /\ batch \in Seq(Requests) /\ stored \in 0 .. Len(batch) /\ stored < Len(batch)
      /\ Len(batch) =< MaxBatch /\ call \in 1 .. MaxCalls /\ MaxBatch \in Nat
  BY RiskAssumption DEF RiskInv, CallOK
<1>2. n \in 1 .. Len(batch) /\ n \in 1 .. MaxBatch /\ n - 1 = stored
  BY <1>1
<1>3. sized \in Seq(Rows) /\ Len(sized) = Len(batch)
  BY DEF RiskInv, SizedOK
<1>4. sized[n] \in Rows /\ sized[n] = RowOf(batch[n], account, IF n = 1 THEN base ELSE After(sized[n - 1]))
  BY <1>2, <1>3 DEF RiskInv, SizedOK
<1>5. Id(n) \in DOMAIN requestRows /\ requestRows[Id(n)] = Input(batch[n], base)
  BY <1>2 DEF RiskInv, StoredOK
<1>6. \A k \in 1 .. n - 1 : Id(k) \in DOMAIN decisionRows /\ decisionRows[Id(k)] = sized[k]
  BY <1>2 DEF RiskInv, StoredOK
<1>7. n # 1 => decisionRows[Id(n - 1)] = sized[n - 1] /\ Id(n - 1) \in DOMAIN decisionRows
  BY <1>2, <1>6
<1>8. sized[n] = RowOf(requestRows[Id(n)].request, requestRows[Id(n)].account,
                       IF n = 1 THEN requestRows[Id(1)].session
                       ELSE After(decisionRows[Id(n - 1)]))
  BY <1>4, <1>5, <1>7 DEF Input
<1>9. Id(n) \in Ids
  BY <1>5 DEF RiskInv, RowsOK
<1>10. ASSUME Id(n) \in DOMAIN decisionRows PROVE decisionRows[Id(n)] = sized[n]
  <2>1. <<call, n>> \in DOMAIN decisionRows BY <1>10 DEF Id
  <2>2. decisionRows[<<call, n>>] =
          RowOf(requestRows[<<call, n>>].request, requestRows[<<call, n>>].account,
                IF n = 1 THEN requestRows[<<call, 1>>].session
                ELSE After(decisionRows[<<call, n - 1>>]))
    BY <1>1, <1>2, <2>1 DEF RiskInv, RowsOK
  <2> QED BY <1>8, <2>2 DEF Id
<1>11. ASSUME Id(n) \notin DOMAIN decisionRows PROVE sized[n].input.session = Reread
  <2>1. CASE n = 1
    <3>1. base = Reread
      BY <1>11, <2>1 DEF RiskInv, ReadsOK, Id
    <3> QED BY <1>4, <2>1, <3>1 DEF RowOf
  <2>2. CASE n # 1
    <3>1. PICK m : m = n - 1 OBVIOUS
    <3>2. m \in 1 .. MaxBatch /\ m + 1 = n BY <1>1, <1>2, <2>2, <3>1
    <3>3. <<call, m>> \in DOMAIN decisionRows /\ <<call, m + 1>> \notin DOMAIN decisionRows
      BY <1>7, <1>11, <2>2, <3>1, <3>2 DEF Id
    <3>4. After(decisionRows[<<call, m>>]) = Reread
      BY <3>2, <3>3 DEF RiskInv, ReadsOK
    <3> QED BY <1>4, <1>7, <2>2, <3>1, <3>4 DEF Id, RowOf
  <2> QED BY <2>1, <2>2
<1>12. sized[n].input.account = account
  BY <1>4 DEF RowOf
<1> QED BY <1>2, <1>3, <1>4, <1>5, <1>6, <1>8, <1>9, <1>10, <1>11, <1>12

LEMMA InsertedAgain ==
  ASSUME NEW t, t = [i \in DOMAIN t |-> t[i]], NEW id \in DOMAIN t, NEW v
  PROVE  Inserted(t, id, v) = t
<1>1. DOMAIN t \cup {id} = DOMAIN t OBVIOUS
<1>2. Inserted(t, id, v) = [i \in DOMAIN t |-> t[i]] BY <1>1 DEF Inserted
<1> QED BY <1>2

\* What storing the decision of rank n may do: it is refused for a reserved ticker; it finds
\* the row of an earlier attempt; it stores a rejection; or it grants a reservation.
Granted(n) == [ticker |-> batch[n].ticker, risk |-> sized[n].decision.modeled_risk,
               notional |-> sized[n].decision.notional]
Refuses(n) == /\ pc' = "collision" /\ TickerTaken(Id(n), batch[n].ticker)
              /\ UNCHANGED <<stored, decisionRows, reservationRows>>
Repeats(n) == /\ Id(n) \in DOMAIN decisionRows
              /\ UNCHANGED <<decisionRows, reservationRows>>
Rejects(n) == /\ Id(n) \notin DOMAIN decisionRows /\ ~ sized[n].decision.approved
              /\ decisionRows' = Inserted(decisionRows, Id(n), sized[n])
              /\ UNCHANGED reservationRows
Grants(n)  == /\ Id(n) \notin DOMAIN decisionRows /\ sized[n].decision.approved
              /\ decisionRows' = Inserted(decisionRows, Id(n), sized[n])
              /\ reservationRows' = Inserted(reservationRows, Id(n), Granted(n))

LEMMA StoreDecisionCases ==
  ASSUME RiskInv, StoreDecision, NEW n, n = stored + 1
  PROVE  /\ pc = "storing"
         /\ UNCHANGED <<opening, account, base, batch, call, current, sized, requestRows>>
         /\ \/ Refuses(n)
            \/ /\ Repeats(n) \/ Rejects(n) \/ Grants(n)
               /\ stored' = n /\ pc' = IF n = Len(sized) THEN "done" ELSE "saving"
<1>1. /\ pc = "storing"
      /\ UNCHANGED <<opening, account, base, batch, call, current, sized, requestRows>>
  BY DEF StoreDecision
<1>2. DecisionCollides(Id(n), sized[n]) = FALSE
  BY <1>1, DecisionIsCurrent DEF DecisionCollides
<1>3. CASE sized[n].decision.approved /\ TickerTaken(Id(n), batch[n].ticker)
  <2>1. Refuses(n)
    BY <1>3 DEF StoreDecision, Refuses
  <2> QED BY <1>1, <2>1
<1>4. CASE ~ (sized[n].decision.approved /\ TickerTaken(Id(n), batch[n].ticker))
  <2>1. /\ SaveDecision(Id(n), sized[n], batch[n].ticker)
        /\ stored' = n /\ pc' = IF n = Len(sized) THEN "done" ELSE "saving"
    BY <1>2, <1>4 DEF StoreDecision
  <2>2. /\ decisionRows' = Inserted(decisionRows, Id(n), sized[n])
        /\ sized[n].decision.approved
             => reservationRows' = Inserted(reservationRows, Id(n), Granted(n))
        /\ ~ sized[n].decision.approved => UNCHANGED reservationRows
    BY <2>1 DEF SaveDecision, Granted
  <2>3. CASE Id(n) \in DOMAIN decisionRows
    <3>1. decisionRows' = decisionRows
      BY <2>2, <2>3, InsertedAgain DEF RiskInv, RowsOK
    <3>2. sized[n].decision.approved => Id(n) \in DOMAIN reservationRows
      BY <1>1, <2>3, DecisionIsCurrent DEF RiskInv, ReservedOK
    <3>3. reservationRows' = reservationRows
      BY <2>2, <3>2, InsertedAgain, ZenonT(60) DEF RiskInv, ReservedOK
    <3>4. Repeats(n)
      BY <2>3, <3>1, <3>3 DEF Repeats
    <3> QED BY <1>1, <2>1, <3>4
  <2>4. CASE Id(n) \notin DOMAIN decisionRows
    <3>1. Rejects(n) \/ Grants(n)
      BY <2>2, <2>4 DEF Rejects, Grants
    <3> QED BY <1>1, <2>1, <3>1
  <2> QED BY <2>3, <2>4
<1> QED BY <1>3, <1>4

\* A new row leads from the state a caller would have read to the one it would read now.
LEMMA NewRowReads ==
  ASSUME RiskInv, pc = "storing", NEW n, n = stored + 1, UNCHANGED opening,
         Rejects(n) \/ Grants(n)
  PROVE  After(sized[n]) = Reread'
<1>1. sized[n] \in Rows /\ sized[n].input.session = Reread /\ Id(n) \notin DOMAIN reservationRows
  BY DecisionIsCurrent DEF Rejects, Grants, RiskInv, ReservedOK
<1>2. CASE Rejects(n)
  <2>1. Reread' = Reread BY <1>2, RereadStays DEF Rejects
  <2> QED BY <1>1, <1>2, <2>1 DEF Rejects, After, AfterDecision
<1>3. CASE Grants(n)
  <2>1. opening \in Session(Tickers) /\ Table(reservationRows)
    BY RiskAssumption, ReservationsTable DEF RiskInv, CallOK
  <2>2. PICK d : d = sized[n].decision OBVIOUS
  <2>3. d.approved /\ d.modeled_risk \in Nat /\ d.notional \in Nat
    BY <1>1, <1>3, <2>2, RowType DEF Grants, Fits
  <2>4. PICK e : e = Granted(n) OBVIOUS
  <2>5. e.risk = d.modeled_risk /\ e.notional = d.notional
    BY <2>2, <2>4 DEF Granted
  <2>6. PICK t, u : t = reservationRows /\ u = reservationRows' OBVIOUS
  <2>7. u = Inserted(t, Id(n), e) /\ Id(n) \notin DOMAIN t /\ Table(t)
    BY <1>1, <1>3, <2>1, <2>4, <2>6 DEF Grants
  <2>8. ReadFrom(opening, u) = AfterDecision(ReadFrom(opening, t), d)
    BY <2>1, <2>3, <2>5, <2>7, ReadFromGrows
  <2>9. Reread' = ReadFrom(opening, u) /\ Reread = ReadFrom(opening, t)
    BY <2>6, RereadReads, RereadReadsNext
  <2> QED BY <1>1, <2>2, <2>8, <2>9 DEF After
<1> QED BY <1>2, <1>3

\* reserve and save_decision.
LEMMA StoreDecisionInv ==
  ASSUME RiskInv, StoreDecision PROVE RiskInv'
<1>1. PICK n : n = stored + 1 OBVIOUS
<1>2. /\ pc = "storing"
      /\ UNCHANGED <<opening, account, base, batch, call, current, sized, requestRows>>
      /\ \/ Refuses(n)
         \/ /\ Repeats(n) \/ Rejects(n) \/ Grants(n)
            /\ stored' = n /\ pc' = IF n = Len(sized) THEN "done" ELSE "saving"
  BY <1>1, StoreDecisionCases
<1>3. /\ n \in 1 .. Len(batch) /\ Len(batch) = Len(sized) /\ n \in 1 .. MaxBatch
      /\ Id(n) \in DOMAIN requestRows /\ Id(n) \in Ids /\ sized[n] \in Rows
      /\ sized[n] = RowOf(requestRows[Id(n)].request, requestRows[Id(n)].account,
                          IF n = 1 THEN requestRows[Id(1)].session
                          ELSE After(decisionRows[Id(n - 1)]))
      /\ \A k \in 1 .. n - 1 : Id(k) \in DOMAIN decisionRows
      /\ Id(n) \in DOMAIN decisionRows => decisionRows[Id(n)] = sized[n]
  BY <1>1, <1>2, DecisionIsCurrent
<1>4. stored \in Nat /\ Len(batch) \in Nat /\ call \in 1 .. MaxCalls /\ MaxBatch \in Nat
  BY <1>2, RiskAssumption DEF RiskInv, CallOK
<1>5. /\ pc' \in {"collision", "done", "saving"} /\ stored' \in 0 .. Len(batch)
      /\ pc' = "saving" => stored' < Len(batch)
      /\ stored' \in {stored, n}
  BY <1>1, <1>2, <1>3, <1>4 DEF Refuses
<1>6. CallOK'
  BY <1>2, <1>5 DEF RiskInv, CallOK
<1>7. SizedOK'
  <2>1. sized \in Seq(Rows) /\ stored' =< Len(sized) /\ pc' # "sizing"
    BY <1>3, <1>5 DEF RiskInv, SizedOK
  <2> QED BY <1>2, <1>3, <2>1 DEF RiskInv, SizedOK
<1>8. \/ UNCHANGED <<decisionRows, reservationRows>>
      \/ Rejects(n) \/ Grants(n)
  BY <1>2 DEF Refuses, Repeats
<1>9. /\ DOMAIN decisionRows \subseteq DOMAIN decisionRows'
      /\ DOMAIN decisionRows' \subseteq DOMAIN decisionRows \cup {Id(n)}
      /\ \A id \in DOMAIN decisionRows : decisionRows'[id] = decisionRows[id]
      /\ Id(n) \in DOMAIN decisionRows' => decisionRows'[Id(n)] = sized[n]
      /\ decisionRows' = [id \in DOMAIN decisionRows' |-> decisionRows'[id]]
  <2>1. CASE UNCHANGED <<decisionRows, reservationRows>>
    BY <1>3, <2>1 DEF RiskInv, RowsOK
  <2>2. CASE Rejects(n) \/ Grants(n)
    <3>1. decisionRows' = Inserted(decisionRows, Id(n), sized[n])
      BY <2>2 DEF Rejects, Grants
    <3>2. Id(n) \notin DOMAIN decisionRows
      BY <2>2 DEF Rejects, Grants
    <3> QED BY <3>1, <3>2 DEF Inserted
  <2> QED BY <1>8, <2>1, <2>2
<1>10. RowsOK'
  <2>1. DOMAIN decisionRows' \subseteq DOMAIN requestRows
    BY <1>3, <1>9 DEF RiskInv, RowsOK
  <2>2. \A id \in DOMAIN decisionRows' : decisionRows'[id] \in Rows
    BY <1>3, <1>9 DEF RiskInv, RowsOK
  <2>3. ASSUME NEW c \in 1 .. MaxCalls, NEW k \in 1 .. MaxBatch, <<c, k>> \in DOMAIN decisionRows'
        PROVE  /\ c =< call
               /\ \A j \in 1 .. k : <<c, j>> \in DOMAIN decisionRows'
               /\ decisionRows'[<<c, k>>] =
                    RowOf(requestRows[<<c, k>>].request, requestRows[<<c, k>>].account,
                          IF k = 1 THEN requestRows[<<c, 1>>].session
                          ELSE After(decisionRows'[<<c, k - 1>>]))
    <3>1. CASE <<c, k>> \in DOMAIN decisionRows
      <4>1. /\ c =< call
            /\ \A j \in 1 .. k : <<c, j>> \in DOMAIN decisionRows
            /\ decisionRows[<<c, k>>] =
                 RowOf(requestRows[<<c, k>>].request, requestRows[<<c, k>>].account,
                       IF k = 1 THEN requestRows[<<c, 1>>].session
                       ELSE After(decisionRows[<<c, k - 1>>]))
        BY <3>1 DEF RiskInv, RowsOK
      <4>2. k # 1 => <<c, k - 1>> \in DOMAIN decisionRows
        <5>1. k # 1 => k - 1 \in 1 .. k BY <1>4
        <5> QED BY <4>1, <5>1
      <4>3. k # 1 => decisionRows'[<<c, k - 1>>] = decisionRows[<<c, k - 1>>]
        BY <1>9, <4>2
      <4>4. decisionRows'[<<c, k>>] = decisionRows[<<c, k>>]
        BY <1>9, <3>1
      <4> QED BY <1>9, <4>1, <4>3, <4>4
    <3>2. CASE <<c, k>> \notin DOMAIN decisionRows
      <4>1. <<c, k>> = Id(n) /\ c = call /\ k = n
        BY <1>9, <2>3, <3>2 DEF Id
      <4>2. \A j \in 1 .. k : <<c, j>> \in DOMAIN decisionRows'
        <5> SUFFICES ASSUME NEW j \in 1 .. k PROVE <<c, j>> \in DOMAIN decisionRows'
          OBVIOUS
        <5>1. j = n \/ j \in 1 .. n - 1
          BY <1>3, <4>1
        <5> QED BY <1>3, <1>9, <2>3, <4>1, <5>1 DEF Id
      <4>3. n # 1 => decisionRows'[Id(n - 1)] = decisionRows[Id(n - 1)]
        <5>1. n # 1 => n - 1 \in 1 .. n - 1 BY <1>3, <1>4
        <5> QED BY <1>3, <1>9, <5>1
      <4>4. decisionRows'[Id(n)] =
              RowOf(requestRows[Id(n)].request, requestRows[Id(n)].account,
                    IF n = 1 THEN requestRows[Id(1)].session
                    ELSE After(decisionRows'[Id(n - 1)]))
        BY <1>3, <1>9, <2>3, <4>1, <4>3
      <4> QED BY <1>4, <4>1, <4>2, <4>4 DEF Id
    <3> QED BY <3>1, <3>2
  <2> QED BY <1>2, <1>9, <2>1, <2>2, <2>3 DEF RiskInv, RowsOK
<1>11. ReservedOK'
  <2>1. CASE UNCHANGED <<decisionRows, reservationRows>>
    BY <2>1 DEF RiskInv, ReservedOK
  <2>2. CASE Rejects(n)
    <3>1. /\ decisionRows' = Inserted(decisionRows, Id(n), sized[n])
          /\ Id(n) \notin DOMAIN decisionRows /\ ~ sized[n].decision.approved
          /\ UNCHANGED reservationRows
      BY <2>2 DEF Rejects
    <3> QED BY <3>1 DEF RiskInv, ReservedOK, Inserted
  <2>3. CASE Grants(n)
    <3>1. /\ decisionRows' = Inserted(decisionRows, Id(n), sized[n])
          /\ Id(n) \notin DOMAIN decisionRows /\ sized[n].decision.approved
          /\ reservationRows' = Inserted(reservationRows, Id(n), Granted(n))
      BY <2>3 DEF Grants
    <3>2. Id(n) \notin DOMAIN reservationRows
      BY <3>1 DEF RiskInv, ReservedOK
    <3>3. /\ Granted(n).risk = sized[n].decision.modeled_risk
          /\ Granted(n).notional = sized[n].decision.notional
      BY DEF Granted
    <3>4. /\ DOMAIN reservationRows' = DOMAIN reservationRows \cup {Id(n)}
          /\ reservationRows' = [i \in DOMAIN reservationRows' |-> reservationRows'[i]]
          /\ reservationRows'[Id(n)] = Granted(n)
          /\ \A i \in DOMAIN reservationRows : reservationRows'[i] = reservationRows[i]
      BY <3>1, <3>2 DEF Inserted
    <3>5. /\ DOMAIN decisionRows' = DOMAIN decisionRows \cup {Id(n)}
          /\ decisionRows'[Id(n)] = sized[n]
      BY <3>1 DEF Inserted
    <3> QED BY <1>9, <3>1, <3>3, <3>4, <3>5 DEF RiskInv, ReservedOK
  <2> QED BY <1>8, <2>1, <2>2, <2>3
<1>12. ReadsOK'
  <2>1. CASE UNCHANGED <<decisionRows, reservationRows>>
    <3>1. Reread' = Reread BY <1>2, <2>1, RereadStays
    <3> QED BY <1>2, <2>1, <3>1 DEF RiskInv, ReadsOK
  <2>2. CASE Rejects(n) \/ Grants(n)
    <3>1. After(sized[n]) = Reread'
      BY <1>1, <1>2, <2>2, NewRowReads
    <3>2. Id(n) \in DOMAIN decisionRows' /\ Id(n) \notin DOMAIN decisionRows
      BY <2>2 DEF Rejects, Grants, Inserted
    <3>3. \A k \in 1 .. n : <<call, k>> \in DOMAIN decisionRows'
      <4> SUFFICES ASSUME NEW k \in 1 .. n PROVE <<call, k>> \in DOMAIN decisionRows'
        OBVIOUS
      <4>1. k = n \/ k \in 1 .. n - 1 BY <1>3
      <4> QED BY <1>3, <1>9, <3>2, <4>1 DEF Id
    <3>4. ASSUME NEW k \in 1 .. MaxBatch, <<call, k>> \in DOMAIN decisionRows',
                 <<call, k + 1>> \notin DOMAIN decisionRows'
          PROVE  k = n
      <4>1. ~ (k < n)
        <5>1. k < n => k + 1 \in 1 .. n BY <1>3, <1>4, <3>4
        <5> QED BY <3>3, <3>4, <5>1
      <4>2. ~ (k > n)
        <5> SUFFICES ASSUME k > n PROVE FALSE
          OBVIOUS
        <5>1. <<call, k>> \in DOMAIN decisionRows
          BY <1>3, <1>9, <3>4 DEF Id
        <5>2. \A j \in 1 .. k : <<call, j>> \in DOMAIN decisionRows
          BY <1>4, <3>4, <5>1 DEF RiskInv, RowsOK
        <5>3. n \in 1 .. k
          BY <1>3, <1>4, <3>4
        <5> QED BY <3>2, <5>2, <5>3 DEF Id
      <4> QED BY <1>3, <1>4, <3>4, <4>1, <4>2
    <3>5. <<call, 1>> \in DOMAIN decisionRows'
      BY <1>3, <3>3
    <3>6. decisionRows'[<<call, n>>] = sized[n]
      BY <1>9, <3>2 DEF Id
    <3> QED BY <1>2, <3>1, <3>4, <3>5, <3>6 DEF ReadsOK
  <2> QED BY <1>8, <2>1, <2>2
<1>13. StoredOK'
  <2>1. \A k \in 1 .. stored : Id(k) \in DOMAIN decisionRows /\ decisionRows[Id(k)] = sized[k]
    BY DEF RiskInv, StoredOK
  <2>2. \A k \in 1 .. stored : Id(k) \in DOMAIN decisionRows' /\ decisionRows'[Id(k)] = sized[k]
    BY <1>9, <2>1
  <2>3. stored' = n => Id(n) \in DOMAIN decisionRows'
    <3>1. stored' = n => stored' # stored BY <1>1, <1>4
    <3> QED BY <1>2, <1>9, <3>1 DEF Refuses, Repeats, Rejects, Grants, Inserted
  <2>4. \A k \in 1 .. stored' : Id(k) \in DOMAIN decisionRows' /\ decisionRows'[Id(k)] = sized[k]
    <3> SUFFICES ASSUME NEW k \in 1 .. stored'
                 PROVE  Id(k) \in DOMAIN decisionRows' /\ decisionRows'[Id(k)] = sized[k]
      OBVIOUS
    <3>1. k \in 1 .. stored \/ (k = n /\ stored' = n)
      BY <1>1, <1>4, <1>5
    <3> QED BY <1>9, <2>2, <2>3, <3>1
  <2>5. \A k \in 1 .. Len(batch) : k =< stored'
          => Id(k) \in DOMAIN requestRows /\ requestRows[Id(k)] = Input(batch[k], base)
    <3> SUFFICES ASSUME NEW k \in 1 .. Len(batch), k =< stored'
                 PROVE  Id(k) \in DOMAIN requestRows /\ requestRows[Id(k)] = Input(batch[k], base)
      OBVIOUS
    <3>1. k =< stored \/ k = stored + 1
      BY <1>1, <1>4, <1>5
    <3> QED BY <1>2, <3>1 DEF RiskInv, StoredOK
  <2> QED BY <1>2, <1>5, <2>4, <2>5 DEF StoredOK, Id, Input
<1>14. CollisionMeansChanged'
  <2> SUFFICES ASSUME pc' = "collision"
               PROVE  \E k \in DOMAIN batch' : TickerTaken(Id(k), batch[k].ticker)'
    BY DEF CollisionMeansChanged
  <2>1. TickerTaken(Id(n), batch[n].ticker) /\ UNCHANGED reservationRows
    BY <1>2 DEF Refuses
  <2>2. n \in DOMAIN batch' /\ TickerTaken(Id(n), batch[n].ticker)'
    BY <1>2, <1>3, <2>1 DEF TickerTaken, Id, RiskInv, CallOK
  <2> QED BY <2>2
<1> QED BY <1>6, <1>7, <1>10, <1>11, <1>12, <1>13, <1>14 DEF RiskInv

LEMMA RiskStutters ==
  ASSUME RiskInv, UNCHANGED riskVars PROVE RiskInv'
<1>1. UNCHANGED <<opening, account, base, batch, call, pc, current, sized, stored,
                  requestRows, decisionRows, reservationRows>>
  BY DEF riskVars, callVars, tables
<1>2. CallOK' /\ SizedOK'
  BY <1>1 DEF RiskInv, CallOK, SizedOK
<1>3. RowsOK' /\ ReservedOK'
  BY <1>1 DEF RiskInv, RowsOK, ReservedOK
<1>4. ReadsOK'
  <2>1. Reread' = Reread BY <1>1, RereadStays
  <2> QED BY <1>1, <2>1 DEF RiskInv, ReadsOK
<1>5. StoredOK' /\ CollisionMeansChanged'
  BY <1>1 DEF RiskInv, StoredOK, CollisionMeansChanged, Id, Input, TickerTaken
<1> QED BY <1>2, <1>3, <1>4, <1>5 DEF RiskInv

\* RiskInv is an invariant of the service, whatever fails and however it is repeated.
THEOREM RiskInvHolds == RiskSpec => []RiskInv
<1>1. RiskInit => RiskInv
  BY RiskStarts
<1>2. RiskInv /\ [RiskNext]_riskVars => RiskInv'
  BY NewCallInv, RetryInv, DropInv, SizeNextInv, SizeOneInv, StoreRequestInv, StoreDecisionInv,
     RiskStutters DEF RiskNext
<1> QED BY <1>1, <1>2, PTL DEF RiskSpec

\* The recursion of Replayed: the session states w before the ranks of a call.
NextState(w, ins, n) ==
  IF n = 1 THEN ins[1].session
  ELSE AfterDecision(w[n - 1], SizePosition(RequestOf(ins[n - 1].request), ins[n - 1].account,
                                            w[n - 1]))
StatesOf(w, ins, m) == /\ m \in Nat /\ Len(ins) = m
                       /\ w = [n \in 1 .. m |-> NextState(w, ins, n)]

\* What Replayed computes: the states of a function that satisfies its recursion.
LEMMA ReplayedIs ==
  ASSUME NEW ins, NEW m, NEW w, StatesOf(w, ins, m)
  PROVE  \A n \in 1 .. m :
           Replayed(ins)[n] = SizePosition(RequestOf(ins[n].request), ins[n].account, w[n])
<1> USE DEF StatesOf, NextState
<1> DEFINE Rec(f) ==
             f = [n \in 1 .. m |->
                    IF n = 1 THEN ins[1].session
                    ELSE AfterDecision(f[n - 1], SizePosition(RequestOf(ins[n - 1].request),
                                                              ins[n - 1].account, f[n - 1]))]
           c == CHOOSE f : Rec(f)
<1>1. Replayed(ins) = [n \in 1 .. m |-> SizePosition(RequestOf(ins[n].request), ins[n].account, c[n])]
  BY DEF Replayed
<1>2. Rec(c)
  <2>1. Rec(w) OBVIOUS
  <2> HIDE DEF Rec
  <2> QED BY <2>1
<1> HIDE DEF c
<1>3. ASSUME NEW n \in 1 .. m PROVE c[n] = w[n]
  <2> DEFINE T == {k \in 1 .. m : c[k] # w[k]}
  <2>1. ASSUME T # {} PROVE FALSE
    <3>1. T \in SUBSET Nat OBVIOUS
    <3>2. PICK k \in T : \A j \in T : k =< j BY <2>1, <3>1, LeastNumber
    <3>3. k \in 1 .. m /\ c[k] # w[k] BY <3>2
    <3>4. k # 1 => k - 1 \in 1 .. m /\ c[k - 1] = w[k - 1] BY <3>2, <3>3
    <3>5. c[k] = IF k = 1 THEN ins[1].session
                 ELSE AfterDecision(c[k - 1], SizePosition(RequestOf(ins[k - 1].request),
                                                           ins[k - 1].account, c[k - 1]))
      BY <1>2, <3>3
    <3>6. w[k] = IF k = 1 THEN ins[1].session
                 ELSE AfterDecision(w[k - 1], SizePosition(RequestOf(ins[k - 1].request),
                                                           ins[k - 1].account, w[k - 1]))
      BY <3>3
    <3> HIDE DEF T
    <3> QED BY <3>3, <3>4, <3>5, <3>6
  <2> QED BY <2>1
<1> QED BY <1>1, <1>3

\* Every stored decision follows from the stored requests of its call, sized again in the
\* order of their ranks.
LEMMA RowsFollow ==
  ASSUME RiskInv PROVE DecisionsFollowFromRequests
<1> SUFFICES ASSUME NEW id \in DOMAIN decisionRows, NEW ins,
                    ins = [n \in 1 .. id[2] |-> requestRows[<<id[1], n>>]]
             PROVE  decisionRows[id].decision = Replayed(ins)[id[2]]
  BY DEF DecisionsFollowFromRequests
<1>1. DOMAIN decisionRows \subseteq Ids
  BY DEF RiskInv, RowsOK
<1>2. PICK c \in 1 .. MaxCalls, m \in 1 .. MaxBatch : id = <<c, m>>
  BY <1>1 DEF Ids
<1>3. m \in Nat /\ m \in 1 .. m
  BY RiskAssumption
<1>4. ins = [n \in 1 .. m |-> requestRows[<<c, n>>]] /\ Len(ins) = m
  BY <1>2, <1>3
<1>5. \A n \in 1 .. m : <<c, n>> \in DOMAIN decisionRows
  BY <1>2 DEF RiskInv, RowsOK
<1> DEFINE w == [n \in 1 .. m |-> decisionRows[<<c, n>>].input.session]
<1>6. ASSUME NEW n \in 1 .. m
      PROVE  /\ decisionRows[<<c, n>>].decision =
                  SizePosition(RequestOf(ins[n].request), ins[n].account, w[n])
             /\ w[n] = IF n = 1 THEN ins[1].session ELSE After(decisionRows[<<c, n - 1>>])
  <2>1. n \in 1 .. MaxBatch
    BY <1>2, <1>3, RiskAssumption
  <2>2. decisionRows[<<c, n>>] =
          RowOf(requestRows[<<c, n>>].request, requestRows[<<c, n>>].account,
                IF n = 1 THEN requestRows[<<c, 1>>].session
                ELSE After(decisionRows[<<c, n - 1>>]))
    BY <1>5, <2>1 DEF RiskInv, RowsOK
  <2>3. ins[n] = requestRows[<<c, n>>] /\ (n = 1 => ins[1] = requestRows[<<c, 1>>])
    BY <1>4
  <2> QED BY <2>2, <2>3 DEF RowOf
<1>7. ASSUME NEW n \in 1 .. m
      PROVE  w[n] = IF n = 1 THEN ins[1].session
                    ELSE AfterDecision(w[n - 1], SizePosition(RequestOf(ins[n - 1].request),
                                                              ins[n - 1].account, w[n - 1]))
  <2>1. CASE n = 1
    BY <1>6, <2>1
  <2>2. CASE n # 1
    <3>1. n - 1 \in 1 .. m BY <1>3, <2>2
    <3>2. w[n] = After(decisionRows[<<c, n - 1>>]) BY <1>6, <2>2
    <3>3. decisionRows[<<c, n - 1>>].decision =
            SizePosition(RequestOf(ins[n - 1].request), ins[n - 1].account, w[n - 1])
      BY <1>6, <3>1
    <3>4. w[n - 1] = decisionRows[<<c, n - 1>>].input.session BY <3>1
    <3> QED BY <2>2, <3>2, <3>3, <3>4 DEF After
  <2> QED BY <2>1, <2>2
<1>8. StatesOf(w, ins, m)
  <2>1. w = [n \in 1 .. m |-> w[n]] OBVIOUS
  <2>2. \A n \in 1 .. m : w[n] = NextState(w, ins, n) BY <1>7 DEF NextState
  <2> HIDE DEF w
  <2>3. [n \in 1 .. m |-> w[n]] = [n \in 1 .. m |-> NextState(w, ins, n)] BY <2>2
  <2> QED BY <1>3, <1>4, <2>1, <2>3 DEF StatesOf
<1>9. \A n \in 1 .. m : decisionRows[<<c, n>>].decision =
                          SizePosition(RequestOf(ins[n].request), ins[n].account, w[n])
  BY <1>6
<1> HIDE DEF w
<1>10. PICK v, b : v = w /\ b = ins OBVIOUS
<1>11. StatesOf(v, b, m) BY <1>8, <1>10
<1>12. \A n \in 1 .. m : Replayed(b)[n] = SizePosition(RequestOf(b[n].request), b[n].account, v[n])
  BY <1>11, ReplayedIs
<1>13. decisionRows[<<c, m>>].decision = SizePosition(RequestOf(b[m].request), b[m].account, v[m])
  BY <1>3, <1>9, <1>10
<1>14. decisionRows[<<c, m>>].decision = Replayed(b)[m]
  BY <1>3, <1>12, <1>13
<1> QED BY <1>2, <1>10, <1>14

\* RowsExplained, for every policy, session and sequence of calls: stored decisions follow
\* from stored requests, and a call is refused for a collision only when its caller changed a
\* request or asks for a ticker that is reserved.
THEOREM RowsStayExplained == RiskSpec => []RowsExplained
<1>1. RiskInv => RowsExplained
  BY RowsFollow DEF RowsExplained, RiskInv
<1> QED BY <1>1, RiskInvHolds, PTL

-----------------------------------------------------------------------------
(* The ledger.                                                             *)

\* The entries of the ledger that a table of reservations stands for.
EntriesOf(t) == [i \in DOMAIN t |-> [risk |-> t[i].risk, notional |-> t[i].notional]]

LEMMA LimitsType ==
  ASSUME NEW a \in Account, NEW s \in Session(Tickers)
  PROVE  LimitsFor(a, s) \in [risk : Int, loss : Int, cash : Int, exposure : Int, slots : Int]
<1>1. /\ s.open_risk \in Int /\ s.reserved_notional \in Int /\ s.long_value \in Int
      /\ s.open_positions \in Int /\ s.reserved_positions \in Int
  BY DEF Session
<1>2. /\ MaxOpenRisk(s) \in Int /\ HardLossLimit(s) \in Int /\ CurrentLoss(a, s) \in Int
      /\ MaxGrossExposure(s) \in Int /\ Cash(a) \in Int /\ Policy.max_concurrent \in Int
  BY SessionAmounts, CashType, PolicyType
<1>3. LimitsFor(a, s) =
        [risk     |-> MaxOpenRisk(s) - s.open_risk,
         loss     |-> HardLossLimit(s) - CurrentLoss(a, s) - s.open_risk,
         cash     |-> Cash(a) - s.reserved_notional,
         exposure |-> MaxGrossExposure(s) - s.long_value - s.reserved_notional,
         slots    |-> Policy.max_concurrent - s.open_positions - s.reserved_positions]
  BY DEF LimitsFor, CurrentLoss, RiskPnl, Cash
<1> QED BY <1>1, <1>2, <1>3

LEMMA LedgerStarts == RiskInit => Ledger!LedgerInit
<1> SUFFICES ASSUME RiskInit PROVE Ledger!LedgerInit
  OBVIOUS
<1>1. account \in Account /\ opening \in Session(Tickers)
  BY RiskAssumption DEF RiskInit
<1>2. LimitsFor(account, opening) \in Ledger!Limits
  BY <1>1, LimitsType DEF Ledger!Limits
<1>3. EntriesOf(reservationRows) = [i \in {} |-> 0]
  BY DEF RiskInit, EntriesOf
<1> QED BY <1>2, <1>3 DEF Ledger!LedgerInit, EntriesOf

LEMMA SumSame ==
  ASSUME NEW D, IsFiniteSet(D), NEW t, NEW u, NEW fld,
         \A i \in D : t[i][fld] \in Nat /\ u[i][fld] = t[i][fld]
  PROVE  SumOf(u, D, fld) = SumOf(t, D, fld)
<1> DEFINE w == [i \in D |-> t[i][fld]]
<1>1. w \in [D -> Nat] OBVIOUS
<1>2. PICK f \in [SUBSET D -> Nat] : Adds(f, w, D)
  BY <1>1, AddsExists
<1>3. (\A i \in D : t[i][fld] = w[i]) /\ (\A i \in D : u[i][fld] = w[i]) OBVIOUS
<1> HIDE DEF w
<1> QED BY <1>2, <1>3, SumIs

LEMMA LedgerCardinality == ASSUME NEW S PROVE Ledger!Cardinality(S) = Cardinality(S)
  BY DEF Ledger!Cardinality, Cardinality

\* The ledger counts what the tables count.
LEMMA LedgerCounts ==
  ASSUME NEW t, Table(t), NEW g, g = EntriesOf(t)
  PROVE  /\ DOMAIN g = DOMAIN t
         /\ Ledger!TotalRisk(g) = SumOf(t, DOMAIN t, "risk")
         /\ Ledger!TotalNotional(g) = SumOf(t, DOMAIN t, "notional")
<1>1. DOMAIN g = DOMAIN t BY DEF EntriesOf
<1>2. PICK f, h : f = "risk" /\ h = "notional" OBVIOUS
<1>3. PICK D : D = DOMAIN t OBVIOUS
<1>4. /\ IsFiniteSet(D) /\ \A i \in D : t[i][f] \in Nat /\ g[i][f] = t[i][f]
      /\ \A i \in D : t[i][h] \in Nat /\ g[i][h] = t[i][h]
  BY <1>2, <1>3 DEF Table, EntriesOf
<1>5. SumOf(g, D, f) = SumOf(t, D, f) /\ SumOf(g, D, h) = SumOf(t, D, h)
  BY <1>4, SumSame
<1> HIDE DEF EntriesOf
<1>6. PICK e : e = g OBVIOUS
<1>7. /\ Ledger!TotalRisk(e) = SumOf(e, DOMAIN e, "risk")
      /\ Ledger!TotalNotional(e) = SumOf(e, DOMAIN e, "notional")
  BY DEF Ledger!TotalRisk, Ledger!TotalNotional, SumOf, MapThenSumSet, MapThenFoldSet,
         Ledger!MapThenSumSet, Ledger!MapThenFoldSet
<1> QED BY <1>1, <1>2, <1>3, <1>5, <1>6, <1>7

\* What a session has reserved changes neither its limits nor its profit and loss.
LEMMA MovedFields ==
  ASSUME NEW o \in Session(Tickers), NEW x \in Nat, NEW y \in Nat, NEW z \in Nat,
         NEW s, s = Moved(o, x, y, z), NEW a
  PROVE  /\ s.open_risk = o.open_risk + x /\ s.reserved_notional = o.reserved_notional + y
         /\ s.reserved_positions = o.reserved_positions + z
         /\ s.long_value = o.long_value /\ s.open_positions = o.open_positions
         /\ MaxOpenRisk(s) = MaxOpenRisk(o) /\ HardLossLimit(s) = HardLossLimit(o)
         /\ MaxGrossExposure(s) = MaxGrossExposure(o) /\ CurrentLoss(a, s) = CurrentLoss(a, o)
<1>1. /\ s.open_risk = o.open_risk + x /\ s.reserved_notional = o.reserved_notional + y
      /\ s.reserved_positions = o.reserved_positions + z
  BY DEF Moved, Session
<1>2. /\ s.reference_equity = o.reference_equity /\ s.start_equity = o.start_equity
      /\ s.cash_flow = o.cash_flow /\ s.realized = o.realized /\ s.unrealized = o.unrealized
      /\ s.long_value = o.long_value /\ s.open_positions = o.open_positions
  BY DEF Moved, Session
<1>3. /\ MaxOpenRisk(s) = MaxOpenRisk(o) /\ HardLossLimit(s) = HardLossLimit(o)
      /\ MaxGrossExposure(s) = MaxGrossExposure(o)
  BY <1>2 DEF MaxOpenRisk, HardLossLimit, MaxGrossExposure
<1>4. CurrentLoss(a, s) = CurrentLoss(a, o)
  BY <1>2 DEF CurrentLoss, RiskPnl, BrokerPnl, InternalPnl
<1> QED BY <1>1, <1>2, <1>3, <1>4

\* A reservation that is granted keeps the ledger within the limits of the session: its
\* decision was sized with the state a caller would have read just before.
LEMMA GrantFits ==
  ASSUME RiskInv, StoreDecision, NEW n, n = stored + 1, Grants(n)
  PROVE  Ledger!Within(EntriesOf(reservationRows'), LimitsFor(account, opening))
<1>1. pc = "storing" BY DEF StoreDecision
<1>2. /\ sized[n] \in Rows /\ sized[n].input.session = Reread /\ sized[n].input.account = account
      /\ Id(n) \notin DOMAIN reservationRows
  BY <1>1, DecisionIsCurrent DEF Grants, RiskInv, ReservedOK
<1>3. PICK d : d = sized[n].decision OBVIOUS
<1>4. PICK a, o, s, t, u : /\ a = account /\ o = opening /\ s = Reread
                           /\ t = reservationRows /\ u = reservationRows'
  OBVIOUS
<1>5. a \in Account /\ o \in Session(Tickers) /\ Table(t)
  BY <1>4, RiskAssumption, ReservationsTable DEF RiskInv, CallOK
<1>6. d.approved /\ Fits(d, a, s) /\ s = ReadFrom(o, t)
  BY <1>2, <1>3, <1>4, RowType, RereadReads DEF Grants
<1>7. PICK x : x = SumOf(t, DOMAIN t, "risk") OBVIOUS
<1>8. PICK y : y = SumOf(t, DOMAIN t, "notional") OBVIOUS
<1>9. PICK z : z = Cardinality(DOMAIN t) OBVIOUS
<1>10. PICK e : e = Granted(n) OBVIOUS
<1>11. /\ e.risk = d.modeled_risk /\ e.notional = d.notional
       /\ d.modeled_risk \in Nat /\ d.notional \in Nat
       /\ u = Inserted(t, Id(n), e) /\ Id(n) \notin DOMAIN t
  BY <1>2, <1>3, <1>4, <1>6, <1>10 DEF Granted, Fits, Grants
<1>12. /\ x \in Nat /\ y \in Nat /\ z \in Nat
       /\ SumOf(u, DOMAIN u, "risk") = x + d.modeled_risk
       /\ SumOf(u, DOMAIN u, "notional") = y + d.notional
       /\ Cardinality(DOMAIN u) = z + 1 /\ Table(u)
  <2>1. DOMAIN u = DOMAIN t \cup {Id(n)} /\ u[Id(n)] = e /\ \A i \in DOMAIN t : u[i] = t[i]
    BY <1>11 DEF Inserted
  <2>2. PICK f, h : f = "risk" /\ h = "notional" OBVIOUS
  <2>3. PICK D, i : D = DOMAIN t /\ i = Id(n) OBVIOUS
  <2>4. OneMore(t, u, D, i, f) /\ OneMore(t, u, D, i, h)
    BY <1>5, <1>11, <2>1, <2>2, <2>3 DEF OneMore, Table
  <2>5. /\ SumOf(t, D, f) \in Nat /\ SumOf(u, D \cup {i}, f) = Plus(SumOf(t, D, f), u[i][f])
        /\ SumOf(t, D, h) \in Nat /\ SumOf(u, D \cup {i}, h) = Plus(SumOf(t, D, h), u[i][h])
    BY <2>4, SumGrows
  <2>6. u[i][f] = d.modeled_risk /\ u[i][h] = d.notional
    BY <1>11, <2>1, <2>2, <2>3
  <2>7. /\ x \in Nat /\ y \in Nat
        /\ SumOf(u, DOMAIN u, "risk") = x + d.modeled_risk
        /\ SumOf(u, DOMAIN u, "notional") = y + d.notional
    BY <1>7, <1>8, <2>1, <2>2, <2>3, <2>5, <2>6 DEF Plus
  <2>8. z \in Nat /\ Cardinality(DOMAIN u) = z + 1 /\ IsFiniteSet(DOMAIN u)
    BY <1>5, <1>9, <1>11, <2>1, FS_AddElement, FS_CardinalityType DEF Table
  <2>9. \A j \in DOMAIN u : u[j].risk \in Nat /\ u[j].notional \in Nat
    BY <1>5, <1>11, <2>1 DEF Table
  <2> QED BY <2>7, <2>8, <2>9 DEF Table
<1>13. s = Moved(o, x, y, z)
  BY <1>6, <1>7, <1>8, <1>9 DEF ReadFrom
<1>14. /\ s.open_risk = o.open_risk + x /\ s.reserved_notional = o.reserved_notional + y
       /\ s.reserved_positions = o.reserved_positions + z
       /\ s.long_value = o.long_value /\ s.open_positions = o.open_positions
       /\ MaxOpenRisk(s) = MaxOpenRisk(o) /\ HardLossLimit(s) = HardLossLimit(o)
       /\ MaxGrossExposure(s) = MaxGrossExposure(o) /\ CurrentLoss(a, s) = CurrentLoss(a, o)
  BY <1>5, <1>12, <1>13, MovedFields
<1>15. /\ (o.open_risk + x) + d.modeled_risk =< MaxOpenRisk(o)
       /\ (o.open_risk + x) + d.modeled_risk =< HardLossLimit(o) - CurrentLoss(a, o)
       /\ (o.reserved_notional + y) + d.notional =< Cash(a)
       /\ (o.reserved_notional + y) + d.notional =< MaxGrossExposure(o) - o.long_value
       /\ o.open_positions + (o.reserved_positions + z) + 1 =< Policy.max_concurrent
  BY <1>6, <1>14 DEF Fits
<1>16. /\ o.open_risk \in Int /\ o.reserved_notional \in Int /\ o.long_value \in Int
       /\ o.open_positions \in Int /\ o.reserved_positions \in Int
  BY <1>5 DEF Session
<1>17. /\ MaxOpenRisk(o) \in Int /\ HardLossLimit(o) \in Int /\ CurrentLoss(a, o) \in Int
       /\ MaxGrossExposure(o) \in Int /\ Cash(a) \in Int /\ Policy.max_concurrent \in Int
  BY <1>5, SessionAmounts, CashType, PolicyType
<1>18. /\ x + d.modeled_risk =< MaxOpenRisk(o) - o.open_risk
       /\ x + d.modeled_risk =< HardLossLimit(o) - CurrentLoss(a, o) - o.open_risk
       /\ y + d.notional =< Cash(a) - o.reserved_notional
       /\ y + d.notional =< MaxGrossExposure(o) - o.long_value - o.reserved_notional
       /\ z + 1 =< Policy.max_concurrent - o.open_positions - o.reserved_positions
  BY <1>11, <1>12, <1>15, <1>16, <1>17
<1>19. PICK l : l = LimitsFor(a, o) OBVIOUS
<1>20. /\ l.risk = MaxOpenRisk(o) - o.open_risk
       /\ l.loss = HardLossLimit(o) - CurrentLoss(a, o) - o.open_risk
       /\ l.cash = Cash(a) - o.reserved_notional
       /\ l.exposure = MaxGrossExposure(o) - o.long_value - o.reserved_notional
       /\ l.slots = Policy.max_concurrent - o.open_positions - o.reserved_positions
  BY <1>19 DEF LimitsFor, CurrentLoss, RiskPnl, Cash
<1>21. PICK g : g = EntriesOf(u) OBVIOUS
<1>22. /\ DOMAIN g = DOMAIN u
       /\ Ledger!TotalRisk(g) = x + d.modeled_risk
       /\ Ledger!TotalNotional(g) = y + d.notional
  BY <1>12, <1>21, LedgerCounts
<1>23. Ledger!Within(g, l)
  <2>1. Ledger!Cardinality(DOMAIN g) = z + 1
    BY <1>12, <1>22, LedgerCardinality
  <2> QED BY <1>18, <1>20, <1>22, <2>1 DEF Ledger!Within
<1> QED BY <1>4, <1>19, <1>21, <1>23

\* StoreDecision grants one reservation, or changes nothing the ledger counts.
LEMMA LedgerGrant ==
  ASSUME RiskInv, StoreDecision
  PROVE  Ledger!Grant \/ UNCHANGED Ledger!ledgerVars
<1>1. PICK n : n = stored + 1 OBVIOUS
<1>2. /\ pc = "storing" /\ UNCHANGED <<opening, account>>
      /\ Refuses(n) \/ Repeats(n) \/ Rejects(n) \/ Grants(n)
  BY <1>1, StoreDecisionCases
<1>3. CASE Refuses(n) \/ Repeats(n) \/ Rejects(n)
  <2>1. UNCHANGED <<opening, account, reservationRows>>
    BY <1>2, <1>3 DEF Refuses, Repeats, Rejects
  <2> QED BY <2>1 DEF Ledger!ledgerVars
<1>4. CASE Grants(n)
  <2>1. PICK i : i = Id(n) OBVIOUS
  <2>2. i \in Ids /\ i \notin DOMAIN reservationRows /\ sized[n] \in Rows
    BY <1>1, <1>2, <1>4, <2>1, DecisionIsCurrent DEF Grants, RiskInv, ReservedOK
  <2>3. PICK g, h : g = EntriesOf(reservationRows) /\ h = EntriesOf(reservationRows') OBVIOUS
  <2>4. reservationRows' = Inserted(reservationRows, i, Granted(n))
    BY <1>4, <2>1 DEF Grants
  <2>5. /\ DOMAIN g = DOMAIN reservationRows
        /\ DOMAIN h = DOMAIN g \cup {i} /\ \A j \in DOMAIN g : h[j] = g[j]
        /\ h[i] = [risk |-> Granted(n).risk, notional |-> Granted(n).notional]
    BY <2>2, <2>3, <2>4 DEF EntriesOf, Inserted
  <2>6. Granted(n).risk \in Nat /\ Granted(n).notional \in Nat
    BY <1>4, <2>2, RowType DEF Grants, Granted, Fits
  <2>7. h[i] \in Ledger!Entries
    BY <2>5, <2>6 DEF Ledger!Entries
  <2>8. Ledger!Within(h, LimitsFor(account, opening))
    BY <1>1, <1>4, <2>3, GrantFits
  <2>9. LimitsFor(account, opening)' = LimitsFor(account, opening)
    BY <1>2
  <2>10. Ledger!Grant
    BY <2>2, <2>3, <2>5, <2>7, <2>8, <2>9 DEF Ledger!Grant, EntriesOf
  <2> QED BY <2>10
<1> QED BY <1>2, <1>3, <1>4

\* EvaluateBatch, Evaluate and Retry: a new snapshot of the account.
LEMMA LedgerObserve ==
  ASSUME RiskInv, UNCHANGED <<opening, reservationRows>>, account' \in Accounts
  PROVE  Ledger!Observe
<1>1. PICK a, b, o : a = account /\ b = account' /\ o = opening OBVIOUS
<1>2. b \in Account /\ o \in Session(Tickers)
  BY <1>1, RiskAssumption DEF RiskInv, CallOK
<1>3. PICK l, m : l = LimitsFor(a, o) /\ m = LimitsFor(b, o) OBVIOUS
<1>4. m \in [risk : Int, loss : Int, cash : Int, exposure : Int, slots : Int]
  BY <1>2, <1>3, LimitsType
<1>5. m.risk = l.risk /\ m.exposure = l.exposure /\ m.slots = l.slots
  BY <1>3 DEF LimitsFor
<1>6. m \in [risk : {l.risk}, loss : Int, cash : Int, exposure : {l.exposure}, slots : {l.slots}]
  BY <1>4, <1>5
<1>7. LimitsFor(account, opening) = l /\ LimitsFor(account, opening)' = m
  BY <1>1, <1>3
<1>8. EntriesOf(reservationRows)' = EntriesOf(reservationRows)
  BY DEF EntriesOf
<1> QED BY <1>6, <1>7, <1>8 DEF Ledger!Observe, EntriesOf

\* KeepsLedger, for every policy, session and sequence of calls: the reservations are an
\* append-only ledger that stays within the open-risk, daily-loss, cash, exposure and position
\* limits, whatever fails between two transactions and however it is repeated.
THEOREM ServiceKeepsLedger == RiskSpec => KeepsLedger
<1>1. RiskInit => Ledger!LedgerInit
  BY LedgerStarts
<1>2. ASSUME RiskInv, [RiskNext]_riskVars
      PROVE  [Ledger!LedgerNext]_Ledger!ledgerVars
  <2>1. CASE StoreDecision
    BY <1>2, <2>1, LedgerGrant DEF Ledger!LedgerNext
  <2>2. CASE EvaluateBatch \/ Evaluate \/ Retry
    <3>1. UNCHANGED <<opening, reservationRows>> /\ account' \in Accounts
      BY <2>2 DEF EvaluateBatch, Evaluate, Retry, Given, tables
    <3> QED BY <1>2, <3>1, LedgerObserve DEF Ledger!LedgerNext
  <2>3. CASE SizeNext \/ StoreRequest \/ SizeOne \/ Fail \/ Return \/ UNCHANGED riskVars
    <3>1. UNCHANGED <<opening, account, reservationRows>>
      BY <2>3 DEF SizeNext, StoreRequest, SizeOne, Fail, Return, riskVars, callVars, tables
    <3> QED BY <3>1 DEF Ledger!ledgerVars
  <2> QED BY <1>2, <2>1, <2>2, <2>3 DEF RiskNext
<1>3. RiskSpec => Ledger!LedgerSpec
  BY <1>1, <1>2, RiskInvHolds, PTL DEF RiskSpec, Ledger!LedgerSpec
<1> QED BY <1>3 DEF KeepsLedger
=============================================================================
