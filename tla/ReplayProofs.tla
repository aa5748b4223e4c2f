---------------------------- MODULE ReplayProofs -----------------------------
(***************************************************************************)
(* What Arranged, Kept and SortedBy of ContractReplay do to lists of any   *)
(* length, and recursion that takes members out of a finite set.           *)
(***************************************************************************)
EXTENDS ContractReplay, FiniteSetTheorems, WellFoundedInduction, TLAPS

-----------------------------------------------------------------------------
(* Orders on finite sets.                                                  *)

LEMMA LeastNumber ==
  ASSUME NEW T \in SUBSET Nat, T # {}
  PROVE  \E i \in T : \A j \in T : i =< j
<1> DEFINE R == OpToRel(<, Nat)
<1>1. IsWellFoundedOn(R, Nat)
  BY NatLessThanWellFounded
<1>2. \A i, j \in Nat : j < i => <<j, i>> \in R
  BY DEF OpToRel
<1> HIDE DEF R
<1>3. PICK i \in T : \A j \in T : ~ (<<j, i>> \in R)
  BY <1>1, WFMin
<1>4. ASSUME NEW j \in T PROVE i =< j
  <2>1. i \in Nat /\ j \in Nat /\ ~ (j < i)
    BY <1>2, <1>3
  <2> QED BY <2>1
<1> QED BY <1>4

LEMMA Interval ==
  ASSUME NEW n \in Nat
  PROVE  IsFiniteSet(1 .. n) /\ Cardinality(1 .. n) = n
<1>1. PICK a \in Int, b \in Int : a = 1 /\ b = n OBVIOUS
<1>2. IsFiniteSet(a .. b) /\ Cardinality(a .. b) = IF a > b THEN 0 ELSE b - a + 1
  BY FS_Interval
<1> QED BY <1>1, <1>2

LEMMA FiniteRange ==
  ASSUME NEW f, IsFiniteSet(DOMAIN f)
  PROVE  IsFiniteSet({f[x] : x \in DOMAIN f})
<1> PICK T : T = {f[x] : x \in DOMAIN f} OBVIOUS
<1> PICK g : g = [x \in DOMAIN f |-> f[x]] OBVIOUS
<1>1. g \in Surjection(DOMAIN f, T) BY DEF Surjection
<1> QED BY <1>1, FS_Surjection

\* R orders the members of I strictly.
StrictOrder(I, R) ==
  /\ IsFiniteSet(I)
  /\ \A i \in I : <<i, i>> \notin R
  /\ \A i, j, k \in I : <<i, j>> \in R /\ <<j, k>> \in R => <<i, k>> \in R

\* And it tells any two of them apart.
TotalOrder(I, R) ==
  StrictOrder(I, R) /\ \A i, j \in I : i # j => <<i, j>> \in R \/ <<j, i>> \in R

Below(I, R, i) == {j \in I : <<j, i>> \in R}

\* A member that is before another has fewer before it.
LEMMA BelowGrows ==
  ASSUME NEW I, NEW R, StrictOrder(I, R)
  PROVE  \A i \in I :
           /\ Cardinality(Below(I, R, i)) \in Nat
           /\ Cardinality(Below(I, R, i)) < Cardinality(I)
           /\ \A j \in I : <<j, i>> \in R =>
                Cardinality(Below(I, R, j)) < Cardinality(Below(I, R, i))
<1> TAKE i \in I
<1>0. IsFiniteSet(I) BY DEF StrictOrder
<1>1. \A k \in I : Below(I, R, k) \in SUBSET I /\ Below(I, R, k) # I
  BY DEF StrictOrder, Below
<1>2. Cardinality(I) \in Nat BY <1>0, FS_CardinalityType
<1>3. \A k \in I : IsFiniteSet(Below(I, R, k)) /\ Cardinality(Below(I, R, k)) \in Nat
  BY <1>0, <1>1, FS_Subset, FS_CardinalityType
<1>4. Cardinality(Below(I, R, i)) < Cardinality(I)
  BY <1>0, <1>1, <1>2, <1>3, FS_Subset
<1>5. ASSUME NEW j \in I, <<j, i>> \in R
      PROVE  Cardinality(Below(I, R, j)) < Cardinality(Below(I, R, i))
  <2>1. Below(I, R, j) \in SUBSET Below(I, R, i)
    BY <1>5 DEF StrictOrder, Below
  <2>2. j \in Below(I, R, i) /\ j \notin Below(I, R, j)
    BY <1>5 DEF StrictOrder, Below
  <2>3. Below(I, R, j) # Below(I, R, i) BY <2>2
  <2> QED BY <2>1, <2>3, <1>3, FS_Subset
<1> QED BY <1>3, <1>4, <1>5

\* Something is first: no other is before it.
LEMMA FirstExists ==
  ASSUME NEW I, NEW R, StrictOrder(I, R), I # {}
  PROVE  \E i \in I : \A j \in I : <<j, i>> \notin R
<1> DEFINE C(i) == Cardinality(Below(I, R, i))
           T == {n \in Nat : \E i \in I : C(i) = n}
<1>1. \A i \in I : C(i) \in Nat BY BelowGrows
<1>2. T # {} BY <1>1
<1>3. PICK n \in T : \A m \in T : n =< m BY <1>2, LeastNumber
<1>4. PICK i \in I : C(i) = n BY <1>3
<1>5. ASSUME NEW j \in I, <<j, i>> \in R PROVE FALSE
  <2>1. C(j) < C(i) BY <1>5, BelowGrows
  <2>2. C(j) \in T BY <1>1
  <2> QED BY <2>1, <2>2, <1>1, <1>3, <1>4
<1> QED BY <1>5

\* Arranged lists every member once, in order.
LEMMA ArrangedIs ==
  ASSUME NEW I, NEW R, TotalOrder(I, R)
  PROVE  /\ Cardinality(I) \in Nat
         /\ Arranged(I, R) \in Seq(I) /\ Len(Arranged(I, R)) = Cardinality(I)
         /\ DOMAIN Arranged(I, R) = 1 .. Cardinality(I)
         /\ \A i \in I : \E n \in 1 .. Cardinality(I) : Arranged(I, R)[n] = i
         /\ \A m, n \in 1 .. Cardinality(I) :
              /\ Arranged(I, R)[n] \in I
              /\ m < n => <<Arranged(I, R)[m], Arranged(I, R)[n]>> \in R
              /\ Arranged(I, R)[m] = Arranged(I, R)[n] => m = n
<1>0. IsFiniteSet(I) /\ Cardinality(I) \in Nat /\ StrictOrder(I, R)
  BY FS_CardinalityType DEF TotalOrder, StrictOrder
<1> DEFINE N == Cardinality(I)
           C(i) == Cardinality(Below(I, R, i))
           place == [i \in I |-> C(i) + 1]
           nth == [n \in 1 .. N |-> CHOOSE i \in I : Cardinality({j \in I : <<j, i>> \in R}) = n - 1]
<1>1. \A i \in I : C(i) \in Nat /\ C(i) < N /\ \A j \in I : <<j, i>> \in R => C(j) < C(i)
  BY <1>0, BelowGrows
<1>2. ASSUME NEW i \in I, NEW j \in I, i # j PROVE C(i) # C(j)
  <2>1. <<i, j>> \in R \/ <<j, i>> \in R BY <1>2 DEF TotalOrder
  <2>2. C(i) \in Nat /\ C(j) \in Nat /\ (C(i) < C(j) \/ C(j) < C(i)) BY <1>1, <2>1
  <2> HIDE DEF C
  <2> QED BY <2>2
<1>3. place \in [I -> 1 .. N]
  BY <1>0, <1>1
<1>4. place \in Injection(I, 1 .. N)
  BY <1>1, <1>2, <1>3 DEF Injection, IsInjective
<1>5. IsFiniteSet(1 .. N) /\ Cardinality(1 .. N) = N
  BY <1>0, Interval
<1>6. place \in Surjection(I, 1 .. N)
  BY <1>4, <1>5, FS_Injection
<1>7. \A n \in 1 .. N : \E i \in I : C(i) = n - 1
  <2> TAKE n \in 1 .. N
  <2>1. PICK i \in I : place[i] = n BY <1>6 DEF Surjection
  <2> QED BY <2>1, <1>1
<1>8. \A n \in 1 .. N : nth[n] \in I /\ C(nth[n]) = n - 1
  BY <1>7 DEF Below
<1>9. nth \in Seq(I) /\ Len(nth) = N
  <2>1. nth \in [1 .. N -> I] BY <1>8
  <2> HIDE DEF nth
  <2> QED BY <2>1, <1>0
<1>10. Arranged(I, R) = nth
  <2>1. Arranged(I, R) = SubSeq(nth, 1, N) BY DEF Arranged
  <2> HIDE DEF nth
  <2>2. SubSeq(nth, 1, N) = nth BY <1>9, <1>0
  <2> QED BY <2>1, <2>2
<1> HIDE DEF nth
<1>11. ASSUME NEW i \in I PROVE \E n \in 1 .. N : nth[n] = i
  <2>1. C(i) + 1 \in 1 .. N BY <1>0, <1>1
  <2>2. nth[C(i) + 1] \in I /\ C(nth[C(i) + 1]) = C(i) BY <2>1, <1>8, <1>1
  <2>3. nth[C(i) + 1] = i BY <2>2, <1>2
  <2> QED BY <2>1, <2>3
<1>12. ASSUME NEW m \in 1 .. N, NEW n \in 1 .. N
       PROVE  /\ m < n => <<nth[m], nth[n]>> \in R
              /\ nth[m] = nth[n] => m = n
  <2>1. nth[m] \in I /\ nth[n] \in I /\ C(nth[m]) = m - 1 /\ C(nth[n]) = n - 1 BY <1>8
  <2>2. <<nth[n], nth[m]>> \in R => n < m BY <2>1, <1>1
  <2>3. nth[m] = nth[n] => m = n BY <2>1
  <2> QED BY <2>1, <2>2, <2>3 DEF TotalOrder
<1>13. DOMAIN nth = 1 .. N BY <1>9
<1> HIDE DEF C, N
<1> QED BY <1>0, <1>8, <1>9, <1>10, <1>11, <1>12, <1>13 DEF N

-----------------------------------------------------------------------------
(* Sorted and filtered lists.                                              *)

Key(L) == [1 .. L -> Int]

\* Tuples of one length are ordered by LexLess.
LEMMA LexOrder ==
  ASSUME NEW L \in Nat
  PROVE  \A a, b, c \in Key(L) :
           /\ ~ LexLess(a, a)
           /\ LexLess(a, b) /\ LexLess(b, c) => LexLess(a, c)
           /\ a # b => LexLess(a, b) \/ LexLess(b, a)
<1> TAKE a, b, c \in Key(L)
<1>0. DOMAIN a = 1 .. L /\ DOMAIN b = 1 .. L /\ \A i \in 1 .. L : a[i] \in Int /\ b[i] \in Int /\ c[i] \in Int
  BY DEF Key
<1>1. ~ LexLess(a, a) BY <1>0 DEF LexLess
<1>2. ASSUME LexLess(a, b), LexLess(b, c) PROVE LexLess(a, c)
  <2>1. PICK i \in 1 .. L : a[i] < b[i] /\ \A j \in 1 .. i - 1 : a[j] = b[j] BY <1>0, <1>2 DEF LexLess
  <2>2. PICK k \in 1 .. L : b[k] < c[k] /\ \A j \in 1 .. k - 1 : b[j] = c[j] BY <1>0, <1>2 DEF LexLess
  <2>3. CASE i =< k
    <3>0. a[i] < b[i] /\ (b[i] < c[i] \/ b[i] = c[i])
      <4>1. CASE i = k BY <2>1, <2>2, <4>1
      <4>2. CASE i # k
        <5>1. i \in 1 .. k - 1 BY <2>3, <4>2
        <5> QED BY <2>1, <2>2, <5>1
      <4> QED BY <4>1, <4>2
    <3>1. a[i] < c[i]
      <4>1. a[i] \in Int /\ b[i] \in Int /\ c[i] \in Int BY <1>0
      <4> QED BY <4>1, <3>0
    <3>2. \A j \in 1 .. i - 1 : a[j] = c[j] BY <2>1, <2>2, <2>3
    <3> QED BY <3>1, <3>2, <1>0 DEF LexLess
  <2>4. CASE k < i
    <3>0. k \in 1 .. i - 1 BY <2>4
    <3>1. a[k] < c[k] BY <3>0, <2>1, <2>2
    <3>2. \A j \in 1 .. k - 1 : a[j] = c[j] BY <2>1, <2>2, <2>4
    <3> QED BY <3>1, <3>2, <1>0 DEF LexLess
  <2> QED BY <2>3, <2>4
<1>3. ASSUME a # b PROVE LexLess(a, b) \/ LexLess(b, a)
  <2> DEFINE T == {i \in 1 .. L : a[i] # b[i]}
  <2>1. T # {}
    <3>1. ASSUME T = {} PROVE FALSE
      <4>1. \A i \in 1 .. L : a[i] = b[i] BY <3>1
      <4>2. a = [i \in 1 .. L |-> a[i]] /\ b = [i \in 1 .. L |-> b[i]] BY DEF Key
      <4>3. a = b BY <4>1, <4>2
      <4> QED BY <4>3, <1>3
    <3> QED BY <3>1
  <2>2. PICK i \in T : \A j \in T : i =< j
    <3>1. T \in SUBSET Nat OBVIOUS
    <3> HIDE DEF T
    <3> QED BY <2>1, <3>1, LeastNumber
  <2>3. \A j \in 1 .. i - 1 : a[j] = b[j] BY <2>2
  <2>4. a[i] < b[i] \/ b[i] < a[i] BY <1>0, <2>2
  <2> QED BY <1>0, <2>2, <2>3, <2>4 DEF LexLess
<1> QED BY <1>1, <1>2, <1>3

\* k lists what s has at the positions I, by the injection f.
Lists(k, s, I, f) ==
  /\ Cardinality(I) \in Nat
  /\ f \in [1 .. Cardinality(I) -> I]
  /\ DOMAIN k = 1 .. Cardinality(I) /\ Len(k) = Cardinality(I)
  /\ \A n \in 1 .. Cardinality(I) : k[n] = s[f[n]]
  /\ \A i \in I : \E n \in 1 .. Cardinality(I) : f[n] = i
  /\ \A m, n \in 1 .. Cardinality(I) : f[m] = f[n] => m = n

LEMMA DomainFinite ==
  ASSUME NEW S, NEW s \in Seq(S)
  PROVE  /\ Len(s) \in Nat /\ DOMAIN s = 1 .. Len(s)
         /\ IsFiniteSet(DOMAIN s) /\ Cardinality(DOMAIN s) = Len(s)
<1>1. Len(s) \in Nat /\ DOMAIN s = 1 .. Len(s) OBVIOUS
<1> QED BY <1>1, Interval

\* A filter keeps the elements it is to keep, and their order.
LEMMA KeptIs ==
  ASSUME NEW S, NEW s \in Seq(S), NEW I \in SUBSET DOMAIN s
  PROVE  /\ Kept(s, I) \in Seq(S)
         /\ \E f : /\ Lists(Kept(s, I), s, I, f)
                   /\ \A m, n \in 1 .. Cardinality(I) : m < n => f[m] < f[n]
<1> DEFINE R == {p \in I \X I : p[1] < p[2]}
           N == Cardinality(I)
<1>1. IsFiniteSet(I) /\ I \in SUBSET Nat
  <2>1. IsFiniteSet(DOMAIN s) /\ DOMAIN s = 1 .. Len(s) BY DomainFinite
  <2> QED BY <2>1, FS_Subset
<1>2. TotalOrder(I, R) BY <1>1 DEF TotalOrder, StrictOrder
<1>3. PICK f : f = Arranged(I, R) OBVIOUS
<1>4. /\ N \in Nat /\ DOMAIN f = 1 .. N /\ f \in Seq(I) /\ Len(f) = N
      /\ \A i \in I : \E n \in 1 .. N : f[n] = i
      /\ \A m, n \in 1 .. N : f[n] \in I /\ (m < n => <<f[m], f[n]>> \in R) /\ (f[m] = f[n] => m = n)
  <2> HIDE DEF R, N
  <2>1. /\ Cardinality(I) \in Nat
        /\ Arranged(I, R) \in Seq(I) /\ Len(Arranged(I, R)) = Cardinality(I)
        /\ DOMAIN Arranged(I, R) = 1 .. Cardinality(I)
        /\ \A i \in I : \E n \in 1 .. Cardinality(I) : Arranged(I, R)[n] = i
        /\ \A m, n \in 1 .. Cardinality(I) :
             /\ Arranged(I, R)[n] \in I
             /\ m < n => <<Arranged(I, R)[m], Arranged(I, R)[n]>> \in R
             /\ Arranged(I, R)[m] = Arranged(I, R)[n] => m = n
    BY <1>2, ArrangedIs
  <2>2. Cardinality(I) = N BY DEF N
  <2> QED BY <2>1, <2>2, <1>3
<1>5. Kept(s, I) = [n \in 1 .. N |-> s[f[n]]] BY <1>3, <1>4 DEF Kept
<1>6. \A n \in 1 .. N : s[f[n]] \in S BY <1>4
<1>7. Kept(s, I) \in Seq(S) /\ Len(Kept(s, I)) = N
  <2> PICK k : k = [n \in 1 .. N |-> s[f[n]]] OBVIOUS
  <2>1. k \in [1 .. N -> S] BY <1>6
  <2>2. N \in Nat BY <1>4
  <2> HIDE DEF N
  <2>3. k \in Seq(S) /\ Len(k) = N BY <2>1, <2>2
  <2> QED BY <2>3, <1>5
<1>8. Lists(Kept(s, I), s, I, f)
  <2> HIDE DEF R
  <2>1. f \in [1 .. N -> I] BY <1>4
  <2> QED BY <1>4, <1>5, <1>7, <2>1 DEF Lists
<1>9. \A m, n \in 1 .. N : m < n => f[m] < f[n] BY <1>4
<1> QED BY <1>7, <1>8, <1>9

\* Keys order the positions: equal ones keep the order they had.
LEMMA KeyOrder ==
  ASSUME NEW S, NEW s \in Seq(S), NEW L \in Nat, NEW key \in [DOMAIN s -> Key(L)],
         NEW R, R = {p \in (DOMAIN s) \X (DOMAIN s) : Precedes(key, p[1], p[2])}
  PROVE  TotalOrder(DOMAIN s, R)
<1> DEFINE I == DOMAIN s
<1>1. IsFiniteSet(I) /\ I \subseteq Nat BY DomainFinite
<1>2. \A i \in I : key[i] \in Key(L) /\ i \in Nat BY <1>1
<1>3. ASSUME NEW i \in I PROVE <<i, i>> \notin R
  BY <1>2, LexOrder DEF Precedes
<1>4. ASSUME NEW i \in I, NEW j \in I, NEW k \in I, <<i, j>> \in R, <<j, k>> \in R
      PROVE  <<i, k>> \in R
  <2>1. Precedes(key, i, j) /\ Precedes(key, j, k) BY <1>4
  <2>2. Precedes(key, i, k)
    <3>1. key[i] \in Key(L) /\ key[j] \in Key(L) /\ key[k] \in Key(L) /\ i \in Nat /\ j \in Nat /\ k \in Nat
      BY <1>2
    <3> HIDE DEF I
    <3> QED BY <2>1, <3>1, LexOrder DEF Precedes
  <2> QED BY <2>2
<1>5. ASSUME NEW i \in I, NEW j \in I, i # j PROVE <<i, j>> \in R \/ <<j, i>> \in R
  BY <1>2, <1>5, LexOrder DEF Precedes
<1>6. TotalOrder(I, R)
  <2> HIDE DEF I
  <2> QED BY <1>1, <1>3, <1>4, <1>5 DEF TotalOrder, StrictOrder
<1> QED BY <1>6

\* Sorting permutes a list so that the keys do not fall.
LEMMA SortedIs ==
  ASSUME NEW S, NEW s \in Seq(S), NEW L \in Nat, NEW key \in [DOMAIN s -> Key(L)]
  PROVE  /\ SortedBy(s, key) \in Seq(S) /\ Len(SortedBy(s, key)) = Len(s)
         /\ DOMAIN SortedBy(s, key) = DOMAIN s
         /\ \E f : /\ Lists(SortedBy(s, key), s, DOMAIN s, f)
                   /\ \A m, n \in DOMAIN s : m < n => Precedes(key, f[m], f[n])
<1> DEFINE I == DOMAIN s
           R == {p \in I \X I : Precedes(key, p[1], p[2])}
           N == Cardinality(I)
<1>1. IsFiniteSet(I) /\ I = 1 .. N /\ N \in Nat /\ Len(s) = N BY DomainFinite
<1>2. TotalOrder(I, R) BY KeyOrder
<1>3. PICK f : f = Arranged(I, R) OBVIOUS
<1>4. /\ DOMAIN f = 1 .. N /\ f \in Seq(I) /\ Len(f) = N
      /\ \A i \in I : \E n \in 1 .. N : f[n] = i
      /\ \A m, n \in 1 .. N : f[n] \in I /\ (m < n => <<f[m], f[n]>> \in R) /\ (f[m] = f[n] => m = n)
  <2> HIDE DEF R, N, I
  <2>1. /\ Cardinality(I) \in Nat
        /\ Arranged(I, R) \in Seq(I) /\ Len(Arranged(I, R)) = Cardinality(I)
        /\ DOMAIN Arranged(I, R) = 1 .. Cardinality(I)
        /\ \A i \in I : \E n \in 1 .. Cardinality(I) : Arranged(I, R)[n] = i
        /\ \A m, n \in 1 .. Cardinality(I) :
             /\ Arranged(I, R)[n] \in I
             /\ m < n => <<Arranged(I, R)[m], Arranged(I, R)[n]>> \in R
             /\ Arranged(I, R)[m] = Arranged(I, R)[n] => m = n
    BY <1>2, ArrangedIs
  <2>2. Cardinality(I) = N BY DEF N
  <2> QED BY <2>1, <2>2, <1>3
<1>5. SortedBy(s, key) = [n \in I |-> s[f[n]]] BY <1>3 DEF SortedBy
<1>6. \A n \in I : s[f[n]] \in S BY <1>1, <1>4
<1>7. SortedBy(s, key) \in Seq(S) /\ Len(SortedBy(s, key)) = N /\ DOMAIN SortedBy(s, key) = I
  <2> PICK k : k = [n \in 1 .. N |-> s[f[n]]] OBVIOUS
  <2>1. k \in [1 .. N -> S] BY <1>1, <1>6
  <2>2. N \in Nat BY <1>1
  <2> HIDE DEF N
  <2>3. \A n \in Nat : \A u \in [1 .. n -> S] : u \in Seq(S) /\ Len(u) = n /\ DOMAIN u = 1 .. n OBVIOUS
  <2>4. k \in Seq(S) /\ Len(k) = N BY <2>1, <2>2, <2>3, ZenonT(30)
  <2>5. DOMAIN k = 1 .. N BY <2>1
  <2> QED BY <2>3, <2>4, <2>5, <1>1, <1>5
<1>8. Lists(SortedBy(s, key), s, I, f)
  <2> HIDE DEF R
  <2>1. f \in [1 .. N -> I] BY <1>4
  <2> QED BY <1>1, <1>4, <1>5, <1>7, <2>1 DEF Lists
<1>9. \A m, n \in I : m < n => Precedes(key, f[m], f[n]) BY <1>1, <1>4
<1> HIDE DEF R
<1> QED BY <1>1, <1>7, <1>8, <1>9

LEMMA SortedList ==
  ASSUME NEW S, NEW s \in Seq(S), NEW L \in Nat, NEW key \in [DOMAIN s -> Key(L)]
  PROVE  \E f : Lists(SortedBy(s, key), s, DOMAIN s, f)
<1>1. \E f : /\ Lists(SortedBy(s, key), s, DOMAIN s, f)
             /\ \A m, n \in DOMAIN s : m < n => Precedes(key, f[m], f[n])
  BY SortedIs
<1> QED BY <1>1

-----------------------------------------------------------------------------
(* Recursion that takes members out of a finite set.  Induction over a set  *)
(* is out of the provers' reach; the least cardinality for which a claim    *)
(* fails takes its place.                                                   *)

Removes(D, M) ==
  /\ IsFiniteSet(D) /\ M \in [SUBSET D -> SUBSET D]
  /\ \A s \in SUBSET D : s # {} => M[s] # {} /\ M[s] \subseteq s

Steps(D, V, G) == \A s \in SUBSET D : \A v \in V : G[<<s, v>>] \in V

Unfold(f, e, M, G, s) == IF s = {} THEN e ELSE G[<<s, f[s \ M[s]]>>]

Solves(f, D, V, e, M, G) ==
  f \in [SUBSET D -> V] /\ \A s \in SUBSET D : f[s] = Unfold(f, e, M, G, s)

\* What is left is smaller.
LEMMA RestIsSmaller ==
  ASSUME NEW D, NEW M, Removes(D, M)
  PROVE  \A s \in SUBSET D :
           /\ IsFiniteSet(s) /\ Cardinality(s) \in Nat
           /\ s # {} => /\ s \ M[s] \in SUBSET D
                        /\ Cardinality(s \ M[s]) \in Nat
                        /\ Cardinality(s \ M[s]) < Cardinality(s)
<1> TAKE s \in SUBSET D
<1>1. IsFiniteSet(s) /\ Cardinality(s) \in Nat
  BY FS_Subset, FS_CardinalityType DEF Removes
<1>2. ASSUME s # {}
      PROVE  /\ s \ M[s] \in SUBSET D /\ Cardinality(s \ M[s]) \in Nat
             /\ Cardinality(s \ M[s]) < Cardinality(s)
  <2>1. s \ M[s] \in SUBSET s /\ s \ M[s] # s BY <1>2 DEF Removes
  <2>2. IsFiniteSet(s \ M[s]) /\ Cardinality(s \ M[s]) =< Cardinality(s)
          /\ (Cardinality(s) = Cardinality(s \ M[s]) => s = s \ M[s])
    BY <1>1, <2>1, FS_Subset
  <2>3. Cardinality(s \ M[s]) \in Nat BY <2>2, FS_CardinalityType
  <2> QED BY <1>1, <2>1, <2>2, <2>3
<1> QED BY <1>1, <1>2

\* The recursion has a solution.
LEMMA RecursionOnSubsets ==
  ASSUME NEW D, NEW M, Removes(D, M), NEW V, NEW e \in V,
         NEW G, Steps(D, V, G)
  PROVE  \E f : Solves(f, D, V, e, M, G)
<1> DEFINE P(n) == {s \in SUBSET D : Cardinality(s) =< n}
           Val(f, s) == Unfold(f, e, M, G, s)
           Part(n) == \E f \in [P(n) -> V] : \A s \in P(n) : f[s] = Val(f, s)
           T == {n \in Nat : ~ Part(n)}
<1> USE DEF Unfold
<1>0. \A s \in SUBSET D :
           /\ IsFiniteSet(s) /\ Cardinality(s) \in Nat
           /\ s # {} => /\ s \ M[s] \in SUBSET D
                        /\ Cardinality(s \ M[s]) \in Nat
                        /\ Cardinality(s \ M[s]) < Cardinality(s)
  BY RestIsSmaller
<1>e. \A s \in SUBSET D : Cardinality(s) = 0 => s = {}
  BY <1>0, FS_EmptySet
<1>1. ASSUME T # {} PROVE FALSE
  <2>1. PICK m \in T : \A j \in T : m =< j
    BY <1>1, LeastNumber
  <2>2. m # 0
    <3> DEFINE z == [s \in P(0) |-> e]
    <3>1. ASSUME NEW s \in P(0) PROVE s = {}
      <4>1. Cardinality(s) \in Nat /\ Cardinality(s) =< 0 BY <1>0
      <4>2. Cardinality(s) = 0 BY <4>1
      <4> QED BY <4>2, <1>e
    <3>2. \A s \in P(0) : z[s] = Val(z, s) BY <3>1
    <3>3. z \in [P(0) -> V] OBVIOUS
    <3>4. Part(0)
      <4> HIDE DEF z, P, Val
      <4> QED BY <3>2, <3>3
    <3> HIDE DEF Part
    <3> QED BY <3>4, <2>1
  <2>3. m - 1 \in Nat /\ Part(m - 1)
    <3> HIDE DEF Part
    <3> QED BY <2>1, <2>2
  <2>4. PICK f \in [P(m - 1) -> V] : \A s \in P(m - 1) : f[s] = Val(f, s)
    BY <2>3
  <2> DEFINE g == [s \in P(m) |-> Val(f, s)]
  <2>5. ASSUME NEW s \in P(m), s # {} PROVE s \ M[s] \in P(m - 1) /\ s \ M[s] \in P(m)
    <3>1. s \in SUBSET D /\ Cardinality(s) =< m /\ m \in Nat BY <2>1
    <3>2. s \ M[s] \in SUBSET D /\ Cardinality(s \ M[s]) < Cardinality(s)
            /\ Cardinality(s) \in Nat /\ Cardinality(s \ M[s]) \in Nat
      BY <1>0, <2>5
    <3> QED BY <3>1, <3>2
  <2>6. g \in [P(m) -> V]
    <3>1. ASSUME NEW s \in P(m) PROVE Val(f, s) \in V
      <4>1. CASE s = {} BY <4>1
      <4>2. CASE s # {}
        <5>1. f[s \ M[s]] \in V BY <4>2, <2>5, <2>4
        <5>2. s \in SUBSET D OBVIOUS
        <5> QED BY <5>1, <5>2, <4>2 DEF Steps
      <4> QED BY <4>1, <4>2
    <3> HIDE DEF P, Val
    <3> QED BY <3>1
  <2>7. ASSUME NEW s \in P(m) PROVE g[s] = Val(g, s)
    <3>1. CASE s = {} BY <3>1
    <3>2. CASE s # {}
      <4> DEFINE r == s \ M[s]
      <4>1. r \in P(m - 1) /\ r \in P(m) BY <3>2, <2>5
      <4>2. g[r] = Val(f, r) BY <4>1
      <4>3. f[r] = Val(f, r) BY <4>1, <2>4
      <4>4. g[s] = G[<<s, f[r]>>] BY <3>2
      <4>5. Val(g, s) = G[<<s, g[r]>>] BY <3>2
      <4> HIDE DEF g, r, Val
      <4> QED BY <4>2, <4>3, <4>4, <4>5
    <3> QED BY <3>1, <3>2
  <2>8. Part(m)
    <3> HIDE DEF g, Val, P
    <3> QED BY <2>6, <2>7
  <2> QED BY <2>8, <2>1
<1>2. Part(Cardinality(D))
  <2>1. Cardinality(D) \in Nat BY FS_CardinalityType DEF Removes
  <2> HIDE DEF Part
  <2> QED BY <2>1, <1>1
<1>3. P(Cardinality(D)) = SUBSET D
  BY FS_Subset DEF Removes
<1>4. PICK f \in [SUBSET D -> V] : \A s \in SUBSET D : f[s] = Val(f, s)
  <2> HIDE DEF P
  <2> QED BY <1>2, <1>3
<1> QED BY <1>4 DEF Solves

-----------------------------------------------------------------------------
(* Lines: lists of all members of a set in the order of a relation.        *)

\* f lists I in the order R.
InLine(f, I, R, N) ==
  /\ f \in [1 .. N -> I]
  /\ \A i \in I : \E n \in 1 .. N : f[n] = i
  /\ \A m, n \in 1 .. N : m < n => <<f[m], f[n]>> \in R

\* There is one way to do so.
LEMMA OneLine ==
  ASSUME NEW I, NEW R, StrictOrder(I, R), NEW N \in Nat, NEW f, NEW h,
         InLine(f, I, R, N), InLine(h, I, R, N)
  PROVE  f = h
<1> DEFINE T == {n \in 1 .. N : f[n] # h[n]}
<1>1. ASSUME T # {} PROVE FALSE
  <2>1. PICK n \in T : \A j \in T : n =< j
    <3>1. T \in SUBSET Nat OBVIOUS
    <3> HIDE DEF T
    <3> QED BY <1>1, <3>1, LeastNumber
  <2>2. n \in 1 .. N /\ f[n] # h[n] /\ \A j \in 1 .. N : j < n => f[j] = h[j] BY <2>1
  <2>3. f[n] \in I /\ h[n] \in I BY <2>2 DEF InLine
  <2>4. \A j \in 1 .. N : j < n => f[j] # f[n] /\ h[j] # h[n] BY <2>2, <2>3 DEF InLine, StrictOrder
  <2>5. PICK m \in 1 .. N : h[m] = f[n] BY <2>3 DEF InLine
  <2>6. PICK k \in 1 .. N : f[k] = h[n] BY <2>3 DEF InLine
  <2>7. n < m
    <3>1. m # n BY <2>2, <2>5
    <3>2. ~ (m < n)
      <4>1. ASSUME m < n PROVE FALSE
        <5>1. f[m] = h[m] BY <2>2, <4>1
        <5> QED BY <2>4, <2>5, <4>1, <5>1
      <4> QED BY <4>1
    <3> QED BY <2>2, <3>1, <3>2
  <2>8. n < k
    <3>1. k # n BY <2>2, <2>6
    <3>2. ~ (k < n)
      <4>1. ASSUME k < n PROVE FALSE
        <5>1. f[k] = h[k] BY <2>2, <4>1
        <5> QED BY <2>4, <2>6, <4>1, <5>1
      <4> QED BY <4>1
    <3> QED BY <2>2, <3>1, <3>2
  <2>9. <<f[n], f[k]>> \in R BY <2>2, <2>8 DEF InLine
  <2>10. <<h[n], h[m]>> \in R BY <2>2, <2>7 DEF InLine
  <2>11. <<f[n], h[n]>> \in R /\ <<h[n], f[n]>> \in R BY <2>5, <2>6, <2>9, <2>10
  <2> QED BY <2>3, <2>11 DEF StrictOrder
<1>2. \A n \in 1 .. N : f[n] = h[n] BY <1>1
<1>3. f = [n \in 1 .. N |-> f[n]] /\ h = [n \in 1 .. N |-> h[n]] BY DEF InLine
<1> QED BY <1>2, <1>3

\* k has the elements of s by their keys, as f arranges them.
Sorts(k, s, key, f) ==
  Lists(k, s, DOMAIN s, f) /\ \A m, n \in DOMAIN s : m < n => Precedes(key, f[m], f[n])

LEMMA SortsIt ==
  ASSUME NEW S, NEW s \in Seq(S), NEW L \in Nat, NEW key \in [DOMAIN s -> Key(L)]
  PROVE  \E f : Sorts(SortedBy(s, key), s, key, f)
<1>1. \E f : /\ Lists(SortedBy(s, key), s, DOMAIN s, f)
             /\ \A m, n \in DOMAIN s : m < n => Precedes(key, f[m], f[n])
  BY SortedIs
<1> QED BY <1>1 DEF Sorts

\* A part of a total order is one.
LEMMA RestrictedOrder ==
  ASSUME NEW I, NEW R, TotalOrder(I, R), NEW J \in SUBSET I, NEW Q,
         \A i, j \in J : <<i, j>> \in Q <=> <<i, j>> \in R
  PROVE  TotalOrder(J, Q)
<1>1. IsFiniteSet(J) BY FS_Subset DEF TotalOrder, StrictOrder
<1> QED BY <1>1 DEF TotalOrder, StrictOrder

\* Keys that differ order what they are the keys of.
LEMMA KeyedOrder ==
  ASSUME NEW I, IsFiniteSet(I), NEW L \in Nat, NEW key \in [I -> Key(L)],
         \A i, j \in I : key[i] = key[j] => i = j,
         NEW R, \A i, j \in I : <<i, j>> \in R <=> LexLess(key[i], key[j])
  PROVE  TotalOrder(I, R)
<1>1. \A i \in I : key[i] \in Key(L) OBVIOUS
<1>2. \A i \in I : <<i, i>> \notin R BY <1>1, LexOrder
<1>3. \A i, j, k \in I : <<i, j>> \in R /\ <<j, k>> \in R => <<i, k>> \in R BY <1>1, LexOrder
<1>4. \A i, j \in I : i # j => <<i, j>> \in R \/ <<j, i>> \in R BY <1>1, LexOrder
<1> QED BY <1>2, <1>3, <1>4 DEF TotalOrder, StrictOrder

\* Arranged puts a total order in line.
LEMMA ArrangedInLine ==
  ASSUME NEW I, NEW R, TotalOrder(I, R)
  PROVE  /\ Arranged(I, R) \in Seq(I) /\ Cardinality(I) \in Nat
         /\ InLine(Arranged(I, R), I, R, Cardinality(I))
<1>1. /\ Cardinality(I) \in Nat
      /\ Arranged(I, R) \in Seq(I) /\ Len(Arranged(I, R)) = Cardinality(I)
      /\ DOMAIN Arranged(I, R) = 1 .. Cardinality(I)
      /\ \A i \in I : \E n \in 1 .. Cardinality(I) : Arranged(I, R)[n] = i
      /\ \A m, n \in 1 .. Cardinality(I) :
           /\ Arranged(I, R)[n] \in I
           /\ m < n => <<Arranged(I, R)[m], Arranged(I, R)[n]>> \in R
           /\ Arranged(I, R)[m] = Arranged(I, R)[n] => m = n
  BY ArrangedIs
<1>2. Arranged(I, R) \in [1 .. Cardinality(I) -> I] BY <1>1
<1> QED BY <1>1, <1>2 DEF InLine

LEMMA AsFunction ==
  ASSUME NEW D, NEW h \in Seq(D), NEW K \in Nat, Len(h) = K
  PROVE  h \in [1 .. K -> D] /\ DOMAIN h = 1 .. K
  OBVIOUS

LEMMA Chained ==
  ASSUME NEW D, NEW f \in Seq(D), NEW g \in Seq(D), NEW M, NEW N, Len(f) = M, Len(g) = N
  PROVE  /\ f \o g \in Seq(D) /\ Len(f \o g) = M + N /\ f \o g \in [1 .. M + N -> D]
         /\ \A n \in 1 .. M + N : (f \o g)[n] = IF n =< M THEN f[n] ELSE g[n - M]
<1>1. f \o g \in Seq(D) /\ Len(f \o g) = Len(f) + Len(g) OBVIOUS
<1>2. \A n \in 1 .. Len(f) + Len(g) : (f \o g)[n] = IF n =< Len(f) THEN f[n] ELSE g[n - Len(f)] BY SMTT(30)
<1> PICK h : h = f \o g OBVIOUS
<1> PICK K : K = M + N OBVIOUS
<1>3. h \in Seq(D) /\ Len(h) = K BY <1>1
<1>4. K \in Nat
  <2>1. Len(f) \in Nat /\ Len(g) \in Nat OBVIOUS
  <2> QED BY <2>1
<1>5. h \in [1 .. K -> D] BY <1>3, <1>4, AsFunction
<1> QED BY <1>1, <1>2, <1>5

\* Two lines, one behind the other.
LEMMA JoinedLines ==
  ASSUME NEW I, NEW J, NEW R, \A i \in I, j \in J : <<i, j>> \in R,
         NEW M \in Nat, NEW N \in Nat, NEW f, NEW g,
         InLine(f, I, R, M), InLine(g, J, R, N)
  PROVE  InLine(f \o g, I \union J, R, M + N)
<1> PICK D : D = I \union J OBVIOUS
<1>1. f \in [1 .. M -> I] /\ g \in [1 .. N -> J] BY DEF InLine
<1>2. f \in Seq(D) /\ Len(f) = M /\ g \in Seq(D) /\ Len(g) = N
  <2>1. f \in [1 .. M -> D] /\ g \in [1 .. N -> D] BY <1>1
  <2> QED BY <2>1
<1> PICK h : h = f \o g OBVIOUS
<1>3. \A n \in 1 .. M + N : h[n] = IF n =< M THEN f[n] ELSE g[n - M]
  <2> HIDE <1>2
  <2>1. \A n \in 1 .. M + N : (f \o g)[n] = IF n =< M THEN f[n] ELSE g[n - M] BY <1>2, Chained
  <2> QED BY <2>1
<1>4. h \in [1 .. M + N -> D] BY <1>2, Chained
<1>5. \A d \in D : \E n \in 1 .. M + N : h[n] = d
  <2> TAKE d \in D
  <2>1. CASE d \in I
    <3>1. PICK n \in 1 .. M : f[n] = d BY <2>1 DEF InLine
    <3>2. n \in 1 .. M + N /\ n =< M BY <3>1
    <3>3. h[n] = f[n] BY <3>2, <1>3
    <3> QED BY <3>1, <3>2, <3>3
  <2>2. CASE d \in J
    <3>1. PICK n \in 1 .. N : g[n] = d BY <2>2 DEF InLine
    <3>2. PICK k : k = M + n OBVIOUS
    <3>3. k \in 1 .. M + N /\ ~ (k =< M) /\ k - M = n BY <3>2
    <3>4. h[k] = g[k - M] BY <3>3, <1>3
    <3>5. h[k] = d BY <3>1, <3>3, <3>4
    <3> QED BY <3>3, <3>5
  <2> QED BY <2>1, <2>2
<1>6. ASSUME NEW m \in 1 .. M + N, NEW n \in 1 .. M + N, m < n PROVE <<h[m], h[n]>> \in R
  <2>1. CASE n =< M
    <3>1. m \in 1 .. M /\ n \in 1 .. M /\ m =< M BY <1>6, <2>1
    <3>2. h[m] = f[m] /\ h[n] = f[n] BY <1>3, <3>1, <2>1
    <3> QED BY <1>6, <3>1, <3>2 DEF InLine
  <2>2. CASE m =< M /\ ~ (n =< M)
    <3>1. PICK k : k = n - M OBVIOUS
    <3>2. m \in 1 .. M /\ k \in 1 .. N BY <2>2, <3>1
    <3>3. h[m] = f[m] /\ h[n] = g[k] BY <1>3, <2>2, <3>1
    <3>4. f[m] \in I /\ g[k] \in J BY <1>1, <3>2
    <3> QED BY <3>3, <3>4
  <2>3. CASE ~ (m =< M)
    <3>1. PICK j, k : j = m - M /\ k = n - M OBVIOUS
    <3>2. j \in 1 .. N /\ k \in 1 .. N /\ j < k /\ ~ (n =< M) BY <1>6, <2>3, <3>1
    <3>3. h[m] = g[j] /\ h[n] = g[k] BY <1>3, <2>3, <3>1, <3>2
    <3> QED BY <3>2, <3>3 DEF InLine
  <2> QED BY <2>1, <2>2, <2>3
<1>7. InLine(h, D, R, M + N) BY <1>4, <1>5, <1>6 DEF InLine
<1> QED BY <1>7
=============================================================================
