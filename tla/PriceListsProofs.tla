-------------------------- MODULE PriceListsProofs --------------------------
(***************************************************************************)
(* What the price lists say for any lists, histories and order of imports, *)
(* canonicalizations and reports: every date has the price in force, what  *)
(* an import has read is stored, what is complete has its fields.          *)
(***************************************************************************)
EXTENDS PriceLists, FiniteSetTheorems, SequenceTheorems, WellFoundedInduction, TLAPS

-----------------------------------------------------------------------------
(* Numbers and places.                                                     *)

\* A finite set has a greatest element in every total preorder R.
LEMMA Greatest ==
  ASSUME NEW S, IsFiniteSet(S), S # {}, NEW R,
         \A x, y \in S : <<x, y>> \in R \/ <<y, x>> \in R,
         \A x, y, z \in S : <<x, y>> \in R /\ <<y, z>> \in R => <<x, z>> \in R
  PROVE  \E m \in S : \A x \in S : <<x, m>> \in R
<1> DEFINE Has(T) == \E m \in T : \A x \in T : <<x, m>> \in R
           Bad == {T \in SUBSET S : T # {} /\ ~Has(T)}
<1> SUFFICES ASSUME ~Has(S) PROVE FALSE
  OBVIOUS
<1>1. IsWellFoundedOn(StrictSubsetOrdering(S), SUBSET S)
  BY FS_StrictSubsetOrderingWellFounded, FS_FiniteSubsetsOfFinite
<1>2. S \in Bad
  OBVIOUS
<1>3. PICK T \in Bad : \A U \in Bad : <<U, T>> \notin StrictSubsetOrdering(S)
  <2> HIDE DEF Bad
  <2>1. Bad \subseteq SUBSET S
    BY DEF Bad
  <2> QED BY <1>1, <1>2, <2>1, WFMin
<1>4. PICK x \in T : TRUE
  BY <1>3
<1>5. T \subseteq S /\ ~Has(T)
  BY <1>3
<1>6. CASE T \ {x} = {}
  <2>1. \A y \in T : y = x
    BY <1>6
  <2> QED BY <1>4, <1>5, <2>1
<1>7. CASE T \ {x} # {}
  <2>1. <<T \ {x}, T>> \in StrictSubsetOrdering(S)
    BY <1>4, <1>5 DEF StrictSubsetOrdering
  <2>2. Has(T \ {x})
    BY <1>3, <1>5, <1>7, <2>1
  <2>3. PICK m \in T \ {x} : \A y \in T \ {x} : <<y, m>> \in R
    BY <2>2
  <2>4. CASE <<x, m>> \in R
    BY <1>4, <1>5, <2>3, <2>4
  <2>5. CASE <<m, x>> \in R
    <3>1. \A y \in T : <<y, x>> \in R
      BY <1>4, <1>5, <2>3, <2>5
    <3> QED BY <1>4, <1>5, <3>1
  <2> QED BY <1>4, <1>5, <2>3, <2>4, <2>5
<1> QED BY <1>6, <1>7

\* So a finite set of naturals has a greatest one,
LEMMA GreatestIs ==
  ASSUME NEW S \in SUBSET Nat, IsFiniteSet(S), S # {}
  PROVE  Max(S) \in S /\ \A x \in S : x <= Max(S)
<1> DEFINE R == {p \in S \X S : p[1] <= p[2]}
<1>1. \A x, y \in S : <<x, y>> \in R <=> x <= y
  OBVIOUS
<1>2. /\ \A x, y \in S : <<x, y>> \in R \/ <<y, x>> \in R
      /\ \A x, y, z \in S : <<x, y>> \in R /\ <<y, z>> \in R => <<x, z>> \in R
  BY <1>1
<1> HIDE DEF R
<1>3. PICK m \in S : \A x \in S : <<x, m>> \in R
  BY <1>2, Greatest
<1> QED BY <1>1, <1>3 DEF Max

\* one that is bounded is finite,
LEMMA GreatestBelow ==
  ASSUME NEW S \in SUBSET Nat, S # {}, NEW b \in Int, \A x \in S : x <= b
  PROVE  \E m \in S : \A x \in S : x <= m
<1>1. b \in Nat
  <2>1. PICK x \in S : TRUE
    OBVIOUS
  <2> QED BY <2>1
<1>2. IsFiniteSet(S)
  BY <1>1, FS_BoundedSetOfNaturals
<1> QED BY <1>2, GreatestIs

\* and any has a least one.
LEMMA LeastIs ==
  ASSUME NEW S \in SUBSET Nat, S # {}
  PROVE  Min(S) \in S /\ \A x \in S : Min(S) <= x
<1>1. PICK b \in S : TRUE
  OBVIOUS
<1> DEFINE D == {n \in Nat : \E x \in S : n = b - x}
<1>2. \A n \in D : n <= b
  OBVIOUS
<1>3. 0 \in D
  BY <1>1
<1>4. PICK m \in D : \A n \in D : n <= m
  <2> HIDE DEF D
  <2>1. D \in SUBSET Nat /\ D # {} /\ b \in Int
    BY <1>1, <1>3 DEF D
  <2> QED BY <1>2, <2>1, GreatestBelow
<1>5. PICK y \in S : m = b - y
  BY <1>4
<1>6. ASSUME NEW x \in S PROVE y <= x
  <2>1. CASE x <= b
    <3>1. b - x \in D
      BY <2>1
    <3> QED BY <1>4, <1>5, <3>1
  <2>2. CASE x > b
    BY <1>4, <1>5, <2>2
  <2> QED BY <2>1, <2>2
<1> QED BY <1>5, <1>6 DEF Min

\* The elements of a finite set in a strict order: each number up to the size is the rank of one.
LEMMA RanksAreOnce ==
  ASSUME NEW S, IsFiniteSet(S), NEW down \in [S -> SUBSET S],
         \A x \in S : x \notin down[x],
         \A x, y \in S : x # y => x \in down[y] \/ y \in down[x],
         \A x, y \in S : y \in down[x] => down[y] \subseteq down[x]
  PROVE  /\ \A n \in 1 .. Cardinality(S) : \E x \in S : Cardinality(down[x]) = n - 1
         /\ \A x, y \in S : Cardinality(down[x]) = Cardinality(down[y]) => x = y
         /\ \A x \in S : Cardinality(down[x]) + 1 \in 1 .. Cardinality(S)
<1> DEFINE size == Cardinality(S)
           rank == [x \in S |-> Cardinality(down[x]) + 1]
<1>1. size \in Nat /\ Cardinality(1 .. size) = size /\ IsFiniteSet(1 .. size)
  BY FS_CardinalityType, FS_Interval
<1>2. ASSUME NEW x \in S
      PROVE  /\ IsFiniteSet(down[x]) /\ Cardinality(down[x]) \in Nat
             /\ Cardinality(down[x]) < size
  <2>1. down[x] \subseteq S /\ down[x] # S
    OBVIOUS
  <2> QED BY <2>1, FS_Subset, FS_CardinalityType
<1>3. ASSUME NEW x \in S, NEW y \in S, y \in down[x]
      PROVE  Cardinality(down[y]) < Cardinality(down[x])
  <2>1. down[y] \subseteq down[x] /\ down[y] # down[x]
    BY <1>3
  <2> QED BY <1>2, <2>1, FS_Subset
<1>4. ASSUME NEW x \in S, NEW y \in S, Cardinality(down[x]) = Cardinality(down[y])
      PROVE  x = y
  <2>1. Cardinality(down[x]) \in Nat /\ Cardinality(down[y]) \in Nat
    BY <1>2
  <2>2. ~(x \in down[y]) /\ ~(y \in down[x])
    BY <1>3, <1>4, <2>1
  <2> QED BY <2>2
<1>5. \A x \in S : rank[x] \in 1 .. size
  BY <1>1, <1>2
<1>6. \A x, y \in S : rank[x] = rank[y] => x = y
  BY <1>2, <1>4
<1>7. rank \in Injection(S, 1 .. size)
  BY <1>5, <1>6 DEF Injection, IsInjective
<1>8. rank \in Surjection(S, 1 .. size)
  BY <1>1, <1>7, FS_Injection
<1>9. ASSUME NEW n \in 1 .. size PROVE \E x \in S : Cardinality(down[x]) = n - 1
  <2>1. PICK x \in S : rank[x] = n
    BY <1>8 DEF Surjection
  <2> QED BY <1>1, <1>2, <2>1
<1> QED BY <1>1, <1>4, <1>5, <1>9

\* The places of a finite set of numbers, in order, are its members, each once.
LEMMA NthIs ==
  ASSUME NEW places \in SUBSET Nat, IsFiniteSet(places)
  PROVE  /\ \A n \in 1 .. Cardinality(places) : Nth(places, n) \in places
         /\ \A i \in places : \E n \in 1 .. Cardinality(places) : Nth(places, n) = i
         /\ \A m, n \in 1 .. Cardinality(places) : Nth(places, m) = Nth(places, n) => m = n
<1> DEFINE down == [i \in places |-> {j \in places : j < i}]
           size == Cardinality(places)
<1>1. down \in [places -> SUBSET places]
  OBVIOUS
<1>10. \A i \in places : down[i] = {j \in places : j < i}
  OBVIOUS
<1> HIDE DEF down
<1>0. \A i, j \in places : j \in down[i] <=> j < i
  BY DEF down
<1>2. /\ \A x \in places : x \notin down[x]
      /\ \A x, y \in places : x # y => x \in down[y] \/ y \in down[x]
      /\ \A x, y \in places : y \in down[x] => down[y] \subseteq down[x]
  <2>1. \A x \in places : x \in Nat
    OBVIOUS
  <2>2. \A x \in places : x \notin down[x] /\ down[x] \subseteq places
    BY <1>0, <1>1, <2>1
  <2>3. \A x, y \in places : x # y => x \in down[y] \/ y \in down[x]
    BY <1>0, <2>1
  <2>4. ASSUME NEW x \in places, NEW y \in down[x], NEW z \in down[y] PROVE z \in down[x]
    <3>1. y \in places /\ z \in places
      BY <2>2
    <3>2. y < x /\ z < y
      BY <1>0, <3>1
    <3>3. z < x
      BY <2>1, <3>1, <3>2
    <3> QED BY <1>0, <3>1, <3>3
  <2> QED BY <2>2, <2>3, <2>4
<1>3. size \in Nat
  BY FS_CardinalityType
<1>4. /\ \A n \in 1 .. size : \E x \in places : Cardinality(down[x]) = n - 1
      /\ \A x, y \in places : Cardinality(down[x]) = Cardinality(down[y]) => x = y
      /\ \A x \in places : Cardinality(down[x]) + 1 \in 1 .. size
  BY <1>1, <1>2, RanksAreOnce
<1>5. ASSUME NEW n \in 1 .. size
      PROVE  Nth(places, n) \in places /\ Cardinality(down[Nth(places, n)]) = n - 1
  <2>1. PICK x \in places : Cardinality({j \in places : j < x}) = n - 1
    BY <1>4, <1>10
  <2>2. /\ Nth(places, n) \in places
        /\ Cardinality({j \in places : j < Nth(places, n)}) = n - 1
    BY <2>1 DEF Nth
  <2> QED BY <1>10, <2>2
<1>6. ASSUME NEW i \in places PROVE \E n \in 1 .. size : Nth(places, n) = i
  <2> DEFINE n == Cardinality(down[i]) + 1
  <2>1. n \in 1 .. size
    BY <1>4
  <2>2. Cardinality(down[i]) = n - 1
    BY <1>1, <1>4, FS_Subset, FS_CardinalityType
  <2>3. Cardinality(down[Nth(places, n)]) = n - 1 /\ Nth(places, n) \in places
    BY <1>5, <2>1
  <2>4. Nth(places, n) = i
    BY <1>4, <2>2, <2>3
  <2> QED BY <2>1, <2>4
<1>7. ASSUME NEW m \in 1 .. size, NEW n \in 1 .. size, Nth(places, m) = Nth(places, n)
      PROVE  m = n
  BY <1>3, <1>5, <1>7
<1> QED BY <1>5, <1>6, <1>7

\* So a selection from a sequence is a sequence of what was selected, each place once.
LEMMA ThoseAre ==
  ASSUME NEW S, NEW s \in Seq(S), NEW places \in SUBSET DOMAIN s
  PROVE  /\ Those(s, places) \in Seq({s[i] : i \in places})
         /\ \A i \in places : \E n \in DOMAIN Those(s, places) : Those(s, places)[n] = s[i]
         /\ \A n \in DOMAIN Those(s, places) : \E i \in places : Those(s, places)[n] = s[i]
         /\ (\A i, j \in places : s[i] = s[j] => i = j) =>
              \A m, n \in DOMAIN Those(s, places) :
                Those(s, places)[m] = Those(s, places)[n] => m = n
<1> DEFINE size == Cardinality(places)
           those == Those(s, places)
<1>1. DOMAIN s = 1 .. Len(s) /\ Len(s) \in Nat
  OBVIOUS
<1>2. places \in SUBSET Nat /\ IsFiniteSet(places)
  <2>1. IsFiniteSet(1 .. Len(s)) /\ places \subseteq 1 .. Len(s)
    BY <1>1, FS_Interval
  <2>2. IsFiniteSet(places)
    BY <2>1, FS_Subset
  <2> QED BY <2>1, <2>2
<1>3. size \in Nat
  BY <1>2, FS_CardinalityType
<1>4. /\ \A n \in 1 .. size : Nth(places, n) \in places
      /\ \A i \in places : \E n \in 1 .. size : Nth(places, n) = i
      /\ \A m, n \in 1 .. size : Nth(places, m) = Nth(places, n) => m = n
  BY <1>2, NthIs
<1>5. DOMAIN those = 1 .. size /\ \A n \in 1 .. size : those[n] = s[Nth(places, n)]
  BY DEF Those
<1>6. those = [n \in 1 .. size |-> those[n]]
  BY DEF Those
<1> HIDE DEF those, size
<1>7. \A n \in 1 .. size : those[n] \in {s[i] : i \in places}
  BY <1>4, <1>5
<1>8. those \in Seq({s[i] : i \in places})
  BY <1>3, <1>6, <1>7, IsASeq
<1>9. \A i \in places : \E n \in DOMAIN those : those[n] = s[i]
  BY <1>4, <1>5
<1>10. \A n \in DOMAIN those : \E i \in places : those[n] = s[i]
  BY <1>4, <1>5
<1>11. (\A i, j \in places : s[i] = s[j] => i = j) =>
         \A m, n \in DOMAIN those : those[m] = those[n] => m = n
  BY <1>4, <1>5
<1> QED BY <1>8, <1>9, <1>10, <1>11 DEF those

\* The values of a function on a finite set are finitely many.
LEMMA ImageIsFinite ==
  ASSUME NEW S, IsFiniteSet(S), NEW f, DOMAIN f = S, f = [x \in S |-> f[x]]
  PROVE  IsFiniteSet({f[x] : x \in S})
<1> DEFINE T == {f[x] : x \in S}
<1>1. f \in [S -> T]
  OBVIOUS
<1>2. \A t \in T : \E x \in S : f[x] = t
  OBVIOUS
<1> HIDE DEF T
<1>3. f \in Surjection(S, T)
  BY <1>1, <1>2 DEF Surjection
<1>4. IsFiniteSet(T)
  BY <1>3, FS_Surjection
<1> QED BY <1>4 DEF T

-----------------------------------------------------------------------------
(* Points and episodes.                                                    *)

IsHistory(rows) == IsFiniteSet(rows) /\ \A h \in rows : h.from \in Nat /\ h.tuple # NULL
IsPoints(points) ==
  /\ \A p \in points : p.from \in Nat /\ p.version \in Nat /\ (p.status = "OK" => p.tuple # NULL)
  /\ \A p, q \in points : p.version = q.version /\ p.from = q.from => p = q
Segments(points) == {p \in points : ~Collapses(points, p)}
TuplesOf(known, rows, version, date) == {row.tuple : row \in EvidenceOf(known, rows, version, date)}

After(points, p) == {q.from : q \in {s \in Segments(points) : p \in Before(Segments(points), s)}}
Until(points, p) == IF After(points, p) = {} THEN NULL ELSE Min(After(points, p)) - 1
CleanBefore(points, p) == {q \in Before(Segments(points), p) : q.status = "OK"}
PreviousTuple(points, p) ==
  IF CleanBefore(points, p) = {} THEN NULL ELSE Latest(CleanBefore(points, p)).tuple

EpisodeAt(points, p) ==
  [version |-> p.version, pv |-> p.pv, from |-> p.from, to |-> Until(points, p), status |-> p.status,
   tuple |-> p.tuple,
   change |-> IF p.status = "OK" THEN ChangeOf(PreviousTuple(points, p), p.tuple)
              ELSE "SOURCE_CONFLICT"]

LEMMA EpisodesAre ==
  ASSUME NEW points
  PROVE  EpisodesOf(points) = {EpisodeAt(points, p) : p \in Segments(points)}
BY DEF EpisodesOf, EpisodeAt, Segments, Until, After, PreviousTuple, CleanBefore

\* Of points up to a date there is a latest one.
LEMMA LatestIs ==
  ASSUME NEW points, points # {}, NEW b \in Int, \A p \in points : p.from \in Nat /\ p.from <= b
  PROVE  Latest(points) \in points /\ \A q \in points : q.from <= Latest(points).from
<1> DEFINE dates == {p.from : p \in points}
<1>1. dates \in SUBSET Nat /\ dates # {} /\ \A d \in dates : d <= b
  OBVIOUS
<1>2. PICK m \in dates : \A d \in dates : d <= m
  <2> HIDE DEF dates
  <2> QED BY <1>1, GreatestBelow
<1>3. \E p \in points : \A q \in points : q.from <= p.from
  BY <1>2
<1> QED BY <1>3 DEF Latest

\* A list version stands for one version of the master, or for none.
LEMMA ResolvedIs ==
  ASSUME NEW known, NEW pv
  PROVE  LET of == Resolution(known, pv)
         IN /\ of.status = "resolved" => of.version \in Nat /\ pv \in DOMAIN known
            /\ of.status # "resolved" => of.version = NULL
            /\ of.status = "resolved" <=> of.version \in Nat
<1> DEFINE alias == Candidates(Aliases, known[pv].key)
           master == Candidates(Masters, known[pv].key)
<1>1. alias \subseteq Nat /\ master \subseteq Nat
  BY MastersAssumption DEF Candidates
<1>2. NULL \notin Nat
  BY MastersAssumption
<1>3. IsFiniteSet(alias) /\ IsFiniteSet(master)
  <2>1. ASSUME NEW rows, IsFiniteSet(rows), NEW key PROVE IsFiniteSet(Candidates(rows, key))
    <3> DEFINE mine == {x \in rows : x.key = key}
               f == [x \in mine |-> x.version]
    <3>1. IsFiniteSet(mine)
      BY <2>1, FS_Subset
    <3>2. DOMAIN f = mine /\ f = [x \in mine |-> f[x]]
      OBVIOUS
    <3>3. {f[x] : x \in mine} = Candidates(rows, key)
      BY DEF Candidates
    <3> HIDE DEF f, mine
    <3> QED BY <3>1, <3>2, <3>3, ImageIsFinite
  <2> QED BY <2>1, MastersAssumption
<1>4. /\ Cardinality(alias) = 1 => (CHOOSE v \in alias : TRUE) \in Nat
      /\ Cardinality(master) = 1 => (CHOOSE v \in master : TRUE) \in Nat
  <2>1. Cardinality({}) = 0
    BY FS_EmptySet
  <2> HIDE DEF alias, master
  <2>2. /\ Cardinality(alias) = 1 => alias # {}
        /\ Cardinality(master) = 1 => master # {}
    BY <2>1
  <2> QED BY <1>1, <2>2
<1>5. Resolution(known, pv) =
        IF pv \notin DOMAIN known THEN [status |-> "unresolved", version |-> NULL]
        ELSE IF pv \in ExcludedIds THEN [status |-> "excluded", version |-> NULL]
        ELSE IF Cardinality(alias) = 1
        THEN [status |-> "resolved", version |-> CHOOSE v \in alias : TRUE]
        ELSE IF Cardinality(master) = 1
        THEN [status |-> "resolved", version |-> CHOOSE v \in master : TRUE]
        ELSE [status |-> "unresolved", version |-> NULL]
  BY DEF Resolution
<1> HIDE DEF alias, master
<1> QED BY <1>2, <1>4, <1>5

\* A point of a date says what the rows of that date say, if they say one thing.
LEMMA PointSays ==
  ASSUME NEW known, NEW rows, IsHistory(rows), NEW version, NEW date,
         EvidenceOf(known, rows, version, date) # {}
  PROVE  LET p == PointAt(known, rows, version, date)
             tuples == TuplesOf(known, rows, version, date)
         IN /\ p.version = version /\ p.from = date
            /\ p.status = "OK" <=> Cardinality(tuples) = 1
            /\ p.status = "OK" => tuples = {p.tuple}
            /\ IsFiniteSet(tuples) /\ NULL \notin tuples
<1> DEFINE evidence == EvidenceOf(known, rows, version, date)
           p == PointAt(known, rows, version, date)
           tuples == TuplesOf(known, rows, version, date)
           f == [x \in evidence |-> x.tuple]
<1>1. evidence \subseteq rows
  BY DEF EvidenceOf
<1>2. IsFiniteSet(evidence)
  BY <1>1, FS_Subset DEF IsHistory
<1>3. DOMAIN f = evidence /\ f = [x \in evidence |-> f[x]] /\ {f[x] : x \in evidence} = tuples
  BY DEF TuplesOf
<1>4. IsFiniteSet(tuples)
  <2> HIDE DEF f, tuples, evidence
  <2> QED BY <1>2, <1>3, ImageIsFinite
<1>5. NULL \notin tuples
  BY <1>1 DEF TuplesOf, IsHistory
<1>6. p = [version |-> version, from |-> date, pv |-> Min({row.pv : row \in evidence}),
           status |-> IF Cardinality(tuples) = 1 THEN "OK" ELSE "SOURCE_CONFLICT",
           tuple |-> IF Cardinality(tuples) = 1 THEN CHOOSE t \in tuples : TRUE ELSE NULL]
  BY DEF PointAt, TuplesOf
<1>7. Cardinality(tuples) = 1 => tuples = {CHOOSE t \in tuples : TRUE}
  <2> HIDE DEF tuples
  <2>1. SUFFICES ASSUME Cardinality(tuples) = 1 PROVE tuples = {CHOOSE t \in tuples : TRUE}
    OBVIOUS
  <2>2. \E t : tuples = {t}
    BY <1>4, <2>1, FS_Singleton
  <2> QED BY <2>2
<1> HIDE DEF p, tuples
<1>8. /\ p.version = version /\ p.from = date
      /\ p.status = "OK" <=> Cardinality(tuples) = 1
      /\ Cardinality(tuples) = 1 => p.tuple = CHOOSE t \in tuples : TRUE
  BY <1>6
<1> QED BY <1>4, <1>5, <1>7, <1>8 DEF p, tuples

\* There is one point for each version and date with rows.
LEMMA PointsAre ==
  ASSUME NEW known, NEW rows, IsHistory(rows)
  PROVE  LET points == Points(known, rows)
         IN /\ IsPoints(points) /\ IsFiniteSet(points)
            /\ \A p \in points : /\ p = PointAt(known, rows, p.version, p.from)
                                 /\ EvidenceOf(known, rows, p.version, p.from) # {}
            /\ \A row \in rows : \A v \in Nat : Resolution(known, row.pv).version = v =>
                 \E p \in points : p.version = v /\ p.from = row.from
<1> DEFINE points == Points(known, rows)
           resolved == {x \in rows : Resolution(known, x.pv).status = "resolved"}
           At(x) == PointAt(known, rows, Resolution(known, x.pv).version, x.from)
           f == [x \in resolved |-> At(x)]
<1>1. points = {At(x) : x \in resolved}
  BY DEF Points
<1>2. IsFiniteSet(points)
  <2>1. IsFiniteSet(resolved)
    BY FS_Subset DEF IsHistory
  <2>2. DOMAIN f = resolved /\ f = [x \in resolved |-> f[x]] /\ {f[x] : x \in resolved} = points
    BY <1>1
  <2> HIDE DEF f, resolved, points
  <2> QED BY <2>1, <2>2, ImageIsFinite
<1>3. ASSUME NEW x \in resolved
      PROVE  /\ EvidenceOf(known, rows, Resolution(known, x.pv).version, x.from) # {}
             /\ Resolution(known, x.pv).version \in Nat /\ x.from \in Nat
  <2>1. x \in EvidenceOf(known, rows, Resolution(known, x.pv).version, x.from)
    BY DEF EvidenceOf
  <2> QED BY <2>1, ResolvedIs DEF IsHistory
<1>4. ASSUME NEW x \in resolved
      PROVE  /\ At(x).version = Resolution(known, x.pv).version /\ At(x).from = x.from
             /\ At(x).status = "OK" => At(x).tuple # NULL
  <2>1. LET tuples == TuplesOf(known, rows, Resolution(known, x.pv).version, x.from)
        IN /\ At(x).version = Resolution(known, x.pv).version /\ At(x).from = x.from
           /\ At(x).status = "OK" => tuples = {At(x).tuple}
           /\ NULL \notin tuples
    BY <1>3, PointSays
  <2> QED BY <2>1
<1>5. ASSUME NEW p \in points
      PROVE  /\ p = PointAt(known, rows, p.version, p.from)
             /\ EvidenceOf(known, rows, p.version, p.from) # {}
             /\ p.from \in Nat /\ p.version \in Nat /\ (p.status = "OK" => p.tuple # NULL)
  <2>1. PICK x \in resolved : p = At(x)
    BY <1>1
  <2> HIDE DEF resolved
  <2> QED BY <1>3, <1>4, <2>1
<1>6. ASSUME NEW p \in points, NEW q \in points, p.version = q.version, p.from = q.from
      PROVE  p = q
  BY <1>5, <1>6
<1>7. ASSUME NEW row \in rows, NEW v \in Nat, Resolution(known, row.pv).version = v
      PROVE  \E p \in points : p.version = v /\ p.from = row.from
  <2>1. row \in resolved
    BY <1>7, ResolvedIs
  <2> QED BY <1>1, <1>4, <1>7, <2>1
<1> HIDE DEF points
<1>8. IsPoints(points)
  BY <1>5, <1>6 DEF IsPoints
<1> QED BY <1>2, <1>5, <1>7, <1>8 DEF points

-----------------------------------------------------------------------------
(* On any date one segment is in force, and says what the latest point does. *)

\* A point that collapses says what the one before it does.
LEMMA CollapsedSays ==
  ASSUME NEW points, IsPoints(points), NEW q \in points, q \notin Segments(points)
  PROVE  LET l == Latest(Before(points, q))
         IN /\ l \in points /\ l.version = q.version /\ l.from < q.from
            /\ l.status = "OK" /\ q.status = "OK" /\ l.tuple = q.tuple
            /\ \A s \in points : s.version = q.version /\ s.from < q.from => s.from <= l.from
<1> DEFINE before == Before(points, q)
<1>1. before # {} /\ q.status = "OK" /\ Latest(before).status = "OK" /\ Latest(before).tuple = q.tuple
  BY DEF Segments, Collapses
<1>2. q.from \in Int /\ \A p \in before : p.from \in Nat /\ p.from <= q.from
  BY DEF Before, IsPoints
<1>3. Latest(before) \in before /\ \A p \in before : p.from <= Latest(before).from
  <2> HIDE DEF before
  <2> QED BY <1>1, <1>2, LatestIs
<1> QED BY <1>1, <1>3 DEF Before

LEMMA OneInForce ==
  ASSUME NEW points, IsPoints(points), NEW version, NEW date \in Int,
         \E p \in points : p.version = version /\ p.from <= date
  PROVE  \E s \in Segments(points) :
           /\ s.version = version /\ s.from <= date
           /\ \A t \in Segments(points) : t.version = version /\ t.from <= date => t.from <= s.from
           /\ \A q \in points : q.version = version /\ s.from <= q.from /\ q.from <= date =>
                q.status = s.status /\ (s.status = "OK" => q.tuple = s.tuple)
<1> DEFINE mine == {p \in points : p.version = version /\ p.from <= date}
           parts == {s \in Segments(points) : s.version = version /\ s.from <= date}
           firsts == {p.from : p \in mine}
<1>1. parts # {}
  <2>1. firsts \in SUBSET Nat /\ firsts # {}
    BY DEF IsPoints
  <2>2. Min(firsts) \in firsts /\ \A d \in firsts : Min(firsts) <= d
    <3> HIDE DEF firsts
    <3> QED BY <2>1, LeastIs
  <2>3. PICK p \in mine : \A q \in mine : p.from <= q.from
    BY <2>2
  <2>4. p \in Segments(points)
    <3> SUFFICES ASSUME p \notin Segments(points) PROVE FALSE
      OBVIOUS
    <3>1. PICK l \in points : l.version = p.version /\ l.from < p.from
      BY CollapsedSays
    <3>2. l \in mine
      BY <3>1 DEF IsPoints
    <3> QED BY <2>3, <3>1, <3>2 DEF IsPoints
  <2> QED BY <2>3, <2>4
<1>2. /\ parts \subseteq points
      /\ \A p \in parts : p.from \in Nat /\ p.from <= date
  BY DEF Segments, IsPoints
<1>3. PICK s \in parts : \A t \in parts : t.from <= s.from
  <2> HIDE DEF parts
  <2>1. Latest(parts) \in parts /\ \A q \in parts : q.from <= Latest(parts).from
    BY <1>1, <1>2, LatestIs
  <2> QED BY <2>1
<1> DEFINE Says(q) == q.status = s.status /\ (s.status = "OK" => q.tuple = s.tuple)
           Since(q) == q.version = version /\ s.from <= q.from /\ q.from <= date
           bad == {q.from : q \in {x \in points : Since(x) /\ ~Says(x)}}
<1>4. bad = {}
  <2> SUFFICES ASSUME bad # {} PROVE FALSE
    OBVIOUS
  <2>1. bad \in SUBSET Nat
    BY DEF IsPoints
  <2>2. Min(bad) \in bad /\ \A d \in bad : Min(bad) <= d
    <3> HIDE DEF bad
    <3> QED BY <2>1, LeastIs
  <2>3. PICK q \in points : /\ Since(q) /\ ~Says(q)
                            /\ \A x \in points : Since(x) /\ ~Says(x) => q.from <= x.from
    BY <2>2
  <2>4. s \in points /\ s.version = version /\ s.from \in Nat /\ q.from \in Nat
    BY <1>2, <1>3 DEF IsPoints
  <2>5. q # s
    BY <2>3
  <2>6. s.from < q.from
    BY <2>3, <2>4, <2>5 DEF IsPoints
  <2>7. q \notin Segments(points)
    BY <1>3, <2>3, <2>4, <2>6
  <2>8. PICK l \in points : /\ l.version = q.version /\ l.from < q.from /\ s.from <= l.from
                            /\ l.status = "OK" /\ q.status = "OK" /\ l.tuple = q.tuple
    <3>1. LET l == Latest(Before(points, q))
          IN /\ l \in points /\ l.version = q.version /\ l.from < q.from
             /\ l.status = "OK" /\ q.status = "OK" /\ l.tuple = q.tuple
             /\ \A x \in points : x.version = q.version /\ x.from < q.from => x.from <= l.from
      BY <2>7, CollapsedSays
    <3> QED BY <2>3, <2>4, <2>6, <3>1
  <2>9. l.from \in Nat /\ Since(l)
    BY <2>3, <2>4, <2>8 DEF IsPoints
  <2>10. Says(l)
    BY <2>3, <2>4, <2>8, <2>9
  <2> QED BY <2>3, <2>8, <2>10
<1>5. \A q \in points : Since(q) => Says(q)
  BY <1>4
<1> QED BY <1>3, <1>5

\* The fields of an episode.
LEMMA EpisodeIs ==
  ASSUME NEW points, NEW p
  PROVE  LET e == EpisodeAt(points, p)
         IN /\ e.version = p.version /\ e.pv = p.pv /\ e.from = p.from /\ e.to = Until(points, p)
            /\ e.status = p.status /\ e.tuple = p.tuple
            /\ e.change = IF p.status = "OK" THEN ChangeOf(PreviousTuple(points, p), p.tuple)
                          ELSE "SOURCE_CONFLICT"
BY DEF EpisodeAt

\* An episode ends the day before the next segment of its version begins.
LEMMA UntilIs ==
  ASSUME NEW points, IsPoints(points), NEW p \in Segments(points)
  PROVE  LET next == {s \in Segments(points) : s.version = p.version /\ p.from < s.from}
         IN /\ next = {} => Until(points, p) = NULL
            /\ next # {} => \E s \in next : /\ Until(points, p) = s.from - 1
                                            /\ \A t \in next : s.from <= t.from
<1> DEFINE next == {s \in Segments(points) : s.version = p.version /\ p.from < s.from}
<1>1. After(points, p) = {s.from : s \in next}
  <2>1. {s \in Segments(points) : p \in Before(Segments(points), s)} = next
    BY DEF Before
  <2> QED BY <2>1 DEF After
<1>2. After(points, p) \in SUBSET Nat
  BY <1>1 DEF IsPoints, Segments
<1>3. CASE next = {}
  BY <1>1, <1>3 DEF Until
<1>4. CASE next # {}
  <2>1. After(points, p) # {}
    BY <1>1, <1>4
  <2>2. Min(After(points, p)) \in After(points, p) /\ \A d \in After(points, p) : Min(After(points, p)) <= d
    BY <1>2, <2>1, LeastIs
  <2>3. PICK s \in next : s.from = Min(After(points, p))
    BY <1>1, <2>2
  <2>4. \A t \in next : s.from <= t.from
    BY <1>1, <2>2, <2>3
  <2> QED BY <1>4, <2>1, <2>3, <2>4 DEF Until
<1> QED BY <1>3, <1>4

LEMMA InRangeIs ==
  ASSUME NEW points, IsPoints(points), NEW p \in Segments(points), NEW date \in Int
  PROVE  InRange(date, EpisodeAt(points, p)) <=>
           /\ p.from <= date
           /\ \A s \in Segments(points) : s.version = p.version /\ p.from < s.from => date < s.from
<1> DEFINE next == {s \in Segments(points) : s.version = p.version /\ p.from < s.from}
           to == Until(points, p)
<1>1. InRange(date, EpisodeAt(points, p)) <=> p.from <= date /\ (to = NULL \/ date <= to)
  <2>1. p.from \in Nat
    BY DEF IsPoints, Segments
  <2> QED BY <2>1, EpisodeIs DEF InRange
<1>2. CASE next = {}
  BY <1>1, <1>2, UntilIs
<1>3. CASE next # {}
  <2>1. PICK s \in next : to = s.from - 1 /\ \A t \in next : s.from <= t.from
    BY <1>3, UntilIs
  <2>2. \A t \in next : t.from \in Nat
    BY DEF IsPoints, Segments
  <2>3. to \in Int /\ to # NULL
    BY <2>1, <2>2, MastersAssumption
  <2>4. date <= to <=> \A t \in next : date < t.from
    BY <2>1, <2>2
  <2> QED BY <1>1, <2>3, <2>4
<1> QED BY <1>2, <1>3

\* A version has one episode on a date with points up to it.
LEMMA OneEpisode ==
  ASSUME NEW points, IsPoints(points), NEW version, NEW date \in Int, NEW s \in Segments(points),
         s.version = version, s.from <= date,
         \A t \in Segments(points) : t.version = version /\ t.from <= date => t.from <= s.from
  PROVE  {e \in EpisodesOf(points) : e.version = version /\ InRange(date, e)} = {EpisodeAt(points, s)}
<1>1. \A p \in Segments(points) : p \in points /\ p.from \in Nat
  BY DEF IsPoints, Segments
<1>2. InRange(date, EpisodeAt(points, s))
  BY <1>1, InRangeIs
<1>3. ASSUME NEW t \in Segments(points), t.version = version, InRange(date, EpisodeAt(points, t))
      PROVE  t = s
  <2>1. /\ t.from <= date
        /\ \A x \in Segments(points) : x.version = t.version /\ t.from < x.from => date < x.from
    BY <1>3, InRangeIs
  <2>2. t.from <= s.from /\ ~(t.from < s.from)
    BY <1>1, <1>3, <2>1
  <2>3. t.from = s.from
    BY <1>1, <2>2
  <2> QED BY <1>1, <1>3, <2>3 DEF IsPoints
<1>4. EpisodeAt(points, s) \in EpisodesOf(points) /\ EpisodeAt(points, s).version = version
  BY EpisodesAre, EpisodeIs
<1>5. ASSUME NEW e \in EpisodesOf(points), e.version = version, InRange(date, e)
      PROVE  e = EpisodeAt(points, s)
  <2>1. PICK t \in Segments(points) : e = EpisodeAt(points, t)
    BY EpisodesAre
  <2>2. t.version = version
    BY <1>5, <2>1, EpisodeIs
  <2> QED BY <1>3, <1>5, <2>1, <2>2
<1> QED BY <1>2, <1>4, <1>5

\* A change is from what the last episode that is no conflict says.
LEMMA ChangeSays ==
  ASSUME NEW points, IsPoints(points), NEW s \in Segments(points), s.status = "OK",
         PreviousTuple(points, s) # NULL
  PROVE  LET c == Latest(CleanBefore(points, s))
         IN /\ c \in Segments(points) /\ c.version = s.version /\ c.from < s.from /\ c.status = "OK"
            /\ PreviousTuple(points, s) = c.tuple
            /\ \A g \in Segments(points) :
              g.version = s.version /\ g.from < s.from /\ g.status = "OK" => g.from <= c.from
<1> DEFINE clean == CleanBefore(points, s)
<1>1. clean # {} /\ PreviousTuple(points, s) = Latest(clean).tuple
  BY DEF PreviousTuple
<1>2. \A q \in clean : q \in Segments(points) /\ q.version = s.version /\ q.from < s.from /\ q.status = "OK"
  BY DEF CleanBefore, Before
<1>3. s.from \in Int /\ \A q \in clean : q.from \in Nat /\ q.from <= s.from
  BY <1>2 DEF IsPoints, Segments
<1>4. Latest(clean) \in clean /\ \A q \in clean : q.from <= Latest(clean).from
  <2> HIDE DEF clean
  <2> QED BY <1>1, <1>3, LatestIs
<1>5. ASSUME NEW g \in Segments(points), g.version = s.version, g.from < s.from, g.status = "OK"
      PROVE  g \in clean
  BY <1>5 DEF CleanBefore, Before
<1> HIDE DEF clean
<1> QED BY <1>1, <1>2, <1>4, <1>5 DEF clean

\* Nothing changes only after a conflict that ends the day before.
LEMMA NoChangeIsAfterConflict ==
  ASSUME NEW points, IsPoints(points), NEW s \in Segments(points), s.status = "OK",
         PreviousTuple(points, s) = s.tuple
  PROVE  \E d \in Segments(points) : /\ d.version = s.version /\ d.status # "OK"
                                     /\ Until(points, d) = s.from - 1
<1> DEFINE c == Latest(CleanBefore(points, s))
           before == Before(points, s)
           q == Latest(before)
<1>1. \A p \in points : p.from \in Nat
  BY DEF IsPoints
<1>2. s \in points /\ s.tuple # NULL
  BY DEF IsPoints, Segments
<1>3. /\ c \in Segments(points) /\ c.version = s.version /\ c.from < s.from /\ c.status = "OK"
      /\ c.tuple = s.tuple
      /\ \A g \in Segments(points) :
              g.version = s.version /\ g.from < s.from /\ g.status = "OK" => g.from <= c.from
  BY <1>2, ChangeSays
<1>4. c \in points /\ c \in before
  BY <1>3 DEF Before, Segments
<1>5. \A p \in before : p \in points /\ p.version = s.version /\ p.from < s.from
  BY DEF Before
<1> HIDE DEF c, before
<1>6. q \in before /\ \A p \in before : p.from <= q.from
  <2>1. s.from \in Int /\ before # {} /\ \A p \in before : p.from \in Nat /\ p.from <= s.from
    BY <1>1, <1>2, <1>4, <1>5
  <2> QED BY <2>1, LatestIs
<1>7. ~(q.status = "OK" /\ q.tuple = s.tuple)
  BY <1>4 DEF Segments, Collapses, before
<1> HIDE DEF q
<1>8. q \in points /\ q.version = s.version /\ q.from < s.from /\ q.from \in Nat
  BY <1>1, <1>5, <1>6
<1>9. q.status # "OK"
  <2> SUFFICES ASSUME q.status = "OK" PROVE FALSE
    OBVIOUS
  <2>1. PICK g \in Segments(points) :
          /\ g.version = s.version /\ g.from <= q.from
          /\ \A t \in Segments(points) : t.version = s.version /\ t.from <= q.from => t.from <= g.from
          /\ \A x \in points : x.version = s.version /\ g.from <= x.from /\ x.from <= q.from =>
               x.status = g.status /\ (g.status = "OK" => x.tuple = g.tuple)
    <3>1. q.from \in Int /\ \E p \in points : p.version = s.version /\ p.from <= q.from
      BY <1>8
    <3> QED BY <3>1, OneInForce
  <2>2. g \in points /\ g.from \in Nat
    BY <1>1 DEF Segments
  <2>3. g.status = "OK" /\ q.tuple = g.tuple
    BY <1>8, <2>1
  <2>4. g.from <= c.from
    BY <1>2, <1>3, <1>8, <1>1, <2>1, <2>2, <2>3
  <2>5. c.from <= g.from
    BY <1>3, <1>4, <1>6, <2>1
  <2>6. g = c
    <3>1. g.from = c.from
      BY <1>1, <1>4, <2>2, <2>4, <2>5
    <3> QED BY <1>3, <1>4, <2>1, <2>2, <3>1 DEF IsPoints
  <2> QED BY <1>3, <1>7, <2>3, <2>6
<1>10. q \in Segments(points)
  BY <1>8, <1>9 DEF Segments, Collapses
<1> DEFINE next == {t \in Segments(points) : t.version = q.version /\ q.from < t.from}
<1>11. s \in next
  BY <1>8
<1>12. PICK t \in next : Until(points, q) = t.from - 1 /\ \A x \in next : t.from <= x.from
  BY <1>10, <1>11, UntilIs
<1>13. t.from = s.from
  <2>1. t \in points /\ t.from \in Nat /\ s.from \in Nat /\ t.from <= s.from
    BY <1>1, <1>2, <1>11, <1>12 DEF Segments
  <2>2. ~(t.from < s.from)
    <3> SUFFICES ASSUME t.from < s.from PROVE FALSE
      OBVIOUS
    <3>1. t \in before
      BY <1>8, <2>1 DEF before, Before
    <3> QED BY <1>6, <1>8, <1>12, <2>1, <3>1
  <2> QED BY <2>1, <2>2
<1> QED BY <1>8, <1>9, <1>10, <1>12, <1>13

-----------------------------------------------------------------------------
(* What is in force.                                                       *)

\* The rows in force on a date are those of the date of the latest point.
LEMMA ForceIs ==
  ASSUME NEW known, NEW rows, IsHistory(rows), NEW version \in Nat, NEW date \in Int
  PROVE  LET points == Points(known, rows)
             force == InForce(known, rows, version, date)
         IN /\ force = {} <=> ~\E p \in points : p.version = version /\ p.from <= date
            /\ force # {} => \E l \in points :
                 /\ l.version = version /\ l.from <= date
                 /\ \A p \in points : p.version = version /\ p.from <= date => p.from <= l.from
                 /\ force = TuplesOf(known, rows, version, l.from)
<1> DEFINE points == Points(known, rows)
           force == InForce(known, rows, version, date)
           past == {h \in Evidence(known, rows, version) : h.from <= date}
           latest == {x \in past : \A y \in past : y.from <= x.from}
<1>1. force = {h.tuple : h \in latest}
  BY DEF InForce
<1>2. \A h : h \in past <=> h \in rows /\ Resolution(known, h.pv).version = version /\ h.from <= date
  <2>1. \A h : Resolution(known, h.pv).version = version => h.pv \in DOMAIN known
    BY ResolvedIs
  <2> QED BY <2>1 DEF Evidence
<1>3. \A h \in past : h.from \in Nat /\ h.from <= date
  BY <1>2 DEF IsHistory
<1>4. past # {} => Latest(past) \in latest
  <2> HIDE DEF past
  <2> QED BY <1>3, LatestIs
<1>5. /\ IsPoints(points)
      /\ \A p \in points : EvidenceOf(known, rows, p.version, p.from) # {}
      /\ \A row \in rows : Resolution(known, row.pv).version = version =>
           \E p \in points : p.version = version /\ p.from = row.from
  BY PointsAre
<1> HIDE DEF points
<1>6. ASSUME NEW p \in points, p.version = version, p.from <= date
      PROVE  \E h \in past : h.from = p.from
  <2>1. PICK h \in EvidenceOf(known, rows, version, p.from) : TRUE
    BY <1>5, <1>6
  <2> QED BY <1>2, <1>6, <2>1 DEF EvidenceOf
<1>7. ASSUME NEW h \in past PROVE \E p \in points : p.version = version /\ p.from = h.from
  BY <1>2, <1>5
<1>8. force = {} <=> ~\E p \in points : p.version = version /\ p.from <= date
  <2>1. force = {} <=> latest = {}
    BY <1>1
  <2>2. latest = {} <=> past = {}
    BY <1>4
  <2> HIDE DEF force, latest, past
  <2>3. past = {} <=> ~\E p \in points : p.version = version /\ p.from <= date
    BY <1>3, <1>6, <1>7
  <2> QED BY <2>1, <2>2, <2>3
<1>9. ASSUME force # {}
      PROVE  \E l \in points :
               /\ l.version = version /\ l.from <= date
               /\ \A p \in points : p.version = version /\ p.from <= date => p.from <= l.from
               /\ force = TuplesOf(known, rows, version, l.from)
  <2>1. PICK h \in latest : TRUE
    BY <1>1, <1>9
  <2>2. PICK l \in points : l.version = version /\ l.from = h.from
    BY <1>7, <2>1
  <2>3. h \in past /\ \A y \in past : y.from <= h.from
    BY <2>1
  <2>4. \A p \in points : p.version = version /\ p.from <= date => p.from <= l.from
    BY <1>6, <2>2, <2>3
  <2>5. latest = EvidenceOf(known, rows, version, l.from)
    <3>1. ASSUME NEW x \in latest PROVE x \in EvidenceOf(known, rows, version, l.from)
      <4>1. x \in past /\ h.from <= x.from
        BY <2>3
      <4>2. x.from = h.from
        BY <1>3, <2>3, <4>1
      <4> QED BY <1>2, <2>2, <4>1, <4>2 DEF EvidenceOf
    <3>2. ASSUME NEW x \in EvidenceOf(known, rows, version, l.from) PROVE x \in latest
      <4>1. x \in rows /\ x.from = h.from /\ Resolution(known, x.pv).version = version
        BY <2>2 DEF EvidenceOf
      <4> QED BY <1>2, <2>3, <4>1
    <3> QED BY <3>1, <3>2
  <2>6. force = TuplesOf(known, rows, version, l.from)
    BY <1>1, <2>5 DEF TuplesOf
  <2>7. l.from <= date
    BY <1>3, <2>2, <2>3
  <2> QED BY <2>2, <2>4, <2>6, <2>7
<1> QED BY <1>8, <1>9 DEF points

\* For any list versions and any history, on every date a version has at most one episode; it has
\* one exactly if prices were in force, it says which if they agree, and says they do not otherwise;
\* what it calls a change is one from an earlier price, and only a conflict separates equal prices.
SaidOn(known, rows, version, date) ==
  LET episodes == EpisodesOf(Points(known, rows))
      on == {e \in episodes : e.version = version /\ InRange(date, e)}
      force == InForce(known, rows, version, date)
  IN /\ force = {} => on = {}
     /\ force # {} => \E e \in episodes :
          /\ on = {e}
          /\ (e.status = "OK") = (Cardinality(force) = 1)
          /\ e.status = "OK" => force = {e.tuple}
          /\ e.change \in {"PRECIO", "BONO", "PRECIO_Y_BONO"} =>
               \E d \in episodes : d.version = version /\ d.status = "OK" /\ d.from < e.from
                                   /\ d.tuple # e.tuple
          /\ e.change = "NO_CHANGE" =>
               \E d \in episodes : d.version = version /\ d.status # "OK" /\ d.to = e.from - 1

THEOREM EpisodeSaysWhatWasInForce ==
  ASSUME NEW known, NEW rows, IsHistory(rows), NEW version \in Nat, NEW date \in Int
  PROVE  SaidOn(known, rows, version, date)
<1> DEFINE points == Points(known, rows)
           episodes == EpisodesOf(points)
           on == {e \in episodes : e.version = version /\ InRange(date, e)}
           force == InForce(known, rows, version, date)
<1>1. /\ IsPoints(points)
      /\ \A p \in points : /\ p = PointAt(known, rows, p.version, p.from)
                           /\ EvidenceOf(known, rows, p.version, p.from) # {}
  BY PointsAre
<1>2. /\ force = {} <=> ~\E p \in points : p.version = version /\ p.from <= date
      /\ force # {} => \E l \in points :
           /\ l.version = version /\ l.from <= date
           /\ \A p \in points : p.version = version /\ p.from <= date => p.from <= l.from
           /\ force = TuplesOf(known, rows, version, l.from)
  BY ForceIs
<1> HIDE DEF points, force
<1>3. ASSUME force = {}, NEW e \in on PROVE FALSE
  <2>1. PICK p \in Segments(points) : e = EpisodeAt(points, p)
    BY EpisodesAre
  <2>2. p \in points /\ p.version = version /\ p.from <= date
    BY <1>1, <1>3, <2>1, EpisodeIs, InRangeIs DEF Segments
  <2> QED BY <1>2, <1>3, <2>2
<1>4. ASSUME force # {}
      PROVE  \E e \in episodes :
               /\ on = {e}
               /\ (e.status = "OK") = (Cardinality(force) = 1)
               /\ e.status = "OK" => force = {e.tuple}
               /\ e.change \in {"PRECIO", "BONO", "PRECIO_Y_BONO"} =>
                    \E d \in episodes : d.version = version /\ d.status = "OK" /\ d.from < e.from
                                        /\ d.tuple # e.tuple
               /\ e.change = "NO_CHANGE" =>
                    \E d \in episodes : d.version = version /\ d.status # "OK" /\ d.to = e.from - 1
  <2>1. PICK l \in points :
          /\ l.version = version /\ l.from <= date
          /\ \A p \in points : p.version = version /\ p.from <= date => p.from <= l.from
          /\ force = TuplesOf(known, rows, version, l.from)
    BY <1>2, <1>4
  <2>2. PICK s \in Segments(points) :
          /\ s.version = version /\ s.from <= date
          /\ \A t \in Segments(points) : t.version = version /\ t.from <= date => t.from <= s.from
          /\ \A q \in points : q.version = version /\ s.from <= q.from /\ q.from <= date =>
               q.status = s.status /\ (s.status = "OK" => q.tuple = s.tuple)
    BY <1>1, <2>1, OneInForce
  <2> DEFINE e == EpisodeAt(points, s)
  <2>3. on = {e}
    BY <1>1, <2>2, OneEpisode
  <2>4. e \in episodes
    BY EpisodesAre
  <2>5. s \in points /\ s.from <= l.from
    BY <2>1, <2>2 DEF Segments
  <2>6. l.status = s.status /\ (s.status = "OK" => l.tuple = s.tuple)
    BY <2>1, <2>2, <2>5
  <2>7. l.status = "OK" <=> Cardinality(force) = 1
    <3>1. EvidenceOf(known, rows, version, l.from) # {} /\ l = PointAt(known, rows, version, l.from)
      BY <1>1, <2>1
    <3>2. LET p == PointAt(known, rows, version, l.from)
          IN p.status = "OK" <=> Cardinality(TuplesOf(known, rows, version, l.from)) = 1
      BY <3>1, PointSays
    <3> QED BY <2>1, <3>1, <3>2
  <2>8. l.status = "OK" => force = {l.tuple}
    <3>1. EvidenceOf(known, rows, version, l.from) # {} /\ l = PointAt(known, rows, version, l.from)
      BY <1>1, <2>1
    <3>2. LET p == PointAt(known, rows, version, l.from)
          IN p.status = "OK" => TuplesOf(known, rows, version, l.from) = {p.tuple}
      BY <3>1, PointSays
    <3> QED BY <2>1, <3>1, <3>2
  <2>9. /\ e.version = version /\ e.from = s.from /\ e.status = s.status /\ e.tuple = s.tuple
        /\ e.change = IF s.status = "OK" THEN ChangeOf(PreviousTuple(points, s), s.tuple)
                      ELSE "SOURCE_CONFLICT"
    BY <2>2, EpisodeIs
  <2> HIDE DEF e
  <2>10. ASSUME e.change \in {"PRECIO", "BONO", "PRECIO_Y_BONO"}
         PROVE  \E d \in episodes : d.version = version /\ d.status = "OK" /\ d.from < e.from
                                    /\ d.tuple # e.tuple
    <3>1. /\ s.status = "OK" /\ PreviousTuple(points, s) # NULL
          /\ PreviousTuple(points, s) # s.tuple
      BY <2>9, <2>10 DEF ChangeOf
    <3>2. PICK c \in Segments(points) : /\ c.version = s.version /\ c.from < s.from
                                        /\ c.status = "OK" /\ PreviousTuple(points, s) = c.tuple
      BY <1>1, <3>1, ChangeSays
    <3>3. /\ EpisodeAt(points, c) \in episodes
          /\ LET d == EpisodeAt(points, c)
             IN d.version = c.version /\ d.status = c.status /\ d.from = c.from /\ d.tuple = c.tuple
      BY EpisodesAre, EpisodeIs
    <3> HIDE DEF episodes
    <3> QED BY <2>2, <2>9, <3>1, <3>2, <3>3
  <2>11. ASSUME e.change = "NO_CHANGE"
         PROVE  \E d \in episodes : d.version = version /\ d.status # "OK" /\ d.to = e.from - 1
    <3>1. s.status = "OK" /\ PreviousTuple(points, s) = s.tuple
      BY <2>9, <2>11 DEF ChangeOf
    <3>2. PICK c \in Segments(points) : /\ c.version = s.version /\ c.status # "OK"
                                        /\ Until(points, c) = s.from - 1
      BY <1>1, <3>1, NoChangeIsAfterConflict
    <3>3. /\ EpisodeAt(points, c) \in episodes
          /\ LET d == EpisodeAt(points, c)
             IN d.version = c.version /\ d.status = c.status /\ d.to = Until(points, c)
      BY EpisodesAre, EpisodeIs
    <3> HIDE DEF episodes
    <3> QED BY <2>2, <2>9, <3>2, <3>3
  <2> HIDE DEF on, episodes
  <2>12. (e.status = "OK") = (Cardinality(force) = 1)
    BY <2>6, <2>7, <2>9
  <2>13. e.status = "OK" => force = {e.tuple}
    BY <2>6, <2>8, <2>9
  <2> QED BY <2>3, <2>4, <2>10, <2>11, <2>12, <2>13
<1>5. force = {} => on = {}
  BY <1>3
<1> HIDE DEF on, episodes
<1> QED BY <1>4, <1>5 DEF SaidOn, on, episodes, points, force

-----------------------------------------------------------------------------
(* Batches.                                                                *)

LEMMA ToSetIs ==
  ASSUME NEW S, NEW s \in Seq(S)
  PROVE  /\ ToSet(s) \subseteq S /\ s \in Seq(ToSet(s))
         /\ \A x : x \in ToSet(s) <=> \E i \in DOMAIN s : s[i] = x
<1>1. DOMAIN s = 1 .. Len(s) /\ Len(s) \in Nat /\ s = [i \in 1 .. Len(s) |-> s[i]]
  OBVIOUS
<1>2. ToSet(s) = {s[i] : i \in 1 .. Len(s)}
  BY <1>1 DEF ToSet
<1>3. \A i \in 1 .. Len(s) : s[i] \in ToSet(s)
  BY <1>2
<1>4. s \in Seq(ToSet(s))
  BY <1>1, <1>3, SeqDef
<1> QED BY <1>1, <1>2, <1>4

\* A batch and what is left hold what there was.
LEMMA BatchIs ==
  ASSUME NEW S, NEW s \in Seq(S), NEW n \in Nat
  PROVE  /\ First(s, n) \in Seq(S) /\ Rest(s, n) \in Seq(S)
         /\ \A i \in DOMAIN First(s, n) : i \in DOMAIN s /\ First(s, n)[i] = s[i]
         /\ \A i \in DOMAIN Rest(s, n) : i + n \in DOMAIN s /\ Rest(s, n)[i] = s[i + n]
         /\ \A i \in DOMAIN s : i \in DOMAIN First(s, n) \/ i - n \in DOMAIN Rest(s, n)
<1> DEFINE size == IF n < Len(s) THEN n ELSE Len(s)
<1>1. Len(s) \in Nat /\ DOMAIN s = 1 .. Len(s) /\ size \in Nat /\ size <= Len(s)
  OBVIOUS
<1>2. /\ First(s, n) \in Seq(S) /\ DOMAIN First(s, n) = 1 .. size
      /\ \A i \in 1 .. size : First(s, n)[i] = s[i]
  <2> HIDE DEF size
  <2>1. \A i \in 1 .. size : s[i] \in S
    BY <1>1
  <2>2. First(s, n) = SubSeq(s, 1, size)
    BY DEF First, size
  <2> QED BY <1>1, <2>1, <2>2
<1>3. CASE n >= Len(s)
  <2>1. Rest(s, n) = <<>>
    BY <1>1, <1>3 DEF Rest
  <2>2. Rest(s, n) \in Seq(S) /\ DOMAIN Rest(s, n) = {}
    BY <2>1
  <2> QED BY <1>1, <1>2, <1>3, <2>2
<1>4. CASE n < Len(s)
  <2>1. /\ Rest(s, n) \in Seq(S) /\ DOMAIN Rest(s, n) = 1 .. (Len(s) - n)
        /\ \A i \in 1 .. (Len(s) - n) : Rest(s, n)[i] = s[i + n]
    <3>1. \A i \in (n + 1) .. Len(s) : s[i] \in S
      BY <1>1
    <3>2. Rest(s, n) = SubSeq(s, n + 1, Len(s))
      BY DEF Rest
    <3> QED BY <1>1, <1>4, <3>1, <3>2, SubSeqProperties
  <2> QED BY <1>1, <1>2, <1>4, <2>1
<1> QED BY <1>1, <1>3, <1>4

LEMMA BatchHolds ==
  ASSUME NEW S, NEW s \in Seq(S), NEW n \in Nat
  PROVE  /\ ToSet(First(s, n)) \subseteq ToSet(s) /\ ToSet(Rest(s, n)) \subseteq ToSet(s)
         /\ \A x \in ToSet(s) : x \in ToSet(First(s, n)) \/ x \in ToSet(Rest(s, n))
<1>1. /\ First(s, n) \in Seq(S) /\ Rest(s, n) \in Seq(S)
      /\ \A i \in DOMAIN First(s, n) : i \in DOMAIN s /\ First(s, n)[i] = s[i]
      /\ \A i \in DOMAIN Rest(s, n) : i + n \in DOMAIN s /\ Rest(s, n)[i] = s[i + n]
      /\ \A i \in DOMAIN s : i \in DOMAIN First(s, n) \/ i - n \in DOMAIN Rest(s, n)
  BY BatchIs
<1>2. /\ \A x : x \in ToSet(s) <=> \E i \in DOMAIN s : s[i] = x
      /\ \A x : x \in ToSet(First(s, n)) <=> \E i \in DOMAIN First(s, n) : First(s, n)[i] = x
      /\ \A x : x \in ToSet(Rest(s, n)) <=> \E i \in DOMAIN Rest(s, n) : Rest(s, n)[i] = x
  BY <1>1, ToSetIs
<1>3. ASSUME NEW x \in ToSet(s) PROVE x \in ToSet(First(s, n)) \/ x \in ToSet(Rest(s, n))
  <2>1. PICK i \in DOMAIN s : s[i] = x
    BY <1>2
  <2>2. i \in Nat
    OBVIOUS
  <2>3. (i - n) + n = i
    BY <2>2
  <2>4. CASE i \in DOMAIN First(s, n)
    BY <1>1, <1>2, <2>1, <2>4
  <2>5. CASE i - n \in DOMAIN Rest(s, n)
    BY <1>1, <1>2, <2>1, <2>3, <2>5
  <2> QED BY <1>1, <2>4, <2>5
<1> QED BY <1>1, <1>2, <1>3

LEMMA TailIs ==
  ASSUME NEW S, NEW s \in Seq(S), s # <<>>
  PROVE  /\ Tail(s) \in Seq(S)
         /\ \A x \in ToSet(s) : x = Head(s) \/ x \in ToSet(Tail(s))
<1> DEFINE t == Tail(s)
<1>1. /\ t \in Seq(S) /\ DOMAIN t = 1 .. (Len(s) - 1) /\ Head(s) = s[1]
      /\ \A i \in 1 .. (Len(s) - 1) : t[i] = s[i + 1]
      /\ DOMAIN s = 1 .. Len(s) /\ Len(s) \in Nat
  <2>1. /\ t \in Seq(S) /\ Len(t) = Len(s) - 1 /\ Head(s) = s[1]
        /\ \A i \in 1 .. Len(t) : t[i] = s[i + 1]
    BY HeadTailProperties
  <2>2. DOMAIN t = 1 .. Len(t) /\ DOMAIN s = 1 .. Len(s) /\ Len(s) \in Nat
    BY <2>1
  <2> QED BY <2>1, <2>2
<1> HIDE DEF t
<1>2. ASSUME NEW x \in ToSet(s), x # Head(s) PROVE x \in ToSet(t)
  <2>1. PICK i \in DOMAIN s : s[i] = x
    BY ToSetIs
  <2>2. i - 1 \in 1 .. (Len(s) - 1) /\ (i - 1) + 1 = i
    BY <1>1, <1>2, <2>1
  <2>3. i - 1 \in DOMAIN t /\ t[i - 1] = x
    BY <1>1, <2>1, <2>2
  <2>4. \E k \in DOMAIN t : t[k] = x
    BY <2>3
  <2> QED BY <1>1, <2>4, ToSetIs
<1> QED BY <1>1, <1>2 DEF t

\* Versions of distinct keys that know what they call complete.
AreVersions(fresh, records) ==
  /\ fresh \in Seq(ToSet(fresh))
  /\ \A i, j \in DOMAIN fresh : fresh[i].key = fresh[j].key => i = j
  /\ \A i \in DOMAIN fresh :
       /\ fresh[i] = [key |-> fresh[i].key, sheet |-> fresh[i].sheet, fp |-> fresh[i].fp, status |-> fresh[i].status]
       /\ fresh[i].status = "complete" => IsKnown(fresh[i], records)

\* A selection of such versions is one.
LEMMA SelectionIsVersions ==
  ASSUME NEW fresh, AreVersions(fresh, lists), NEW S, NEW t \in Seq(S), NEW at,
         \A i \in DOMAIN t : at[i] \in DOMAIN fresh /\ t[i] = fresh[at[i]],
         \A i, j \in DOMAIN t : at[i] = at[j] => i = j
  PROVE  AreVersions(t, lists)
<1>1. t \in Seq(ToSet(t))
  BY ToSetIs
<1>2. ASSUME NEW i \in DOMAIN t, NEW j \in DOMAIN t, t[i].key = t[j].key PROVE i = j
  <2>1. at[i] \in DOMAIN fresh /\ at[j] \in DOMAIN fresh /\ fresh[at[i]].key = fresh[at[j]].key
    BY <1>2
  <2>2. at[i] = at[j]
    BY <2>1 DEF AreVersions
  <2> QED BY <2>2
<1>3. ASSUME NEW i \in DOMAIN t
      PROVE  /\ t[i] = [key |-> t[i].key, sheet |-> t[i].sheet, fp |-> t[i].fp, status |-> t[i].status]
             /\ t[i].status = "complete" => IsKnown(t[i], lists)
  BY DEF AreVersions
<1> QED BY <1>1, <1>2, <1>3 DEF AreVersions

LEMMA BatchIsVersions ==
  ASSUME NEW fresh, AreVersions(fresh, lists), NEW n \in Nat
  PROVE  AreVersions(First(fresh, n), lists) /\ AreVersions(Rest(fresh, n), lists)
<1> DEFINE S == ToSet(fresh)
           here == [i \in DOMAIN First(fresh, n) |-> i]
           there == [i \in DOMAIN Rest(fresh, n) |-> i + n]
<1>1. fresh \in Seq(S)
  BY DEF AreVersions
<1>2. /\ First(fresh, n) \in Seq(S) /\ Rest(fresh, n) \in Seq(S)
      /\ \A i \in DOMAIN First(fresh, n) : i \in DOMAIN fresh /\ First(fresh, n)[i] = fresh[i]
      /\ \A i \in DOMAIN Rest(fresh, n) : i + n \in DOMAIN fresh /\ Rest(fresh, n)[i] = fresh[i + n]
  BY <1>1, BatchIs
<1> HIDE DEF S
<1>3. AreVersions(First(fresh, n), lists)
  <2>1. /\ \A i \in DOMAIN First(fresh, n) :
             here[i] \in DOMAIN fresh /\ First(fresh, n)[i] = fresh[here[i]]
        /\ \A i, j \in DOMAIN First(fresh, n) : here[i] = here[j] => i = j
    BY <1>2
  <2> HIDE DEF here
  <2> QED BY <1>2, <2>1, SelectionIsVersions
<1>4. AreVersions(Rest(fresh, n), lists)
  <2>1. \A i \in DOMAIN Rest(fresh, n) : i \in Nat
    BY <1>2
  <2>2. /\ \A i \in DOMAIN Rest(fresh, n) :
             there[i] \in DOMAIN fresh /\ Rest(fresh, n)[i] = fresh[there[i]]
        /\ \A i, j \in DOMAIN Rest(fresh, n) : there[i] = there[j] => i = j
    BY <1>2, <2>1
  <2> HIDE DEF there
  <2> QED BY <1>2, <2>2, SelectionIsVersions
<1> QED BY <1>3, <1>4

\* What is left of a list is what is valid in it.
LEMMA NormalizedIs ==
  ASSUME NEW S, NEW sources \in Seq(S)
  PROVE  /\ Normalized(sources) \in Seq(S)
         /\ \A n \in ToSet(sources) : lists[n].valid => n \in ToSet(Normalized(sources))
<1> DEFINE places == {i \in DOMAIN sources : lists[sources[i]].valid}
           those == Those(sources, places)
<1>1. places \in SUBSET DOMAIN sources
  OBVIOUS
<1>2. /\ those \in Seq({sources[i] : i \in places})
      /\ \A i \in places : \E n \in DOMAIN those : those[n] = sources[i]
  <2> HIDE DEF places
  <2> QED BY <1>1, ThoseAre
<1>3. Normalized(sources) = those
  BY DEF Normalized
<1>4. \A i \in DOMAIN sources : sources[i] \in S
  OBVIOUS
<1>5. {sources[i] : i \in places} \subseteq S
  BY <1>1, <1>4
<1> HIDE DEF those
<1>6. those \in Seq(S)
  <2>1. DOMAIN those = 1 .. Len(those) /\ Len(those) \in Nat /\ those = [i \in 1 .. Len(those) |-> those[i]]
    BY <1>2
  <2>2. \A i \in 1 .. Len(those) : those[i] \in S
    BY <1>2, <1>5, <2>1
  <2> QED BY <2>1, <2>2, SeqDef
<1>7. ASSUME NEW n \in ToSet(sources), lists[n].valid PROVE n \in ToSet(those)
  <2>1. PICK i \in DOMAIN sources : sources[i] = n
    BY ToSetIs
  <2>2. i \in places
    BY <1>7, <2>1
  <2>3. PICK m \in DOMAIN those : those[m] = sources[i]
    BY <1>2, <2>2
  <2> QED BY <1>6, <2>1, <2>3, ToSetIs
<1> QED BY <1>3, <1>6, <1>7

\* What is called complete has what it requires.
LEMMA RequiredAreFields ==
  ASSUME NEW item
  PROVE  RequiredFingerprintFields(item) \subseteq Fields
BY DEF RequiredFingerprintFields, Fields

LEMMA CompleteHas ==
  ASSUME NEW item, FingerprintStatus(item) = "complete"
  PROVE  \A f \in RequiredFingerprintFields(item) : f \in Fields /\ item.fp[f] # NULL
<1>0. PICK required : required = RequiredFingerprintFields(item)
  OBVIOUS
<1> DEFINE present == {f \in required : item.fp[f] # NULL}
<1>1. FingerprintStatus(item) = IF present = {} THEN "incomplete"
                                ELSE IF present = required THEN "complete" ELSE "partial"
  BY <1>0 DEF FingerprintStatus
<1>2. present = required
  BY <1>1
<1> QED BY <1>0, <1>2, RequiredAreFields

\* One that has what a record of its key requires is known.
LEMMA KnownIs ==
  ASSUME NEW v, NEW n \in DOMAIN lists, lists[n].key = v.key, NEW required,
         required = RequiredFingerprintFields(lists[n]), \A f \in required : v.fp[f] # NULL
  PROVE  IsKnown(v, lists)
<1>1. required \subseteq {f \in Fields : v.fp[f] # NULL}
  BY RequiredAreFields
<1> QED BY <1>1 DEF IsKnown

\* What is merged of a version requires what one of its records does: the first, or the one its
\* fuel is of.
LEMMA MergedIs ==
  ASSUME NEW items \in Seq(DOMAIN lists), NEW i \in DOMAIN items
  PROVE  LET v == Merged(items, lists[items[i]].key)
         IN /\ v.key = lists[items[i]].key
            /\ v = [key |-> v.key, sheet |-> v.sheet, fp |-> v.fp, status |-> v.status]
            /\ v.status = "complete" => IsKnown(v, lists)
<1>0. PICK key : key = lists[items[i]].key
  OBVIOUS
<1> DEFINE Of == {j \in DOMAIN items : lists[items[j]].key = key}
           Said(f) == {j \in Of : lists[items[j]].fp[f] # NULL}
           Value(j, f) == lists[items[j]].fp[f]
           fp == [f \in Fields |-> IF Said(f) = {} THEN NULL ELSE Value(Min(Said(f)), f)]
           merged == [key |-> key, sheet |-> lists[items[Min(Of)]].sheet, fp |-> fp]
           clash == \E f \in Fields : \E j, k \in Said(f) : Value(j, f) # Value(k, f)
           v == Merged(items, key)
<1>1. v = [key |-> key, sheet |-> merged.sheet, fp |-> merged.fp,
           status |-> IF clash THEN "conflict" ELSE FingerprintStatus(merged)]
  BY DEF Merged
<1>2. /\ DOMAIN items \in SUBSET Nat
      /\ \A j \in DOMAIN items : items[j] \in DOMAIN lists
  OBVIOUS
<1>3. Of \in SUBSET Nat /\ Of # {} /\ \A f : Said(f) \in SUBSET Of
  BY <1>0, <1>2
<1>4. PICK m : m = Min(Of)
  OBVIOUS
<1>5. m \in Of /\ \A j \in Of : m <= j
  <2> HIDE DEF Of
  <2> QED BY <1>3, <1>4, LeastIs
<1>6. PICK fuel : fuel = "combustible"
  OBVIOUS
<1>7. fuel \in Fields
  BY <1>6 DEF Fields
<1>8. PICK l : l = Min(Said(fuel))
  OBVIOUS
<1>9. Said(fuel) # {} => l \in Said(fuel) /\ \A j \in Said(fuel) : l <= j
  <2>1. Said(fuel) \in SUBSET Nat
    BY <1>3
  <2> HIDE DEF Said
  <2> QED BY <1>8, <2>1, LeastIs
<1>10. fp[fuel] = IF Said(fuel) = {} THEN NULL ELSE Value(l, fuel)
  BY <1>7, <1>8
<1>11. /\ merged.key = key /\ merged.sheet = lists[items[m]].sheet /\ merged.fp = fp
       /\ lists[items[m]].key = key /\ items[m] \in DOMAIN lists
  BY <1>2, <1>4, <1>5
<1> HIDE DEF merged, fp, v
<1>12. Electric(merged) <=> \/ merged.sheet \in ElectricSheets \/ merged.key \in ElectricKeys
                           \/ fp[fuel] \in ElectricFuels
  BY <1>6, <1>11 DEF Electric
<1>13. \A n : Electric(lists[n]) <=> \/ lists[n].sheet \in ElectricSheets \/ lists[n].key \in ElectricKeys
                                     \/ lists[n].fp[fuel] \in ElectricFuels
  BY <1>6 DEF Electric
<1>14. \E n \in DOMAIN lists : lists[n].key = key /\ (Electric(lists[n]) <=> Electric(merged))
  <2>1. CASE Electric(lists[items[m]]) <=> Electric(merged)
    BY <1>11, <2>1
  <2>2. CASE Electric(lists[items[m]]) /\ ~Electric(merged)
    <3>1. lists[items[m]].fp[fuel] \in ElectricFuels
      BY <1>11, <1>12, <1>13, <2>2
    <3>2. m \in Said(fuel)
      BY <1>5, <3>1, PriceAssumption
    <3>3. l \in Said(fuel) /\ l <= m
      BY <1>9, <3>2
    <3>4. m <= l /\ l \in Nat /\ m \in Nat
      BY <1>3, <1>5, <3>3
    <3>5. l = m
      BY <3>3, <3>4
    <3>6. fp[fuel] = lists[items[m]].fp[fuel]
      BY <1>10, <3>2, <3>5
    <3> QED BY <1>12, <2>2, <3>1, <3>6
  <2>3. CASE ~Electric(lists[items[m]]) /\ Electric(merged)
    <3>1. fp[fuel] \in ElectricFuels
      BY <1>11, <1>12, <1>13, <2>3
    <3>2. Said(fuel) # {}
      BY <1>10, <3>1, PriceAssumption
    <3>3. l \in Of /\ fp[fuel] = lists[items[l]].fp[fuel]
      BY <1>9, <1>10, <3>2
    <3>4. items[l] \in DOMAIN lists /\ lists[items[l]].key = key
      BY <1>2, <3>3
    <3> QED BY <1>13, <2>3, <3>1, <3>3, <3>4
  <2> QED BY <2>1, <2>2, <2>3
<1>15. v.key = key /\ v = [key |-> v.key, sheet |-> v.sheet, fp |-> v.fp, status |-> v.status]
  BY <1>1, <1>11
<1>16. ASSUME v.status = "complete" PROVE IsKnown(v, lists)
  <2>1. FingerprintStatus(merged) = "complete" /\ v.fp = merged.fp
    BY <1>1, <1>16
  <2>2. \A f \in RequiredFingerprintFields(merged) : v.fp[f] # NULL
    BY <2>1, CompleteHas
  <2>3. PICK n \in DOMAIN lists : lists[n].key = key /\ (Electric(lists[n]) <=> Electric(merged))
    BY <1>14
  <2>4. RequiredFingerprintFields(merged) = RequiredFingerprintFields(lists[n])
    BY <2>3 DEF RequiredFingerprintFields
  <2> QED BY <1>15, <2>2, <2>3, <2>4, KnownIs
<1> QED BY <1>0, <1>15, <1>16 DEF v

\* A run resumed carries one version of each key that it has read.
LEMMA FreshVersionsAre ==
  ASSUME NEW items \in Seq(DOMAIN lists)
  PROVE  /\ AreVersions(FreshVersions(items), lists)
         /\ \A n \in ToSet(items) :
              \E i \in DOMAIN FreshVersions(items) : FreshVersions(items)[i].key = lists[n].key
<1> DEFINE Key(i) == lists[items[i]].key
           New(i) == \A j \in 1 .. (i - 1) : Key(j) # Key(i)
           places == {i \in DOMAIN items : New(i)}
           first == Those(items, places)
           fresh == FreshVersions(items)
<1>1. places \in SUBSET DOMAIN items /\ DOMAIN items = 1 .. Len(items) /\ Len(items) \in Nat
  OBVIOUS
<1>2. /\ first \in Seq({items[i] : i \in places})
      /\ \A i \in places : \E n \in DOMAIN first : first[n] = items[i]
      /\ \A n \in DOMAIN first : \E i \in places : first[n] = items[i]
      /\ (\A i, j \in places : items[i] = items[j] => i = j) =>
           \A m, n \in DOMAIN first : first[m] = first[n] => m = n
  <2> HIDE DEF places
  <2> QED BY <1>1, ThoseAre
<1>3. fresh = [n \in DOMAIN first |-> Merged(items, lists[first[n]].key)]
  BY DEF FreshVersions
<1>4. ASSUME NEW i \in places, NEW j \in places, Key(i) = Key(j) PROVE i = j
  <2>1. i \in 1 .. Len(items) /\ j \in 1 .. Len(items) /\ New(i) /\ New(j)
    BY <1>1
  <2>2. ~(i \in 1 .. (j - 1)) /\ ~(j \in 1 .. (i - 1))
    BY <1>4, <2>1
  <2> QED BY <1>1, <2>1, <2>2
<1>5. \A i, j \in places : items[i] = items[j] => i = j
  BY <1>4
<1>6. \A m, n \in DOMAIN first : lists[first[m]].key = lists[first[n]].key => m = n
  <2>1. SUFFICES ASSUME NEW m \in DOMAIN first, NEW n \in DOMAIN first,
                        lists[first[m]].key = lists[first[n]].key
                 PROVE  m = n
    OBVIOUS
  <2> HIDE DEF places, first
  <2>2. PICK i \in places : first[m] = items[i]
    BY <1>2
  <2>3. PICK j \in places : first[n] = items[j]
    BY <1>2
  <2>4. i = j
    BY <1>4, <2>1, <2>2, <2>3
  <2> QED BY <1>2, <1>5, <2>2, <2>3, <2>4
<1> HIDE DEF places, first, fresh
<1>7. DOMAIN first = 1 .. Len(first) /\ Len(first) \in Nat
  BY <1>2
<1>8. ASSUME NEW n \in DOMAIN fresh
      PROVE  /\ n \in DOMAIN first /\ fresh[n].key = lists[first[n]].key
             /\ fresh[n] = [key |-> fresh[n].key, sheet |-> fresh[n].sheet, fp |-> fresh[n].fp, status |-> fresh[n].status]
             /\ fresh[n].status = "complete" => IsKnown(fresh[n], lists)
  <2>1. n \in DOMAIN first /\ fresh[n] = Merged(items, lists[first[n]].key)
    BY <1>3
  <2>2. PICK i \in places : first[n] = items[i]
    BY <1>2, <2>1
  <2>3. i \in DOMAIN items
    BY <1>1
  <2> QED BY <2>1, <2>2, <2>3, MergedIs
<1>9. AreVersions(fresh, lists)
  <2>1. fresh \in Seq({fresh[n] : n \in DOMAIN first})
    BY <1>3, <1>7, SeqDef
  <2>2. fresh \in Seq(ToSet(fresh))
    BY <2>1, ToSetIs
  <2>3. \A i, j \in DOMAIN fresh : fresh[i].key = fresh[j].key => i = j
    BY <1>6, <1>8
  <2> QED BY <1>8, <2>2, <2>3 DEF AreVersions
<1>10. ASSUME NEW n \in ToSet(items) PROVE \E i \in DOMAIN fresh : fresh[i].key = lists[n].key
  <2> DEFINE same == {i \in DOMAIN items : Key(i) = lists[n].key}
  <2>1. PICK k \in DOMAIN items : items[k] = n
    BY ToSetIs
  <2>2. same \in SUBSET Nat /\ same # {}
    BY <1>1, <2>1
  <2>3. Min(same) \in same /\ \A x \in same : Min(same) <= x
    <3> HIDE DEF same
    <3> QED BY <2>2, LeastIs
  <2>4. PICK m \in DOMAIN items : Key(m) = lists[n].key /\ \A x \in same : m <= x
    BY <2>3
  <2>5. New(m)
    <3>1. m \in 1 .. Len(items)
      BY <1>1
    <3>2. ASSUME NEW j \in 1 .. (m - 1), Key(j) = Key(m) PROVE FALSE
      <4>1. j \in DOMAIN items /\ j < m
        BY <1>1, <3>1
      <4>2. j \in same
        BY <2>4, <3>2, <4>1
      <4> QED BY <2>4, <3>1, <4>1, <4>2
    <3> QED BY <3>2
  <2>6. PICK i \in DOMAIN first : first[i] = items[m]
    BY <1>2, <2>5 DEF places
  <2>7. i \in DOMAIN fresh /\ fresh[i].key = lists[first[i]].key
    BY <1>3, <1>8
  <2> QED BY <2>4, <2>6, <2>7
<1> QED BY <1>9, <1>10 DEF fresh

-----------------------------------------------------------------------------
(* The inductive invariant.                                                *)

\* The lists, and the versions and history stored of them.
TablesInv ==
  /\ lists \in Seq(ToSet(lists))
  /\ \A n \in DOMAIN lists : lists[n].from \in Nat /\ lists[n].tuple # NULL
  /\ AreVersions(versions, lists)
  /\ IsHistory(history) /\ \A h \in history : h.pv \in DOMAIN versions

\* What a run carries ...
CarriedInv(r) ==
  /\ work[r].items \in Seq(DOMAIN lists) /\ AreVersions(work[r].fresh, lists)
  /\ pc[r] \in {"insert", "update", "history"} => work[r].items # <<>>

\* ... is of one staging, which nobody fills any more if it is another run's;
RunInv(r) ==
  Running(r) => /\ work[r].run \in Imports
                /\ r \in Imports => work[r].run = r
                /\ r \in Resumes => pc[work[r].run] \in {"failed", "done"}

\* no row of the history comes before its version,
KeysInv(r) ==
  /\ \A key \in work[r].cache : Known(key)
  /\ pc[r] \in {"update", "history"} => Known(Record(r).key)
  /\ pc[r] = "upsert" => \A n \in ToSet(work[r].items) :
       Known(lists[n].key) \/ \E i \in DOMAIN work[r].fresh : work[r].fresh[i].key = lists[n].key
  /\ pc[r] = "rows" => \A n \in ToSet(work[r].items) : Known(lists[n].key)

\* and what is staged is in the history or still to come.
Storing == {"find", "insert", "update", "history", "upsert", "rows", "clear"}
StagedInv(r) ==
  pc[r] \in Storing => \A n \in ToSet(staging[work[r].run]) : lists[n].valid =>
    InHistory(n) \/ (pc[r] # "clear" /\ n \in ToSet(work[r].items))

RunOK(r) ==
  /\ pc[r] \in {"idle", "stage", "done", "failed"} \cup Storing
  /\ CarriedInv(r) /\ RunInv(r) /\ KeysInv(r) /\ StagedInv(r)
StagingInv == staging \in [Imports -> Seq(DOMAIN lists)]
ImportInv == StagingInv /\ \A r \in Runs : RunOK(r)

\* What a canonicalization has read holds what there was when it began, of versions that keep
\* their keys.
ReadInv(c) ==
  /\ since[c] \subseteq history
  /\ read[c].versions # Unread => /\ DOMAIN read[c].versions \subseteq DOMAIN versions
                                  /\ \A i \in DOMAIN read[c].versions :
                                       read[c].versions[i].key = versions[i].key
                                  /\ \A h \in since[c] : h.pv \in DOMAIN read[c].versions
  /\ read[c].history # Unread => IsHistory(read[c].history) /\ since[c] \subseteq read[c].history
  /\ pc[c] = "idle" => read[c].versions = Unread /\ read[c].history = Unread
  /\ pc[c] \in {"persist", "audit"} => read[c].versions # Unread /\ read[c].history # Unread

\* One that runs alone audits what it has written.
Written(c) == Persisted(Episodes(c), Assignments(Vehicles, Episodes(c)))
AloneInv(c) ==
  /\ alone[c] /\ Running(c) => \A d \in Canonicalizers \ {c} : ~Running(d)
  /\ alone[c] /\ pc[c] = "audit" => table = Written(c) /\ Ambiguous(Vehicles, Episodes(c)) = {}
  /\ pc[c] # "refused" /\ (pc[c] = "rejected" => ~alone[c])

\* A report was built from what it had read, of tables that were published.
VinsAreInside(episodes) ==
  \A i \in DOMAIN episodes :
    LET e == episodes[i].episode
        vins == episodes[i].vins
    IN /\ e.from \in Nat /\ (e.to = NULL \/ e.to \in Int)
       /\ vins.count # 0 => InRange(vins.first, e) /\ InRange(vins.last, e)
DatesAreNumbers(bridge) == IsFiniteSet(bridge) /\ \A b \in bridge : b.date \in Nat

ReportInv(p) ==
  /\ read[p].episodes # Unread => VinsAreInside(read[p].episodes)
  /\ read[p].bridge # Unread => DatesAreNumbers(read[p].bridge)
  /\ pc[p] = "done" =>
       /\ read[p].episodes # Unread /\ read[p].bridge # Unread
       /\ \A i \in Scoped(p) :
            Reconciles([episodes |-> read[p].episodes, bridge |-> read[p].bridge], read[p].bridge, i)

EpisodesInv ==
  /\ VinsAreInside(table.episodes) /\ DatesAreNumbers(table.bridge)
  /\ \A c \in Canonicalizers : ReadInv(c) /\ AloneInv(c)
  /\ \A p \in Reports : ReportInv(p)

RunShapes ==
  /\ DOMAIN pc = Requests /\ DOMAIN work = Runs
  /\ \A r \in Runs : DOMAIN work[r] = {"run", "items", "fresh", "cache", "found"}

ReadShapes ==
  /\ DOMAIN read = Canonicalizers \cup Reports
  /\ \A q \in Canonicalizers \cup Reports :
       DOMAIN read[q] = {"versions", "history", "episodes", "bridge"}
  /\ DOMAIN since = Canonicalizers /\ DOMAIN alone = Canonicalizers

PricesInv == RunShapes /\ ReadShapes /\ TablesInv /\ ImportInv /\ EpisodesInv

-----------------------------------------------------------------------------
(* The import.                                                             *)

\* Versions keep their place and key, and the history only grows.
Grown ==
  /\ DOMAIN versions \subseteq DOMAIN versions' /\ history \subseteq history'
  /\ \A i \in DOMAIN versions : versions'[i].key = versions[i].key

LEMMA IdIs ==
  ASSUME NEW key, Known(key)
  PROVE  IdOf(key) \in DOMAIN versions /\ versions[IdOf(key)].key = key
BY DEF Known, IdOf

LEMMA KnownStays ==
  ASSUME Grown, NEW key, Known(key)
  PROVE  Known(key)'
BY DEF Grown, Known

LEMMA InHistoryStays ==
  ASSUME TablesInv, Grown, lists' = lists, NEW n, InHistory(n)
  PROVE  InHistory(n)'
<1>1. PICK h \in history : /\ versions[h.pv].key = lists[n].key /\ h.from = lists[n].from
                           /\ h.src = n
  BY DEF InHistory
<1>2. h \in history' /\ h.pv \in DOMAIN versions /\ versions'[h.pv].key = versions[h.pv].key
  BY DEF TablesInv, Grown
<1> QED BY <1>1, <1>2 DEF InHistory

\* A step of a run leaves the tables sound and itself able to go on.
StepOf(r) ==
  /\ lists' = lists /\ Grown /\ RunShapes' /\ TablesInv' /\ StagingInv' /\ RunOK(r)'
  /\ pc[r] \notin {"failed", "done"}
  /\ \A q \in Requests \ {r} : pc'[q] = pc[q]
  /\ \A q \in Runs \ {r} : work'[q] = work[q]
  /\ \A i \in Imports : i # r \/ pc[r] # "stage" => ToSet(staging'[i]) \subseteq ToSet(staging[i])
  /\ StagingIsLoaded /\ KnownFieldsKept

\* It leaves the others able to.
LEMMA OthersGoOn ==
  ASSUME PricesInv, NEW r \in Runs, StepOf(r)
  PROVE  ImportInv'
<1> SUFFICES ASSUME NEW q \in Runs, q # r PROVE RunOK(q)'
  BY DEF StepOf, ImportInv
<1>1. /\ TablesInv /\ RunOK(q) /\ Grown /\ lists' = lists
      /\ pc'[q] = pc[q] /\ work'[q] = work[q]
  BY DEF StepOf, PricesInv, ImportInv, Requests
<1>2. CarriedInv(q)'
  BY <1>1 DEF RunOK, CarriedInv
<1>3. RunInv(q)'
  <2>1. SUFFICES ASSUME Running(q)
                 PROVE  /\ work[q].run \in Imports /\ (q \in Imports => work[q].run = q)
                        /\ q \in Resumes => pc'[work[q].run] \in {"failed", "done"}
    BY <1>1 DEF RunInv, Running
  <2>2. /\ work[q].run \in Imports /\ (q \in Imports => work[q].run = q)
        /\ q \in Resumes => pc[work[q].run] \in {"failed", "done"}
    BY <1>1, <2>1 DEF RunOK, RunInv
  <2>3. ASSUME q \in Resumes PROVE pc'[work[q].run] \in {"failed", "done"}
    <3>1. work[q].run # r /\ work[q].run \in Requests
      BY <2>2, <2>3 DEF StepOf, Requests, Runs
    <3> QED BY <2>2, <2>3, <3>1 DEF StepOf
  <2> QED BY <2>2, <2>3
<1>4. KeysInv(q)'
  <2>1. \A key : Known(key) => Known(key)'
    BY <1>1, KnownStays
  <2>2. KeysInv(q)
    BY <1>1 DEF RunOK
  <2>3. Record(q)' = Record(q)
    BY <1>1 DEF Record, Item
  <2> QED BY <1>1, <2>1, <2>2, <2>3 DEF KeysInv
<1>5. StagedInv(q)'
  <2>1. SUFFICES ASSUME pc[q] \in Storing, NEW n \in ToSet(staging'[work[q].run]), lists[n].valid
                 PROVE  InHistory(n)' \/ (pc[q] # "clear" /\ n \in ToSet(work[q].items))
    BY <1>1 DEF StagedInv
  <2>2. Running(q)
    BY <2>1 DEF Running, Ended, Storing
  <2>3. work[q].run \in Imports /\ ~(work[q].run = r /\ pc[r] = "stage")
    <3>1. /\ work[q].run \in Imports /\ (q \in Imports => work[q].run = q)
          /\ q \in Resumes => pc[work[q].run] \in {"failed", "done"}
      BY <1>1, <2>2 DEF RunOK, RunInv
    <3> QED BY <3>1 DEF Runs
  <2>4. n \in ToSet(staging[work[q].run])
    BY <2>1, <2>3 DEF StepOf
  <2>5. InHistory(n) \/ (pc[q] # "clear" /\ n \in ToSet(work[q].items))
    BY <1>1, <2>1, <2>4 DEF RunOK, StagedInv
  <2> QED BY <1>1, <2>5, InHistoryStays
<1> QED BY <1>1, <1>2, <1>3, <1>4, <1>5 DEF RunOK


\* What a step of a run that stores nothing leaves as it was.
LEMMA Quiet ==
  ASSUME PricesInv, NEW r \in Runs, UNCHANGED <<lists, versions, history>>
  PROVE  Grown /\ TablesInv' /\ KnownFieldsKept
<1>1. Grown
  BY DEF Grown
<1>2. TablesInv'
  BY DEF PricesInv, TablesInv
<1>3. KnownFieldsKept
  BY DEF KnownFieldsKept
<1> QED BY <1>1, <1>2, <1>3

\* What a run is at: its phase, its work.
LEMMA WorkIs ==
  ASSUME PricesInv, NEW r \in Runs
  PROVE  /\ pc[r] \in {"idle", "stage", "done", "failed"} \cup Storing
         /\ CarriedInv(r) /\ RunInv(r) /\ KeysInv(r) /\ StagedInv(r)
         /\ DOMAIN work[r] = {"run", "items", "fresh", "cache", "found"}
         /\ r \in DOMAIN pc /\ r \in DOMAIN work
         /\ Running(r) => work[r].run \in Imports /\ (r \in Imports => work[r].run = r)
         /\ pc[r] = "stage" \/ pc[r] \in Storing => Running(r)
BY DEF PricesInv, ImportInv, RunOK, RunInv, RunShapes, Requests, Running, Ended, Storing

\* The work of a run that has not begun or has ended.
LEMMA NothingIs ==
  /\ Nothing.items = <<>> /\ Nothing.fresh = <<>> /\ Nothing.cache = {}
  /\ DOMAIN Nothing = {"run", "items", "fresh", "cache", "found"}
  /\ AreVersions(<<>>, lists) /\ \A S : <<>> \in Seq(S)
<1>1. AreVersions(<<>>, lists)
  <2>1. DOMAIN <<>> = {} /\ \A S : <<>> \in Seq(S)
    OBVIOUS
  <2> QED BY <2>1 DEF AreVersions
<1> QED BY <1>1 DEF Nothing

LEMMA BeginStep ==
  ASSUME PricesInv, NEW r \in Runs, Begin(r)
  PROVE  StepOf(r)
<1> DEFINE all == [n \in DOMAIN lists |-> n]
<1>1. /\ pc[r] = "idle" /\ r \in Imports /\ pc' = [pc EXCEPT ![r] = "stage"]
      /\ work' = [work EXCEPT ![r] = [Nothing EXCEPT !.run = r, !.items = all]]
      /\ UNCHANGED <<lists, staging, versions, history>>
  BY DEF Begin, Goto
<1>2. Grown /\ TablesInv' /\ KnownFieldsKept
  BY <1>1, Quiet
<1>3. all \in Seq(DOMAIN lists)
  <2>1. DOMAIN lists = 1 .. Len(lists) /\ Len(lists) \in Nat
    BY DEF PricesInv, TablesInv
  <2> QED BY <2>1, SeqDef
<1>4. /\ pc'[r] = "stage" /\ work'[r].run = r /\ work'[r].items = all /\ work'[r].fresh = <<>>
      /\ work'[r].cache = {} /\ DOMAIN work'[r] = {"run", "items", "fresh", "cache", "found"}
  BY <1>1, WorkIs, NothingIs
<1>5. RunShapes'
  BY <1>1, <1>4 DEF PricesInv, RunShapes
<1>6. CarriedInv(r)'
  BY <1>1, <1>3, <1>4, NothingIs DEF CarriedInv
<1>7. RunInv(r)' /\ KeysInv(r)' /\ StagedInv(r)'
  BY <1>1, <1>4, PricesAssumption DEF RunInv, KeysInv, StagedInv, Storing
<1>8. RunOK(r)'
  BY <1>4, <1>6, <1>7 DEF RunOK
<1>9. StagingInv' /\ StagingIsLoaded
  BY <1>1 DEF PricesInv, ImportInv, StagingInv, StagingIsLoaded
<1> QED BY <1>1, <1>2, <1>5, <1>8, <1>9 DEF StepOf, PricesInv, RunShapes

LEMMA StageStep ==
  ASSUME PricesInv, NEW r \in Runs, StageRecords(r)
  PROVE  StepOf(r)
<1> DEFINE all == [n \in DOMAIN lists |-> n]
           items == work[r].items
           batch == First(items, StageBatch)
           left == Rest(items, StageBatch)
<1>1. /\ pc[r] = "stage" /\ staging' = [staging EXCEPT ![r] = @ \o batch]
      /\ \/ UNCHANGED <<pc, work>>
         \/ left # <<>> /\ work' = [work EXCEPT ![r].items = left] /\ UNCHANGED pc
         \/ /\ work' = [work EXCEPT ![r].items = Normalized(all)]
            /\ pc' = [pc EXCEPT ![r] = "find"]
      /\ UNCHANGED <<lists, versions, history>>
  BY DEF StageRecords, Goto
<1>2. Grown /\ TablesInv' /\ KnownFieldsKept
  BY <1>1, Quiet
<1>3. all \in Seq(DOMAIN lists) /\ \A n \in DOMAIN lists : n \in ToSet(all)
  <2>1. DOMAIN lists = 1 .. Len(lists) /\ Len(lists) \in Nat
    BY DEF PricesInv, TablesInv
  <2>2. all \in Seq(DOMAIN lists)
    BY <2>1, SeqDef
  <2> QED BY <2>2, ToSetIs
<1>4. /\ Normalized(all) \in Seq(DOMAIN lists)
      /\ \A n \in DOMAIN lists : lists[n].valid => n \in ToSet(Normalized(all))
  BY <1>3, NormalizedIs
<1>5. /\ CarriedInv(r) /\ KeysInv(r) /\ Running(r) /\ work[r].run \in Imports
      /\ r \in Imports => work[r].run = r
      /\ r \in Resumes => pc[work[r].run] \in {"failed", "done"}
  BY <1>1, WorkIs DEF RunInv
<1>6. batch \in Seq(DOMAIN lists) /\ left \in Seq(DOMAIN lists)
  <2>1. items \in Seq(DOMAIN lists) /\ StageBatch \in Nat
    BY <1>5, PriceAssumption DEF CarriedInv
  <2> QED BY <2>1, BatchIs
<1> HIDE DEF batch, left, all
<1>7. StagingInv'
  <2>1. \A s \in Seq(DOMAIN lists) : s \o batch \in Seq(DOMAIN lists)
    BY <1>6, ConcatProperties
  <2>2. staging' \in [Imports -> Seq(DOMAIN lists)]
    BY <1>1, <2>1 DEF PricesInv, ImportInv, StagingInv
  <2> QED BY <1>1, <2>2 DEF StagingInv
<1>8. /\ \A i \in Imports : i # r => staging'[i] = staging[i]
      /\ r \in Imports => staging'[r] = staging[r] \o batch
  BY <1>1 DEF PricesInv, ImportInv, StagingInv
<1>9. StagingIsLoaded
  <2>1. ASSUME r \in Imports, NEW n \in ToSet(staging[r]) PROVE n \in ToSet(staging'[r])
    <3>1. staging[r] \in Seq(DOMAIN lists)
      BY <2>1 DEF PricesInv, ImportInv, StagingInv
    <3>2. PICK i \in DOMAIN staging[r] : staging[r][i] = n
      BY <2>1, <3>1, ToSetIs
    <3>3. /\ staging'[r] \in Seq(DOMAIN lists) /\ i \in DOMAIN staging'[r] /\ staging'[r][i] = n
      <4>1. /\ staging[r] \o batch \in Seq(DOMAIN lists)
            /\ Len(staging[r] \o batch) = Len(staging[r]) + Len(batch)
            /\ \A j \in 1 .. Len(staging[r]) : (staging[r] \o batch)[j] = staging[r][j]
        BY <1>6, <3>1, ConcatProperties
      <4>2. i \in 1 .. Len(staging[r]) /\ Len(staging[r]) \in Nat /\ Len(batch) \in Nat
        BY <1>6, <3>1
      <4> DEFINE longer == staging[r] \o batch
      <4>3. longer \in Seq(DOMAIN lists) /\ Len(longer) \in Nat /\ DOMAIN longer = 1 .. Len(longer)
        BY <4>1
      <4>4. i \in DOMAIN longer /\ longer[i] = n
        BY <3>2, <4>1, <4>2, <4>3
      <4> HIDE DEF longer
      <4>5. staging'[r] = longer
        BY <1>8, <2>1 DEF longer
      <4> QED BY <4>3, <4>4, <4>5
    <3> QED BY <3>3, ToSetIs
  <2> QED BY <1>8, <2>1 DEF StagingIsLoaded
<1>10. CASE UNCHANGED <<pc, work>>
  <2>1. CarriedInv(r)' /\ RunInv(r)' /\ KeysInv(r)' /\ StagedInv(r)'
    BY <1>1, <1>5, <1>10
    DEF CarriedInv, RunInv, KeysInv, StagedInv, Storing, Known, Record, Item, Running
  <2>2. RunOK(r)' /\ RunShapes'
    BY <1>1, <1>10, <2>1 DEF RunOK, PricesInv, RunShapes
  <2> QED BY <1>1, <1>2, <1>7, <1>8, <1>9, <1>10, <2>2 DEF StepOf
<1>11. CASE work' = [work EXCEPT ![r].items = left] /\ UNCHANGED pc
  <2>1. /\ work'[r].items = left /\ work'[r].run = work[r].run /\ work'[r].fresh = work[r].fresh
        /\ work'[r].cache = work[r].cache
        /\ DOMAIN work'[r] = {"run", "items", "fresh", "cache", "found"}
    BY <1>11, WorkIs
  <2>2. RunShapes'
    BY <1>11, <2>1 DEF PricesInv, RunShapes
  <2>3. CarriedInv(r)' /\ RunInv(r)' /\ KeysInv(r)' /\ StagedInv(r)'
    BY <1>1, <1>5, <1>6, <1>11, <2>1
    DEF CarriedInv, RunInv, KeysInv, StagedInv, Storing, Known, Record, Item, Running
  <2>4. RunOK(r)'
    BY <1>1, <1>11, <2>3 DEF RunOK
  <2> QED BY <1>1, <1>2, <1>7, <1>8, <1>9, <1>11, <2>2, <2>4 DEF StepOf, PricesInv, RunShapes
<1>12. CASE /\ work' = [work EXCEPT ![r].items = Normalized(all)]
            /\ pc' = [pc EXCEPT ![r] = "find"]
  <2>1. /\ work'[r].items = Normalized(all) /\ work'[r].run = work[r].run
        /\ work'[r].fresh = work[r].fresh /\ work'[r].cache = work[r].cache /\ pc'[r] = "find"
        /\ DOMAIN work'[r] = {"run", "items", "fresh", "cache", "found"}
    BY <1>12, WorkIs
  <2>2. RunShapes'
    BY <1>12, <2>1 DEF PricesInv, RunShapes
  <2>3. CarriedInv(r)' /\ KeysInv(r)'
    BY <1>1, <1>4, <1>5, <1>12, <2>1 DEF CarriedInv, KeysInv, Known
  <2>4. RunInv(r)'
    <3>1. r \in Resumes => pc'[work[r].run] = pc[work[r].run]
      BY <1>1, <1>5, <1>12 DEF PricesInv, RunShapes, Requests, Runs
    <3> QED BY <1>5, <2>1, <3>1 DEF RunInv
  <2>5. StagedInv(r)'
    <3>1. staging'[work[r].run] \in Seq(DOMAIN lists)
      BY <1>5, <1>7, <1>1 DEF StagingInv
    <3>2. \A n \in ToSet(staging'[work[r].run]) : n \in DOMAIN lists
      BY <3>1, ToSetIs
    <3> QED BY <1>1, <1>4, <2>1, <3>2 DEF StagedInv
  <2>6. RunOK(r)'
    BY <2>1, <2>3, <2>4, <2>5 DEF RunOK, Storing
  <2> QED BY <1>1, <1>2, <1>7, <1>8, <1>9, <1>12, <2>2, <2>6 DEF StepOf, PricesInv, RunShapes
<1> QED BY <1>1, <1>10, <1>11, <1>12

\* What a step of r leaves of the other requests.
OnlyRun(r) ==
  /\ DOMAIN pc' = DOMAIN pc /\ DOMAIN work' = DOMAIN work /\ DOMAIN work'[r] = DOMAIN work[r]
  /\ \A q \in Requests \ {r} : pc'[q] = pc[q]
  /\ \A q \in Runs \ {r} : work'[q] = work[q]

StagingKept ==
  /\ StagingInv' /\ StagingIsLoaded
  /\ \A i \in Imports : ToSet(staging'[i]) \subseteq ToSet(staging[i])

LEMMA StagingStays ==
  ASSUME PricesInv, UNCHANGED <<lists, staging>>
  PROVE  StagingKept
BY DEF PricesInv, ImportInv, StagingInv, StagingIsLoaded, StagingKept

LEMMA StepIs ==
  ASSUME PricesInv, NEW r \in Runs, Running(r), OnlyRun(r), lists' = lists, Grown, TablesInv',
         KnownFieldsKept, StagingKept, work'[r].run = work[r].run \/ ~Running(r)',
         pc'[r] \in {"idle", "stage", "done", "failed"} \cup Storing,
         CarriedInv(r)', KeysInv(r)', StagedInv(r)'
  PROVE  StepOf(r)
<1>1. RunShapes'
  BY DEF PricesInv, RunShapes, OnlyRun
<1>2. pc[r] \notin {"failed", "done"}
  BY DEF Running, Ended
<1>3. RunInv(r)'
  <2>1. SUFFICES ASSUME Running(r)' PROVE RunInv(r)'
    BY DEF RunInv
  <2>2. /\ work[r].run \in Imports /\ (r \in Imports => work[r].run = r)
        /\ r \in Resumes => pc[work[r].run] \in {"failed", "done"}
    BY WorkIs DEF RunInv
  <2>3. r \in Resumes => pc'[work[r].run] = pc[work[r].run]
    BY <2>2, <1>2 DEF OnlyRun, Requests, Runs
  <2>4. work'[r].run = work[r].run
    BY <2>1
  <2> QED BY <2>2, <2>3, <2>4 DEF RunInv
<1>4. RunOK(r)'
  BY <1>3 DEF RunOK
<1> QED BY <1>1, <1>2, <1>4 DEF StepOf, OnlyRun, StagingKept

LEMMA FindStep ==
  ASSUME PricesInv, NEW r \in Runs, FindVersion(r)
  PROVE  StepOf(r)
<1>1. /\ pc[r] = "find" /\ UNCHANGED <<lists, staging, versions, history>>
      /\ \/ work[r].items = <<>> /\ pc' = [pc EXCEPT ![r] = "clear"] /\ UNCHANGED work
         \/ /\ work[r].items # <<>> /\ Record(r).key \in work[r].cache
            /\ pc' = [pc EXCEPT ![r] = "history"] /\ UNCHANGED work
         \/ /\ work[r].items # <<>> /\ Known(Record(r).key) /\ pc' = [pc EXCEPT ![r] = "update"]
            /\ work' = [work EXCEPT ![r].found = versions[IdOf(Record(r).key)].fp]
         \/ work[r].items # <<>> /\ pc' = [pc EXCEPT ![r] = "insert"] /\ UNCHANGED work
  BY DEF FindVersion, Goto
<1>2. /\ CarriedInv(r) /\ KeysInv(r) /\ StagedInv(r) /\ Running(r)
      /\ DOMAIN work[r] = {"run", "items", "fresh", "cache", "found"}
      /\ r \in DOMAIN pc /\ r \in DOMAIN work
  BY <1>1, WorkIs DEF Storing
<1>3. /\ OnlyRun(r) /\ work'[r].run = work[r].run /\ work'[r].items = work[r].items
      /\ work'[r].fresh = work[r].fresh /\ work'[r].cache = work[r].cache
      /\ \/ pc'[r] = "clear" /\ work[r].items = <<>>
         \/ pc'[r] = "history" /\ work[r].items # <<>> /\ Known(Record(r).key)
         \/ pc'[r] = "update" /\ work[r].items # <<>> /\ Known(Record(r).key)
         \/ pc'[r] = "insert" /\ work[r].items # <<>>
  <2>1. Record(r).key \in work[r].cache => Known(Record(r).key)
    BY <1>2 DEF KeysInv
  <2>2. CASE work[r].items = <<>> /\ pc' = [pc EXCEPT ![r] = "clear"] /\ UNCHANGED work
    BY <1>2, <2>2 DEF OnlyRun
  <2>3. CASE /\ work[r].items # <<>> /\ Record(r).key \in work[r].cache
             /\ pc' = [pc EXCEPT ![r] = "history"] /\ UNCHANGED work
    BY <1>2, <2>1, <2>3 DEF OnlyRun
  <2>4. CASE /\ work[r].items # <<>> /\ Known(Record(r).key) /\ pc' = [pc EXCEPT ![r] = "update"]
             /\ work' = [work EXCEPT ![r].found = versions[IdOf(Record(r).key)].fp]
    <3>1. \A value : work' = [work EXCEPT ![r].found = value] =>
            /\ DOMAIN work' = DOMAIN work /\ \A q \in Runs \ {r} : work'[q] = work[q]
            /\ DOMAIN work'[r] = DOMAIN work[r] /\ work'[r].run = work[r].run
            /\ work'[r].items = work[r].items /\ work'[r].fresh = work[r].fresh
            /\ work'[r].cache = work[r].cache
      BY <1>2 DEF PricesInv, RunShapes
    <3> QED BY <1>2, <2>4, <3>1 DEF OnlyRun
  <2>5. CASE work[r].items # <<>> /\ pc' = [pc EXCEPT ![r] = "insert"] /\ UNCHANGED work
    BY <1>2, <2>5 DEF OnlyRun
  <2> QED BY <1>1, <2>2, <2>3, <2>4, <2>5
<1>4. Grown /\ TablesInv' /\ KnownFieldsKept /\ StagingKept
  BY <1>1, Quiet, StagingStays
<1>5. CarriedInv(r)' /\ KeysInv(r)'
  <2>1. \A key : Known(key)' <=> Known(key)
    BY <1>1 DEF Known
  <2>2. Record(r)' = Record(r)
    BY <1>1, <1>3 DEF Record, Item
  <2> QED BY <1>1, <1>2, <1>3, <2>1, <2>2 DEF CarriedInv, KeysInv
<1>6. StagedInv(r)'
  <2>1. \A n : InHistory(n)' <=> InHistory(n)
    BY <1>1 DEF InHistory
  <2>2. ToSet(<<>>) = {}
    BY DEF ToSet
  <2> QED BY <1>1, <1>2, <1>3, <2>1, <2>2 DEF StagedInv, Storing
<1> QED BY <1>1, <1>2, <1>3, <1>4, <1>5, <1>6, StepIs DEF Storing

\* Versions written keep what is known.
LEMMA VersionsChange ==
  ASSUME TablesInv, UNCHANGED <<lists, history>>, AreVersions(versions, lists)',
         DOMAIN versions \subseteq DOMAIN versions',
         \A i \in DOMAIN versions :
           /\ versions'[i].key = versions[i].key
           /\ versions[i].status = "conflict" => versions'[i].status = "conflict"
           /\ \A f \in Fields : versions[i].fp[f] \in {NULL, versions'[i].fp[f]}
  PROVE  Grown /\ TablesInv' /\ KnownFieldsKept
<1>1. Grown
  BY DEF Grown
<1>2. TablesInv'
  BY DEF TablesInv
<1>3. KnownFieldsKept
  BY DEF KnownFieldsKept
<1> QED BY <1>1, <1>2, <1>3

LEMMA CoalescedIs ==
  ASSUME NEW fp, NEW other, NEW f \in Fields
  PROVE  /\ fp[f] \in {NULL, Coalesced(fp, other)[f]}
         /\ fp[f] # NULL \/ other[f] # NULL => Coalesced(fp, other)[f] # NULL
BY DEF Coalesced

\* A version stored is cached by the run.
LEMMA CachedIs ==
  ASSUME PricesInv, NEW r \in Runs, Cached(r)
  PROVE  /\ DOMAIN work' = DOMAIN work /\ DOMAIN work'[r] = DOMAIN work[r]
         /\ \A q \in Runs \ {r} : work'[q] = work[q]
         /\ work'[r].run = work[r].run /\ work'[r].items = work[r].items
         /\ work'[r].fresh = work[r].fresh /\ work'[r].cache = work[r].cache \cup {Record(r).key}
<1>0. PICK key : key = Record(r).key
  OBVIOUS
<1> DEFINE w == [work EXCEPT ![r].cache = @ \cup {key}]
<1>1. DOMAIN work = Runs /\ DOMAIN work[r] = {"run", "items", "fresh", "cache", "found"}
  BY DEF PricesInv, RunShapes
<1>2. /\ DOMAIN w = DOMAIN work /\ DOMAIN w[r] = DOMAIN work[r]
      /\ \A q \in Runs \ {r} : w[q] = work[q]
      /\ w[r].run = work[r].run /\ w[r].items = work[r].items
      /\ w[r].fresh = work[r].fresh /\ w[r].cache = work[r].cache \cup {key}
  BY <1>1
<1>3. work' = [w EXCEPT ![r].found = NULL]
  BY <1>0 DEF Cached
<1> HIDE DEF w
<1> QED BY <1>0, <1>1, <1>2, <1>3

\* The record a run is at is of the lists.
LEMMA ItemIs ==
  ASSUME NEW r \in Runs, CarriedInv(r), pc[r] \in {"insert", "update", "history"}
  PROVE  Item(r) \in DOMAIN lists
<1>1. work[r].items \in Seq(DOMAIN lists) /\ work[r].items # <<>>
  BY DEF CarriedInv
<1> QED BY <1>1 DEF Item

LEMMA InsertStep ==
  ASSUME PricesInv, NEW r \in Runs, InsertVersion(r)
  PROVE  StepOf(r)
<1>0. PICK record : record = Record(r)
  OBVIOUS
<1> DEFINE new == [key |-> record.key, sheet |-> record.sheet, fp |-> record.fp,
                   status |-> FingerprintStatus(record)]
<1>1. /\ pc[r] = "insert" /\ UNCHANGED <<lists, staging, history>>
      /\ \/ pc' = [pc EXCEPT ![r] = "failed"] /\ UNCHANGED <<versions, work>>
         \/ ~Known(record.key) /\ versions' = Append(versions, new) /\ UNCHANGED <<pc, work>>
         \/ /\ ~Known(record.key) /\ versions' = Append(versions, new)
            /\ pc' = [pc EXCEPT ![r] = "history"]
            /\ Cached(r)
  BY <1>0 DEF InsertVersion, Goto
<1>2. /\ CarriedInv(r) /\ KeysInv(r) /\ StagedInv(r) /\ Running(r)
      /\ DOMAIN work[r] = {"run", "items", "fresh", "cache", "found"}
      /\ r \in DOMAIN pc /\ r \in DOMAIN work
  BY <1>1, WorkIs DEF Storing
<1>3. ASSUME ~Known(record.key), versions' = Append(versions, new)
      PROVE  Grown /\ TablesInv' /\ KnownFieldsKept /\ Known(record.key)'
  <2> DEFINE S == ToSet(versions) \cup {new}
  <2>1. TablesInv /\ AreVersions(versions, lists) /\ versions \in Seq(S)
    <3>1. TablesInv /\ AreVersions(versions, lists) /\ versions \in Seq(ToSet(versions))
      BY DEF PricesInv, TablesInv, AreVersions
    <3>2. ToSet(versions) \subseteq S
      OBVIOUS
    <3> HIDE DEF S
    <3> QED BY <3>1, <3>2, SeqMonotonic
  <2>2. new \in S
    OBVIOUS
  <2> HIDE DEF S
  <2>3. /\ versions' \in Seq(S) /\ DOMAIN versions = 1 .. Len(versions) /\ Len(versions) \in Nat
        /\ DOMAIN versions' = 1 .. (Len(versions) + 1)
        /\ \A i \in DOMAIN versions : versions'[i] = versions[i]
        /\ versions'[Len(versions) + 1] = new
    BY <1>3, <2>1, <2>2
  <2>4. new.status = "complete" => IsKnown(new, lists)
    <3>1. SUFFICES ASSUME FingerprintStatus(record) = "complete" PROVE IsKnown(new, lists)
      OBVIOUS
    <3>2. Item(r) \in DOMAIN lists /\ record = lists[Item(r)]
      BY <1>0, <1>1, <1>2, ItemIs DEF Record
    <3>3. \A f \in RequiredFingerprintFields(record) : record.fp[f] # NULL
      BY <3>1, CompleteHas
    <3>4. new.key = record.key /\ new.fp = record.fp
      OBVIOUS
    <3> HIDE DEF new
    <3> QED BY <3>2, <3>3, <3>4, KnownIs
  <2>5. /\ new.key = record.key
        /\ new = [key |-> new.key, sheet |-> new.sheet, fp |-> new.fp, status |-> new.status]
    OBVIOUS
  <2> HIDE DEF new
  <2>6. \A i \in DOMAIN versions : versions[i].key # record.key
    BY <1>3 DEF Known
  <2>7. AreVersions(versions, lists)'
    <3>1. versions' \in Seq(ToSet(versions'))
      BY <2>3, ToSetIs
    <3>2. \A i, j \in DOMAIN versions' : versions'[i].key = versions'[j].key => i = j
      <4>1. \A i \in DOMAIN versions' : i \in DOMAIN versions \/ i = Len(versions) + 1
        BY <2>3
      <4>2. \A i, j \in DOMAIN versions : versions[i].key = versions[j].key => i = j
        BY <2>1 DEF AreVersions
      <4> QED BY <2>3, <2>5, <2>6, <4>1, <4>2
    <3>3. \A i \in DOMAIN versions' :
            /\ versions'[i] = [key |-> versions'[i].key, sheet |-> versions'[i].sheet, fp |-> versions'[i].fp,
                               status |-> versions'[i].status]
            /\ versions'[i].status = "complete" => IsKnown(versions'[i], lists)
      <4>1. \A i \in DOMAIN versions' : i \in DOMAIN versions \/ i = Len(versions) + 1
        BY <2>3
      <4>2. \A i \in DOMAIN versions :
              /\ versions[i] = [key |-> versions[i].key, sheet |-> versions[i].sheet, fp |-> versions[i].fp,
                                status |-> versions[i].status]
              /\ versions[i].status = "complete" => IsKnown(versions[i], lists)
        BY <2>1 DEF AreVersions
      <4> QED BY <2>3, <2>4, <2>5, <4>1, <4>2
    <3>4. lists' = lists
      BY <1>1
    <3> QED BY <3>1, <3>2, <3>3, <3>4 DEF AreVersions
  <2>8. DOMAIN versions \subseteq DOMAIN versions'
    BY <2>3
  <2>9. Grown /\ TablesInv' /\ KnownFieldsKept
    BY <1>1, <2>1, <2>3, <2>7, <2>8, VersionsChange
  <2>10. Known(record.key)'
    <3>1. Len(versions) + 1 \in DOMAIN versions' /\ versions'[Len(versions) + 1].key = record.key
      BY <2>3, <2>5
    <3>2. \E i \in DOMAIN versions' : versions'[i].key = record.key
      BY <3>1
    <3> QED BY <3>2 DEF Known
  <2> QED BY <2>9, <2>10
<1> HIDE DEF new
<1>4. CASE pc' = [pc EXCEPT ![r] = "failed"] /\ UNCHANGED <<versions, work>>
  <2>1. Grown /\ TablesInv' /\ KnownFieldsKept /\ StagingKept
    BY <1>1, <1>4, Quiet, StagingStays
  <2>2. OnlyRun(r) /\ pc'[r] = "failed" /\ work'[r] = work[r]
    BY <1>2, <1>4 DEF OnlyRun
  <2>3. CarriedInv(r)' /\ KeysInv(r)' /\ StagedInv(r)'
    BY <1>1, <1>2, <1>4, <2>2 DEF CarriedInv, KeysInv, Known, StagedInv, Storing
  <2> QED BY <1>1, <1>2, <2>1, <2>2, <2>3, StepIs
<1>5. CASE ~Known(record.key) /\ versions' = Append(versions, new) /\ UNCHANGED <<pc, work>>
  <2>1. Grown /\ TablesInv' /\ KnownFieldsKept /\ StagingKept
    BY <1>1, <1>3, <1>5, StagingStays
  <2>2. OnlyRun(r) /\ pc'[r] = pc[r] /\ work'[r] = work[r]
    BY <1>5 DEF OnlyRun
  <2>3. CarriedInv(r)' /\ KeysInv(r)'
    BY <1>1, <1>2, <2>1, <2>2, KnownStays DEF CarriedInv, KeysInv
  <2>4. StagedInv(r)'
    <3>1. \A n : InHistory(n) => InHistory(n)'
      BY <1>1, <2>1, InHistoryStays DEF PricesInv
    <3> QED BY <1>1, <1>2, <2>2, <3>1 DEF StagedInv
  <2> QED BY <1>1, <1>2, <2>1, <2>2, <2>3, <2>4, StepIs DEF Storing
<1>6. CASE /\ ~Known(record.key) /\ versions' = Append(versions, new)
           /\ pc' = [pc EXCEPT ![r] = "history"]
           /\ Cached(r)
  <2>1. Grown /\ TablesInv' /\ KnownFieldsKept /\ StagingKept /\ Known(record.key)'
    BY <1>1, <1>3, <1>6, StagingStays
  <2>2. /\ OnlyRun(r) /\ pc'[r] = "history" /\ work'[r].run = work[r].run
        /\ work'[r].items = work[r].items /\ work'[r].fresh = work[r].fresh
        /\ work'[r].cache = work[r].cache \cup {record.key}
    BY <1>0, <1>2, <1>6, CachedIs DEF OnlyRun
  <2>3. Record(r)' = record
    BY <1>0, <1>1, <2>2 DEF Record, Item
  <2>4. CarriedInv(r)' /\ KeysInv(r)'
    BY <1>1, <1>2, <2>1, <2>2, <2>3, KnownStays DEF CarriedInv, KeysInv
  <2>5. StagedInv(r)'
    <3>1. \A n : InHistory(n) => InHistory(n)'
      BY <1>1, <2>1, InHistoryStays DEF PricesInv
    <3> QED BY <1>1, <1>2, <2>2, <3>1 DEF StagedInv, Storing
  <2> QED BY <1>1, <1>2, <2>1, <2>2, <2>4, <2>5, StepIs DEF Storing
<1> QED BY <1>1, <1>4, <1>5, <1>6

LEMMA UpdateStep ==
  ASSUME PricesInv, NEW r \in Runs, UpdateVersion(r)
  PROVE  StepOf(r)
<1>0. PICK record : record = Record(r)
  OBVIOUS
<1>00. PICK k : k = IdOf(record.key)
  OBVIOUS
<1> DEFINE old == versions[k]
           clash == old.status = "conflict" \/ Conflicts(work[r].found, record.fp)
           status == IF clash THEN "conflict" ELSE FingerprintStatus(record)
           new == [old EXCEPT !.fp = Coalesced(@, record.fp), !.status = status]
<1>1. /\ pc[r] = "update" /\ UNCHANGED <<lists, staging, history>>
      /\ versions' = [versions EXCEPT ![k] = new]
      /\ \/ UNCHANGED <<pc, work>>
         \/ pc' = [pc EXCEPT ![r] = "history"] /\ Cached(r)
  BY <1>0, <1>00 DEF UpdateVersion, Updated, Goto
<1>2. /\ CarriedInv(r) /\ KeysInv(r) /\ StagedInv(r) /\ Running(r)
      /\ DOMAIN work[r] = {"run", "items", "fresh", "cache", "found"}
      /\ r \in DOMAIN pc /\ r \in DOMAIN work /\ Known(record.key)
  BY <1>0, <1>1, WorkIs DEF Storing, KeysInv
<1>3. k \in DOMAIN versions /\ old.key = record.key
  BY <1>00, <1>2, IdIs
<1>4. TablesInv /\ AreVersions(versions, lists)
  BY DEF PricesInv, TablesInv
<1>5. /\ new.key = old.key /\ new.fp = Coalesced(old.fp, record.fp) /\ new.status = status
      /\ new = [key |-> new.key, sheet |-> new.sheet, fp |-> new.fp, status |-> new.status]
  <2>1. old = [key |-> old.key, sheet |-> old.sheet, fp |-> old.fp, status |-> old.status]
    BY <1>3, <1>4 DEF AreVersions
  <2> HIDE DEF old, status
  <2> DEFINE mid == [old EXCEPT !.fp = Coalesced(@, record.fp)]
  <2>2. mid = [key |-> old.key, sheet |-> old.sheet, fp |-> Coalesced(old.fp, record.fp), status |-> old.status]
    BY <2>1
  <2>3. new = [mid EXCEPT !.status = status]
    OBVIOUS
  <2> HIDE DEF mid, new
  <2>4. new = [key |-> old.key, sheet |-> old.sheet, fp |-> Coalesced(old.fp, record.fp), status |-> status]
    BY <2>2, <2>3
  <2> QED BY <2>4
<1>6. new.status = "complete" => IsKnown(new, lists)
  <2>1. SUFFICES ASSUME FingerprintStatus(record) = "complete" PROVE IsKnown(new, lists)
    BY <1>5
  <2>2. Item(r) \in DOMAIN lists /\ record = lists[Item(r)]
    BY <1>0, <1>1, <1>2, ItemIs DEF Record
  <2>3. ASSUME NEW f \in RequiredFingerprintFields(record) PROVE new.fp[f] # NULL
    <3>1. f \in Fields /\ record.fp[f] # NULL
      BY <2>1, CompleteHas
    <3> QED BY <1>5, <3>1, CoalescedIs
  <2>4. new.key = record.key
    BY <1>3, <1>5
  <2> HIDE DEF new
  <2> QED BY <2>2, <2>3, <2>4, KnownIs
<1>7. /\ old.status = "conflict" => new.status = "conflict"
      /\ \A f \in Fields : old.fp[f] \in {NULL, new.fp[f]}
  BY <1>5, CoalescedIs
<1> HIDE DEF new
<1>8. /\ DOMAIN versions' = DOMAIN versions /\ versions'[k] = new
      /\ \A i \in DOMAIN versions \ {k} : versions'[i] = versions[i]
  BY <1>1, <1>3
<1>9. AreVersions(versions, lists)'
  <2>1. versions' \in Seq(ToSet(versions'))
    <3>1. versions \in Seq(ToSet(versions) \cup {new})
      <4>1. versions \in Seq(ToSet(versions)) /\ ToSet(versions) \subseteq ToSet(versions) \cup {new}
        BY <1>4 DEF AreVersions
      <4> QED BY <4>1, SeqMonotonic
    <3>2. versions' \in Seq(ToSet(versions) \cup {new})
      BY <1>1, <1>3, <3>1, ExceptSeq
    <3> QED BY <3>2, ToSetIs
  <2>2. \A i \in DOMAIN versions : versions'[i].key = versions[i].key
    BY <1>3, <1>5, <1>8
  <2>3. lists' = lists
    BY <1>1
  <2> QED BY <1>4, <1>5, <1>6, <1>8, <2>1, <2>2, <2>3 DEF AreVersions
<1>10. Grown /\ TablesInv' /\ KnownFieldsKept /\ StagingKept
  <2>1. \A i \in DOMAIN versions :
           /\ versions'[i].key = versions[i].key
           /\ versions[i].status = "conflict" => versions'[i].status = "conflict"
           /\ \A f \in Fields : versions[i].fp[f] \in {NULL, versions'[i].fp[f]}
    BY <1>3, <1>5, <1>7, <1>8
  <2>2. Grown /\ TablesInv' /\ KnownFieldsKept
    BY <1>1, <1>4, <1>8, <1>9, <2>1, VersionsChange
  <2> QED BY <1>1, <2>2, StagingStays
<1>11. \A key : Known(key) => Known(key)'
  BY <1>10, KnownStays
<1>12. \A n : InHistory(n) => InHistory(n)'
  BY <1>1, <1>10, InHistoryStays DEF PricesInv
<1>13. CASE UNCHANGED <<pc, work>>
  <2>1. OnlyRun(r) /\ pc'[r] = pc[r] /\ work'[r] = work[r]
    BY <1>13 DEF OnlyRun
  <2>2. Record(r)' = Record(r)
    BY <1>1, <1>13 DEF Record, Item
  <2>3. CarriedInv(r)' /\ KeysInv(r)'
    BY <1>1, <1>2, <1>11, <2>1, <2>2 DEF CarriedInv, KeysInv
  <2>4. StagedInv(r)'
    BY <1>1, <1>2, <1>12, <2>1 DEF StagedInv
  <2> QED BY <1>1, <1>2, <1>10, <2>1, <2>3, <2>4, StepIs DEF Storing
<1>14. CASE pc' = [pc EXCEPT ![r] = "history"] /\ Cached(r)
  <2>1. /\ OnlyRun(r) /\ pc'[r] = "history" /\ work'[r].run = work[r].run
        /\ work'[r].items = work[r].items /\ work'[r].fresh = work[r].fresh
        /\ work'[r].cache = work[r].cache \cup {record.key}
    BY <1>0, <1>2, <1>14, CachedIs DEF OnlyRun
  <2>2. Record(r)' = record
    BY <1>0, <1>1, <2>1 DEF Record, Item
  <2>3. CarriedInv(r)' /\ KeysInv(r)'
    BY <1>1, <1>2, <1>11, <2>1, <2>2 DEF CarriedInv, KeysInv
  <2>4. StagedInv(r)'
    BY <1>1, <1>2, <1>12, <2>1 DEF StagedInv, Storing
  <2> QED BY <1>1, <1>2, <1>10, <2>1, <2>3, <2>4, StepIs DEF Storing
<1> QED BY <1>1, <1>13, <1>14

\* Rows of known versions: each is in the history, now or already.
LEMMA RowsAreIn ==
  ASSUME PricesInv, NEW sources \in Seq(DOMAIN lists), UNCHANGED <<lists, versions>>,
         \A n \in ToSet(sources) : Known(lists[n].key), history' = WithRows(sources)
  PROVE  /\ Grown /\ TablesInv' /\ KnownFieldsKept
         /\ \A n \in ToSet(sources) : InHistory(n)'
<1> DEFINE rows == {RowOf(n) : n \in ToSet(sources)}
           fresh == {row \in rows : ~\E h \in history : SameRow(h, row)}
           row == [n \in ToSet(sources) |-> RowOf(n)]
<1>1. history' = history \cup fresh
  BY DEF WithRows
<1>2. IsFiniteSet(rows)
  <2>1. DOMAIN sources = 1 .. Len(sources) /\ Len(sources) \in Nat
        /\ sources = [i \in DOMAIN sources |-> sources[i]]
    OBVIOUS
  <2>2. IsFiniteSet(DOMAIN sources)
    <3>1. 1 \in Int /\ Len(sources) \in Int
      BY <2>1
    <3>2. IsFiniteSet(1 .. Len(sources))
      BY <3>1, FS_Interval
    <3> QED BY <2>1, <3>2
  <2>3. {sources[i] : i \in DOMAIN sources} = ToSet(sources)
    BY DEF ToSet
  <2>4. IsFiniteSet(ToSet(sources))
    BY <2>1, <2>2, <2>3, ImageIsFinite
  <2>5. DOMAIN row = ToSet(sources) /\ row = [n \in ToSet(sources) |-> row[n]]
        /\ {row[n] : n \in ToSet(sources)} = rows
    OBVIOUS
  <2> HIDE DEF row, rows
  <2> QED BY <2>4, <2>5, ImageIsFinite
<1>3. \A n \in ToSet(sources) :
        /\ n \in DOMAIN lists /\ RowOf(n).pv \in DOMAIN versions
        /\ versions[RowOf(n).pv].key = lists[n].key
        /\ RowOf(n).from = lists[n].from /\ RowOf(n).src = n /\ RowOf(n).tuple = lists[n].tuple
  <2>1. \A n \in ToSet(sources) : n \in DOMAIN lists
    BY ToSetIs
  <2> QED BY <2>1, IdIs DEF RowOf
<1>4. TablesInv /\ \A n \in DOMAIN lists : lists[n].from \in Nat /\ lists[n].tuple # NULL
  BY DEF PricesInv, TablesInv
<1>5. TablesInv'
  <2>1. IsFiniteSet(history')
    <3>1. IsFiniteSet(history)
      BY <1>4 DEF TablesInv, IsHistory
    <3>2. IsFiniteSet(fresh)
      BY <1>2, FS_Subset
    <3> HIDE DEF fresh
    <3> QED BY <1>1, <3>1, <3>2, FS_Union
  <2>2. \A h \in history' : h.from \in Nat /\ h.tuple # NULL /\ h.pv \in DOMAIN versions
    <3>1. ASSUME NEW h \in fresh PROVE h.from \in Nat /\ h.tuple # NULL /\ h.pv \in DOMAIN versions
      <4>1. PICK n \in ToSet(sources) : h = RowOf(n)
        OBVIOUS
      <4> QED BY <1>3, <1>4, <4>1
    <3>2. \A h \in history : h.from \in Nat /\ h.tuple # NULL /\ h.pv \in DOMAIN versions
      BY <1>4 DEF TablesInv, IsHistory
    <3> HIDE DEF fresh
    <3> QED BY <1>1, <3>1, <3>2
  <2> QED BY <1>4, <2>1, <2>2 DEF TablesInv, IsHistory
<1>6. Grown /\ KnownFieldsKept
  <2>1. history \subseteq history'
    BY <1>1
  <2> QED BY <2>1 DEF Grown, KnownFieldsKept
<1>7. ASSUME NEW n \in ToSet(sources) PROVE InHistory(n)'
  <2>1. \E h \in history' : h.pv = RowOf(n).pv /\ h.from = RowOf(n).from /\ h.src = RowOf(n).src
    <3>1. CASE \E h \in history : SameRow(h, RowOf(n))
      BY <1>1, <3>1 DEF SameRow
    <3>2. CASE ~\E h \in history : SameRow(h, RowOf(n))
      <4>1. RowOf(n) \in fresh
        BY <3>2
      <4> QED BY <1>1, <4>1
    <3> QED BY <3>1, <3>2
  <2>2. PICK h \in history' : h.pv = RowOf(n).pv /\ h.from = RowOf(n).from /\ h.src = RowOf(n).src
    BY <2>1
  <2>3. versions'[h.pv].key = lists'[n].key /\ h.from = lists'[n].from /\ h.src = n
    BY <1>3, <2>2
  <2> QED BY <2>3 DEF InHistory
<1> QED BY <1>5, <1>6, <1>7

LEMMA HistoryStep ==
  ASSUME PricesInv, NEW r \in Runs, InsertHistory(r)
  PROVE  StepOf(r)
<1> DEFINE items == work[r].items
<1>1. /\ pc[r] = "history" /\ UNCHANGED <<lists, staging, versions>>
      /\ history' = WithRows(<<Item(r)>>)
      /\ \/ UNCHANGED <<pc, work>>
         \/ pc' = [pc EXCEPT ![r] = "find"] /\ work' = [work EXCEPT ![r].items = Tail(@)]
  BY DEF InsertHistory, Goto
<1>2. /\ CarriedInv(r) /\ KeysInv(r) /\ StagedInv(r) /\ Running(r)
      /\ DOMAIN work[r] = {"run", "items", "fresh", "cache", "found"}
      /\ r \in DOMAIN pc /\ r \in DOMAIN work
  BY <1>1, WorkIs DEF Storing
<1>3. PICK n : n = Item(r)
  OBVIOUS
<1>4. /\ items \in Seq(DOMAIN lists) /\ items # <<>> /\ n = Head(items) /\ n \in DOMAIN lists
      /\ Known(lists[n].key)
  BY <1>1, <1>2, <1>3 DEF CarriedInv, KeysInv, Item, Record
<1>5. <<n>> \in Seq(DOMAIN lists) /\ ToSet(<<n>>) = {n}
  BY <1>4 DEF ToSet
<1>6. Grown /\ TablesInv' /\ KnownFieldsKept /\ InHistory(n)' /\ StagingKept
  <2>1. history' = WithRows(<<n>>)
    BY <1>1, <1>3
  <2>2. \A m \in ToSet(<<n>>) : Known(lists[m].key)
    BY <1>4, <1>5
  <2>3. n \in ToSet(<<n>>)
    BY <1>5
  <2> QED BY <1>1, <1>5, <2>1, <2>2, <2>3, RowsAreIn, StagingStays
<1>7. \A key : Known(key) => Known(key)'
  BY <1>6, KnownStays
<1>8. \A m : InHistory(m) => InHistory(m)'
  BY <1>1, <1>6, InHistoryStays DEF PricesInv
<1>9. CASE UNCHANGED <<pc, work>>
  <2>1. OnlyRun(r) /\ pc'[r] = pc[r] /\ work'[r] = work[r]
    BY <1>9 DEF OnlyRun
  <2>2. Record(r)' = Record(r)
    BY <1>1, <1>9 DEF Record, Item
  <2>3. CarriedInv(r)' /\ KeysInv(r)'
    BY <1>1, <1>2, <1>7, <2>1, <2>2 DEF CarriedInv, KeysInv
  <2>4. StagedInv(r)'
    BY <1>1, <1>2, <1>8, <2>1 DEF StagedInv
  <2> QED BY <1>1, <1>2, <1>6, <2>1, <2>3, <2>4, StepIs DEF Storing
<1>10. CASE pc' = [pc EXCEPT ![r] = "find"] /\ work' = [work EXCEPT ![r].items = Tail(@)]
  <2>1. /\ OnlyRun(r) /\ pc'[r] = "find" /\ work'[r].run = work[r].run
        /\ work'[r].items = Tail(items) /\ work'[r].fresh = work[r].fresh
        /\ work'[r].cache = work[r].cache
    BY <1>2, <1>10 DEF OnlyRun
  <2>2. Tail(items) \in Seq(DOMAIN lists) /\ \A m \in ToSet(items) : m = n \/ m \in ToSet(Tail(items))
    BY <1>4, TailIs
  <2>3. CarriedInv(r)' /\ KeysInv(r)'
    BY <1>1, <1>2, <1>7, <2>1, <2>2 DEF CarriedInv, KeysInv
  <2>4. StagedInv(r)'
    BY <1>1, <1>2, <1>6, <1>8, <2>1, <2>2 DEF StagedInv, Storing
  <2> QED BY <1>1, <1>2, <1>6, <2>1, <2>3, <2>4, StepIs DEF Storing
<1> QED BY <1>1, <1>9, <1>10

LEMMA ClearStep ==
  ASSUME PricesInv, NEW r \in Runs, ClearStaging(r)
  PROVE  StepOf(r)
<1>1. /\ pc[r] = "clear" /\ UNCHANGED <<lists, versions, history, work>>
      /\ staging' = [staging EXCEPT ![work[r].run] = <<>>]
      /\ pc' = [pc EXCEPT ![r] = "clear"] \/ pc' = [pc EXCEPT ![r] = "done"]
  BY DEF ClearStaging, Answered, Goto
<1>2. /\ CarriedInv(r) /\ KeysInv(r) /\ StagedInv(r) /\ Running(r) /\ work[r].run \in Imports
      /\ r \in DOMAIN pc /\ r \in DOMAIN work
  BY <1>1, WorkIs DEF Storing
<1>3. OnlyRun(r) /\ pc'[r] \in {"clear", "done"} /\ work'[r] = work[r]
  <2>1. CASE pc' = [pc EXCEPT ![r] = "clear"]
    BY <1>1, <1>2, <2>1 DEF OnlyRun
  <2>2. CASE pc' = [pc EXCEPT ![r] = "done"]
    BY <1>1, <1>2, <2>2 DEF OnlyRun
  <2> QED BY <1>1, <2>1, <2>2
<1>4. /\ \A i \in Imports \ {work[r].run} : staging'[i] = staging[i]
      /\ staging'[work[r].run] = <<>> /\ ToSet(<<>>) = {} /\ StagingInv'
  <2>1. <<>> \in Seq(DOMAIN lists)
    BY NothingIs
  <2>2. staging \in [Imports -> Seq(DOMAIN lists)]
    BY DEF PricesInv, ImportInv, StagingInv
  <2> QED BY <1>1, <1>2, <2>1, <2>2 DEF StagingInv, ToSet
<1>5. StagingKept
  <2>1. StagingIsLoaded
    <3>1. ASSUME NEW n \in ToSet(staging[work[r].run]), lists[n].valid PROVE InHistory(n)
      BY <1>1, <1>2, <3>1 DEF StagedInv, Storing
    <3> QED BY <1>4, <3>1 DEF StagingIsLoaded
  <2>2. \A i \in Imports : ToSet(staging'[i]) \subseteq ToSet(staging[i])
    BY <1>4
  <2> QED BY <1>4, <2>1, <2>2 DEF StagingKept
<1>6. Grown /\ TablesInv' /\ KnownFieldsKept
  BY <1>1, Quiet
<1>7. CarriedInv(r)' /\ KeysInv(r)'
  <2>1. Known(Record(r).key)' <=> Known(Record(r).key)
    BY <1>1 DEF Known, Record, Item
  <2>2. \A key : Known(key)' <=> Known(key)
    BY <1>1 DEF Known
  <2> QED BY <1>1, <1>2, <1>3, <2>1, <2>2 DEF CarriedInv, KeysInv
<1>8. StagedInv(r)'
  BY <1>3, <1>4 DEF StagedInv
<1> QED BY <1>1, <1>2, <1>3, <1>5, <1>6, <1>7, <1>8, StepIs DEF Storing

LEMMA FailStep ==
  ASSUME PricesInv, NEW r \in Runs, Fail(r)
  PROVE  StepOf(r)
<1>1. /\ Running(r) /\ pc' = [pc EXCEPT ![r] = "failed"] /\ work' = [work EXCEPT ![r] = Nothing]
      /\ UNCHANGED <<lists, staging, versions, history>>
  BY DEF Fail, Goto
<1>2. /\ r \in DOMAIN pc /\ r \in DOMAIN work
      /\ DOMAIN work[r] = {"run", "items", "fresh", "cache", "found"}
  BY WorkIs
<1>3. /\ OnlyRun(r) /\ pc'[r] = "failed" /\ work'[r] = Nothing
  BY <1>1, <1>2, NothingIs DEF OnlyRun
<1>4. Grown /\ TablesInv' /\ KnownFieldsKept /\ StagingKept
  BY <1>1, Quiet, StagingStays
<1>5. CarriedInv(r)' /\ KeysInv(r)' /\ StagedInv(r)' /\ ~Running(r)'
  BY <1>1, <1>3, NothingIs DEF CarriedInv, KeysInv, StagedInv, Storing, Running, Ended
<1> QED BY <1>1, <1>3, <1>4, <1>5, StepIs

LEMMA ResumeStep ==
  ASSUME PricesInv, NEW r \in Runs, NEW run \in Imports, Resume(r, run)
  PROVE  StepOf(r)
<1> DEFINE items == Normalized(staging[run])
           fresh == FreshVersions(items)
           w == [Nothing EXCEPT !.run = run, !.items = items, !.fresh = fresh]
<1>1. /\ pc[r] = "idle" /\ r \in Resumes /\ pc[run] \in {"failed", "done"}
      /\ UNCHANGED <<lists, staging, versions, history>>
      /\ \/ pc' = [pc EXCEPT ![r] = "failed"] /\ UNCHANGED work
         \/ pc' = [pc EXCEPT ![r] = "upsert"] /\ work' = [work EXCEPT ![r] = w]
  BY DEF Resume, Goto
<1>2. /\ CarriedInv(r) /\ KeysInv(r) /\ StagedInv(r) /\ r \in DOMAIN pc /\ r \in DOMAIN work
      /\ DOMAIN work[r] = {"run", "items", "fresh", "cache", "found"}
  BY WorkIs
<1>3. Grown /\ TablesInv' /\ KnownFieldsKept /\ StagingKept
  BY <1>1, Quiet, StagingStays
<1>4. staging[run] \in Seq(DOMAIN lists)
  BY DEF PricesInv, ImportInv, StagingInv
<1>5. /\ items \in Seq(DOMAIN lists)
      /\ \A n \in ToSet(staging[run]) : lists[n].valid => n \in ToSet(items)
  BY <1>4, NormalizedIs
<1> HIDE DEF items
<1>6. /\ AreVersions(fresh, lists)
      /\ \A n \in ToSet(items) : \E i \in DOMAIN fresh : fresh[i].key = lists[n].key
  BY <1>5, FreshVersionsAre
<1> HIDE DEF fresh
<1>7. w = [run |-> run, items |-> items, fresh |-> fresh, cache |-> {}, found |-> NULL]
  <2>0. PICK w1 : w1 = [Nothing EXCEPT !.run = run]
    OBVIOUS
  <2>00. PICK w2 : w2 = [w1 EXCEPT !.items = items]
    OBVIOUS
  <2>1. w1 = [run |-> run, items |-> <<>>, fresh |-> <<>>, cache |-> {}, found |-> NULL]
    BY <2>0 DEF Nothing
  <2>2. w = [w2 EXCEPT !.fresh = fresh]
    BY <2>0, <2>00
  <2> HIDE DEF w
  <2>3. w2 = [run |-> run, items |-> items, fresh |-> <<>>, cache |-> {}, found |-> NULL]
    BY <2>00, <2>1
  <2> QED BY <2>2, <2>3
<1> HIDE DEF w
<1>8. r \notin Imports /\ run # r
  BY <1>1, PricesAssumption
<1>9. CASE pc' = [pc EXCEPT ![r] = "failed"] /\ UNCHANGED work
  <2>1. OnlyRun(r) /\ pc'[r] = "failed" /\ work'[r] = work[r]
    BY <1>2, <1>9 DEF OnlyRun
  <2>2. CarriedInv(r)' /\ KeysInv(r)' /\ StagedInv(r)' /\ RunInv(r)'
    BY <1>1, <1>2, <2>1 DEF CarriedInv, KeysInv, StagedInv, RunInv, Storing, Known, Running, Ended
  <2>3. RunOK(r)' /\ RunShapes'
    BY <2>1, <2>2 DEF RunOK, RunShapes, PricesInv, OnlyRun
  <2> QED BY <1>1, <1>3, <2>1, <2>3 DEF StepOf, OnlyRun, StagingKept
<1>10. CASE pc' = [pc EXCEPT ![r] = "upsert"] /\ work' = [work EXCEPT ![r] = w]
  <2>1. /\ OnlyRun(r) /\ pc'[r] = "upsert" /\ work'[r].run = run /\ work'[r].items = items
        /\ work'[r].fresh = fresh /\ work'[r].cache = {}
    BY <1>2, <1>7, <1>10 DEF OnlyRun
  <2>2. CarriedInv(r)' /\ KeysInv(r)'
    BY <1>1, <1>5, <1>6, <2>1 DEF CarriedInv, KeysInv
  <2>3. RunInv(r)'
    <3>1. pc'[run] = pc[run]
      BY <1>8, <2>1 DEF OnlyRun, Requests, Runs
    <3> QED BY <1>1, <1>8, <2>1, <3>1 DEF RunInv
  <2>4. StagedInv(r)'
    BY <1>1, <1>5, <2>1 DEF StagedInv
  <2>5. RunOK(r)' /\ RunShapes'
    BY <2>1, <2>2, <2>3, <2>4 DEF RunOK, Storing, RunShapes, PricesInv, OnlyRun
  <2> QED BY <1>1, <1>3, <2>1, <2>5 DEF StepOf, OnlyRun, StagingKept
<1> QED BY <1>1, <1>9, <1>10

LEMMA RowsStep ==
  ASSUME PricesInv, NEW r \in Runs, InsertRows(r)
  PROVE  StepOf(r)
<1> DEFINE items == work[r].items
           batch == First(items, HistoryBatch)
           left == Rest(items, HistoryBatch)
<1>1. /\ pc[r] = "rows" /\ UNCHANGED <<lists, staging, versions>>
      /\ \/ items = <<>> /\ pc' = [pc EXCEPT ![r] = "clear"] /\ UNCHANGED <<history, work>>
         \/ history' = WithRows(batch) /\ UNCHANGED <<pc, work>>
         \/ history' = WithRows(batch) /\ UNCHANGED pc /\ work' = [work EXCEPT ![r].items = left]
  BY DEF InsertRows, Goto
<1>2. /\ CarriedInv(r) /\ KeysInv(r) /\ StagedInv(r) /\ Running(r)
      /\ DOMAIN work[r] = {"run", "items", "fresh", "cache", "found"}
      /\ r \in DOMAIN pc /\ r \in DOMAIN work
  BY <1>1, WorkIs DEF Storing
<1>3. /\ batch \in Seq(DOMAIN lists) /\ left \in Seq(DOMAIN lists)
      /\ ToSet(batch) \subseteq ToSet(items) /\ ToSet(left) \subseteq ToSet(items)
      /\ \A n \in ToSet(items) : n \in ToSet(batch) \/ n \in ToSet(left)
  <2>1. items \in Seq(DOMAIN lists) /\ HistoryBatch \in Nat
    BY <1>2, PriceAssumption DEF CarriedInv
  <2> QED BY <2>1, BatchIs, BatchHolds
<1>4. \A n \in ToSet(items) : Known(lists[n].key)
  BY <1>1, <1>2 DEF KeysInv
<1> HIDE DEF batch, left
<1>5. ASSUME history' = WithRows(batch)
      PROVE  /\ Grown /\ TablesInv' /\ KnownFieldsKept
             /\ \A n \in ToSet(batch) : InHistory(n)'
  <2>1. \A n \in ToSet(batch) : Known(lists[n].key)
    BY <1>3, <1>4
  <2> QED BY <1>1, <1>3, <1>5, <2>1, RowsAreIn
<1>6. CASE items = <<>> /\ pc' = [pc EXCEPT ![r] = "clear"] /\ UNCHANGED <<history, work>>
  <2>1. Grown /\ TablesInv' /\ KnownFieldsKept /\ StagingKept
    BY <1>1, <1>6, Quiet, StagingStays
  <2>2. OnlyRun(r) /\ pc'[r] = "clear" /\ work'[r] = work[r]
    BY <1>2, <1>6 DEF OnlyRun
  <2>3. \A n : InHistory(n)' <=> InHistory(n)
    BY <1>1, <1>6 DEF InHistory
  <2>4. CarriedInv(r)' /\ KeysInv(r)' /\ StagedInv(r)'
    <3>1. ToSet(<<>>) = {}
      BY DEF ToSet
    <3>2. \A key : Known(key)' <=> Known(key)
      BY <1>1 DEF Known
    <3> QED BY <1>1, <1>2, <1>6, <2>2, <2>3, <3>1, <3>2 DEF CarriedInv, KeysInv, StagedInv, Storing
  <2> QED BY <1>1, <1>2, <2>1, <2>2, <2>4, StepIs DEF Storing
<1>7. CASE history' = WithRows(batch) /\ UNCHANGED <<pc, work>>
  <2>1. Grown /\ TablesInv' /\ KnownFieldsKept /\ StagingKept
    BY <1>1, <1>5, <1>7, StagingStays
  <2>2. OnlyRun(r) /\ pc'[r] = pc[r] /\ work'[r] = work[r]
    BY <1>7 DEF OnlyRun
  <2>3. \A n : InHistory(n) => InHistory(n)'
    BY <1>1, <2>1, InHistoryStays DEF PricesInv
  <2>4. CarriedInv(r)' /\ KeysInv(r)' /\ StagedInv(r)'
    <3>1. \A key : Known(key)' <=> Known(key)
      BY <1>1 DEF Known
    <3> QED BY <1>1, <1>2, <2>2, <2>3, <3>1 DEF CarriedInv, KeysInv, StagedInv, Storing
  <2> QED BY <1>1, <1>2, <2>1, <2>2, <2>4, StepIs DEF Storing
<1>8. CASE /\ history' = WithRows(batch) /\ UNCHANGED pc
           /\ work' = [work EXCEPT ![r].items = left]
  <2>1. Grown /\ TablesInv' /\ KnownFieldsKept /\ StagingKept
    BY <1>1, <1>5, <1>8, StagingStays
  <2>2. /\ OnlyRun(r) /\ pc'[r] = pc[r] /\ work'[r].run = work[r].run /\ work'[r].items = left
        /\ work'[r].fresh = work[r].fresh /\ work'[r].cache = work[r].cache
    BY <1>2, <1>8 DEF OnlyRun
  <2>3. \A n : InHistory(n) => InHistory(n)'
    BY <1>1, <2>1, InHistoryStays DEF PricesInv
  <2>4. CarriedInv(r)' /\ KeysInv(r)'
    <3>1. \A key : Known(key)' <=> Known(key)
      BY <1>1 DEF Known
    <3> QED BY <1>1, <1>2, <1>3, <1>4, <2>2, <3>1 DEF CarriedInv, KeysInv
  <2>5. StagedInv(r)'
    BY <1>1, <1>2, <1>3, <1>5, <1>8, <2>2, <2>3 DEF StagedInv, Storing
  <2> QED BY <1>1, <1>2, <2>1, <2>2, <2>4, <2>5, StepIs DEF Storing
<1> QED BY <1>1, <1>6, <1>7, <1>8

\* One version written again in bulk, and all of a batch: old ones keep their place and what is
\* known of them, new ones follow.
LEMMA UpsertedIs ==
  ASSUME NEW old, old = [key |-> old.key, sheet |-> old.sheet, fp |-> old.fp, status |-> old.status], NEW new,
         new.key = old.key, new.status = "complete" => IsKnown(new, lists)
  PROVE  LET v == Upserted(old, new)
         IN /\ v = [key |-> v.key, sheet |-> v.sheet, fp |-> v.fp, status |-> v.status] /\ v.key = old.key
            /\ v.status = "complete" => IsKnown(v, lists)
            /\ old.status = "conflict" => v.status = "conflict"
            /\ \A f \in Fields : old.fp[f] \in {NULL, v.fp[f]}
<1> DEFINE v == Upserted(old, new)
           clash == "conflict" \in {old.status, new.status} \/ Conflicts(old.fp, new.fp)
<1>1. v = [key |-> old.key, sheet |-> old.sheet, fp |-> Coalesced(old.fp, new.fp),
           status |-> IF clash THEN "conflict" ELSE new.status]
  BY DEF Upserted
<1> HIDE DEF v
<1>2. ASSUME v.status = "complete" PROVE IsKnown(v, lists)
  <2>1. IsKnown(new, lists) /\ v.key = new.key
    BY <1>1, <1>2
  <2>2. PICK n \in DOMAIN lists :
          /\ lists[n].key = v.key
          /\ RequiredFingerprintFields(lists[n]) \subseteq {f \in Fields : new.fp[f] # NULL}
    BY <2>1 DEF IsKnown
  <2>3. ASSUME NEW f \in RequiredFingerprintFields(lists[n]) PROVE v.fp[f] # NULL
    <3>1. f \in Fields /\ new.fp[f] # NULL
      BY <2>2
    <3> QED BY <1>1, <3>1, CoalescedIs
  <2> QED BY <2>2, <2>3, KnownIs
<1>3. \A f \in Fields : old.fp[f] \in {NULL, v.fp[f]}
  BY <1>1, CoalescedIs
<1>4. old.status = "conflict" => v.status = "conflict"
  BY <1>1
<1> QED BY <1>1, <1>2, <1>3, <1>4 DEF v

LEMMA UpsertIs ==
  ASSUME PricesInv, UNCHANGED <<lists, history>>, NEW batch, AreVersions(batch, lists),
         versions' = WithVersions(batch)
  PROVE  /\ Grown /\ TablesInv' /\ KnownFieldsKept
         /\ \A i \in DOMAIN batch : Known(batch[i].key)'
<1> DEFINE Find(key) == CHOOSE i \in DOMAIN batch : batch[i].key = key
           keys == {batch[i].key : i \in DOMAIN batch}
           places == {i \in DOMAIN batch : ~Known(batch[i].key)}
<1>00. PICK old : old = [i \in DOMAIN versions |->
                           IF versions[i].key \in keys
                           THEN Upserted(versions[i], batch[Find(versions[i].key)])
                           ELSE versions[i]]
  OBVIOUS
<1>01. PICK new : new = Those(batch, places)
  OBVIOUS
<1>02. PICK size : size = Len(versions)
  OBVIOUS
<1>0. versions' = old \o new
  BY <1>00, <1>01 DEF WithVersions
<1>1. TablesInv /\ AreVersions(versions, lists)
  BY DEF PricesInv, TablesInv
<1>2. DOMAIN versions = 1 .. size /\ size \in Nat /\ versions \in Seq(ToSet(versions))
  BY <1>1, <1>02 DEF AreVersions
<1>3. ASSUME NEW i \in DOMAIN versions
      PROVE  /\ old[i] = [key |-> old[i].key, sheet |-> old[i].sheet, fp |-> old[i].fp, status |-> old[i].status]
             /\ old[i].key = versions[i].key
             /\ old[i].status = "complete" => IsKnown(old[i], lists)
             /\ versions[i].status = "conflict" => old[i].status = "conflict"
             /\ \A f \in Fields : versions[i].fp[f] \in {NULL, old[i].fp[f]}
  <2>1. /\ versions[i] = [key |-> versions[i].key, sheet |-> versions[i].sheet, fp |-> versions[i].fp,
                          status |-> versions[i].status]
        /\ versions[i].status = "complete" => IsKnown(versions[i], lists)
    BY <1>1 DEF AreVersions
  <2>2. CASE versions[i].key \notin keys
    <3>1. old[i] = versions[i]
      BY <1>00, <2>2
    <3> QED BY <2>1, <3>1
  <2>3. CASE versions[i].key \in keys
    <3>0. PICK fresh : fresh = batch[Find(versions[i].key)]
      OBVIOUS
    <3>1. Find(versions[i].key) \in DOMAIN batch /\ batch[Find(versions[i].key)].key = versions[i].key
      BY <2>3
    <3>2. fresh.key = versions[i].key /\ (fresh.status = "complete" => IsKnown(fresh, lists))
      BY <3>0, <3>1 DEF AreVersions
    <3>3. old[i] = Upserted(versions[i], fresh)
      BY <1>00, <2>3, <3>0
    <3> QED BY <2>1, <3>2, <3>3, UpsertedIs
  <2> QED BY <2>2, <2>3
<1>4. /\ new \in Seq({batch[i] : i \in places})
      /\ \A i \in places : \E n \in DOMAIN new : new[n] = batch[i]
      /\ \A n \in DOMAIN new : \E i \in places : new[n] = batch[i]
      /\ (\A i, j \in places : batch[i] = batch[j] => i = j) =>
           \A m, n \in DOMAIN new : new[m] = new[n] => m = n
  <2>1. batch \in Seq(ToSet(batch)) /\ places \in SUBSET DOMAIN batch
    BY DEF AreVersions
  <2> HIDE DEF places
  <2> DEFINE those == Those(batch, places)
  <2>2. /\ those \in Seq({batch[i] : i \in places})
        /\ \A i \in places : \E n \in DOMAIN those : those[n] = batch[i]
        /\ \A n \in DOMAIN those : \E i \in places : those[n] = batch[i]
        /\ (\A i, j \in places : batch[i] = batch[j] => i = j) =>
             \A m, n \in DOMAIN those : those[m] = those[n] => m = n
    BY <2>1, ThoseAre
  <2>3. new = those
    BY <1>01
  <2> HIDE DEF those
  <2> QED BY <2>2, <2>3
<1>5. old \in Seq({old[i] : i \in DOMAIN versions}) /\ DOMAIN old = 1 .. size
  <2>1. old = [i \in 1 .. size |-> old[i]] /\ \A i \in 1 .. size : old[i] \in {old[j] : j \in DOMAIN versions}
    BY <1>00, <1>2
  <2> QED BY <1>2, <2>1, SeqDef
<1>6. ASSUME NEW n \in DOMAIN new
      PROVE  /\ ~Known(new[n].key)
             /\ new[n] = [key |-> new[n].key, sheet |-> new[n].sheet, fp |-> new[n].fp, status |-> new[n].status]
             /\ new[n].status = "complete" => IsKnown(new[n], lists)
  <2>1. PICK i \in places : new[n] = batch[i]
    BY <1>4
  <2> QED BY <2>1 DEF AreVersions
<1>7. \A m, n \in DOMAIN new : new[m].key = new[n].key => m = n
  <2>1. \A i, j \in places : batch[i].key = batch[j].key => i = j
    BY DEF AreVersions
  <2>2. \A i, j \in places : batch[i] = batch[j] => i = j
    BY <2>1
  <2> HIDE DEF places
  <2>3. ASSUME NEW m \in DOMAIN new, NEW n \in DOMAIN new, new[m].key = new[n].key PROVE m = n
    <3>1. PICK i \in places : new[m] = batch[i]
      BY <1>4
    <3>2. PICK j \in places : new[n] = batch[j]
      BY <1>4
    <3>3. i = j
      BY <2>1, <2>3, <3>1, <3>2
    <3> QED BY <1>4, <2>2, <3>1, <3>2, <3>3
  <2> QED BY <2>3
<1>8. /\ DOMAIN versions' = 1 .. (size + Len(new)) /\ Len(new) \in Nat /\ DOMAIN new = 1 .. Len(new)
      /\ \A i \in DOMAIN versions : i \in DOMAIN versions' /\ versions'[i] = old[i]
      /\ \A n \in DOMAIN new : size + n \in DOMAIN versions' /\ versions'[size + n] = new[n]
      /\ \A i \in DOMAIN versions' : i \in DOMAIN versions \/ (i - size \in DOMAIN new /\ size + (i - size) = i)
      /\ versions' \in Seq(ToSet(versions'))
  <2> DEFINE S == {old[i] : i \in DOMAIN versions} \cup {batch[i] : i \in places}
  <2>1. old \in Seq(S) /\ new \in Seq(S)
    <3>1. /\ {old[i] : i \in DOMAIN versions} \subseteq S
          /\ {batch[i] : i \in places} \subseteq S
      OBVIOUS
    <3> HIDE DEF S, places
    <3> QED BY <1>4, <1>5, <3>1, SeqMonotonic
  <2> HIDE DEF S
  <2>2. /\ old \o new \in Seq(S) /\ Len(old \o new) = Len(old) + Len(new)
        /\ \A i \in 1 .. (Len(old) + Len(new)) :
             (old \o new)[i] = IF i <= Len(old) THEN old[i] ELSE new[i - Len(old)]
    BY <2>1, ConcatProperties
  <2>3. Len(old) = size /\ Len(new) \in Nat /\ DOMAIN new = 1 .. Len(new)
    BY <1>2, <1>5, <2>1
  <2>4. /\ versions' \in Seq(S) /\ DOMAIN versions' = 1 .. (size + Len(new))
        /\ \A i \in 1 .. (size + Len(new)) :
             versions'[i] = IF i <= size THEN old[i] ELSE new[i - size]
    BY <1>0, <2>2, <2>3
  <2>5. versions' \in Seq(ToSet(versions'))
    BY <2>4, ToSetIs
  <2>6. \A n \in DOMAIN new : /\ size + n \in 1 .. (size + Len(new)) /\ ~(size + n <= size)
                              /\ (size + n) - size = n
    BY <1>2, <2>3
  <2>7. \A i \in 1 .. (size + Len(new)) : i \in 1 .. size \/ (i - size \in 1 .. Len(new)
                                                             /\ size + (i - size) = i)
    BY <1>2, <2>3
  <2>8. \A i \in 1 .. size : i \in 1 .. (size + Len(new)) /\ i <= size
    BY <1>2, <2>3
  <2>9. \A n \in DOMAIN new : versions'[size + n] = new[n]
    BY <2>4, <2>6
  <2> QED BY <1>2, <2>3, <2>4, <2>5, <2>6, <2>7, <2>8, <2>9
<1>9. AreVersions(versions, lists)'
  <2>1. \A i, j \in DOMAIN versions' : versions'[i].key = versions'[j].key => i = j
    <3>1. SUFFICES ASSUME NEW i \in DOMAIN versions', NEW j \in DOMAIN versions',
                          versions'[i].key = versions'[j].key
                   PROVE  i = j
      OBVIOUS
    <3>2. \A x, y \in DOMAIN versions : versions[x].key = versions[y].key => x = y
      BY <1>1 DEF AreVersions
    <3>8. \A x \in DOMAIN versions : versions'[x].key = versions[x].key
      BY <1>3, <1>8
    <3>3. CASE i \in DOMAIN versions /\ j \in DOMAIN versions
      BY <3>1, <3>2, <3>3, <3>8
    <3>4. ASSUME NEW x \in DOMAIN versions, NEW n \in DOMAIN new, versions[x].key = new[n].key
          PROVE  FALSE
      BY <1>6, <3>4 DEF Known
    <3>5. CASE i \in DOMAIN versions /\ j \notin DOMAIN versions
      <4>1. j - size \in DOMAIN new /\ versions'[j] = new[j - size]
        BY <1>8, <3>5
      <4> QED BY <3>1, <3>4, <3>5, <3>8, <4>1
    <3>6. CASE i \notin DOMAIN versions /\ j \in DOMAIN versions
      <4>1. i - size \in DOMAIN new /\ versions'[i] = new[i - size]
        BY <1>8, <3>6
      <4> QED BY <3>1, <3>4, <3>6, <3>8, <4>1
    <3>7. CASE i \notin DOMAIN versions /\ j \notin DOMAIN versions
      <4>1. /\ i - size \in DOMAIN new /\ versions'[i] = new[i - size] /\ size + (i - size) = i
            /\ j - size \in DOMAIN new /\ versions'[j] = new[j - size] /\ size + (j - size) = j
        BY <1>8, <3>7
      <4>2. i - size = j - size
        BY <1>7, <3>1, <4>1
      <4> QED BY <4>1, <4>2
    <3> QED BY <3>3, <3>5, <3>6, <3>7
  <2>2. ASSUME NEW i \in DOMAIN versions'
        PROVE  /\ versions'[i] = [key |-> versions'[i].key, sheet |-> versions'[i].sheet, fp |-> versions'[i].fp,
                                  status |-> versions'[i].status]
               /\ versions'[i].status = "complete" => IsKnown(versions'[i], lists)
    <3>1. CASE i \in DOMAIN versions
      <4>1. versions'[i] = old[i]
        BY <1>8, <3>1
      <4> QED BY <1>3, <3>1, <4>1
    <3>2. CASE i \notin DOMAIN versions
      <4>1. i - size \in DOMAIN new /\ versions'[i] = new[i - size]
        BY <1>8, <3>2
      <4> QED BY <1>6, <4>1
    <3> QED BY <3>1, <3>2
  <2> QED BY <1>8, <2>1, <2>2 DEF AreVersions
<1>10. Grown /\ TablesInv' /\ KnownFieldsKept
  <2>1. \A i \in DOMAIN versions :
           /\ versions'[i].key = versions[i].key
           /\ versions[i].status = "conflict" => versions'[i].status = "conflict"
           /\ \A f \in Fields : versions[i].fp[f] \in {NULL, versions'[i].fp[f]}
    BY <1>3, <1>8
  <2>2. DOMAIN versions \subseteq DOMAIN versions'
    BY <1>8
  <2> QED BY <1>1, <1>9, <2>1, <2>2, VersionsChange
<1>11. ASSUME NEW i \in DOMAIN batch PROVE Known(batch[i].key)'
  <2>1. CASE Known(batch[i].key)
    BY <1>10, <2>1, KnownStays
  <2>2. CASE ~Known(batch[i].key)
    <3>1. i \in places
      BY <2>2
    <3>2. PICK n \in DOMAIN new : new[n] = batch[i]
      BY <1>4, <3>1
    <3>3. size + n \in DOMAIN versions' /\ versions'[size + n].key = batch[i].key
      BY <1>8, <3>2
    <3> QED BY <3>3 DEF Known
  <2> QED BY <2>1, <2>2
<1> QED BY <1>10, <1>11

LEMMA UpsertStep ==
  ASSUME PricesInv, NEW r \in Runs, UpsertVersions(r)
  PROVE  StepOf(r)
<1> DEFINE fresh == work[r].fresh
           left == Rest(fresh, VersionBatch)
<1>0. PICK batch : batch = First(fresh, VersionBatch)
  OBVIOUS
<1>1. /\ pc[r] = "upsert" /\ UNCHANGED <<lists, staging, history>>
      /\ \/ fresh = <<>> /\ pc' = [pc EXCEPT ![r] = "rows"] /\ UNCHANGED <<versions, work>>
         \/ /\ versions' = WithVersions(batch)
            /\ UNCHANGED pc
            /\ UNCHANGED work \/ work' = [work EXCEPT ![r].fresh = left]
  BY <1>0 DEF UpsertVersions, Goto
<1>2. /\ CarriedInv(r) /\ KeysInv(r) /\ StagedInv(r) /\ Running(r)
      /\ DOMAIN work[r] = {"run", "items", "fresh", "cache", "found"}
      /\ r \in DOMAIN pc /\ r \in DOMAIN work
  BY <1>1, WorkIs DEF Storing
<1>3. AreVersions(batch, lists) /\ AreVersions(left, lists)
  <2>1. AreVersions(fresh, lists) /\ VersionBatch \in Nat
    BY <1>2, PriceAssumption DEF CarriedInv
  <2> QED BY <1>0, <2>1, BatchIsVersions
<1>4. \A i \in DOMAIN fresh : \/ \E j \in DOMAIN batch : batch[j] = fresh[i]
                              \/ \E j \in DOMAIN left : left[j] = fresh[i]
  <2>1. fresh \in Seq(ToSet(fresh)) /\ VersionBatch \in Nat
    BY <1>2, PriceAssumption DEF CarriedInv, AreVersions
  <2>2. /\ \A i \in DOMAIN batch : i \in DOMAIN fresh /\ batch[i] = fresh[i]
        /\ \A i \in DOMAIN left : i + VersionBatch \in DOMAIN fresh /\ left[i] = fresh[i + VersionBatch]
        /\ \A i \in DOMAIN fresh : i \in DOMAIN batch \/ i - VersionBatch \in DOMAIN left
    BY <1>0, <2>1, BatchIs
  <2>3. \A i \in DOMAIN fresh : (i - VersionBatch) + VersionBatch = i
    BY <2>1
  <2> HIDE DEF left
  <2> QED BY <2>2, <2>3
<1> HIDE DEF left
<1>5. CASE fresh = <<>> /\ pc' = [pc EXCEPT ![r] = "rows"] /\ UNCHANGED <<versions, work>>
  <2>1. Grown /\ TablesInv' /\ KnownFieldsKept /\ StagingKept
    BY <1>1, <1>5, Quiet, StagingStays
  <2>2. OnlyRun(r) /\ pc'[r] = "rows" /\ work'[r] = work[r]
    BY <1>2, <1>5 DEF OnlyRun
  <2>3. \A n : InHistory(n)' <=> InHistory(n)
    BY <1>1, <1>5 DEF InHistory
  <2>4. \A key : Known(key)' <=> Known(key)
    BY <1>5 DEF Known
  <2>5. \A n \in ToSet(work[r].items) : Known(lists[n].key)
    <3>1. DOMAIN fresh = {}
      BY <1>5
    <3> QED BY <1>1, <1>2, <3>1 DEF KeysInv
  <2>6. CarriedInv(r)' /\ KeysInv(r)' /\ StagedInv(r)'
    BY <1>1, <1>2, <2>2, <2>3, <2>4, <2>5 DEF CarriedInv, KeysInv, StagedInv, Storing
  <2> QED BY <1>1, <1>2, <2>1, <2>2, <2>6, StepIs DEF Storing
<1> DEFINE Write == versions' = WithVersions(batch)
<1>6. ASSUME Write
      PROVE  /\ Grown /\ TablesInv' /\ KnownFieldsKept /\ StagingKept
             /\ \A i \in DOMAIN batch : Known(batch[i].key)'
             /\ \A key : Known(key) => Known(key)'
             /\ \A n : InHistory(n) => InHistory(n)'
  <2>1. /\ Grown /\ TablesInv' /\ KnownFieldsKept
        /\ \A i \in DOMAIN batch : Known(batch[i].key)'
    BY <1>1, <1>3, <1>6, UpsertIs
  <2>2. TablesInv
    BY DEF PricesInv
  <2> HIDE DEF Write
  <2> QED BY <1>1, <2>1, <2>2, StagingStays, KnownStays, InHistoryStays
<1> HIDE DEF Write
<1>7. CASE Write /\ UNCHANGED <<pc, work>>
  <2>1. OnlyRun(r) /\ pc'[r] = pc[r] /\ work'[r] = work[r]
    BY <1>7 DEF OnlyRun
  <2>2. CarriedInv(r)' /\ KeysInv(r)' /\ StagedInv(r)'
    BY <1>1, <1>2, <1>6, <1>7, <2>1 DEF CarriedInv, KeysInv, StagedInv
  <2> QED BY <1>1, <1>2, <1>6, <1>7, <2>1, <2>2, StepIs DEF Storing
<1>8. CASE Write /\ UNCHANGED pc /\ work' = [work EXCEPT ![r].fresh = left]
  <2>1. /\ OnlyRun(r) /\ pc'[r] = pc[r] /\ work'[r].run = work[r].run
        /\ work'[r].items = work[r].items /\ work'[r].fresh = left /\ work'[r].cache = work[r].cache
    BY <1>2, <1>8 DEF OnlyRun
  <2>2. CarriedInv(r)' /\ StagedInv(r)'
    BY <1>1, <1>2, <1>3, <1>6, <1>8, <2>1 DEF CarriedInv, StagedInv
  <2>3. KeysInv(r)'
    <3>1. ASSUME NEW n \in ToSet(work[r].items)
          PROVE  Known(lists[n].key)' \/ \E i \in DOMAIN left : left[i].key = lists[n].key
      <4>1. CASE Known(lists[n].key)
        <5>1. PICK key : key = lists[n].key
          OBVIOUS
        <5> QED BY <1>1, <1>6, <1>8, <4>1, <5>1
      <4>2. CASE ~Known(lists[n].key)
        <5>1. PICK i \in DOMAIN fresh : fresh[i].key = lists[n].key
          BY <1>1, <1>2, <4>2 DEF KeysInv
        <5>2. CASE \E j \in DOMAIN batch : batch[j] = fresh[i]
          <6>1. PICK j \in DOMAIN batch : batch[j] = fresh[i]
            BY <5>2
          <6>2. PICK key : key = batch[j].key
            OBVIOUS
          <6>3. Known(key)'
            BY <1>6, <1>8, <6>2
          <6>4. lists'[n].key = key
            BY <1>1, <5>1, <6>1, <6>2
          <6> QED BY <6>3, <6>4
        <5>3. CASE \E j \in DOMAIN left : left[j] = fresh[i]
          BY <5>1, <5>3
        <5> QED BY <1>4, <5>2, <5>3
      <4> QED BY <4>1, <4>2
    <3> QED BY <1>1, <1>2, <1>6, <1>8, <2>1, <3>1 DEF KeysInv
  <2> QED BY <1>1, <1>2, <1>6, <1>8, <2>1, <2>2, <2>3, StepIs DEF Storing
<1>9. \/ fresh = <<>> /\ pc' = [pc EXCEPT ![r] = "rows"] /\ UNCHANGED <<versions, work>>
      \/ Write /\ UNCHANGED <<pc, work>>
      \/ Write /\ UNCHANGED pc /\ work' = [work EXCEPT ![r].fresh = left]
  BY <1>1 DEF Write
<1> QED BY <1>5, <1>7, <1>8, <1>9

LEMMA ImportStep ==
  ASSUME PricesInv, NEW r \in Runs, Import(r)
  PROVE  StepOf(r)
BY BeginStep, StageStep, FindStep, InsertStep, UpdateStep, HistoryStep, ClearStep, FailStep,
   ResumeStep, UpsertStep, RowsStep DEF Import

-----------------------------------------------------------------------------
(* What is published.                                                      *)

LEMMA SameSize ==
  ASSUME NEW S, IsFiniteSet(S), NEW T, NEW g, g = [x \in S |-> g[x]],
         \A x \in S : g[x] \in T, \A x, y \in S : g[x] = g[y] => x = y,
         \A t \in T : \E x \in S : g[x] = t
  PROVE  IsFiniteSet(T) /\ Cardinality(T) = Cardinality(S)
<1>1. g \in [S -> T]
  OBVIOUS
<1>2. g \in Surjection(S, T)
  BY <1>1 DEF Surjection
<1>3. g \in Injection(S, T)
  BY <1>1 DEF Injection, IsInjective
<1> QED BY <1>2, <1>3, FS_Surjection

\* Episodes, of which two of one version share no date.
AreEpisodes(episodes) ==
  /\ IsFiniteSet(episodes)
  /\ \A e \in episodes : /\ e.version \in Nat /\ e.from \in Nat
                         /\ e.to = NULL \/ (e.to \in Int /\ e.from <= e.to)
  /\ \A e, f \in episodes : e.version = f.version /\ e.from = f.from => e = f
  /\ \A e, f \in episodes : e.version = f.version /\ e # f => ~RangesOverlap(e, f)
  /\ \A e, f \in episodes : e.pv = f.pv => e.version = f.version

LEMMA BuiltAreEpisodes ==
  ASSUME NEW known, DOMAIN known \in SUBSET Nat, NEW rows, IsHistory(rows)
  PROVE  AreEpisodes(EpisodesOf(Points(known, rows)))
<1> DEFINE points == Points(known, rows)
           parts == Segments(points)
           episodes == EpisodesOf(points)
           f == [p \in parts |-> EpisodeAt(points, p)]
<1>1. /\ IsPoints(points) /\ IsFiniteSet(points)
      /\ \A p \in points : /\ p = PointAt(known, rows, p.version, p.from)
                           /\ EvidenceOf(known, rows, p.version, p.from) # {}
  BY PointsAre
<1>2. \A p \in points : Resolution(known, p.pv).version = p.version
  <2>1. SUFFICES ASSUME NEW p \in points PROVE Resolution(known, p.pv).version = p.version
    OBVIOUS
  <2> DEFINE evidence == EvidenceOf(known, rows, p.version, p.from)
             pvs == {row.pv : row \in evidence}
  <2>2. evidence # {} /\ p.version \in Nat /\ p = PointAt(known, rows, p.version, p.from)
    BY <1>1 DEF IsPoints
  <2>3. \A row \in evidence : Resolution(known, row.pv).version = p.version
    BY DEF EvidenceOf
  <2>4. p.pv = Min(pvs)
    BY <2>2 DEF PointAt
  <2>5. pvs \in SUBSET Nat /\ pvs # {}
    <3>1. \A row \in evidence : row.pv \in DOMAIN known
      BY <2>2, <2>3, ResolvedIs
    <3> QED BY <2>2, <3>1
  <2>6. Min(pvs) \in pvs
    <3> HIDE DEF pvs
    <3> QED BY <2>5, LeastIs
  <2> QED BY <2>3, <2>4, <2>6
<1> HIDE DEF points
<1>3. parts \subseteq points /\ episodes = {EpisodeAt(points, p) : p \in parts}
  BY EpisodesAre DEF Segments
<1>4. IsFiniteSet(episodes)
  <2>1. IsFiniteSet(parts)
    BY <1>1, <1>3, FS_Subset
  <2>2. DOMAIN f = parts /\ f = [p \in parts |-> f[p]] /\ {f[p] : p \in parts} = episodes
    BY <1>3
  <2> HIDE DEF f, parts, episodes
  <2> QED BY <2>1, <2>2, ImageIsFinite
<1>5. ASSUME NEW p \in parts
      PROVE  LET e == EpisodeAt(points, p)
             IN /\ e.version = p.version /\ e.from = p.from /\ e.pv = p.pv /\ e.to = Until(points, p)
                /\ p.version \in Nat /\ p.from \in Nat /\ p \in points
  BY <1>1, <1>3, EpisodeIs DEF IsPoints
<1>6. ASSUME NEW p \in parts
      PROVE  \/ Until(points, p) = NULL
             \/ Until(points, p) \in Int /\ p.from <= Until(points, p)
  <2> DEFINE next == {s \in parts : s.version = p.version /\ p.from < s.from}
  <2>1. /\ next = {} => Until(points, p) = NULL
        /\ next # {} => \E s \in next : Until(points, p) = s.from - 1
    BY <1>1, UntilIs
  <2>2. CASE next # {}
    <3>1. PICK s \in next : Until(points, p) = s.from - 1
      BY <2>1, <2>2
    <3>2. s.from \in Nat /\ p.from \in Nat /\ p.from < s.from
      BY <1>5
    <3> QED BY <3>1, <3>2
  <2> QED BY <2>1, <2>2
<1>7. ASSUME NEW p \in parts, NEW q \in parts, p.version = q.version, p.from < q.from
      PROVE  ~(Until(points, p) = NULL \/ q.from <= Until(points, p))
  <2> DEFINE next == {s \in parts : s.version = p.version /\ p.from < s.from}
  <2>1. q \in next
    BY <1>7
  <2>2. PICK s \in next : /\ Until(points, p) = s.from - 1
                          /\ \A t \in next : s.from <= t.from
    BY <1>1, <2>1, UntilIs
  <2>3. s.from \in Nat /\ q.from \in Nat /\ s.from <= q.from
    BY <1>5, <2>1, <2>2
  <2>4. s.from - 1 \in Int /\ ~(q.from <= s.from - 1)
    BY <2>3
  <2>5. NULL \notin Int
    BY MastersAssumption
  <2> QED BY <2>2, <2>4, <2>5
<1>8. ASSUME NEW e \in episodes
      PROVE  \E p \in parts : /\ e = EpisodeAt(points, p) /\ e.version = p.version /\ e.from = p.from
                              /\ e.pv = p.pv /\ e.to = Until(points, p)
                              /\ p.version \in Nat /\ p.from \in Nat /\ p \in points
  BY <1>3, <1>5
<1> HIDE DEF parts, episodes
<1>9. \A e \in episodes : /\ e.version \in Nat /\ e.from \in Nat
                          /\ e.to = NULL \/ (e.to \in Int /\ e.from <= e.to)
  BY <1>6, <1>8
<1>10. ASSUME NEW e \in episodes, NEW g \in episodes, e.version = g.version
       PROVE  /\ e.from = g.from => e = g
              /\ e # g => ~RangesOverlap(e, g)
  <2>1. PICK p \in parts : /\ e = EpisodeAt(points, p) /\ e.version = p.version /\ e.from = p.from
                           /\ e.to = Until(points, p) /\ p.from \in Nat /\ p \in points
    BY <1>8
  <2>2. PICK q \in parts : /\ g = EpisodeAt(points, q) /\ g.version = q.version /\ g.from = q.from
                           /\ g.to = Until(points, q) /\ q.from \in Nat /\ q \in points
    BY <1>8
  <2>3. e.from = g.from => e = g
    BY <1>1, <1>10, <2>1, <2>2 DEF IsPoints
  <2>4. CASE p.from < q.from
    BY <1>7, <1>10, <2>1, <2>2, <2>4 DEF RangesOverlap
  <2>5. CASE q.from < p.from
    BY <1>7, <1>10, <2>1, <2>2, <2>5 DEF RangesOverlap
  <2>6. CASE p.from = q.from
    BY <2>1, <2>2, <2>3, <2>6
  <2>7. p.from < q.from \/ q.from < p.from \/ p.from = q.from
    BY <2>1, <2>2
  <2> QED BY <2>3, <2>4, <2>5, <2>6, <2>7
<1>11. \A e, g \in episodes : e.pv = g.pv => e.version = g.version
  BY <1>2, <1>8
<1>12. AreEpisodes(episodes)
  BY <1>4, <1>9, <1>10, <1>11 DEF AreEpisodes
<1> QED BY <1>12 DEF episodes, points

\* The payload holds each episode once.
LEMMA PayloadIs ==
  ASSUME NEW episodes, AreEpisodes(episodes)
  PROVE  LET rows == Payload(episodes)
         IN /\ DOMAIN rows = 1 .. Cardinality(episodes) /\ Cardinality(episodes) \in Nat
            /\ rows = [i \in DOMAIN rows |-> rows[i]]
            /\ \A i \in DOMAIN rows : rows[i] \in episodes
            /\ \A e \in episodes : \E i \in DOMAIN rows : rows[i] = e
            /\ \A i, j \in DOMAIN rows : rows[i] = rows[j] => i = j
<1> DEFINE rows == Payload(episodes)
           size == Cardinality(episodes)
           Below(e) == {d \in episodes : InOrder(d, e)}
<1>1. PICK down : down = [e \in episodes |-> Below(e)]
  OBVIOUS
<1>2. down \in [episodes -> SUBSET episodes] /\ \A e \in episodes : down[e] = Below(e)
  BY <1>1
<1>3. IsFiniteSet(episodes) /\ size \in Nat
  BY FS_CardinalityType DEF AreEpisodes
<1>4. \A e \in episodes : e.version \in Nat /\ e.from \in Nat
  BY DEF AreEpisodes
<1>5. \A e, d \in episodes : d \in down[e] <=> InOrder(d, e)
  BY <1>2
<1>6. /\ \A e \in episodes : e \notin down[e]
      /\ \A e, d \in episodes : e # d => e \in down[d] \/ d \in down[e]
      /\ \A e, d \in episodes : d \in down[e] => down[d] \subseteq down[e]
  <2>1. \A e \in episodes : ~InOrder(e, e)
    BY <1>4 DEF InOrder
  <2>2. \A e, d \in episodes : e # d => InOrder(e, d) \/ InOrder(d, e)
    BY <1>4 DEF AreEpisodes, InOrder
  <2>3. \A e, d, c \in episodes : InOrder(d, e) /\ InOrder(c, d) => InOrder(c, e)
    BY <1>4 DEF InOrder
  <2> QED BY <1>2, <1>5, <2>1, <2>2, <2>3
<1>7. /\ \A n \in 1 .. size : \E e \in episodes : Cardinality(down[e]) = n - 1
      /\ \A e, d \in episodes : Cardinality(down[e]) = Cardinality(down[d]) => e = d
      /\ \A e \in episodes : Cardinality(down[e]) + 1 \in 1 .. size
  BY <1>2, <1>3, <1>6, RanksAreOnce
<1>8. DOMAIN rows = 1 .. size /\ rows = [i \in DOMAIN rows |-> rows[i]]
  <2> DEFINE At(n) == CHOOSE e \in episodes : Cardinality(Below(e)) = n - 1
  <2>1. rows = [n \in 1 .. size |-> At(n)]
    BY DEF Payload
  <2> HIDE DEF rows, At
  <2> QED BY <2>1
<1>9. ASSUME NEW n \in 1 .. size
      PROVE  rows[n] \in episodes /\ Cardinality(down[rows[n]]) = n - 1
  <2>1. rows[n] = CHOOSE e \in episodes : Cardinality(Below(e)) = n - 1
    BY DEF Payload
  <2>2. \E e \in episodes : Cardinality(Below(e)) = n - 1
    BY <1>2, <1>7
  <2> HIDE DEF rows
  <2>3. rows[n] \in episodes /\ Cardinality(Below(rows[n])) = n - 1
    BY <2>1, <2>2
  <2> QED BY <1>2, <2>3
<1> HIDE DEF rows
<1>10. ASSUME NEW e \in episodes PROVE \E i \in DOMAIN rows : rows[i] = e
  <2> DEFINE n == Cardinality(down[e]) + 1
  <2>1. n \in 1 .. size
    BY <1>7
  <2>2. IsFiniteSet(down[e]) /\ Cardinality(down[e]) \in Nat
    BY <1>2, <1>3, FS_Subset, FS_CardinalityType
  <2>3. Cardinality(down[e]) = n - 1
    BY <2>2
  <2> HIDE DEF n
  <2> QED BY <1>7, <1>8, <1>9, <2>1, <2>3
<1>11. \A i, j \in DOMAIN rows : rows[i] = rows[j] => i = j
  BY <1>3, <1>8, <1>9
<1> QED BY <1>3, <1>8, <1>9, <1>10, <1>11 DEF rows

\* A vehicle is in one episode at most, of its version and with a price, on a date of it.
AreAssigned(assignments, episodes) ==
  /\ IsFiniteSet(assignments)
  /\ \A a \in assignments : a.date \in Nat /\ \E e \in episodes :
       /\ e.status = "OK" /\ e.pv = a.pv /\ e.from = a.from /\ e.version = a.version
       /\ InRange(a.date, e)
  /\ \A a, b \in assignments : a.vehicle = b.vehicle => a = b

LEMMA RangesMeet ==
  ASSUME NEW date \in Int, NEW e, NEW f, InRange(date, e), InRange(date, f),
         e.from \in Nat, f.from \in Nat, e.to = NULL \/ e.to \in Int, f.to = NULL \/ f.to \in Int
  PROVE  RangesOverlap(e, f)
BY DEF InRange, RangesOverlap

LEMMA AssignmentsAre ==
  ASSUME NEW episodes, AreEpisodes(episodes)
  PROVE  AreAssigned(Assignments(Vehicles, episodes), episodes)
<1> DEFINE A == Assignments(Vehicles, episodes)
           ids == {v.id : v \in Vehicles}
           f == [v \in Vehicles |-> v.id]
           g == [a \in A |-> a.vehicle]
<1>1. ASSUME NEW a \in A
      PROVE  \E v \in Vehicles : \E e \in Matches(v, episodes) :
               a = [pv |-> e.pv, from |-> e.from, vehicle |-> v.id, version |-> v.version,
                    date |-> v.date]
  BY DEF Assignments
<1> HIDE DEF A
<1>2. \A v \in Vehicles : v.date \in Nat /\ \A w \in Vehicles : v.id = w.id => v = w
  BY PricesAssumption
<1>3. ASSUME NEW a \in A
      PROVE  a.date \in Nat /\ \E e \in episodes :
               /\ e.status = "OK" /\ e.pv = a.pv /\ e.from = a.from /\ e.version = a.version
               /\ InRange(a.date, e)
  <2>1. PICK v \in Vehicles : \E e \in Matches(v, episodes) :
          a = [pv |-> e.pv, from |-> e.from, vehicle |-> v.id, version |-> v.version, date |-> v.date]
    BY <1>1
  <2>1a. PICK e \in Matches(v, episodes) :
          a = [pv |-> e.pv, from |-> e.from, vehicle |-> v.id, version |-> v.version, date |-> v.date]
    BY <2>1
  <2>2. e \in episodes /\ e.status = "OK" /\ e.version = v.version /\ InRange(v.date, e)
    BY DEF Matches
  <2> QED BY <1>2, <2>1a, <2>2
<1>4. ASSUME NEW v \in Vehicles, NEW d \in Matches(v, episodes), NEW e \in Matches(v, episodes)
      PROVE  d = e
  <2>1. /\ d \in episodes /\ e \in episodes /\ d.version = e.version
        /\ InRange(v.date, d) /\ InRange(v.date, e)
    BY DEF Matches
  <2>2. d.from \in Nat /\ e.from \in Nat /\ v.date \in Int
    BY <1>2, <2>1 DEF AreEpisodes
  <2>3. (d.to = NULL \/ d.to \in Int) /\ (e.to = NULL \/ e.to \in Int)
    BY <2>1 DEF AreEpisodes
  <2>4. RangesOverlap(d, e)
    BY <2>1, <2>2, <2>3, RangesMeet
  <2> QED BY <2>1, <2>4 DEF AreEpisodes
<1>5. ASSUME NEW a \in A, NEW b \in A, a.vehicle = b.vehicle PROVE a = b
  <2>1. PICK v \in Vehicles : \E d \in Matches(v, episodes) :
          a = [pv |-> d.pv, from |-> d.from, vehicle |-> v.id, version |-> v.version, date |-> v.date]
    BY <1>1
  <2>1a. PICK d \in Matches(v, episodes) :
          a = [pv |-> d.pv, from |-> d.from, vehicle |-> v.id, version |-> v.version, date |-> v.date]
    BY <2>1
  <2>2. PICK w \in Vehicles : \E e \in Matches(w, episodes) :
          b = [pv |-> e.pv, from |-> e.from, vehicle |-> w.id, version |-> w.version, date |-> w.date]
    BY <1>1
  <2>2a. PICK e \in Matches(w, episodes) :
          b = [pv |-> e.pv, from |-> e.from, vehicle |-> w.id, version |-> w.version, date |-> w.date]
    BY <2>2
  <2>3. v = w
    BY <1>2, <1>5, <2>1a, <2>2a
  <2>4. d = e
    BY <1>4, <2>3
  <2> QED BY <2>1a, <2>2a, <2>3, <2>4
<1>6. IsFiniteSet(A)
  <2>1. IsFiniteSet(ids)
    <3>1. /\ f = [v \in Vehicles |-> f[v]] /\ DOMAIN f = Vehicles /\ ids = {f[v] : v \in Vehicles}
          /\ IsFiniteSet(Vehicles)
      BY PricesAssumption
    <3> HIDE DEF f, ids
    <3> QED BY <3>1, ImageIsFinite
  <2>2. \A a \in A : a.vehicle \in ids
    BY <1>1
  <2>3. g \in Injection(A, ids)
    BY <1>5, <2>2 DEF Injection, IsInjective
  <2> QED BY <2>1, <2>3, FS_Injection
<1> QED BY <1>3, <1>5, <1>6 DEF AreAssigned, A

\* The bridge has one row of each vehicle assigned, of the episode it is assigned to.
IsBridge(bridge, rows, assignments) ==
  /\ IsFiniteSet(bridge)
  /\ \A b \in bridge : \E a \in assignments :
       /\ b.vehicle = a.vehicle /\ b.version = a.version /\ b.date = a.date
       /\ b.episode \in DOMAIN rows
       /\ LET e == rows[b.episode]
          IN /\ e.status = "OK" /\ e.version = a.version /\ e.from = a.from /\ InRange(a.date, e)
             /\ \A i \in DOMAIN rows :
                  rows[i].version = a.version /\ rows[i].from = a.from => i = b.episode
  /\ \A a \in assignments : \E b \in bridge : b.vehicle = a.vehicle
  /\ \A b, c \in bridge : b.vehicle = c.vehicle => b = c

LEMMA BridgeIs ==
  ASSUME NEW episodes, AreEpisodes(episodes), NEW assignments, AreAssigned(assignments, episodes)
  PROVE  IsBridge(Persisted(episodes, assignments).bridge, Payload(episodes), assignments)
<1> DEFINE bridge == Persisted(episodes, assignments).bridge
           rows == Payload(episodes)
           ids == {a.vehicle : a \in assignments}
           f == [a \in assignments |-> a.vehicle]
           g == [b \in bridge |-> b.vehicle]
           Places(a) == {j \in DOMAIN rows : /\ rows[j].pv = a.pv /\ rows[j].from = a.from
                                             /\ rows[j].status = "OK"}
           Row(a, i) == [episode |-> i, vehicle |-> a.vehicle, version |-> a.version, date |-> a.date]
<1>1. bridge = UNION {{Row(a, i) : i \in Places(a)} : a \in assignments}
  BY DEF Persisted
<1>2. \A b \in bridge : \E a \in assignments : \E i \in Places(a) : b = Row(a, i)
  BY <1>1
<1>3. \A a \in assignments : \A i \in Places(a) : Row(a, i) \in bridge
  BY <1>1
<1>4. /\ \A i \in DOMAIN rows : rows[i] \in episodes
      /\ \A e \in episodes : \E i \in DOMAIN rows : rows[i] = e
      /\ \A i, j \in DOMAIN rows : rows[i] = rows[j] => i = j
  BY PayloadIs
<1> HIDE DEF bridge, rows
<1>5. \A d, e \in episodes :
        /\ d.pv = e.pv => d.version = e.version
        /\ d.version = e.version /\ d.from = e.from => d = e
  BY DEF AreEpisodes
<1>6. ASSUME NEW a \in assignments
      PROVE  \E i \in Places(a) :
               /\ rows[i].version = a.version /\ rows[i].from = a.from /\ InRange(a.date, rows[i])
               /\ \A j \in DOMAIN rows : rows[j].version = a.version /\ rows[j].from = a.from => j = i
               /\ Places(a) = {i}
  <2>1. PICK e \in episodes : /\ e.status = "OK" /\ e.pv = a.pv /\ e.from = a.from
                              /\ e.version = a.version /\ InRange(a.date, e)
    BY DEF AreAssigned
  <2>2. PICK i \in DOMAIN rows : rows[i] = e
    BY <1>4
  <2>3. i \in Places(a)
    BY <2>1, <2>2
  <2>4. \A j \in DOMAIN rows : rows[j].version = a.version /\ rows[j].from = a.from => j = i
    <3>1. SUFFICES ASSUME NEW j \in DOMAIN rows, rows[j].version = a.version, rows[j].from = a.from
                   PROVE  j = i
      OBVIOUS
    <3>2. rows[j] \in episodes /\ rows[j].version = e.version /\ rows[j].from = e.from
      BY <1>4, <2>1, <3>1
    <3>3. rows[j] = e
      BY <1>5, <3>2
    <3> QED BY <1>4, <2>2, <3>3
  <2>5. Places(a) = {i}
    <3>1. SUFFICES ASSUME NEW j \in Places(a) PROVE j = i
      BY <2>3
    <3>2. j \in DOMAIN rows /\ rows[j] \in episodes /\ rows[j].pv = e.pv /\ rows[j].from = a.from
      BY <1>4, <2>1
    <3>3. rows[j].version = a.version
      BY <1>5, <2>1, <3>2
    <3> QED BY <2>4, <3>2, <3>3
  <2> QED BY <2>1, <2>2, <2>3, <2>4, <2>5
<1>7. ASSUME NEW b \in bridge
      PROVE  \E a \in assignments :
               /\ b = Row(a, b.episode) /\ b.episode \in Places(a) /\ Places(a) = {b.episode}
               /\ b.vehicle = a.vehicle /\ b.version = a.version /\ b.date = a.date
               /\ LET e == rows[b.episode]
                  IN /\ e.status = "OK" /\ e.version = a.version /\ e.from = a.from
                     /\ InRange(a.date, e)
                     /\ \A i \in DOMAIN rows :
                          rows[i].version = a.version /\ rows[i].from = a.from => i = b.episode
  <2>1. PICK a \in assignments : \E i \in Places(a) : b = Row(a, i)
    BY <1>2
  <2>2. PICK i \in Places(a) : b = Row(a, i)
    BY <2>1
  <2>3. PICK j \in Places(a) :
          /\ rows[j].version = a.version /\ rows[j].from = a.from /\ InRange(a.date, rows[j])
          /\ \A k \in DOMAIN rows : rows[k].version = a.version /\ rows[k].from = a.from => k = j
          /\ Places(a) = {j}
    BY <1>6
  <2>4. i = j
    BY <2>3
  <2>5. /\ b.episode = i /\ b.vehicle = a.vehicle /\ b.version = a.version /\ b.date = a.date
        /\ b = Row(a, b.episode) /\ rows[i].status = "OK"
    BY <2>2
  <2> HIDE DEF Places, Row
  <2> QED BY <2>3, <2>4, <2>5
<1>8. \A a \in assignments : \E b \in bridge : b.vehicle = a.vehicle
  <2>1. SUFFICES ASSUME NEW a \in assignments PROVE \E b \in bridge : b.vehicle = a.vehicle
    OBVIOUS
  <2>2. PICK i \in Places(a) : TRUE
    BY <1>6
  <2>3. Row(a, i) \in bridge /\ Row(a, i).vehicle = a.vehicle
    BY <1>3
  <2> QED BY <2>3
<1>9. ASSUME NEW b \in bridge, NEW c \in bridge, b.vehicle = c.vehicle PROVE b = c
  <2>1. PICK a \in assignments : /\ b = Row(a, b.episode) /\ Places(a) = {b.episode}
                                 /\ b.vehicle = a.vehicle
    BY <1>7
  <2>2. PICK d \in assignments : /\ c = Row(d, c.episode) /\ Places(d) = {c.episode}
                                 /\ c.vehicle = d.vehicle
    BY <1>7
  <2>3. a = d
    BY <1>9, <2>1, <2>2 DEF AreAssigned
  <2>4. b.episode = c.episode
    BY <2>1, <2>2, <2>3
  <2> HIDE DEF Row
  <2> QED BY <2>1, <2>2, <2>3, <2>4
<1>10. IsFiniteSet(bridge)
  <2>1. IsFiniteSet(ids)
    <3>1. /\ f = [a \in assignments |-> f[a]] /\ DOMAIN f = assignments
          /\ ids = {f[a] : a \in assignments} /\ IsFiniteSet(assignments)
      BY DEF AreAssigned
    <3> HIDE DEF f, ids
    <3> QED BY <3>1, ImageIsFinite
  <2>2. \A b \in bridge : b.vehicle \in ids
    BY <1>7
  <2>3. g \in Injection(bridge, ids)
    BY <1>9, <2>2 DEF Injection, IsInjective
  <2> QED BY <2>1, <2>3, FS_Injection
<1>11. \A b \in bridge : \E a \in assignments :
         /\ b.vehicle = a.vehicle /\ b.version = a.version /\ b.date = a.date
         /\ b.episode \in DOMAIN rows
         /\ LET e == rows[b.episode]
            IN /\ e.status = "OK" /\ e.version = a.version /\ e.from = a.from /\ InRange(a.date, e)
               /\ \A i \in DOMAIN rows :
                    rows[i].version = a.version /\ rows[i].from = a.from => i = b.episode
  BY <1>7
<1>12. IsBridge(bridge, rows, assignments)
  BY <1>8, <1>9, <1>10, <1>11 DEF IsBridge
<1> QED BY <1>12 DEF bridge, rows

\* So the vehicles of an episode are counted alike with and without the bridge.
LEMMA VinsAgree ==
  ASSUME NEW rows, NEW episodes, NEW assignments, AreAssigned(assignments, episodes),
         NEW new, IsBridge(new.bridge, rows, assignments), NEW i \in DOMAIN rows
  PROVE  AggregateOf(rows[i], assignments) = VinsOf(new, i)
<1> DEFINE mine == {a \in assignments : a.version = rows[i].version /\ a.from = rows[i].from}
           theirs == {b \in new.bridge : b.episode = i}
           g == [b \in theirs |-> CHOOSE a \in mine : a.vehicle = b.vehicle /\ a.date = b.date]
<1>1. ASSUME NEW b \in theirs PROVE \E a \in mine : a.vehicle = b.vehicle /\ a.date = b.date
  BY DEF IsBridge
<1>2. ASSUME NEW a \in mine PROVE \E b \in theirs : b.vehicle = a.vehicle /\ b.date = a.date
  <2>1. PICK b \in new.bridge : b.vehicle = a.vehicle
    BY DEF IsBridge
  <2>2. PICK c \in assignments :
          /\ b.vehicle = c.vehicle /\ b.date = c.date
          /\ \A j \in DOMAIN rows : rows[j].version = c.version /\ rows[j].from = c.from => j = b.episode
    BY DEF IsBridge
  <2>3. c = a
    BY <2>1, <2>2 DEF AreAssigned
  <2>4. b.episode = i
    BY <2>2, <2>3
  <2> QED BY <2>1, <2>2, <2>3, <2>4
<1>3. IsFiniteSet(theirs)
  BY FS_Subset DEF IsBridge
<1>4. \A b, c \in theirs : b.vehicle = c.vehicle => b = c
  BY DEF IsBridge
<1>5. \A a, c \in mine : a.vehicle = c.vehicle => a = c
  BY DEF AreAssigned
<1>6. AggregateOf(rows[i], assignments) = Aggregate({a.date : a \in mine}, Cardinality(mine))
  BY DEF AggregateOf
<1>7. VinsOf(new, i) = Aggregate({b.date : b \in theirs}, Cardinality(theirs))
  BY DEF VinsOf
<1> HIDE DEF mine, theirs
<1>8. \A b \in theirs : g[b] \in mine /\ g[b].vehicle = b.vehicle
  BY <1>1
<1>9. g = [b \in theirs |-> g[b]]
  OBVIOUS
<1> HIDE DEF g
<1>10. \A b, c \in theirs : g[b] = g[c] => b = c
  BY <1>4, <1>8
<1>11. \A a \in mine : \E b \in theirs : g[b] = a
  BY <1>2, <1>5, <1>8
<1>12. Cardinality(mine) = Cardinality(theirs)
  BY <1>3, <1>8, <1>9, <1>10, <1>11, SameSize
<1>13. {a.date : a \in mine} = {b.date : b \in theirs}
  BY <1>1, <1>2
<1> QED BY <1>6, <1>7, <1>12, <1>13

\* They are invoiced on dates of the episode.
LEMMA VinsInside ==
  ASSUME NEW episodes, AreEpisodes(episodes), NEW assignments, AreAssigned(assignments, episodes),
         NEW e \in episodes, AggregateOf(e, assignments).count # 0
  PROVE  InRange(AggregateOf(e, assignments).first, e) /\ InRange(AggregateOf(e, assignments).last, e)
<1> DEFINE mine == {a \in assignments : a.version = e.version /\ a.from = e.from}
           dates == {a.date : a \in mine}
           f == [a \in mine |-> a.date]
<1>1. AggregateOf(e, assignments) = Aggregate(dates, Cardinality(mine))
  BY DEF AggregateOf
<1>2. \A a \in mine : a.date \in Nat /\ InRange(a.date, e)
  <2>1. SUFFICES ASSUME NEW a \in mine PROVE a.date \in Nat /\ InRange(a.date, e)
    OBVIOUS
  <2>2. PICK d \in episodes : d.from = a.from /\ d.version = a.version /\ InRange(a.date, d)
    BY DEF AreAssigned
  <2>3. d = e
    BY <2>2 DEF AreEpisodes
  <2> QED BY <2>2, <2>3 DEF AreAssigned
<1>3. IsFiniteSet(mine)
  BY FS_Subset DEF AreAssigned
<1>4. IsFiniteSet(dates)
  <2>1. f = [a \in mine |-> f[a]] /\ DOMAIN f = mine /\ dates = {f[a] : a \in mine}
    OBVIOUS
  <2> HIDE DEF f, mine, dates
  <2> QED BY <1>3, <2>1, ImageIsFinite
<1>5. mine # {}
  <2>1. Cardinality(mine) # 0
    BY <1>1 DEF Aggregate
  <2> HIDE DEF mine
  <2> QED BY <2>1, FS_EmptySet
<1>6. dates \in SUBSET Nat /\ dates # {}
  BY <1>2, <1>5
<1>7. \A x \in dates : InRange(x, e)
  BY <1>2
<1>8. Aggregate(dates, Cardinality(mine)).first = Min(dates)
      /\ Aggregate(dates, Cardinality(mine)).last = Max(dates)
  BY <1>6 DEF Aggregate
<1>9. Min(dates) \in dates /\ Max(dates) \in dates
  <2> HIDE DEF dates
  <2> QED BY <1>4, <1>6, GreatestIs, LeastIs
<1> QED BY <1>1, <1>7, <1>8, <1>9

\* What is published passes the checks, with every episode and every vehicle of it in order.
LEMMA PersistedIs ==
  ASSUME NEW episodes, AreEpisodes(episodes)
  PROVE  LET new == Persisted(episodes, Assignments(Vehicles, episodes))
         IN /\ ~Failures(new, Cardinality({e \in episodes : e.status = "SOURCE_CONFLICT"}))
            /\ VinsAreInside(new.episodes) /\ DatesAreNumbers(new.bridge)
            /\ \A e \in episodes : \E i \in DOMAIN new.episodes : new.episodes[i].episode = e
<1> DEFINE assignments == Assignments(Vehicles, episodes)
           new == Persisted(episodes, assignments)
           rows == Payload(episodes)
           E(i) == new.episodes[i].episode
           bad == {e \in episodes : e.status = "SOURCE_CONFLICT"}
           places == {i \in DOMAIN new.episodes : E(i).status = "SOURCE_CONFLICT"}
           g == [i \in places |-> rows[i]]
<1>1. AreAssigned(assignments, episodes)
  BY AssignmentsAre
<1> HIDE DEF assignments
<1>2. IsBridge(new.bridge, rows, assignments)
  BY <1>1, BridgeIs
<1>3. /\ DOMAIN rows = 1 .. Cardinality(episodes) /\ Cardinality(episodes) \in Nat
      /\ \A i \in DOMAIN rows : rows[i] \in episodes
      /\ \A e \in episodes : \E i \in DOMAIN rows : rows[i] = e
      /\ \A i, j \in DOMAIN rows : rows[i] = rows[j] => i = j
  BY PayloadIs
<1>4. new.episodes = [i \in DOMAIN rows |->
                        [episode |-> rows[i], vins |-> AggregateOf(rows[i], assignments)]]
  BY DEF Persisted
<1> HIDE DEF new, rows
<1>5. DOMAIN new.episodes = DOMAIN rows
  BY <1>4
<1>6. ASSUME NEW i \in DOMAIN rows
      PROVE  /\ E(i) = rows[i] /\ rows[i] \in episodes /\ i \in Nat
             /\ new.episodes[i].vins = AggregateOf(rows[i], assignments)
  BY <1>3, <1>4
<1>7. \A i \in DOMAIN rows : ~(E(i).to # NULL /\ E(i).to < E(i).from)
  BY <1>6 DEF AreEpisodes
<1>8. ASSUME NEW i \in DOMAIN rows, NEW j \in DOMAIN rows, i < j
      PROVE  /\ E(i).version = E(j).version => ~RangesOverlap(E(i), E(j))
             /\ ~(E(i).pv = E(j).pv /\ E(i).from = E(j).from)
  <2>1. rows[i] # rows[j] /\ rows[i] \in episodes /\ rows[j] \in episodes
    BY <1>3, <1>6, <1>8
  <2> QED BY <1>6, <2>1 DEF AreEpisodes
<1>9. Cardinality(places) = Cardinality(bad)
  <2>1. IsFiniteSet(places)
    <3>1. IsFiniteSet(1 .. Cardinality(episodes))
      BY <1>3, FS_Interval
    <3> QED BY <1>3, <1>5, <3>1, FS_Subset
  <2>2. \A i \in places : i \in DOMAIN rows /\ rows[i] \in bad
    BY <1>5, <1>6
  <2>3. \A e \in bad : \E i \in places : rows[i] = e
    BY <1>3, <1>5, <1>6
  <2>4. \A i \in places : g[i] = rows[i]
    OBVIOUS
  <2>5. g = [i \in places |-> g[i]]
    OBVIOUS
  <2> HIDE DEF places, bad, g
  <2>6. /\ \A i \in places : g[i] \in bad
        /\ \A i, j \in places : g[i] = g[j] => i = j
        /\ \A e \in bad : \E i \in places : g[i] = e
    BY <1>3, <2>2, <2>3, <2>4
  <2> QED BY <2>1, <2>5, <2>6, SameSize
<1>10. ASSUME NEW b \in new.bridge
       PROVE  /\ b.episode \in DOMAIN rows /\ E(b.episode).status = "OK" /\ b.date \in Nat
              /\ InRange(b.date, E(b.episode)) /\ b.version = E(b.episode).version
  <2>1. PICK a \in assignments :
          /\ b.version = a.version /\ b.date = a.date /\ b.episode \in DOMAIN rows
          /\ LET e == rows[b.episode]
             IN e.status = "OK" /\ e.version = a.version /\ InRange(a.date, e)
    BY <1>2 DEF IsBridge
  <2> QED BY <1>1, <1>6, <2>1 DEF AreAssigned
<1>11. \A b, c \in new.bridge : ~(b # c /\ b.vehicle = c.vehicle)
  BY <1>2 DEF IsBridge
<1>12. \A i \in DOMAIN rows : new.episodes[i].vins = VinsOf(new, i)
  BY <1>1, <1>2, <1>6, VinsAgree
<1>13. ~Failures(new, Cardinality(bad))
  <2>1. ~\E i \in DOMAIN new.episodes : E(i).to # NULL /\ E(i).to < E(i).from
    BY <1>5, <1>7
  <2>2. ~\E i, j \in DOMAIN new.episodes :
           /\ i < j /\ E(i).version = E(j).version
           /\ E(i).status = "OK" /\ E(j).status = "OK" /\ RangesOverlap(E(i), E(j))
    BY <1>5, <1>8
  <2>3. ~\E i, j \in DOMAIN new.episodes : i < j /\ E(i).pv = E(j).pv /\ E(i).from = E(j).from
    BY <1>5, <1>8
  <2>4. ~\E b \in new.bridge : \/ E(b.episode).status = "SOURCE_CONFLICT"
                               \/ ~InRange(b.date, E(b.episode))
                               \/ b.version # E(b.episode).version
    <3>1. "OK" # "SOURCE_CONFLICT"
      OBVIOUS
    <3> QED BY <1>10, <3>1
  <2>5. ~\E i \in DOMAIN new.episodes : new.episodes[i].vins # VinsOf(new, i)
    BY <1>5, <1>12
  <2>6. PICK conflicts : conflicts = Cardinality(bad)
    OBVIOUS
  <2>7. Failures(new, conflicts) <=>
          \/ \E i \in DOMAIN new.episodes : E(i).to # NULL /\ E(i).to < E(i).from
          \/ \E i, j \in DOMAIN new.episodes :
               /\ i < j /\ E(i).version = E(j).version
               /\ E(i).status = "OK" /\ E(j).status = "OK" /\ RangesOverlap(E(i), E(j))
          \/ \E i, j \in DOMAIN new.episodes : i < j /\ E(i).pv = E(j).pv /\ E(i).from = E(j).from
          \/ Cardinality(places) # conflicts
          \/ \E b \in new.bridge : \/ E(b.episode).status = "SOURCE_CONFLICT"
                                  \/ ~InRange(b.date, E(b.episode))
                                  \/ b.version # E(b.episode).version
          \/ \E b, c \in new.bridge : b # c /\ b.vehicle = c.vehicle
          \/ \E i \in DOMAIN new.episodes : new.episodes[i].vins # VinsOf(new, i)
    BY ZenonT(30) DEF Failures
  <2> HIDE DEF bad, places
  <2>8. Cardinality(places) = conflicts
    BY <1>9, <2>6
  <2>9. ~Failures(new, conflicts)
    BY <1>11, <2>1, <2>2, <2>3, <2>4, <2>5, <2>7, <2>8, ZenonT(30)
  <2> QED BY <2>6, <2>9
<1>14. VinsAreInside(new.episodes)
  <2>1. SUFFICES ASSUME NEW i \in DOMAIN rows
                 PROVE  /\ E(i).from \in Nat /\ (E(i).to = NULL \/ E(i).to \in Int)
                        /\ new.episodes[i].vins.count # 0 =>
                             /\ InRange(new.episodes[i].vins.first, E(i))
                             /\ InRange(new.episodes[i].vins.last, E(i))
    BY <1>5 DEF VinsAreInside
  <2>2. E(i).from \in Nat /\ (E(i).to = NULL \/ E(i).to \in Int)
    BY <1>6 DEF AreEpisodes
  <2> QED BY <1>1, <1>6, <2>2, VinsInside
<1>15. DatesAreNumbers(new.bridge)
  BY <1>2, <1>10 DEF IsBridge, DatesAreNumbers
<1>16. \A e \in episodes : \E i \in DOMAIN new.episodes : E(i) = e
  BY <1>3, <1>5, <1>6
<1> QED BY <1>13, <1>14, <1>15, <1>16 DEF new, assignments

-----------------------------------------------------------------------------
(* The invariant holds.                                                    *)

LEMMA InitPrices == Init => PricesInv
<1> SUFFICES ASSUME Init PROVE PricesInv
  OBVIOUS
<1>1. PICK s \in Scenarios :
        /\ lists = s.lists /\ versions = s.stored.versions /\ history = s.stored.history
        /\ staging = [i \in Imports |-> <<>>]
        /\ pc = [r \in Requests |-> "idle"] /\ work = [r \in Runs |-> Nothing]
        /\ table = s.table
        /\ read = [r \in Canonicalizers \cup Reports |-> NothingRead]
        /\ since = [c \in Canonicalizers |-> {}] /\ alone = [c \in Canonicalizers |-> TRUE]
  BY DEF Init
<1>2. /\ lists \in Seq(ToSet(lists))
      /\ \A record \in ToSet(lists) : record.from \in Nat /\ record.tuple # NULL
      /\ StoredIsSound(s.stored, lists) /\ TableIsSound(table)
  BY <1>1, PricesAssumption
<1>3. TablesInv
  <2>1. \A n \in DOMAIN lists : lists[n] \in ToSet(lists)
    BY <1>2, ToSetIs
  <2>2. \A i \in DOMAIN versions : versions[i] \in ToSet(versions)
    BY <1>1, <1>2, ToSetIs DEF StoredIsSound
  <2>3. AreVersions(versions, lists)
    BY <1>1, <1>2, <2>2 DEF StoredIsSound, AreVersions
  <2>4. IsHistory(history) /\ \A h \in history : h.pv \in DOMAIN versions
    BY <1>1, <1>2 DEF StoredIsSound, IsHistory
  <2> QED BY <1>2, <2>1, <2>3, <2>4 DEF TablesInv
<1>4. RunShapes /\ ReadShapes
  BY <1>1, NothingIs DEF RunShapes, ReadShapes, NothingRead
<1>5. ImportInv
  <2>1. StagingInv
    BY <1>1, NothingIs DEF StagingInv
  <2>2. SUFFICES ASSUME NEW r \in Runs PROVE RunOK(r)
    BY <2>1 DEF ImportInv
  <2>3. pc[r] = "idle" /\ work[r] = Nothing
    BY <1>1 DEF Requests
  <2>4. CarriedInv(r)
    BY <2>3, NothingIs DEF CarriedInv
  <2>5. RunInv(r) /\ KeysInv(r) /\ StagedInv(r)
    BY <2>3, NothingIs DEF RunInv, KeysInv, StagedInv, Running, Storing
  <2> QED BY <2>3, <2>4, <2>5 DEF RunOK
<1>6. EpisodesInv
  <2>1. VinsAreInside(table.episodes) /\ DatesAreNumbers(table.bridge)
    BY <1>2 DEF TableIsSound, VinsAreInside, DatesAreNumbers
  <2>2. ASSUME NEW c \in Canonicalizers PROVE ReadInv(c) /\ AloneInv(c)
    <3>1. /\ pc[c] = "idle" /\ read[c].versions = Unread /\ read[c].history = Unread
          /\ since[c] = {}
      BY <1>1 DEF Requests, NothingRead
    <3> QED BY <3>1 DEF ReadInv, AloneInv, Running
  <2>3. ASSUME NEW p \in Reports PROVE ReportInv(p)
    <3>1. pc[p] = "idle" /\ read[p].episodes = Unread /\ read[p].bridge = Unread
      BY <1>1 DEF Requests, NothingRead
    <3> QED BY <3>1 DEF ReportInv
  <2> QED BY <2>1, <2>2, <2>3 DEF EpisodesInv
<1> QED BY <1>3, <1>4, <1>5, <1>6 DEF PricesInv

\* What takes no part in a step stays as it was.
LEMMA ReportStays ==
  ASSUME NEW p \in Reports, ReportInv(p), pc'[p] = pc[p], read'[p] = read[p]
  PROVE  ReportInv(p)'
<1>1. Scoped(p)' = Scoped(p)
  BY DEF Scoped
<1> QED BY <1>1 DEF ReportInv

LEMMA ReadStays ==
  ASSUME NEW c \in Canonicalizers, ReadInv(c), Grown, pc'[c] = pc[c], read'[c] = read[c],
         since'[c] = since[c]
  PROVE  ReadInv(c)'
<1>1. /\ since[c] \subseteq history
      /\ read[c].versions # Unread => /\ DOMAIN read[c].versions \subseteq DOMAIN versions
                                      /\ \A i \in DOMAIN read[c].versions :
                                           read[c].versions[i].key = versions[i].key
                                      /\ \A h \in since[c] : h.pv \in DOMAIN read[c].versions
      /\ read[c].history # Unread => IsHistory(read[c].history) /\ since[c] \subseteq read[c].history
      /\ pc[c] = "idle" => read[c].versions = Unread /\ read[c].history = Unread
      /\ pc[c] \in {"persist", "audit"} => read[c].versions # Unread /\ read[c].history # Unread
  BY DEF ReadInv
<1>2. since[c] \subseteq history'
  BY <1>1 DEF Grown
<1>3. read[c].versions # Unread => /\ DOMAIN read[c].versions \subseteq DOMAIN versions'
                                   /\ \A i \in DOMAIN read[c].versions :
                                        read[c].versions[i].key = versions'[i].key
  BY <1>1 DEF Grown
<1> QED BY <1>1, <1>2, <1>3 DEF ReadInv

\* An import does not disturb a canonicalization or a report.
LEMMA ImportKeeps ==
  ASSUME PricesInv, NEW r \in Runs, Import(r), UNCHANGED importOnly
  PROVE  PricesInv'
<1>1. StepOf(r)
  BY ImportStep
<1>2. ImportInv'
  BY <1>1, OthersGoOn
<1>3. RunShapes' /\ TablesInv' /\ Grown
  BY <1>1 DEF StepOf
<1>4. ReadShapes'
  BY DEF PricesInv, ReadShapes, importOnly
<1>5. \A q \in Canonicalizers \cup Reports : pc'[q] = pc[q]
  BY <1>1, PricesAssumption DEF StepOf, Requests
<1>6. ASSUME NEW c \in Canonicalizers PROVE ReadInv(c)'
  BY <1>3, <1>5, ReadStays DEF PricesInv, EpisodesInv, importOnly
<1>7. ASSUME NEW c \in Canonicalizers PROVE AloneInv(c)'
  <2>1. Episodes(c)' = Episodes(c) /\ Written(c)' = Written(c)
    BY DEF Episodes, Written, importOnly
  <2>2. \A d \in Canonicalizers : Running(d)' <=> Running(d)
    BY <1>5 DEF Running
  <2>3. AloneInv(c)
    BY DEF PricesInv, EpisodesInv
  <2> QED BY <1>5, <2>1, <2>2, <2>3 DEF AloneInv, importOnly
<1>8. ASSUME NEW p \in Reports PROVE ReportInv(p)'
  BY <1>5, ReportStays DEF PricesInv, EpisodesInv, importOnly
<1>9. EpisodesInv'
  BY <1>6, <1>7, <1>8 DEF PricesInv, EpisodesInv, importOnly
<1> QED BY <1>2, <1>3, <1>4, <1>9 DEF PricesInv

\* Nor do they disturb an import.
OnlyAside(q) ==
  /\ UNCHANGED <<lists, staging, versions, history, work>>
  /\ DOMAIN pc' = DOMAIN pc /\ \A o \in Requests \ {q} : pc'[o] = pc[o]

LEMMA AsideKeeps ==
  ASSUME PricesInv, NEW q \in Canonicalizers \cup Reports, OnlyAside(q)
  PROVE  RunShapes' /\ TablesInv' /\ ImportInv' /\ Grown
<1>1. RunShapes' /\ TablesInv' /\ Grown
  BY DEF PricesInv, RunShapes, TablesInv, OnlyAside, Grown
<1>2. \A r \in Runs : pc'[r] = pc[r]
  BY PricesAssumption DEF OnlyAside, Requests
<1>3. StagingInv'
  BY DEF PricesInv, ImportInv, StagingInv, OnlyAside
<1>4. SUFFICES ASSUME NEW r \in Runs PROVE RunOK(r)'
  BY <1>1, <1>3 DEF ImportInv
<1>5. RunOK(r)
  BY DEF PricesInv, ImportInv
<1>6. CarriedInv(r)'
  BY <1>2, <1>5 DEF RunOK, CarriedInv, OnlyAside
<1>7. RunInv(r)'
  BY <1>2, <1>5 DEF RunOK, RunInv, Running, OnlyAside, Runs
<1>8. KeysInv(r)'
  BY <1>2, <1>5 DEF RunOK, KeysInv, Known, Record, Item, OnlyAside
<1>9. StagedInv(r)'
  BY <1>2, <1>5 DEF RunOK, StagedInv, InHistory, OnlyAside
<1> QED BY <1>2, <1>5, <1>6, <1>7, <1>8, <1>9 DEF RunOK

\* A step of a canonicalization leaves the others and the reports as they were.
OnlyCanonical(c) ==
  /\ OnlyAside(c) /\ ReadShapes'
  /\ \A o \in (Canonicalizers \cup Reports) \ {c} : read'[o] = read[o]
  /\ \A d \in Canonicalizers \ {c} : since'[d] = since[d]

LEMMA CanonicalKeeps ==
  ASSUME PricesInv, NEW c \in Canonicalizers, OnlyCanonical(c),
         ReadInv(c)', \A d \in Canonicalizers : AloneInv(d)',
         VinsAreInside(table'.episodes), DatesAreNumbers(table'.bridge)
  PROVE  PricesInv'
<1>1. RunShapes' /\ TablesInv' /\ ImportInv' /\ Grown
  BY AsideKeeps DEF OnlyCanonical
<1>2. \A o \in (Canonicalizers \cup Reports) \ {c} : pc'[o] = pc[o] /\ read'[o] = read[o]
  BY DEF OnlyCanonical, OnlyAside, Requests
<1>3. ASSUME NEW d \in Canonicalizers, d # c PROVE ReadInv(d)'
  BY <1>1, <1>2, <1>3, ReadStays DEF PricesInv, EpisodesInv, OnlyCanonical
<1>4. ASSUME NEW p \in Reports PROVE ReportInv(p)'
  <2>1. p # c
    BY PricesAssumption
  <2> QED BY <1>2, <2>1, ReportStays DEF PricesInv, EpisodesInv
<1>5. EpisodesInv'
  BY <1>3, <1>4 DEF EpisodesInv
<1> QED BY <1>1, <1>5 DEF PricesInv, OnlyCanonical

\* Those that ran alone still do when one of the others ends, or goes on without publishing.
LEMMA AloneStays ==
  ASSUME PricesInv, NEW c \in Canonicalizers, OnlyCanonical(c), UNCHANGED <<table, alone>>,
         Running(c), NEW d \in Canonicalizers, d # c
  PROVE  AloneInv(d)'
<1>1. AloneInv(d) /\ pc'[d] = pc[d] /\ read'[d] = read[d]
  BY DEF PricesInv, EpisodesInv, OnlyCanonical, OnlyAside, Requests
<1>2. ~(alone[d] /\ Running(d))
  BY <1>1 DEF AloneInv
<1>3. ~(alone'[d] /\ Running(d)')
  BY <1>1, <1>2 DEF Running
<1>4. pc[d] = "audit" => Running(d)
  BY DEF Running, Ended
<1> QED BY <1>1, <1>2, <1>3, <1>4 DEF AloneInv

LEMMA BeginCanonicalKeeps ==
  ASSUME PricesInv, NEW c \in Canonicalizers, BeginCanonical(c)
  PROVE  PricesInv'
<1>1. /\ pc[c] = "idle" /\ pc' = [pc EXCEPT ![c] = "load"]
      /\ since' = [since EXCEPT ![c] = history]
      /\ alone' = [d \in Canonicalizers |->
           IF d = c THEN \A e \in Canonicalizers \ {c} : ~Running(e) ELSE alone[d] /\ ~Running(d)]
      /\ UNCHANGED <<lists, staging, versions, history, work, active, table, read>>
  BY DEF BeginCanonical, Goto
<1>2. DOMAIN pc = Requests /\ DOMAIN since = Canonicalizers /\ c \in Requests
  BY DEF PricesInv, RunShapes, ReadShapes, Requests
<1>3. OnlyCanonical(c)
  BY <1>1, <1>2 DEF OnlyCanonical, OnlyAside, PricesInv, ReadShapes
<1>4. pc'[c] = "load" /\ since'[c] = history
  BY <1>1, <1>2
<1>5. read[c].versions = Unread /\ read[c].history = Unread
  BY <1>1 DEF PricesInv, EpisodesInv, ReadInv
<1>6. ReadInv(c)'
  BY <1>1, <1>4, <1>5 DEF ReadInv
<1>7. \A d \in Canonicalizers : d # c => (Running(d)' <=> Running(d)) /\ pc'[d] = pc[d]
  BY <1>1 DEF Running
<1>8. AloneInv(c)'
  BY <1>1, <1>4, <1>7 DEF AloneInv
<1>9. ASSUME NEW d \in Canonicalizers, d # c PROVE AloneInv(d)'
  <2>1. AloneInv(d) /\ pc'[d] = pc[d]
    BY <1>1, <1>9 DEF PricesInv, EpisodesInv
  <2>1a. alone'[d] = (alone[d] /\ ~Running(d))
    <3> HIDE DEF Running
    <3> QED BY <1>1, <1>9, Zenon
  <2>2. pc[d] = "audit" => Running(d)
    BY DEF Running, Ended
  <2> QED BY <1>7, <1>9, <2>1, <2>1a, <2>2 DEF AloneInv
<1> QED BY <1>1, <1>3, <1>6, <1>8, <1>9, CanonicalKeeps DEF PricesInv, EpisodesInv

LEMMA LoadVersionsKeeps ==
  ASSUME PricesInv, NEW c \in Canonicalizers, LoadVersions(c)
  PROVE  PricesInv'
<1>1. /\ pc[c] = "load" /\ read' = [read EXCEPT ![c].versions = versions]
      /\ UNCHANGED <<lists, staging, versions, history, pc, work, active, table, since, alone>>
  BY DEF LoadVersions, importVars
<1>2. /\ DOMAIN read = Canonicalizers \cup Reports
      /\ DOMAIN read[c] = {"versions", "history", "episodes", "bridge"}
  BY DEF PricesInv, ReadShapes
<1>3. /\ read'[c].versions = versions /\ read'[c].history = read[c].history
      /\ DOMAIN read'[c] = DOMAIN read[c] /\ DOMAIN read' = DOMAIN read
      /\ \A o \in (Canonicalizers \cup Reports) \ {c} : read'[o] = read[o]
  BY <1>1, <1>2
<1>4. OnlyCanonical(c)
  BY <1>1, <1>2, <1>3 DEF OnlyCanonical, OnlyAside, PricesInv, ReadShapes
<1>5. ReadInv(c)'
  <2>1. ReadInv(c) /\ \A h \in history : h.pv \in DOMAIN versions
    BY DEF PricesInv, EpisodesInv, TablesInv
  <2>2. \A h \in since[c] : h.pv \in DOMAIN versions
    BY <2>1 DEF ReadInv
  <2> QED BY <1>1, <1>3, <2>1, <2>2 DEF ReadInv
<1>6. AloneInv(c)'
  BY <1>1 DEF PricesInv, EpisodesInv, AloneInv, Running
<1>7. Running(c)
  BY <1>1 DEF Running, Ended
<1> QED BY <1>1, <1>4, <1>5, <1>6, <1>7, AloneStays, CanonicalKeeps DEF PricesInv, EpisodesInv

LEMMA LoadHistoryKeeps ==
  ASSUME PricesInv, NEW c \in Canonicalizers, LoadHistory(c)
  PROVE  PricesInv'
<1>1. /\ pc[c] = "load" /\ read' = [read EXCEPT ![c].history = history]
      /\ UNCHANGED <<lists, staging, versions, history, pc, work, active, table, since, alone>>
  BY DEF LoadHistory, importVars
<1>2. /\ DOMAIN read = Canonicalizers \cup Reports
      /\ DOMAIN read[c] = {"versions", "history", "episodes", "bridge"}
  BY DEF PricesInv, ReadShapes
<1>3. /\ read'[c].history = history /\ read'[c].versions = read[c].versions
      /\ DOMAIN read'[c] = DOMAIN read[c] /\ DOMAIN read' = DOMAIN read
      /\ \A o \in (Canonicalizers \cup Reports) \ {c} : read'[o] = read[o]
  BY <1>1, <1>2
<1>4. OnlyCanonical(c)
  BY <1>1, <1>2, <1>3 DEF OnlyCanonical, OnlyAside, PricesInv, ReadShapes
<1>5. ReadInv(c)'
  <2>1. ReadInv(c) /\ IsHistory(history)
    BY DEF PricesInv, EpisodesInv, TablesInv
  <2> QED BY <1>1, <1>3, <2>1 DEF ReadInv
<1>6. AloneInv(c)'
  BY <1>1 DEF PricesInv, EpisodesInv, AloneInv, Running
<1>7. Running(c)
  BY <1>1 DEF Running, Ended
<1> QED BY <1>1, <1>4, <1>5, <1>6, <1>7, AloneStays, CanonicalKeeps DEF PricesInv, EpisodesInv

\* What is published of what was read passes the checks.
LEMMA WrittenIs ==
  ASSUME PricesInv, NEW c \in Canonicalizers, read[c].versions # Unread, read[c].history # Unread
  PROVE  /\ ~Failures(Written(c), ExpectedConflicts(c))
         /\ VinsAreInside(Written(c).episodes) /\ DatesAreNumbers(Written(c).bridge)
         /\ \A e \in Episodes(c) : \E i \in DOMAIN Written(c).episodes : Written(c).episodes[i].episode = e
<1>1. DOMAIN read[c].versions \subseteq DOMAIN versions /\ IsHistory(read[c].history)
  BY DEF PricesInv, EpisodesInv, ReadInv
<1>2. DOMAIN versions = 1 .. Len(versions) /\ Len(versions) \in Nat
  BY DEF PricesInv, TablesInv, AreVersions
<1>3. AreEpisodes(Episodes(c))
  BY <1>1, <1>2, BuiltAreEpisodes DEF Episodes
<1> QED BY <1>3, PersistedIs DEF Written, ExpectedConflicts

LEMMA PersistKeeps ==
  ASSUME PricesInv, NEW c \in Canonicalizers, Persist(c)
  PROVE  PricesInv'
<1>1. /\ pc[c] \in {"load", "persist"} /\ read[c].versions # Unread /\ read[c].history # Unread
      /\ Ambiguous(Vehicles, Episodes(c)) = {}
      /\ UNCHANGED <<lists, staging, versions, history, work, active, read, since, alone>>
  <2>1. pc[c] = "persist" => read[c].versions # Unread /\ read[c].history # Unread
    BY DEF PricesInv, EpisodesInv, ReadInv
  <2> QED BY <2>1 DEF Persist, Loaded
<1>2. /\ ~Failures(Written(c), ExpectedConflicts(c))
      /\ VinsAreInside(Written(c).episodes) /\ DatesAreNumbers(Written(c).bridge)
  BY <1>1, WrittenIs
<1>3. table' = Written(c) /\ (pc' = [pc EXCEPT ![c] = "persist"] \/ pc' = [pc EXCEPT ![c] = "audit"])
  BY <1>2 DEF Persist, Written, Answered, Goto
<1>4. DOMAIN pc = Requests /\ c \in Requests
  BY DEF PricesInv, RunShapes, Requests
<1>5. pc'[c] \in {"persist", "audit"} /\ DOMAIN pc' = DOMAIN pc
      /\ \A o \in Requests \ {c} : pc'[o] = pc[o]
  BY <1>3, <1>4
<1>6. OnlyCanonical(c)
  BY <1>1, <1>5 DEF OnlyCanonical, OnlyAside, PricesInv, ReadShapes
<1>7. ReadInv(c)'
  BY <1>1, <1>5 DEF PricesInv, EpisodesInv, ReadInv
<1>8. Running(c) /\ \A d \in Canonicalizers : d # c => (Running(d)' <=> Running(d)) /\ pc'[d] = pc[d]
  BY <1>1, <1>5 DEF Running, Ended, Requests
<1>9. AloneInv(c)'
  <2>1. Episodes(c)' = Episodes(c) /\ Written(c)' = Written(c)
    BY <1>1 DEF Episodes, Written
  <2> QED BY <1>1, <1>3, <1>5, <1>8, <2>1 DEF PricesInv, EpisodesInv, AloneInv
<1>10. ASSUME NEW d \in Canonicalizers, d # c PROVE AloneInv(d)'
  <2>1. AloneInv(d) /\ pc'[d] = pc[d] /\ alone'[d] = alone[d]
    BY <1>1, <1>8, <1>10 DEF PricesInv, EpisodesInv
  <2>2. ~(alone[d] /\ Running(d))
    BY <1>8, <1>10, <2>1 DEF AloneInv
  <2>3. pc[d] = "audit" => Running(d)
    BY DEF Running, Ended
  <2> QED BY <1>8, <1>10, <2>1, <2>2, <2>3 DEF AloneInv
<1> QED BY <1>2, <1>3, <1>6, <1>7, <1>9, <1>10, CanonicalKeeps

LEMMA BlockKeeps ==
  ASSUME PricesInv, NEW c \in Canonicalizers, Block(c)
  PROVE  PricesInv'
<1>1. /\ pc[c] = "load" /\ pc' = [pc EXCEPT ![c] = "blocked"]
      /\ UNCHANGED <<lists, staging, versions, history, work, active, table, read, since, alone>>
  BY DEF Block, Loaded, Goto, importOnly
<1>2. /\ pc'[c] = "blocked" /\ DOMAIN pc' = DOMAIN pc /\ \A o \in Requests \ {c} : pc'[o] = pc[o]
  BY <1>1 DEF PricesInv, RunShapes, Requests
<1>3. OnlyCanonical(c)
  BY <1>1, <1>2 DEF OnlyCanonical, OnlyAside, PricesInv, ReadShapes
<1>4. ReadInv(c)'
  BY <1>1, <1>2 DEF PricesInv, EpisodesInv, ReadInv
<1>5. Running(c) /\ ~Running(c)'
  BY <1>1, <1>2 DEF Running, Ended
<1>6. AloneInv(c)'
  BY <1>2, <1>5 DEF AloneInv
<1> QED BY <1>1, <1>3, <1>4, <1>5, <1>6, AloneStays, CanonicalKeeps DEF PricesInv, EpisodesInv

LEMMA PostAuditKeeps ==
  ASSUME PricesInv, NEW c \in Canonicalizers, PostAudit(c)
  PROVE  PricesInv'
<1>1. /\ pc[c] = "audit"
      /\ pc' = [pc EXCEPT ![c] = IF Failures(table, ExpectedConflicts(c)) THEN "rejected" ELSE "done"]
      /\ UNCHANGED <<lists, staging, versions, history, work, active, table, read, since, alone>>
  BY DEF PostAudit, Goto, importOnly
<1>2. /\ pc'[c] = IF Failures(table, ExpectedConflicts(c)) THEN "rejected" ELSE "done"
      /\ DOMAIN pc' = DOMAIN pc /\ \A o \in Requests \ {c} : pc'[o] = pc[o]
  BY <1>1 DEF PricesInv, RunShapes, Requests
<1>3. OnlyCanonical(c)
  BY <1>1, <1>2 DEF OnlyCanonical, OnlyAside, PricesInv, ReadShapes
<1>4. ReadInv(c)'
  BY <1>1, <1>2 DEF PricesInv, EpisodesInv, ReadInv
<1>5. Running(c) /\ ~Running(c)'
  BY <1>1, <1>2 DEF Running, Ended
<1>6. AloneInv(c)'
  <2>1. AloneInv(c) /\ read[c].versions # Unread /\ read[c].history # Unread
    BY <1>1 DEF PricesInv, EpisodesInv, ReadInv
  <2>2. alone[c] => ~Failures(table, ExpectedConflicts(c))
    BY <1>1, <2>1, WrittenIs DEF AloneInv
  <2>3. pc'[c] \in {"rejected", "done"} /\ (pc'[c] = "rejected" => ~alone'[c])
    BY <1>1, <1>2, <2>2
  <2> QED BY <1>5, <2>3 DEF AloneInv
<1> QED BY <1>1, <1>3, <1>4, <1>5, <1>6, AloneStays, CanonicalKeeps DEF PricesInv, EpisodesInv

\* A report leaves everything else as it was.
OnlyReport(p) ==
  /\ OnlyAside(p) /\ UNCHANGED <<table, since, alone>> /\ ReadShapes'
  /\ \A o \in (Canonicalizers \cup Reports) \ {p} : read'[o] = read[o]

LEMMA ReportKeeps ==
  ASSUME PricesInv, NEW p \in Reports, OnlyReport(p), ReportInv(p)'
  PROVE  PricesInv'
<1>1. RunShapes' /\ TablesInv' /\ ImportInv' /\ Grown
  BY AsideKeeps DEF OnlyReport
<1>2. \A o \in (Canonicalizers \cup Reports) \ {p} : pc'[o] = pc[o] /\ read'[o] = read[o]
  BY DEF OnlyReport, OnlyAside, Requests
<1>3. \A c \in Canonicalizers : c # p /\ pc'[c] = pc[c] /\ read'[c] = read[c]
  BY <1>2, PricesAssumption
<1>4. ASSUME NEW c \in Canonicalizers PROVE ReadInv(c)'
  BY <1>1, <1>3, ReadStays DEF PricesInv, EpisodesInv, OnlyReport
<1>5. ASSUME NEW c \in Canonicalizers PROVE AloneInv(c)'
  <2>1. Episodes(c)' = Episodes(c) /\ Written(c)' = Written(c)
    BY <1>3 DEF Episodes, Written
  <2>2. \A d \in Canonicalizers : Running(d)' <=> Running(d)
    BY <1>3 DEF Running
  <2>3. AloneInv(c)
    BY DEF PricesInv, EpisodesInv
  <2> QED BY <1>3, <2>1, <2>2, <2>3 DEF AloneInv, OnlyReport
<1>6. ASSUME NEW o \in Reports, o # p PROVE ReportInv(o)'
  BY <1>2, <1>6, ReportStays DEF PricesInv, EpisodesInv
<1>7. EpisodesInv'
  BY <1>4, <1>5, <1>6 DEF PricesInv, EpisodesInv, OnlyReport
<1> QED BY <1>1, <1>7 DEF PricesInv, OnlyReport

LEMMA ReportStep ==
  ASSUME PricesInv, NEW p \in Reports, Report(p)
  PROVE  PricesInv'
<1>1. /\ DOMAIN read = Canonicalizers \cup Reports /\ DOMAIN pc = Requests /\ p \in Requests
      /\ DOMAIN read[p] = {"versions", "history", "episodes", "bridge"}
      /\ VinsAreInside(table.episodes) /\ DatesAreNumbers(table.bridge) /\ ReportInv(p)
  BY DEF PricesInv, RunShapes, ReadShapes, EpisodesInv, Requests
<1>2. CASE ReadEpisodes(p)
  <2>1. /\ pc[p] = "idle" /\ read' = [read EXCEPT ![p].episodes = table.episodes]
        /\ UNCHANGED <<lists, staging, versions, history, pc, work, active, table, since, alone>>
    BY <1>2 DEF ReadEpisodes, importVars
  <2>2. /\ read'[p].episodes = table.episodes /\ read'[p].bridge = read[p].bridge
        /\ DOMAIN read'[p] = DOMAIN read[p] /\ DOMAIN read' = DOMAIN read
        /\ \A o \in (Canonicalizers \cup Reports) \ {p} : read'[o] = read[o]
    BY <1>1, <2>1
  <2>3. OnlyReport(p)
    BY <1>1, <2>1, <2>2 DEF OnlyReport, OnlyAside, PricesInv, ReadShapes
  <2>4. ReportInv(p)'
    BY <1>1, <2>1, <2>2 DEF ReportInv
  <2> QED BY <2>3, <2>4, ReportKeeps
<1>3. CASE ReadBridge(p)
  <2> DEFINE rows == {b \in table.bridge : b.version = ReportVersion}
  <2>1. /\ pc[p] = "idle" /\ read' = [read EXCEPT ![p].bridge = rows]
        /\ UNCHANGED <<lists, staging, versions, history, pc, work, active, table, since, alone>>
    BY <1>3 DEF ReadBridge, importVars
  <2>2. DatesAreNumbers(rows)
    BY <1>1, FS_Subset DEF DatesAreNumbers
  <2> HIDE DEF rows
  <2>3. /\ read'[p].bridge = rows /\ read'[p].episodes = read[p].episodes
        /\ DOMAIN read'[p] = DOMAIN read[p] /\ DOMAIN read' = DOMAIN read
        /\ \A o \in (Canonicalizers \cup Reports) \ {p} : read'[o] = read[o]
    BY <1>1, <2>1
  <2>4. OnlyReport(p)
    BY <1>1, <2>1, <2>3 DEF OnlyReport, OnlyAside, PricesInv, ReadShapes
  <2>5. ReportInv(p)'
    BY <1>1, <2>1, <2>2, <2>3 DEF ReportInv
  <2> QED BY <2>4, <2>5, ReportKeeps
<1>4. CASE BuildReport(p)
  <2> DEFINE both == [episodes |-> read[p].episodes, bridge |-> read[p].bridge]
             agree == \A i \in Scoped(p) : Reconciles(both, read[p].bridge, i)
  <2>1. /\ read[p].episodes # Unread /\ read[p].bridge # Unread
        /\ pc' = [pc EXCEPT ![p] = IF agree THEN "done" ELSE "failed"]
        /\ UNCHANGED <<lists, staging, versions, history, work, active, table, read, since, alone>>
    BY <1>4 DEF BuildReport, Goto, importOnly
  <2>2. /\ pc'[p] = "done" => agree
        /\ DOMAIN pc' = DOMAIN pc /\ \A o \in Requests \ {p} : pc'[o] = pc[o]
    <3> HIDE DEF agree
    <3> QED BY <1>1, <2>1
  <2>3. OnlyReport(p)
    BY <1>1, <2>1, <2>2 DEF OnlyReport, OnlyAside, PricesInv, ReadShapes
  <2>4. Scoped(p)' = Scoped(p)
    BY <2>1 DEF Scoped
  <2>5. ReportInv(p)'
    BY <1>1, <2>1, <2>2, <2>4 DEF ReportInv
  <2> QED BY <2>3, <2>5, ReportKeeps
<1> QED BY <1>2, <1>3, <1>4 DEF Report

LEMMA StutterKeeps ==
  ASSUME PricesInv, UNCHANGED vars
  PROVE  PricesInv'
<1> USE DEF vars, importVars
<1>1. RunShapes' /\ ReadShapes' /\ TablesInv'
  BY DEF PricesInv, RunShapes, ReadShapes, TablesInv
<1>2. ImportInv'
  <2>1. ASSUME NEW r \in Runs PROVE RunOK(r)'
    <3>1. RunOK(r)
      BY DEF PricesInv, ImportInv
    <3>2. CarriedInv(r)' /\ RunInv(r)' /\ KeysInv(r)' /\ StagedInv(r)'
      BY <3>1 DEF RunOK, CarriedInv, RunInv, Running, KeysInv, Known, Record, Item, StagedInv,
                  InHistory
    <3> QED BY <3>1, <3>2 DEF RunOK
  <2> QED BY <2>1 DEF PricesInv, ImportInv, StagingInv
<1>3. EpisodesInv'
  <2>1. ASSUME NEW c \in Canonicalizers PROVE ReadInv(c)' /\ AloneInv(c)'
    <3>1. ReadInv(c) /\ AloneInv(c) /\ Episodes(c)' = Episodes(c)
      BY DEF PricesInv, EpisodesInv, Episodes
    <3>2. Written(c)' = Written(c)
      BY <3>1 DEF Written
    <3> QED BY <3>1, <3>2 DEF ReadInv, AloneInv, Running
  <2>2. ASSUME NEW p \in Reports PROVE ReportInv(p)'
    BY ReportStays DEF PricesInv, EpisodesInv
  <2> QED BY <2>1, <2>2 DEF PricesInv, EpisodesInv
<1> QED BY <1>1, <1>2, <1>3 DEF PricesInv

\* The inductive invariant, for any lists, requests, vehicles, tables before and retries.
THEOREM AlwaysPrices == Spec => []PricesInv
<1>1. Init => PricesInv
  BY InitPrices
<1>2. PricesInv /\ [Next]_vars => PricesInv'
  <2> SUFFICES ASSUME PricesInv, [Next]_vars PROVE PricesInv'
    OBVIOUS
  <2>1. ASSUME NEW r \in Runs, Import(r), UNCHANGED importOnly PROVE PricesInv'
    BY <2>1, ImportKeeps
  <2>2. ASSUME NEW c \in Canonicalizers, Canonicalize(c) PROVE PricesInv'
    BY <2>2, BeginCanonicalKeeps, LoadVersionsKeeps, LoadHistoryKeeps, BlockKeeps, PersistKeeps,
       PostAuditKeeps DEF Canonicalize
  <2>3. ASSUME NEW p \in Reports, Report(p) PROVE PricesInv'
    BY <2>3, ReportStep
  <2>4. CASE UNCHANGED vars
    BY <2>4, StutterKeeps
  <2> QED BY <2>1, <2>2, <2>3, <2>4 DEF Next
<1> QED BY <1>1, <1>2, PTL DEF Spec

-----------------------------------------------------------------------------
(* The properties.                                                         *)

\* A version that is called complete has every field that some record of it requires, whoever wrote it
\* last, and, if its records agree with it on whether it is electric, every field its own row requires
\* (requiredFingerprintFields, fingerprintStatus, getPriceVersionId, mergeVersionCandidates).
THEOREM AlwaysCompleteIsKnown == Spec => []CompleteIsKnown
<1>1. ASSUME PricesInv PROVE CompleteIsKnown
  <2>1. SUFFICES ASSUME NEW i \in DOMAIN versions, versions[i].status = "complete"
                 PROVE  /\ IsKnown(versions[i], lists)
                        /\ (\A n \in DOMAIN lists : lists[n].key = versions[i].key =>
                              (Electric(lists[n]) = Electric(versions[i]))) =>
                             \A f \in RequiredFingerprintFields(versions[i]) : versions[i].fp[f] # NULL
    BY DEF CompleteIsKnown
  <2>2. PICK n \in DOMAIN lists :
          /\ lists[n].key = versions[i].key
          /\ RequiredFingerprintFields(lists[n]) \subseteq {f \in Fields : versions[i].fp[f] # NULL}
    BY <1>1, <2>1 DEF PricesInv, TablesInv, AreVersions, IsKnown
  <2>3. (Electric(lists[n]) = Electric(versions[i])) =>
          RequiredFingerprintFields(lists[n]) = RequiredFingerprintFields(versions[i])
    BY DEF RequiredFingerprintFields
  <2>4. IsKnown(versions[i], lists)
    BY <2>2 DEF IsKnown
  <2> QED BY <2>2, <2>3, <2>4
<1> QED BY <1>1, AlwaysPrices, PTL

\* Staging is only deleted once what it held is in the history, and an import never overwrites a
\* field that is known nor forgets a conflict, however often its statements are sent, its run
\* resumed or another run with it.
THEOREM AlwaysImportsLoseNothing == Spec => ImportsLoseNothing
<1>1. PricesInv /\ [Next]_vars => [StagingIsLoaded /\ KnownFieldsKept]_vars
  <2> SUFFICES ASSUME PricesInv, Next PROVE StagingIsLoaded /\ KnownFieldsKept
    OBVIOUS
  <2>1. ASSUME NEW r \in Runs, Import(r) PROVE StagingIsLoaded /\ KnownFieldsKept
    BY <2>1, ImportStep DEF StepOf
  <2>2. CASE UNCHANGED <<staging, versions>>
    BY <2>2 DEF StagingIsLoaded, KnownFieldsKept
  <2>3. ASSUME NEW c \in Canonicalizers, Canonicalize(c) PROVE UNCHANGED <<staging, versions>>
    BY <2>3 DEF Canonicalize, BeginCanonical, LoadVersions, LoadHistory, Block, Persist, PostAudit,
                importVars
  <2>4. ASSUME NEW p \in Reports, Report(p) PROVE UNCHANGED <<staging, versions>>
    BY <2>4 DEF Report, ReadEpisodes, ReadBridge, BuildReport, importVars
  <2> QED BY <2>1, <2>2, <2>3, <2>4 DEF Next
<1> QED BY <1>1, AlwaysPrices, PTL DEF Spec, ImportsLoseNothing

\* A date between two of a range is in it.
LEMMA InsideIs ==
  ASSUME NEW S \in SUBSET Nat, IsFiniteSet(S), NEW x \in S, NEW e, InRange(Min(S), e),
         InRange(Max(S), e), e.from \in Nat, e.to = NULL \/ e.to \in Int
  PROVE  InRange(x, e)
<1>1. Min(S) \in S /\ Max(S) \in S /\ Min(S) <= x /\ x <= Max(S)
  BY GreatestIs, LeastIs
<1>2. PICK least, most \in Nat : least = Min(S) /\ most = Max(S)
  BY <1>1
<1>3. least <= x /\ x <= most /\ least >= e.from /\ (e.to = NULL \/ most <= e.to)
  BY <1>1, <1>2 DEF InRange
<1>4. x >= e.from /\ (e.to = NULL \/ x <= e.to)
  BY <1>3
<1> QED BY <1>4 DEF InRange

\* On every date the one episode of a version says what was in force; a canonicalization that runs
\* alone is never refused nor rejected by its own checks; a report that is given counts no vehicle
\* outside the dates of its episode, even one that mixes two publications.
THEOREM AlwaysEpisodesAreSound == Spec => []EpisodesAreSound
<1>1. PricesInv => EpisodesAreSound
  <2> SUFFICES ASSUME PricesInv PROVE EpisodesAreSound
    OBVIOUS
  <2>1. EpisodesAreInForce
    <3> DEFINE dates == {h.from : h \in history} \cup {h.from + 1 : h \in history}
                        \cup {v.date : v \in Vehicles}
    <3>1. SUFFICES ASSUME NEW version \in {m.version : m \in Masters}, NEW date \in dates
                   PROVE  SaidOn(versions, history, version, date)
      BY DEF EpisodesAreInForce, SaidOn
    <3>2. version \in Nat
      BY MastersAssumption
    <3>3. date \in Int
      BY PricesAssumption DEF PricesInv, TablesInv, IsHistory
    <3> QED BY <3>2, <3>3, EpisodeSaysWhatWasInForce DEF PricesInv, TablesInv
  <2>2. OwnChecksPass
    BY DEF OwnChecksPass, PricesInv, EpisodesInv, AloneInv
  <2>3. ReportedInEpisode
    <3>1. SUFFICES ASSUME NEW p \in Reports, pc[p] = "done", NEW b \in read[p].bridge,
                          b.episode \in Scoped(p)
                   PROVE  InRange(b.date, read[p].episodes[b.episode].episode)
      BY DEF ReportedInEpisode
    <3> DEFINE i == b.episode
               row == read[p].episodes[i]
               mine == {d \in read[p].bridge : d.episode = i}
               days == {d.date : d \in mine}
               f == [d \in mine |-> d.date]
    <3>2. /\ VinsAreInside(read[p].episodes) /\ DatesAreNumbers(read[p].bridge)
          /\ Reconciles([episodes |-> read[p].episodes, bridge |-> read[p].bridge], read[p].bridge, i)
      BY <3>1 DEF PricesInv, EpisodesInv, ReportInv
    <3>3. row.vins = Aggregate(days, Cardinality(mine))
      BY <3>2 DEF Reconciles
    <3>4. IsFiniteSet(mine) /\ days \in SUBSET Nat /\ b \in mine /\ b.date \in days
      BY <3>2, FS_Subset DEF DatesAreNumbers
    <3>5. IsFiniteSet(days)
      <4>1. f = [d \in mine |-> f[d]] /\ DOMAIN f = mine /\ days = {f[d] : d \in mine}
        OBVIOUS
      <4> HIDE DEF f, mine, days
      <4> QED BY <3>4, <4>1, ImageIsFinite
    <3>6. Cardinality(mine) # 0
      <4> HIDE DEF mine
      <4> QED BY <3>4, FS_EmptySet
    <3>7. row.vins.count # 0 /\ row.vins.first = Min(days) /\ row.vins.last = Max(days)
      <4>1. days # {}
        BY <3>4
      <4>2. PICK n, least, most : n = Cardinality(mine) /\ least = Min(days) /\ most = Max(days)
        OBVIOUS
      <4> HIDE DEF mine, days
      <4>3. row.vins = [count |-> n, first |-> least, last |-> most]
        BY <3>3, <4>1, <4>2 DEF Aggregate
      <4>4. row.vins.count = n /\ row.vins.first = least /\ row.vins.last = most
        BY <4>3
      <4> QED BY <3>6, <4>2, <4>4
    <3>8. /\ row.episode.from \in Nat /\ (row.episode.to = NULL \/ row.episode.to \in Int)
          /\ InRange(row.vins.first, row.episode) /\ InRange(row.vins.last, row.episode)
      BY <3>1, <3>2, <3>7 DEF VinsAreInside, Scoped
    <3> HIDE DEF days
    <3> QED BY <3>4, <3>5, <3>7, <3>8, InsideIs
  <2> QED BY <2>1, <2>2, <2>3 DEF EpisodesAreSound
<1> QED BY <1>1, AlwaysPrices, PTL

\* A price of the history read is in the episode of its date, and is its price unless it conflicts.
LEMMA PriceIsInEpisode ==
  ASSUME NEW known, NEW rows, IsHistory(rows), NEW h \in rows,
         NEW version \in Nat, Resolution(known, h.pv).version = version
  PROVE  \E e \in EpisodesOf(Points(known, rows)) :
           e.version = version /\ InRange(h.from, e) /\ (e.status = "OK" => e.tuple = h.tuple)
<1> DEFINE points == Points(known, rows)
<1>1. /\ IsPoints(points)
      /\ \A p \in points : p = PointAt(known, rows, p.version, p.from)
      /\ \A row \in rows : \A v \in Nat : Resolution(known, row.pv).version = v =>
           \E p \in points : p.version = v /\ p.from = row.from
  BY PointsAre
<1> HIDE DEF points
<1>2. PICK p \in points : p.version = version /\ p.from = h.from
  BY <1>1
<1>3. h.from \in Nat /\ h \in EvidenceOf(known, rows, version, h.from)
  BY DEF IsHistory, EvidenceOf
<1>4. p.status = "OK" => p.tuple = h.tuple
  <2>1. p = PointAt(known, rows, version, h.from)
    BY <1>1, <1>2
  <2>2. h.tuple \in TuplesOf(known, rows, version, h.from)
    BY <1>3 DEF TuplesOf
  <2>3. LET q == PointAt(known, rows, version, h.from)
        IN q.status = "OK" => TuplesOf(known, rows, version, h.from) = {q.tuple}
    BY <1>3, PointSays
  <2> QED BY <2>1, <2>2, <2>3
<1>5. PICK s \in Segments(points) :
        /\ s.version = version /\ s.from <= h.from
        /\ \A t \in Segments(points) : t.version = version /\ t.from <= h.from => t.from <= s.from
        /\ \A q \in points : q.version = version /\ s.from <= q.from /\ q.from <= h.from =>
             q.status = s.status /\ (s.status = "OK" => q.tuple = s.tuple)
  <2>1. h.from \in Int /\ p.from <= h.from
    BY <1>2, <1>3
  <2> QED BY <1>1, <1>2, <2>1, OneInForce
<1> DEFINE e == EpisodeAt(points, s)
<1>6. e \in EpisodesOf(points) /\ e.version = version /\ e.status = s.status /\ e.tuple = s.tuple
  BY <1>5, EpisodesAre, EpisodeIs
<1>7. p.status = s.status /\ (s.status = "OK" => p.tuple = s.tuple)
  BY <1>2, <1>3, <1>5
<1>8. InRange(h.from, e)
  <2>1. \A t \in Segments(points) : t.from \in Nat
    BY <1>1 DEF IsPoints, Segments
  <2>2. \A t \in Segments(points) : t.version = s.version /\ s.from < t.from => h.from < t.from
    BY <1>3, <1>5, <2>1
  <2>3. h.from \in Int
    BY <1>3
  <2> QED BY <1>1, <1>5, <2>2, <2>3, InRangeIs
<1> HIDE DEF e
<1> QED BY <1>4, <1>6, <1>7, <1>8 DEF points

\* A canonicalization that succeeds and ran alone has published every resolved price there was when
\* it began, at its date and, unless prices conflict, as it was; imports may have gone on beside it.
THEOREM AlwaysSuccessIsFresh == Spec => SuccessIsFresh
<1> DEFINE Fresh == \A c \in Canonicalizers : pc[c] = "audit" /\ pc'[c] = "done" /\ alone[c] =>
             \A h \in since[c] : LET of == Resolution(versions, h.pv) IN of.status = "resolved" =>
               \E i \in DOMAIN table.episodes : LET e == table.episodes[i].episode IN
                 /\ e.version = of.version /\ InRange(h.from, e)
                 /\ e.status = "OK" => e.tuple = h.tuple
<1>1. PricesInv => Fresh
  <2> SUFFICES ASSUME PricesInv, NEW c \in Canonicalizers, pc[c] = "audit", alone[c],
                      NEW h \in since[c], Resolution(versions, h.pv).status = "resolved"
               PROVE  \E i \in DOMAIN table.episodes : LET e == table.episodes[i].episode IN
                        /\ e.version = Resolution(versions, h.pv).version /\ InRange(h.from, e)
                        /\ e.status = "OK" => e.tuple = h.tuple
    OBVIOUS
  <2> DEFINE known == read[c].versions
             rows == read[c].history
  <2>1. known # Unread /\ rows # Unread /\ table = Written(c)
    BY DEF PricesInv, EpisodesInv, ReadInv, AloneInv
  <2>2. /\ \A i \in DOMAIN known : known[i].key = versions[i].key
        /\ DOMAIN known \subseteq DOMAIN versions
        /\ h.pv \in DOMAIN known /\ IsHistory(rows) /\ h \in rows
    BY <2>1 DEF PricesInv, EpisodesInv, ReadInv
  <2>3. Resolution(known, h.pv) = Resolution(versions, h.pv)
    <3>1. h.pv \in DOMAIN known /\ h.pv \in DOMAIN versions /\ known[h.pv].key = versions[h.pv].key
      BY <2>2
    <3> HIDE DEF known
    <3> QED BY <3>1 DEF Resolution
  <2>4. Resolution(known, h.pv).version \in Nat
    BY <2>3, ResolvedIs
  <2>5. PICK version \in Nat : version = Resolution(known, h.pv).version
    BY <2>4
  <2>6. PICK e \in EpisodesOf(Points(known, rows)) :
          e.version = version /\ InRange(h.from, e) /\ (e.status = "OK" => e.tuple = h.tuple)
    <3> HIDE DEF known, rows
    <3> QED BY <2>2, <2>5, PriceIsInEpisode
  <2>7. \A d \in Episodes(c) : \E i \in DOMAIN table.episodes : table.episodes[i].episode = d
    BY <2>1, WrittenIs
  <2>8. PICK i \in DOMAIN table.episodes : table.episodes[i].episode = e
    BY <2>6, <2>7 DEF Episodes
  <2> QED BY <2>3, <2>5, <2>6, <2>8
<1> QED BY <1>1, AlwaysPrices, PTL DEF Spec, SuccessIsFresh
=============================================================================
