---------------------------- MODULE Request_proofs ----------------------------
(***************************************************************************)
(* The theorems of ReferenceLookup, Ranking and Request: that a search or  *)
(* dupe request never answers with the wrong reference, over the ceiling,  *)
(* in the wrong order, or with an explanation that its scores belie.       *)
(*                                                                         *)
(* The argument: the fits are percentages, so the raw score is bounded and *)
(* monotone; "Precedes" orders the pool totally, so that the places of the *)
(* sorted list are a permutation of it; and what RequestInv says of the    *)
(* pool and of the page gives every property of the page by cases.         *)
(***************************************************************************)
EXTENDS Request, FiniteSetTheorems, WellFoundedInduction, TLAPS

LEMMA DivFacts ==
    ASSUME NEW a \in Int, NEW b \in Nat \ {0}
    PROVE  /\ a \div b \in Int
           /\ (a \div b) * b <= a
           /\ a < (a \div b) * b + b
OBVIOUS

LEMMA TimesMonotone ==
    ASSUME NEW a \in Int, NEW b \in Int, a <= b, NEW n \in Nat
    PROVE  a * n <= b * n
OBVIOUS

LEMMA DivBounds ==
    ASSUME NEW a \in Int, NEW b \in Nat \ {0}, NEW lo \in Int, NEW hi \in Int,
           lo * b <= a, a < (hi + 1) * b
    PROVE  a \div b \in lo..hi
<1> DEFINE q == a \div b
<1>1. /\ q \in Int /\ q * b <= a /\ a < (q + 1) * b
  <2>1. (q + 1) * b = q * b + b
    BY DivFacts
  <2> QED BY <2>1, DivFacts
<1> HIDE DEF q
<1>2. ~(q > hi)
  <2> SUFFICES ASSUME hi + 1 <= q PROVE FALSE
    BY <1>1
  <2>1. (hi + 1) * b <= q * b
    BY <1>1, TimesMonotone
  <2> QED BY <1>1, <2>1
<1>3. ~(q < lo)
  <2> SUFFICES ASSUME q + 1 <= lo PROVE FALSE
    BY <1>1
  <2>1. (q + 1) * b <= lo * b
    BY <1>1, TimesMonotone
  <2> QED BY <1>1, <2>1
<1> QED BY <1>1, <1>2, <1>3 DEF q

LEMMA DivMonotone ==
    ASSUME NEW a \in Int, NEW c \in Int, a <= c, NEW b \in Nat \ {0}
    PROVE  a \div b <= c \div b
<1> DEFINE p == a \div b
           q == c \div b
<1>1. /\ p \in Int /\ q \in Int /\ p * b <= a /\ c < (q + 1) * b
  <2>1. (q + 1) * b = q * b + b
    BY DivFacts
  <2> QED BY <2>1, DivFacts
<1> HIDE DEF p, q
<1>2. ~(p > q)
  <2> SUFFICES ASSUME q + 1 <= p PROVE FALSE
    BY <1>1
  <2>1. (q + 1) * b <= p * b
    BY <1>1, TimesMonotone
  <2>2. (q + 1) * b \in Int /\ p * b \in Int
    BY <1>1
  <2> QED BY <1>1, <2>1, <2>2
<1> QED BY <1>1, <1>2 DEF p, q

-----------------------------------------------------------------------------
(* The fits are percentages.                                               *)

Percentage == 0..100

LEMMA PercentFacts ==
    ASSUME NEW part \in Nat, NEW whole \in Nat \ {0}, part <= whole
    PROVE  Percent(part, whole) \in Percentage
<1>1. 0 * whole <= 100 * part /\ 100 * part < (100 + 1) * whole
  OBVIOUS
<1> QED BY <1>1, DivBounds DEF Percent, Percentage

LEMMA CommonFacts ==
    ASSUME NEW S, NEW T, IsFiniteSet(S)
    PROVE  Common(S, T) \in Nat /\ Common(S, T) <= Cardinality(S)
<1>1. IsFiniteSet(S \cap T) /\ Cardinality(S \cap T) <= Cardinality(S)
  BY FS_Subset, S \cap T \subseteq S
<1> QED BY <1>1, FS_CardinalityType DEF Common

LEMMA JaccardFacts ==
    ASSUME NEW S, NEW T, IsFiniteSet(S), IsFiniteSet(T)
    PROVE  Jaccard(S, T) \in Percentage
<1>1. CASE S = {} \/ T = {}
  BY <1>1 DEF Jaccard, Percentage
<1>2. CASE S # {} /\ T # {}
  <2>1. IsFiniteSet(S \cup T) /\ S \subseteq S \cup T
    BY FS_Union
  <2>2. Cardinality(S) <= Cardinality(S \cup T)
    BY <2>1, FS_Subset
  <2>3. Cardinality(S) \in Nat \ {0} /\ Cardinality(S \cup T) \in Nat
    BY <1>2, <2>1, FS_CardinalityType, FS_EmptySet
  <2>4. Common(S, T) \in Nat /\ Common(S, T) <= Cardinality(S)
    BY CommonFacts
  <2> QED BY <1>2, <2>2, <2>3, <2>4, PercentFacts DEF Jaccard
<1> QED BY <1>1, <1>2

\* What the lemmas about scores need of the signals; see SignalsAreTyped.
SignalsTyped(s) ==
    /\ s.hours \in Nat /\ s.budget \in Nat
    /\ s.refAccords \subseteq Term /\ s.refNotes \subseteq Term
    /\ s.names \in [Row -> DOMAIN Bonus]

LEMMA TermsAreFinite ==
    ASSUME NEW p \in PerfumeRow
    PROVE  /\ IsFiniteSet(p.accords) /\ IsFiniteSet(p.notes)
           /\ p.accords \subseteq Term /\ p.notes \subseteq Term
<1>1. p.accords \subseteq Term /\ p.notes \subseteq Term
  BY DEF PerfumeRow
<1> QED BY <1>1, FS_Subset, RankingAssumption

LEMMA NoteMatchFacts ==
    ASSUME NEW p \in PerfumeRow, NEW s, SignalsTyped(s)
    PROVE  NoteMatch(p, s) \in Percentage
<1>1. IsFiniteSet(p.accords) /\ IsFiniteSet(p.notes)
  BY TermsAreFinite
<1>2. CASE HasReference(s)
  <2> DEFINE x == Jaccard(p.accords, s.refAccords)
             y == Jaccard(p.notes, s.refNotes)
  <2>1. IsFiniteSet(s.refAccords) /\ IsFiniteSet(s.refNotes)
    BY FS_Subset, RankingAssumption DEF SignalsTyped
  <2>2. x \in Percentage /\ y \in Percentage
    BY <1>1, <2>1, JaccardFacts
  <2>3. NoteMatch(p, s) = (65 * x + 35 * y) \div 100
    BY <1>2 DEF NoteMatch
  <2> HIDE DEF x, y
  <2> QED BY <2>2, <2>3 DEF Percentage
<1>3. CASE ~HasReference(s)
  <2> DEFINE n == Common(p.notes, s.words) + Common(p.accords, s.words)
  <2>1. n \in Nat
    BY <1>1, CommonFacts
  <2>2. NoteMatch(p, s) = 20 * AtMost(n, 5)
    BY <1>3 DEF NoteMatch
  <2> HIDE DEF n
  <2> QED BY <2>1, <2>2 DEF AtMost, Percentage
<1> QED BY <1>2, <1>3

LEMMA ScenarioFitFacts ==
    ASSUME NEW p \in PerfumeRow, NEW s
    PROVE  ScenarioFit(p, s) \in Percentage
<1> DEFINE accords == UNION {ScenarioAccords[x] : x \in KnownScenarios(s)}
           notes == UNION {ScenarioNotes[x] : x \in KnownScenarios(s)}
           a == Common(p.accords, accords)
           n == Common(p.notes, notes)
<1>1. a \in Nat /\ n \in Nat
  BY TermsAreFinite, CommonFacts
<1>2. ScenarioFit(p, s) = (IF accords = {} THEN 70 ELSE 35 * AtMost(a, 2))
                            + (IF notes = {} THEN 30 ELSE 10 * AtMost(n, 3))
  BY DEF ScenarioFit
<1> HIDE DEF a, n, accords, notes
<1> QED BY <1>1, <1>2 DEF AtMost, Percentage

LEMMA AgeFitFacts ==
    ASSUME NEW p \in PerfumeRow, NEW s
    PROVE  AgeFit(p, s) \in Percentage
<1>1. CASE s.age = None \/ p.accords = {}
  BY <1>1 DEF AgeFit, Percentage
<1>2. CASE s.age # None /\ p.accords # {}
  <2> DEFINE size == Cardinality(p.accords)
             c == Common(p.accords, AgeAccords[s.age])
             m == AtMost(2 * c, size)
  <2>1. size \in Nat \ {0} /\ c \in Nat
    BY <1>2, TermsAreFinite, CommonFacts, FS_CardinalityType, FS_EmptySet
  <2>2. AgeFit(p, s) = 60 + (40 * m) \div size
    BY <1>2 DEF AgeFit
  <2> HIDE DEF size, c
  <2>3. m \in Nat /\ m <= size
    BY <2>1 DEF AtMost
  <2> HIDE DEF m
  <2>4. (40 * m) \div size \in 0..40
    BY <2>1, <2>3, DivBounds
  <2> QED BY <2>2, <2>4 DEF Percentage
<1> QED BY <1>1, <1>2

LEMMA FamilyFitFacts ==
    ASSUME NEW p, NEW s
    PROVE  FamilyFit(p, s) \in Percentage
<1> DEFINE V == ValidFamilies(s)
           F == {f \in V : FamilyTerms[f] \cap (p.notes \cup p.accords) # {}}
<1>1. CASE V = {}
  BY <1>1 DEF FamilyFit, Percentage
<1>2. CASE V # {}
  <2>1. IsFiniteSet(V)
    BY FS_Subset, RankingAssumption, V \subseteq DOMAIN FamilyTerms DEF ValidFamilies
  <2>2. F \subseteq V /\ Cardinality(F) <= Cardinality(V) /\ IsFiniteSet(F)
    BY <2>1, FS_Subset
  <2>3. Cardinality(F) \in Nat /\ Cardinality(V) \in Nat \ {0}
    BY <1>2, <2>1, <2>2, FS_CardinalityType, FS_EmptySet
  <2>4. FamilyFit(p, s) = Percent(Cardinality(F), Cardinality(V))
    BY <1>2 DEF FamilyFit
  <2> QED BY <2>2, <2>3, <2>4, PercentFacts
<1> QED BY <1>1, <1>2

LEMMA PriceFitFacts ==
    ASSUME NEW p \in PerfumeRow, NEW s, SignalsTyped(s)
    PROVE  PriceFit(p, s) \in Percentage
<1>1. p.price \in Nat /\ s.budget \in Nat
  BY DEF PerfumeRow, SignalsTyped
<1>2. p.price # 0 /\ s.budget # 0 /\ p.price <= s.budget => Percent(p.price, s.budget) \in Percentage
  BY <1>1, PercentFacts
<1> QED BY <1>1, <1>2 DEF PriceFit, Percentage

LEMMA SmallFitsFacts ==
    ASSUME NEW p, NEW s
    PROVE  /\ GenderFit(p, s) \in Percentage
           /\ ProjectionFit(p, s) \in Percentage
           /\ BridgeFit(p, s) \in Percentage
BY DEF GenderFit, ProjectionFit, BridgeFit, Percentage

LEMMA FactorsAreNat ==
    ASSUME NEW t \in DOMAIN Adjustment
    PROVE  Adjustment[t][1] \in Nat
BY DEF Adjustment

LEMMA AdjustedFacts ==
    ASSUME NEW p \in PerfumeRow
    PROVE  Adjusted(p).longevity \in 0..100 \cup {Unknown}
<1>1. p.longevity \in 0..100 \cup {Unknown} /\ p.type \in DOMAIN Adjustment \cup {None}
  BY DEF PerfumeRow
<1>2. CASE p.type = None \/ Unknown \in {p.longevity, p.sillage}
  BY <1>1, <1>2 DEF Adjusted
<1>3. CASE ~(p.type = None \/ Unknown \in {p.longevity, p.sillage})
  <2> DEFINE k == Adjustment[p.type][1]
             n == (p.longevity * k) \div 100
  <2>1. p.longevity \in 0..100 /\ k \in Nat
    BY <1>1, <1>3, FactorsAreNat
  <2> HIDE DEF k
  <2>2. p.longevity * k \in Nat
    BY <2>1
  <2>3. n \in Nat
    BY <2>2, DivFacts
  <2>4. Adjusted(p).longevity = AtMost(n, 100)
    BY <1>3 DEF Adjusted, k
  <2> HIDE DEF n
  <2> QED BY <2>3, <2>4 DEF AtMost
<1> QED BY <1>2, <1>3

LEMMA EstimatedFacts ==
    /\ \A n \in 0..100 : EstimatedHours(n) \in 3..12
    /\ \A n, m \in 0..100 : n <= m => EstimatedHours(n) <= EstimatedHours(m)
BY DEF EstimatedHours

LEMMA LongevityFitFacts ==
    ASSUME NEW p \in PerfumeRow, NEW s, SignalsTyped(s)
    PROVE  LongevityFit(p, s) \in Percentage
<1> DEFINE longevity == Adjusted(p).longevity
           estimated == EstimatedHours(longevity)
<1>1. longevity \in 0..100 \cup {Unknown} /\ s.hours \in Nat
  BY AdjustedFacts DEF SignalsTyped
<1>2. CASE (s.hours = 0 /\ ~s.longLasting) \/ longevity = Unknown
  BY <1>2 DEF LongevityFit, Percentage
<1>3. CASE ~((s.hours = 0 /\ ~s.longLasting) \/ longevity = Unknown)
  <2>1. longevity \in 0..100 /\ estimated \in 3..12
    BY <1>1, <1>3, EstimatedFacts
  <2>2. LongevityFit(p, s) = IF s.hours = 0 THEN longevity
                             ELSE IF estimated >= s.hours THEN 100
                             ELSE AtLeast(20, Percent(estimated, s.hours))
    BY <1>3 DEF LongevityFit
  <2> HIDE DEF estimated, longevity
  <2>3. estimated < s.hours => Percent(estimated, s.hours) \in Percentage
    BY <1>1, <2>1, PercentFacts
  <2> QED BY <1>1, <2>1, <2>2, <2>3 DEF AtLeast, Percentage
<1> QED BY <1>2, <1>3

LEMMA LongevityIsRewarded ==
    ASSUME NEW p \in PerfumeRow, NEW q \in PerfumeRow, NEW s, SignalsTyped(s),
           p.type = q.type, p.sillage = q.sillage,
           Unknown \notin {p.longevity, q.longevity}, p.longevity >= q.longevity
    PROVE  LongevityFit(p, s) >= LongevityFit(q, s)
<1> DEFINE x == Adjusted(p).longevity
           y == Adjusted(q).longevity
           l == EstimatedHours(x)
           m == EstimatedHours(y)
<1>1. /\ x \in 0..100 \cup {Unknown} /\ y \in 0..100 \cup {Unknown}
      /\ p.longevity \in 0..100 /\ q.longevity \in 0..100 /\ s.hours \in Nat
  BY AdjustedFacts DEF SignalsTyped, PerfumeRow
<1>2. x \in 0..100 /\ y \in 0..100 /\ x >= y
  <2>1. CASE p.type = None \/ p.sillage = Unknown
    BY <1>1, <2>1 DEF Adjusted
  <2>2. CASE ~(p.type = None \/ p.sillage = Unknown)
    <3> DEFINE k == Adjustment[p.type][1]
               a == p.longevity * k
               b == q.longevity * k
    <3>1. p.type \in DOMAIN Adjustment /\ k \in Nat
      BY <2>2, FactorsAreNat DEF PerfumeRow
    <3>2. x = AtMost(a \div 100, 100) /\ y = AtMost(b \div 100, 100)
      <4>1. Unknown \notin {p.longevity, p.sillage} /\ Unknown \notin {q.longevity, q.sillage}
        BY <2>2
      <4>2. q.type # None
        BY <2>2
      <4> QED BY <2>2, <4>1, <4>2 DEF Adjusted
    <3> HIDE DEF k
    <3>3. a \in Nat /\ b \in Nat /\ b <= a
      <4>1. p.longevity \in Nat /\ q.longevity \in Nat /\ q.longevity <= p.longevity
        BY <1>1
      <4>2. b <= a
        BY <3>1, <4>1, TimesMonotone
      <4>3. a \in Nat /\ b \in Nat
        BY <3>1, <4>1
      <4> QED BY <4>2, <4>3
    <3> HIDE DEF a, b
    <3>4. a \div 100 \in Nat /\ b \div 100 \in Nat /\ b \div 100 <= a \div 100
      BY <3>3
    <3> QED BY <3>2, <3>4 DEF AtMost
  <2> QED BY <2>1, <2>2
<1>3. CASE s.hours = 0 /\ ~s.longLasting
  BY <1>3 DEF LongevityFit
<1>4. CASE s.hours = 0 /\ s.longLasting
  BY <1>2, <1>4 DEF LongevityFit, Unknown
<1>5. CASE s.hours # 0
  <2>1. l \in 3..12 /\ m \in 3..12 /\ l >= m
    BY <1>2, EstimatedFacts
  <2>2. /\ LongevityFit(p, s) = IF l >= s.hours THEN 100 ELSE AtLeast(20, Percent(l, s.hours))
        /\ LongevityFit(q, s) = IF m >= s.hours THEN 100 ELSE AtLeast(20, Percent(m, s.hours))
    BY <1>2, <1>5 DEF LongevityFit, Unknown
  <2> HIDE DEF l, m
  <2>3. /\ l < s.hours => Percent(l, s.hours) \in Percentage
        /\ m < s.hours => Percent(m, s.hours) \in Percentage
    BY <1>1, <1>5, <2>1, PercentFacts
  <2>4. Percent(m, s.hours) <= Percent(l, s.hours)
    <3>1. 100 * m <= 100 * l /\ s.hours \in Nat \ {0} /\ 100 * m \in Int /\ 100 * l \in Int
      BY <1>1, <1>5, <2>1
    <3> QED BY <3>1, DivMonotone DEF Percent
  <2> QED BY <1>1, <2>1, <2>2, <2>3, <2>4 DEF AtLeast, Percentage
<1> QED BY <1>1, <1>3, <1>4, <1>5

-----------------------------------------------------------------------------
(* The score is a mean of the fits: within their bounds, and monotone.     *)

One == [d \in Dimension |-> 1]

LEMMA FitsFacts ==
    ASSUME NEW p \in PerfumeRow, NEW s, SignalsTyped(s)
    PROVE  /\ DOMAIN Fits(p, s) = Dimension
           /\ \A d \in Dimension : Fits(p, s)[d] \in -100..100
<1>1. p.similarity \in -100..100
  BY DEF PerfumeRow
<1>2. /\ NoteMatch(p, s) \in Percentage /\ ScenarioFit(p, s) \in Percentage
      /\ LongevityFit(p, s) \in Percentage /\ ProjectionFit(p, s) \in Percentage
      /\ FamilyFit(p, s) \in Percentage /\ BridgeFit(p, s) \in Percentage
      /\ PriceFit(p, s) \in Percentage /\ GenderFit(p, s) \in Percentage
      /\ AgeFit(p, s) \in Percentage
  BY NoteMatchFacts, ScenarioFitFacts, LongevityFitFacts, FamilyFitFacts, PriceFitFacts,
     AgeFitFacts, SmallFitsFacts
<1>3. \A n \in Percentage : n \in -100..100
  BY DEF Percentage
<1> HIDE DEF Percentage
<1> QED BY <1>1, <1>2, <1>3 DEF Fits, Dimension, Weight

LEMMA PartFacts ==
    ASSUME NEW f, NEW active, NEW d \in Dimension, f[d] \in -100..100
    PROVE  /\ Part(f, active, d) \in Int /\ Part(One, active, d) \in Nat
           /\ Part(f, active, d) <= 100 * Part(One, active, d)
           /\ Part(f, active, d) >= -100 * Part(One, active, d)
<1>1. Weight[d] \in Nat
  BY DEF Dimension, Weight
<1>2. One[d] = 1
  BY DEF One
<1>3. CASE d \in active
  <2> DEFINE w == Weight[d]
             x == f[d]
  <2>1. Part(f, active, d) = w * x /\ Part(One, active, d) = w
    BY <1>1, <1>2, <1>3 DEF Part
  <2>2. w \in Nat /\ x \in Int /\ x <= 100 /\ -100 <= x
    BY <1>1
  <2> HIDE DEF w, x
  <2>3. x * w <= 100 * w /\ (-100) * w <= x * w
    BY <2>2, TimesMonotone
  <2>4. w * x = x * w /\ w * x \in Int
    BY <2>2
  <2> QED BY <2>1, <2>2, <2>3, <2>4
<1>4. CASE d \notin active
  BY <1>4 DEF Part
<1> QED BY <1>3, <1>4

LEMMA WeightedFacts ==
    ASSUME NEW f, NEW active, \A d \in Dimension : f[d] \in -100..100
    PROVE  /\ Weighted(f, active) \in Int /\ Scale(active) \in Nat
           /\ Weighted(f, active) <= 100 * Scale(active)
           /\ Weighted(f, active) >= -100 * Scale(active)
<1> DEFINE P(d) == Part(f, active, d)
           U(d) == Part(One, active, d)
<1>1. \A d \in Dimension : /\ P(d) \in Int /\ U(d) \in Nat
                           /\ P(d) <= 100 * U(d) /\ P(d) >= -100 * U(d)
  BY PartFacts
<1>2. {"sim", "note", "scenario", "longevity", "projection", "family", "bridge", "price",
       "gender", "age"} \subseteq Dimension
  BY DEF Dimension, Weight
<1>3. /\ Weighted(f, active) = P("sim") + P("note") + P("scenario") + P("longevity")
           + P("projection") + P("family") + P("bridge") + P("price") + P("gender") + P("age")
      /\ Scale(active) = U("sim") + U("note") + U("scenario") + U("longevity")
           + U("projection") + U("family") + U("bridge") + U("price") + U("gender") + U("age")
  BY DEF Weighted, Scale, One
<1> HIDE DEF P, U
<1>4. Weighted(f, active) \in Int /\ Scale(active) \in Nat
  BY <1>1, <1>2, <1>3
<1>5. /\ P("sim") <= 100 * U("sim") /\ P("note") <= 100 * U("note")
      /\ P("scenario") <= 100 * U("scenario") /\ P("longevity") <= 100 * U("longevity")
      /\ P("projection") <= 100 * U("projection") /\ P("family") <= 100 * U("family")
      /\ P("bridge") <= 100 * U("bridge") /\ P("price") <= 100 * U("price")
      /\ P("gender") <= 100 * U("gender") /\ P("age") <= 100 * U("age")
  BY <1>1, <1>2
<1>6. /\ P("sim") >= -100 * U("sim") /\ P("note") >= -100 * U("note")
      /\ P("scenario") >= -100 * U("scenario") /\ P("longevity") >= -100 * U("longevity")
      /\ P("projection") >= -100 * U("projection") /\ P("family") >= -100 * U("family")
      /\ P("bridge") >= -100 * U("bridge") /\ P("price") >= -100 * U("price")
      /\ P("gender") >= -100 * U("gender") /\ P("age") >= -100 * U("age")
  BY <1>1, <1>2
<1>7. /\ P("sim") \in Int /\ U("sim") \in Nat /\ P("note") \in Int /\ U("note") \in Nat
      /\ P("scenario") \in Int /\ U("scenario") \in Nat /\ P("longevity") \in Int /\ U("longevity") \in Nat
      /\ P("projection") \in Int /\ U("projection") \in Nat /\ P("family") \in Int /\ U("family") \in Nat
      /\ P("bridge") \in Int /\ U("bridge") \in Nat /\ P("price") \in Int /\ U("price") \in Nat
      /\ P("gender") \in Int /\ U("gender") \in Nat /\ P("age") \in Int /\ U("age") \in Nat
  BY <1>1, <1>2
<1>8. Weighted(f, active) <= 100 * Scale(active)
  <2>1. P("sim") + P("note") + P("scenario") + P("longevity") + P("projection")
          <= 100 * (U("sim") + U("note") + U("scenario") + U("longevity") + U("projection"))
    BY <1>5, <1>7
  <2>2. P("family") + P("bridge") + P("price") + P("gender") + P("age")
          <= 100 * (U("family") + U("bridge") + U("price") + U("gender") + U("age"))
    BY <1>5, <1>7
  <2> QED BY <1>3, <1>7, <2>1, <2>2
<1>9. Weighted(f, active) >= -100 * Scale(active)
  <2>1. P("sim") + P("note") + P("scenario") + P("longevity") + P("projection")
          >= -100 * (U("sim") + U("note") + U("scenario") + U("longevity") + U("projection"))
    BY <1>6, <1>7
  <2>2. P("family") + P("bridge") + P("price") + P("gender") + P("age")
          >= -100 * (U("family") + U("bridge") + U("price") + U("gender") + U("age"))
    BY <1>6, <1>7
  <2> QED BY <1>3, <1>7, <2>1, <2>2
<1> QED BY <1>4, <1>8, <1>9

LEMMA ScaleIsPositive ==
    ASSUME NEW active, "sim" \in active
    PROVE  Scale(active) \in Nat \ {0}
<1>1. \A d \in Dimension : One[d] \in -100..100
  BY DEF One
<1>2. \A d \in Dimension : Part(One, active, d) \in Nat
  BY <1>1, PartFacts
<1>3. {"sim", "note", "scenario", "longevity", "projection", "family", "bridge", "price",
       "gender", "age"} \subseteq Dimension
  BY DEF Dimension, Weight
<1>4. Part(One, active, "sim") = 7
  BY <1>3 DEF Part, One, Weight
<1>5. Scale(active) = Part(One, active, "sim") + Part(One, active, "note")
           + Part(One, active, "scenario") + Part(One, active, "longevity")
           + Part(One, active, "projection") + Part(One, active, "family")
           + Part(One, active, "bridge") + Part(One, active, "price")
           + Part(One, active, "gender") + Part(One, active, "age")
  BY DEF Weighted, Scale, One
<1> QED BY <1>2, <1>3, <1>4, <1>5

LEMMA HybridFacts ==
    ASSUME NEW f, NEW active, "sim" \in active, \A d \in Dimension : f[d] \in -100..100
    PROVE  HybridScore(f, active) \in Int /\ HybridScore(f, active) \in -1000..1000
<1> DEFINE w == Weighted(f, active)
           n == Scale(active)
<1>1. w \in Int /\ n \in Nat \ {0} /\ w <= 100 * n /\ w >= -100 * n
  BY WeightedFacts, ScaleIsPositive
<1> HIDE DEF w, n
<1>2. (-1000) * (2 * n) <= 20 * w + n
  BY <1>1
<1>5. 20 * w + n < (1000 + 1) * (2 * n)
  <2>1. 20 * w + n <= 2001 * n /\ 2001 * n < 2002 * n
    BY <1>1
  <2>2. (1000 + 1) * (2 * n) = 2002 * n
    BY <1>1
  <2> QED BY <1>1, <2>1, <2>2
<1>3. 20 * w + n \in Int /\ 2 * n \in Nat \ {0}
  BY <1>1
<1> DEFINE a == 20 * w + n
           b == 2 * n
<1>4. a \div b \in -1000..1000
  <2>1. a \in Int /\ b \in Nat \ {0} /\ (-1000) * b <= a /\ a < (1000 + 1) * b
    BY <1>2, <1>3, <1>5
  <2> HIDE DEF a, b
  <2>2. \A lo, hi \in Int : lo * b <= a /\ a < (hi + 1) * b => a \div b \in lo..hi
    BY <2>1, DivBounds
  <2>3. -1000 \in Int /\ 1000 \in Int
    OBVIOUS
  <2> QED BY <2>1, <2>2, <2>3
<1>6. a \div b \in Int
  BY <1>3, DivFacts
<1> QED BY <1>4, <1>6 DEF HybridScore, w, n

LEMMA HybridMonotone ==
    ASSUME NEW f, NEW g, NEW active, "sim" \in active,
           \A d \in Dimension : f[d] \in -100..100 /\ g[d] \in -100..100 /\ f[d] <= g[d]
    PROVE  HybridScore(f, active) <= HybridScore(g, active)
<1> DEFINE w == Weighted(f, active)
           v == Weighted(g, active)
           n == Scale(active)
<1>1. w \in Int /\ v \in Int /\ n \in Nat \ {0}
  BY WeightedFacts, ScaleIsPositive
<1>2. w <= v
  <2>1. \A d \in Dimension : Part(f, active, d) \in Int /\ Part(g, active, d) \in Int
    BY PartFacts
  <2>2. ASSUME NEW d \in Dimension PROVE Part(f, active, d) <= Part(g, active, d)
    <3>1. Weight[d] \in Nat
      BY DEF Dimension, Weight
    <3> DEFINE x == f[d]
               y == g[d]
               k == Weight[d]
    <3>2. x \in Int /\ y \in Int /\ x <= y /\ k \in Nat
      BY <3>1
    <3>3. Part(f, active, d) = (IF d \in active THEN k * x ELSE 0)
          /\ Part(g, active, d) = (IF d \in active THEN k * y ELSE 0)
      BY DEF Part
    <3> HIDE DEF x, y, k
    <3>4. x * k <= y * k /\ x * k = k * x /\ y * k = k * y
      BY <3>2, TimesMonotone
    <3> QED BY <3>3, <3>4
  <2>3. {"sim", "note", "scenario", "longevity", "projection", "family", "bridge", "price",
         "gender", "age"} \subseteq Dimension
    BY DEF Dimension, Weight
  <2> DEFINE P(d) == Part(f, active, d)
             Q(d) == Part(g, active, d)
  <2>4. \A d \in Dimension : P(d) \in Int /\ Q(d) \in Int /\ P(d) <= Q(d)
    BY <2>1, <2>2
  <2>5. /\ w = P("sim") + P("note") + P("scenario") + P("longevity")
           + P("projection") + P("family") + P("bridge") + P("price") + P("gender") + P("age")
        /\ v = Q("sim") + Q("note") + Q("scenario") + Q("longevity")
           + Q("projection") + Q("family") + Q("bridge") + Q("price") + Q("gender") + Q("age")
    BY DEF Weighted
  <2> HIDE DEF P, Q, w, v
  <2> QED BY <2>3, <2>4, <2>5
<1> HIDE DEF w, v, n
<1>3. /\ 20 * w + n <= 20 * v + n /\ 20 * w + n \in Int /\ 20 * v + n \in Int
      /\ 2 * n \in Nat \ {0}
  BY <1>1, <1>2
<1>4. (20 * w + n) \div (2 * n) <= (20 * v + n) \div (2 * n)
  BY <1>3, DivMonotone
<1> QED BY <1>4 DEF HybridScore, w, v, n

LEMMA BonusFacts == \A n \in DOMAIN Bonus : Bonus[n] \in 0..350
BY DEF Bonus

\* A raw score is between -1000 and 1350 tenths, in quarters.
LEMMA ScoreFacts ==
    ASSUME NEW p \in PerfumeRow, NEW s, SignalsTyped(s)
    PROVE  /\ RawScore(p, s) \in Int
           /\ NegatedHit(p, s) => RawScore(p, s) <= 1350
           /\ MatchScore(p, s) \in -1000..1000
           /\ MatchScore(p, s) = AtMost(1000, (RawScore(p, s) + 2) \div 4)
<1> DEFINE h == HybridScore(Fits(p, s), Active(s))
           b == Bonus[s.names[p.id]]
           k == IF NegatedHit(p, s) THEN 1 ELSE 4
           raw == RawScore(p, s)
<1>1. h \in -1000..1000
  <2>1. "sim" \in Active(s)
    BY DEF Active
  <2> QED BY <2>1, FitsFacts, HybridFacts
<1>2. b \in 0..350
  BY BonusFacts DEF SignalsTyped, PerfumeRow
<1>3. raw = (h + b) * k
  BY DEF RawScore
<1> HIDE DEF h, b, raw
<1>4. raw \in -4000..5400 /\ (NegatedHit(p, s) => raw <= 1350)
  BY <1>1, <1>2, <1>3
<1>5. AtMost(1000, (raw + 2) \div 4) \in -1000..1000
  BY <1>4 DEF AtMost
<1>6. MatchScore(p, s) = AtMost(1000, (raw + 2) \div 4)
  BY DEF MatchScore, raw
<1>7. raw \in Int /\ (NegatedHit(p, s) => raw <= 1350)
  BY <1>4
<1>8. MatchScore(p, s) \in -1000..1000
  BY <1>5, <1>6
<1>9. raw = RawScore(p, s)
  BY DEF raw
<1> QED BY <1>6, <1>7, <1>8, <1>9

LEMMA ShownMonotone ==
    ASSUME NEW p \in PerfumeRow, NEW q \in PerfumeRow, NEW s, SignalsTyped(s),
           RawScore(p, s) <= RawScore(q, s)
    PROVE  MatchScore(p, s) <= MatchScore(q, s)
<1> DEFINE x == RawScore(p, s)
           y == RawScore(q, s)
<1>1. x \in Int /\ y \in Int /\ x <= y
  BY ScoreFacts
<1>2. /\ MatchScore(p, s) = AtMost(1000, (x + 2) \div 4)
      /\ MatchScore(q, s) = AtMost(1000, (y + 2) \div 4)
  BY DEF MatchScore
<1> HIDE DEF x, y
<1> QED BY <1>1, <1>2 DEF AtMost

\* What a negated term leaves of the score.
LEMMA NegatedIsShownLow ==
    ASSUME NEW p \in PerfumeRow, NEW s, SignalsTyped(s), NegatedHit(p, s)
    PROVE  MatchScore(p, s) <= 338
<1> DEFINE x == RawScore(p, s)
<1>1. x \in Int /\ x <= 1350 /\ MatchScore(p, s) = AtMost(1000, (x + 2) \div 4)
  BY ScoreFacts
<1> HIDE DEF x
<1> QED BY <1>1 DEF AtMost

\* Being more similar to the query, or lasting longer, never lowers the score.
LEMMA BetterScoresMore ==
    ASSUME NEW p \in PerfumeRow, NEW q \in PerfumeRow, NEW s, SignalsTyped(s),
           Better(p, q), s.names[p.id] = s.names[q.id]
    PROVE  RawScore(q, s) <= RawScore(p, s)
<1> DEFINE f == Fits(p, s)
           g == Fits(q, s)
<1>1. /\ p.price = q.price /\ p.gender = q.gender /\ p.leans = q.leans /\ p.type = q.type
      /\ p.sillage = q.sillage /\ p.notes = q.notes /\ p.accords = q.accords
      /\ p.top = q.top /\ p.base = q.base
  BY DEF Better, PerfumeRow
<1>2. Unknown \notin {p.longevity, q.longevity} /\ p.longevity >= q.longevity
      /\ p.similarity >= q.similarity
  BY DEF Better
<1>3. /\ NoteMatch(p, s) = NoteMatch(q, s) /\ ScenarioFit(p, s) = ScenarioFit(q, s)
      /\ FamilyFit(p, s) = FamilyFit(q, s) /\ AgeFit(p, s) = AgeFit(q, s)
  BY <1>1 DEF NoteMatch, ScenarioFit, FamilyFit, AgeFit
<1>4. /\ BridgeFit(p, s) = BridgeFit(q, s) /\ PriceFit(p, s) = PriceFit(q, s)
      /\ GenderFit(p, s) = GenderFit(q, s)
  BY <1>1 DEF BridgeFit, PriceFit, GenderFit
<1>5. ProjectionFit(p, s) = ProjectionFit(q, s)
  <2>1. Adjusted(p).sillage = Adjusted(q).sillage
    BY <1>1, <1>2 DEF Adjusted
  <2> QED BY <2>1 DEF ProjectionFit
<1>6. LongevityFit(q, s) <= LongevityFit(p, s)
  <2>1. LongevityFit(p, s) >= LongevityFit(q, s)
    BY <1>1, <1>2, LongevityIsRewarded
  <2> QED BY <2>1, LongevityFitFacts DEF Percentage
<1>7. \A d \in Dimension : f[d] \in -100..100 /\ g[d] \in -100..100
  BY FitsFacts
<1>8. \A d \in Dimension : g[d] <= f[d]
  <2>1. ASSUME NEW d \in Dimension, d \notin {"sim", "longevity"} PROVE g[d] = f[d]
    <3>1. d \in {"note", "scenario", "projection", "family", "bridge", "price", "gender", "age"}
      BY <2>1 DEF Dimension, Weight
    <3> QED BY <1>3, <1>4, <1>5, <3>1 DEF Fits
  <2>2. g["sim"] = q.similarity /\ f["sim"] = p.similarity
        /\ g["longevity"] = LongevityFit(q, s) /\ f["longevity"] = LongevityFit(p, s)
    BY DEF Fits
  <2>3. "sim" \in Dimension /\ "longevity" \in Dimension
    BY DEF Dimension, Weight
  <2> HIDE DEF f, g
  <2>4. g["sim"] <= f["sim"] /\ g["longevity"] <= f["longevity"]
    BY <1>2, <1>6, <1>7, <2>2, <2>3
  <2>5. ASSUME NEW d \in Dimension PROVE g[d] <= f[d]
    BY <1>7, <2>1, <2>4
  <2> QED BY <2>5
<1> HIDE DEF f, g
<1>9. /\ HybridScore(g, Active(s)) <= HybridScore(f, Active(s))
      /\ HybridScore(g, Active(s)) \in Int /\ HybridScore(f, Active(s)) \in Int
  <2>1. "sim" \in Active(s)
    BY DEF Active
  <2>2. \A d \in Dimension : g[d] \in -100..100 /\ f[d] \in -100..100 /\ g[d] <= f[d]
    BY <1>7, <1>8
  <2>3. HybridScore(g, Active(s)) <= HybridScore(f, Active(s))
    BY <2>1, <2>2, HybridMonotone
  <2>4. HybridScore(g, Active(s)) \in Int /\ HybridScore(f, Active(s)) \in Int
    <3>1. \A d \in Dimension : g[d] \in -100..100
      BY <1>7
    <3>2. \A d \in Dimension : f[d] \in -100..100
      BY <1>7
    <3> QED BY <2>1, <3>1, <3>2, HybridFacts
  <2> QED BY <2>3, <2>4
<1>10. NegatedHit(p, s) <=> NegatedHit(q, s)
  BY <1>1 DEF NegatedHit
<1>11. Bonus[s.names[p.id]] \in 0..350 /\ Bonus[s.names[q.id]] = Bonus[s.names[p.id]]
  BY BonusFacts DEF SignalsTyped, PerfumeRow
<1> DEFINE x == HybridScore(g, Active(s))
           y == HybridScore(f, Active(s))
           b == Bonus[s.names[p.id]]
<1>12. /\ RawScore(p, s) = (y + b) * (IF NegatedHit(p, s) THEN 1 ELSE 4)
       /\ RawScore(q, s) = (x + b) * (IF NegatedHit(p, s) THEN 1 ELSE 4)
  BY <1>10, <1>11 DEF RawScore, f, g
<1> HIDE DEF x, y, b
<1>13. x \in Int /\ y \in Int /\ b \in Int /\ x <= y
  BY <1>9, <1>11 DEF x, y, b
<1> QED BY <1>12, <1>13

-----------------------------------------------------------------------------
(* The sort: Precedes is a strict total order, so that each place of the   *)
(* ranking is taken by one result, and no result is before a better one.   *)

PoolTyped ==
    /\ pool \in Seq(Row)
    /\ \A i \in DOMAIN pool : /\ PriceKey(pool[i]) \in Int
                              /\ RawScore(Details[pool[i]], Signals) \in Int

LEMMA PrecedesIsAnOrder ==
    ASSUME PoolTyped
    PROVE  /\ \A i, j \in DOMAIN pool : Precedes(i, j) => i # j /\ ~Before(pool[j], pool[i])
           /\ \A i, j \in DOMAIN pool : i # j => Precedes(i, j) \/ Precedes(j, i)
           /\ \A i, j, k \in DOMAIN pool : Precedes(i, j) /\ Precedes(j, k) => Precedes(i, k)
<1> DEFINE D == DOMAIN pool
           K == [i \in D |-> PriceKey(pool[i])]
           W == [i \in D |-> RawScore(Details[pool[i]], Signals)]
<1>1. \A i \in D : K[i] \in Int /\ W[i] \in Int /\ i \in Int
  BY DEF PoolTyped
<1>2. \A i, j \in D : Before(pool[i], pool[j]) <=> K[i] < K[j] \/ (K[i] = K[j] /\ W[i] > W[j])
  BY DEF Before
<1>3. \A i, j \in D : Precedes(i, j) <=> Before(pool[i], pool[j]) \/ (i < j /\ ~Before(pool[j], pool[i]))
  BY DEF Precedes
<1> HIDE DEF D, K, W
<1>4. \A i, j \in D : Precedes(i, j) => i # j /\ ~Before(pool[j], pool[i])
  BY <1>1, <1>2, <1>3
<1>5. \A i, j \in D : i # j => Precedes(i, j) \/ Precedes(j, i)
  BY <1>1, <1>2, <1>3
<1>6. \A i, j, k \in D : Precedes(i, j) /\ Precedes(j, k) => Precedes(i, k)
  BY <1>1, <1>2, <1>3
<1> QED BY <1>4, <1>5, <1>6 DEF D

LEMMA IntervalFacts ==
    ASSUME NEW n \in Nat
    PROVE  /\ IsFiniteSet(1..n) /\ Cardinality(1..n) = n
           /\ IsFiniteSet(0..(n - 1)) /\ Cardinality(0..(n - 1)) = n
<1>1. /\ IsFiniteSet(1..n)
      /\ Cardinality(1..n) = IF 1 > n THEN 0 ELSE n - 1 + 1
  BY FS_Interval, 1 \in Int, n \in Int
<1>2. /\ IsFiniteSet(0..(n - 1))
      /\ Cardinality(0..(n - 1)) = IF 0 > n - 1 THEN 0 ELSE (n - 1) - 0 + 1
  BY FS_Interval, 0 \in Int, n - 1 \in Int
<1> QED BY <1>1, <1>2

LEMMA AheadFacts ==
    ASSUME PoolTyped
    PROVE  /\ \A j \in DOMAIN pool : Cardinality(Ahead(j)) \in 0..(Len(pool) - 1)
           /\ \A i, j \in DOMAIN pool :
                  Precedes(i, j) => Cardinality(Ahead(i)) < Cardinality(Ahead(j))
           /\ \A m \in 0..(Len(pool) - 1) : \E j \in DOMAIN pool : Cardinality(Ahead(j)) = m
<1> DEFINE D == DOMAIN pool
           n == Len(pool)
           C == [j \in D |-> Cardinality(Ahead(j))]
<1>1. n \in Nat /\ D = 1..n
  BY DEF PoolTyped
<1>2. IsFiniteSet(D) /\ Cardinality(D) = n
  BY <1>1, IntervalFacts
<1>3. \A j \in D : Ahead(j) \subseteq D /\ j \notin Ahead(j)
  BY PrecedesIsAnOrder DEF Ahead
<1>4. \A S \in SUBSET D, T \in SUBSET D :
          /\ IsFiniteSet(S) /\ Cardinality(S) \in Nat
          /\ S \subseteq T /\ S # T => Cardinality(S) < Cardinality(T)
  <2> SUFFICES ASSUME NEW S \in SUBSET D, NEW T \in SUBSET D
               PROVE  /\ IsFiniteSet(S) /\ Cardinality(S) \in Nat
                      /\ S \subseteq T /\ S # T => Cardinality(S) < Cardinality(T)
    OBVIOUS
  <2>1. IsFiniteSet(S) /\ IsFiniteSet(T)
    BY <1>2, FS_Subset
  <2>2. Cardinality(S) \in Nat /\ Cardinality(T) \in Nat
    BY <2>1, FS_CardinalityType
  <2>3. S \subseteq T => /\ Cardinality(S) <= Cardinality(T)
                         /\ Cardinality(S) = Cardinality(T) => S = T
    BY <2>1, FS_Subset
  <2> QED BY <2>1, <2>2, <2>3
<1>5. \A j \in D : Cardinality(Ahead(j)) \in 0..(n - 1)
  <2> SUFFICES ASSUME NEW j \in D PROVE Cardinality(Ahead(j)) \in 0..(n - 1)
    OBVIOUS
  <2>1. Ahead(j) \in SUBSET D /\ Ahead(j) # D
    BY <1>3
  <2>2. Cardinality(Ahead(j)) < Cardinality(D) /\ Cardinality(Ahead(j)) \in Nat
    BY <1>4, <2>1
  <2> QED BY <1>1, <1>2, <2>2
<1>6. ASSUME NEW i \in D, NEW j \in D, Precedes(i, j)
      PROVE  Cardinality(Ahead(i)) < Cardinality(Ahead(j))
  <2>1. Ahead(i) \subseteq Ahead(j)
    BY <1>6, PrecedesIsAnOrder DEF Ahead
  <2>2. i \in Ahead(j) /\ i \notin Ahead(i)
    BY <1>3, <1>6 DEF Ahead
  <2> QED BY <1>3, <1>4, <2>1, <2>2
<1>7. C \in Injection(D, 0..(n - 1))
  <2>1. C \in [D -> 0..(n - 1)]
    BY <1>5
  <2>2. ASSUME NEW i \in D, NEW j \in D, C[i] = C[j] PROVE i = j
    <3>1. ~Precedes(i, j)
      BY <1>5, <1>6, <2>2
    <3>2. ~Precedes(j, i)
      BY <1>5, <1>6, <2>2
    <3> QED BY <3>1, <3>2, PrecedesIsAnOrder
  <2> QED BY <2>1, <2>2 DEF Injection, IsInjective
<1>8. IsFiniteSet(0..(n - 1)) /\ Cardinality(0..(n - 1)) = n
  BY <1>1, IntervalFacts
<1> HIDE DEF C
<1>9. C \in Surjection(D, 0..(n - 1))
  BY <1>2, <1>7, <1>8, FS_Injection
<1>10. \A m \in 0..(n - 1) : \E j \in D : C[j] = m
  BY <1>9 DEF Surjection
<1> QED BY <1>5, <1>6, <1>10 DEF C

LEMMA RankedFacts ==
    ASSUME PoolTyped
    PROVE  /\ DOMAIN Ranked = DOMAIN pool
           /\ \A n \in DOMAIN pool : \E i \in DOMAIN pool : Ranked[n] = pool[i]
           /\ \A m, n \in DOMAIN pool : m < n => ~Before(Ranked[n], Ranked[m])
<1>1. \A n \in DOMAIN pool : Place(n) \in DOMAIN pool /\ Cardinality(Ahead(Place(n))) = n - 1
  <2> SUFFICES ASSUME NEW n \in DOMAIN pool
               PROVE  Place(n) \in DOMAIN pool /\ Cardinality(Ahead(Place(n))) = n - 1
    OBVIOUS
  <2>1. n - 1 \in 0..(Len(pool) - 1)
    BY DEF PoolTyped
  <2>2. \E j \in DOMAIN pool : Cardinality(Ahead(j)) = n - 1
    BY <2>1, AheadFacts
  <2> QED BY <2>2 DEF Place
<1>2. Ranked = [n \in DOMAIN pool |-> pool[Place(n)]]
  BY DEF Ranked
<1>3. ASSUME NEW m \in DOMAIN pool, NEW n \in DOMAIN pool, m < n
      PROVE  ~Before(pool[Place(n)], pool[Place(m)])
  <2>1. m \in Int /\ n \in Int /\ m - 1 < n - 1 /\ ~(n - 1 < m - 1)
    BY <1>3 DEF PoolTyped
  <2>2. Place(m) # Place(n) /\ ~Precedes(Place(n), Place(m))
    BY <1>1, <2>1, AheadFacts
  <2>3. Precedes(Place(m), Place(n))
    BY <1>1, <2>2, PrecedesIsAnOrder
  <2> QED BY <1>1, <2>3, PrecedesIsAnOrder
<1> QED BY <1>1, <1>2, <1>3

-----------------------------------------------------------------------------
(* The card: of all remarks a shortfall is the most urgent.                *)

LEMMA RemarkIsHonest ==
    ASSUME NEW p \in PerfumeRow, NEW s, SignalsTyped(s), NEW r \in Remark(p, s), r.tone = "met"
    PROVE  LET fit == Fits(p, s) IN
           /\ Item(r.about, "met") \in Breakdown(p, s) \/ (r.about = "gender" /\ s.gender = None)
           /\ s.hours > 0 => fit.longevity >= 90
           /\ s.projection # None => fit.projection >= 90
           /\ KnownScenarios(s) # {} => fit.scenario >= 90
<1> DEFINE l == LongevityFit(p, s)
           j == ProjectionFit(p, s)
           c == ScenarioFit(p, s)
<1>1. /\ l \in Percentage /\ j \in Percentage /\ c \in Percentage /\ s.hours \in Nat
      /\ Fits(p, s).longevity = l /\ Fits(p, s).projection = j /\ Fits(p, s).scenario = c
  BY LongevityFitFacts, SmallFitsFacts, ScenarioFitFacts DEF Fits, SignalsTyped
<1>2. r \in Remarks(p, s) /\ \A q \in Remarks(p, s) : q.urgency <= r.urgency
  BY DEF Remark
<1>3. Remarks(p, s) = UNION {LongevityRemark(p, s),
           When(s.projection # None, IF j >= 90 THEN Say("projection", "met", 50)
                                     ELSE Say("projection", "short", 95)),
           When(KnownScenarios(s) # {}, IF c >= 90 THEN Say("scenario", "met", 40)
                                        ELSE Say("scenario", "short", 90)),
           When(GenderMatched(p, s), Say("gender", "met", 20))}
  BY DEF Remarks
<1>4. /\ s.hours > 0 => LongevityRemark(p, s) = {IF l >= 90 THEN Say("longevity", "met", 70)
                                                 ELSE Say("longevity", "short", 99)}
      /\ ~(s.hours > 0) => LongevityRemark(p, s) = When(s.longLasting, Say("longevity", "plain", 60))
  BY DEF LongevityRemark
<1> HIDE DEF l, j, c
<1>5. \/ r = Say("longevity", "met", 70) /\ s.hours > 0 /\ l >= 90
      \/ r = Say("projection", "met", 50) /\ s.projection # None /\ j >= 90
      \/ r = Say("scenario", "met", 40) /\ KnownScenarios(s) # {} /\ c >= 90
      \/ r = Say("gender", "met", 20) /\ GenderMatched(p, s)
  BY <1>2, <1>3, <1>4 DEF When, Say
<1>6. r.urgency \in 20..70
  BY <1>5 DEF Say
<1>7. s.hours > 0 => l >= 90
  <2> SUFFICES ASSUME s.hours > 0, ~(l >= 90) PROVE FALSE
    OBVIOUS
  <2>1. Say("longevity", "short", 99) \in Remarks(p, s)
    BY <1>3, <1>4
  <2> QED BY <1>2, <1>6, <2>1 DEF Say
<1>8. s.projection # None => j >= 90
  <2> SUFFICES ASSUME s.projection # None, ~(j >= 90) PROVE FALSE
    OBVIOUS
  <2>1. Say("projection", "short", 95) \in Remarks(p, s)
    BY <1>3 DEF When
  <2> QED BY <1>2, <1>6, <2>1 DEF Say
<1>9. KnownScenarios(s) # {} => c >= 90
  <2> SUFFICES ASSUME KnownScenarios(s) # {}, ~(c >= 90) PROVE FALSE
    OBVIOUS
  <2>1. Say("scenario", "short", 90) \in Remarks(p, s)
    BY <1>3 DEF When
  <2> QED BY <1>2, <1>6, <2>1 DEF Say
<1>10. Item(r.about, "met") \in Breakdown(p, s) \/ (r.about = "gender" /\ s.gender = None)
  <2>1. \A n \in Percentage : n >= 90 => n >= 85
    BY DEF Percentage
  <2>2. CASE r.about = "longevity" /\ s.hours > 0 /\ l >= 90
    <3>1. Status(l, 85, 50) = "met"
      BY <1>1, <2>1, <2>2 DEF Status
    <3>2. Item("longevity", "met") \in
            When(s.hours > 0 \/ s.longLasting, Item("longevity", Status(Fits(p, s).longevity, 85, 50)))
      BY <1>1, <2>2, <3>1 DEF When
    <3> QED BY <2>2, <3>2 DEF Breakdown
  <2>3. CASE r.about = "projection" /\ s.projection # None /\ j >= 90
    <3>1. Status(j, 85, 50) = "met"
      BY <1>1, <2>1, <2>3 DEF Status
    <3>2. Item("projection", "met") \in
            When(s.projection # None, Item("projection", Status(Fits(p, s).projection, 85, 50)))
      BY <1>1, <2>3, <3>1 DEF When
    <3> QED BY <2>3, <3>2 DEF Breakdown
  <2>4. CASE r.about = "scenario" /\ KnownScenarios(s) # {} /\ c >= 90
    <3>1. Status(c, 85, 50) = "met"
      BY <1>1, <2>1, <2>4 DEF Status
    <3>2. Item("scenario", "met") \in
            When(KnownScenarios(s) # {}, Item("scenario", Status(Fits(p, s).scenario, 85, 50)))
      BY <1>1, <2>4, <3>1 DEF When
    <3> QED BY <2>4, <3>2 DEF Breakdown
  <2>5. CASE r.about = "gender" /\ GenderMatched(p, s) /\ s.gender # None
    <3>1. Item("gender", "met") \in
            When(s.gender # None, Item("gender", IF GenderMatched(p, s) THEN "met"
                                                 ELSE Status(Fits(p, s).gender, 90, 50)))
      BY <2>5 DEF When
    <3> QED BY <2>5, <3>1 DEF Breakdown
  <2> QED BY <1>5, <2>2, <2>3, <2>4, <2>5 DEF Say
<1> QED BY <1>1, <1>7, <1>8, <1>9, <1>10

-----------------------------------------------------------------------------
(* What a request signals is typed.                                        *)

LEMMA LeastNat ==
    ASSUME NEW T \in SUBSET Nat, T # {}
    PROVE  \E m \in T : \A i \in T : m <= i
<1>1. PICK m \in T : \A i \in T : ~(<<i, m>> \in OpToRel(<, Nat))
  BY NatLessThanWellFounded, WFMin
<1>2. \A i \in T : ~(i < m)
  BY <1>1 DEF OpToRel
<1> QED BY <1>2

LEMMA LargestHours ==
    ASSUME NEW S \in SUBSET (1..24), S # {}
    PROVE  \E h \in S : \A x \in S : x <= h
<1> DEFINE T == {n \in 0..23 : 24 - n \in S}
<1>1. \A x \in S : 24 - x \in T
  <2> SUFFICES ASSUME NEW x \in S PROVE 24 - x \in T
    OBVIOUS
  <2>1. x \in 1..24
    OBVIOUS
  <2>2. 24 - x \in 0..23 /\ 24 - (24 - x) = x
    BY <2>1
  <2> QED BY <2>2
<1>2. T \in SUBSET Nat /\ T # {}
  <2>1. PICK x \in S : TRUE
    OBVIOUS
  <2>2. 24 - x \in T
    BY <1>1, <2>1
  <2>3. T \subseteq Nat
    OBVIOUS
  <2> QED BY <2>2, <2>3
<1>6. \A n \in T : n \in Nat /\ 24 - n \in S
  OBVIOUS
<1> HIDE DEF T
<1>3. PICK m \in T : \A i \in T : m <= i
  BY <1>2, LeastNat
<1>4. m \in Nat /\ 24 - m \in S
  BY <1>6
<1>5. ASSUME NEW x \in S PROVE x <= 24 - m
  <2>1. m <= 24 - x /\ x \in 1..24
    BY <1>1, <1>3
  <2> QED BY <1>4, <2>1
<1> QED BY <1>4, <1>5

LEMMA InferredIsNat ==
    ASSUME NEW X, X \subseteq DOMAIN Defaults, X # {}
    PROVE  InferredHours(X) \in Nat
<1> DEFINE S == {Defaults[x].hours : x \in X}
<1>1. S \in SUBSET (1..24) /\ S # {}
  BY RequestAssumption
<1>2. PICK h \in S : \A y \in S : y <= h
  BY <1>1, LargestHours
<1>3. \A x \in X : Defaults[x].hours <= h
  BY <1>2
<1>4. InferredHours(X) \in S
  BY <1>2, <1>3 DEF InferredHours
<1> QED BY <1>1, <1>4

LEMMA SignalsAreTyped ==
    ASSUME RequestInv
    PROVE  SignalsTyped(Signals)
<1>1. /\ request \in Requests /\ catalogue \subseteq Row /\ query = request.query
      /\ reference \in catalogue \cup {NoRow} /\ budget \in Nat
  BY RequestAssumption DEF RequestInv, LookupInv
<1>2. query \in DOMAIN Queries /\ {request.hoursField, request.hoursTyped} \subseteq Nat
  BY <1>1, RequestAssumption
<1>3. Performance(request).hours \in Nat
  <2> DEFINE typical == request.scenarios \cap DOMAIN Defaults
  <2>1. Stated(request).hours \in Nat
    BY <1>2 DEF Stated, Or
  <2>2. typical # {} => InferredHours(typical) \in Nat
    BY InferredIsNat
  <2>3. Performance(request).hours = IF typical = {} THEN Stated(request).hours
                                     ELSE Or(Stated(request).hours, InferredHours(typical), 0)
    BY DEF Performance
  <2> QED BY <2>1, <2>2, <2>3 DEF Or
<1>4. reference # NoRow => /\ Details[reference].accords \subseteq Term
                           /\ Details[reference].notes \subseteq Term
  <2> SUFFICES ASSUME reference # NoRow
               PROVE  Details[reference].accords \subseteq Term /\ Details[reference].notes \subseteq Term
    OBVIOUS
  <2>1. Details[reference] \in PerfumeRow
    BY <1>1, RequestAssumption
  <2> QED BY <2>1, TermsAreFinite
<1>5. /\ Signals.hours = Performance(request).hours /\ Signals.budget = budget
      /\ Signals.names = [r \in Row |-> Says(r).names]
      /\ Signals.refAccords = IF reference = NoRow THEN {} ELSE Details[reference].accords
      /\ Signals.refNotes = IF reference = NoRow THEN {} ELSE Details[reference].notes
  BY DEF Signals
<1>6. [r \in Row |-> Says(r).names] \in [Row -> DOMAIN Bonus]
  BY <1>2, RequestAssumption DEF Says
<1> QED BY <1>1, <1>3, <1>4, <1>5, <1>6 DEF SignalsTyped

LEMMA PoolIsTyped ==
    ASSUME RequestInv
    PROVE  PoolTyped /\ \A i \in DOMAIN pool : pool[i] \in Row /\ Details[pool[i]] \in PerfumeRow
                                               /\ Details[pool[i]].id = pool[i]
<1>1. pool \in Seq(catalogue) /\ catalogue \subseteq Row /\ pool \in Seq(Row)
  BY RequestAssumption DEF RequestInv
<1>2. \A i \in DOMAIN pool : pool[i] \in Row
  BY <1>1
<1>3. \A i \in DOMAIN pool : Details[pool[i]] \in PerfumeRow /\ Details[pool[i]].id = pool[i]
  BY <1>2, RequestAssumption
<1>4. \A i \in DOMAIN pool : PriceKey(pool[i]) \in Int
  <2> SUFFICES ASSUME NEW i \in DOMAIN pool PROVE PriceKey(pool[i]) \in Int
    OBVIOUS
  <2>1. Details[pool[i]].price \in Nat
    BY <1>3 DEF PerfumeRow
  <2> QED BY <2>1 DEF PriceKey
<1>5. \A i \in DOMAIN pool : RawScore(Details[pool[i]], Signals) \in Int
  BY <1>3, SignalsAreTyped, ScoreFacts
<1> QED BY <1>1, <1>2, <1>3, <1>4, <1>5 DEF PoolTyped

-----------------------------------------------------------------------------
(* What the page is, once it is there.                                     *)

\* The card in place i is that of the result in place i of the ranking, which is
\* in the pool.
LEMMA CardFacts ==
    ASSUME RequestInv, NEW i \in DOMAIN page
    PROVE  /\ i \in DOMAIN pool /\ Affordable
           /\ page[i] = Card(Details[Ranked[i]], Signals)
           /\ \E k \in DOMAIN pool : Ranked[i] = pool[k]
           /\ Perfume(i) = Details[Ranked[i]] /\ Perfume(i) \in PerfumeRow
           /\ page[i].id = Ranked[i] /\ Ranked[i] \in catalogue /\ Admissible(Ranked[i])
<1>1. PoolTyped /\ Len(pool) \in Nat /\ DOMAIN pool = 1..Len(pool)
  BY PoolIsTyped DEF PoolTyped
<1>2. page = Cards
  BY DEF RequestInv
<1>3. AtMost(Len(pool), FetchLimit) \in Nat /\ AtMost(Len(pool), FetchLimit) <= Len(pool)
  BY <1>1, RequestAssumption DEF AtMost
<1>4. /\ i \in 1..AtMost(Len(pool), FetchLimit)
      /\ page[i] = Card(Details[Ranked[i]], Signals)
  BY <1>2 DEF Cards
<1>5. i \in DOMAIN pool
  BY <1>1, <1>3, <1>4
<1>6. PICK k \in DOMAIN pool : Ranked[i] = pool[k]
  BY <1>1, <1>5, RankedFacts
<1>7. /\ Details[pool[k]] \in PerfumeRow /\ Details[pool[k]].id = pool[k]
      /\ pool[k] \in catalogue /\ Admissible(pool[k])
  BY PoolIsTyped DEF RequestInv, PoolAdmissible
<1>8. pool # <<>> /\ Affordable
  BY <1>1, <1>5 DEF RequestInv
<1>9. page[i].id = Ranked[i]
  BY <1>4, <1>6, <1>7 DEF Card
<1> QED BY <1>4, <1>5, <1>6, <1>7, <1>8, <1>9 DEF Perfume

LEMMA InOrder ==
    ASSUME RequestInv, NEW i \in DOMAIN page, NEW j \in DOMAIN page, i < j
    PROVE  ~Before(Ranked[j], Ranked[i])
BY CardFacts, PoolIsTyped, RankedFacts

LEMMA InvImpliesTypeOK == RequestInv => TypeOK
<1> SUFFICES ASSUME RequestInv PROVE TypeOK
  OBVIOUS
<1>1. /\ request \in Requests /\ query = request.query /\ catalogue \subseteq Row
      /\ tier \in {"idle", "literal", "name", "fuzzy", "fuzzyName", "over"}
      /\ reference \in catalogue \cup {NoRow}
      /\ stage \in {"received", "lookup", "pricing", "retrieving", "ranking", "done"}
      /\ status \in {0, 200, 400, 422} /\ budget \in Nat /\ budget \notin 1..99
      /\ pool \in Seq(catalogue)
  BY RequestAssumption DEF RequestInv, LookupInv
<1>2. request.handler \in {"context", "dupe"}
  BY <1>1, RequestAssumption
<1>3. ToSet(pool) \subseteq catalogue /\ \A k \in DOMAIN pool : pool[k] \in ToSet(pool)
  BY <1>1 DEF ToSet
<1>4. ASSUME NEW i \in DOMAIN page
      PROVE  page[i].id \in ToSet(pool) /\ page[i].score \in -1000..1000
  <2>1. /\ page[i] = Card(Details[Ranked[i]], Signals) /\ Details[Ranked[i]] \in PerfumeRow
        /\ page[i].id = Ranked[i] /\ \E k \in DOMAIN pool : Ranked[i] = pool[k]
    BY CardFacts
  <2>2. page[i].score = MatchScore(Details[Ranked[i]], Signals)
    BY <2>1 DEF Card
  <2>3. MatchScore(Details[Ranked[i]], Signals) \in -1000..1000
    BY <2>1, SignalsAreTyped, ScoreFacts
  <2> QED BY <1>3, <2>1, <2>2, <2>3
<1>5. budget = 0 \/ budget >= 100
  BY <1>1
<1> QED BY <1>1, <1>2, <1>3, <1>4, <1>5 DEF TypeOK

LEMMA InvImpliesCeilingKept == RequestInv => CeilingKept
<1> SUFFICES ASSUME RequestInv, NEW i \in DOMAIN page
             PROVE  /\ request.budgetTyped # Absent => Price(i) \in 1..request.budgetTyped
                    /\ request.budgetTyped = Absent /\ request.budgetField # Absent
                         => Price(i) \in 1..request.budgetField
                    /\ DupeWanted /\ {request.budgetTyped, request.budgetField} = {Absent}
                         => reference # NoRow /\ Price(i) \in 1..Details[reference].price
  BY DEF CeilingKept
<1>1. /\ Affordable /\ Admissible(Ranked[i]) /\ Perfume(i) = Details[Ranked[i]]
  BY CardFacts
<1>2. {request.budgetTyped, request.budgetField} \subseteq Nat \cup {Absent}
  BY RequestAssumption DEF RequestInv
<1>3. budget # 0 => Price(i) \in 1..budget
  BY <1>1 DEF Admissible, Price
<1>4. (Ceiling >= 100 /\ budget = Ceiling) \/ (Ceiling = Absent /\ ~DupeWanted /\ budget = 0)
  BY <1>1 DEF Affordable
<1>5. CASE request.budgetTyped # Absent
  <2>1. Ceiling = request.budgetTyped /\ request.budgetTyped \in Nat
    BY <1>2, <1>5 DEF Ceiling
  <2>2. budget = request.budgetTyped /\ budget # 0
    BY <1>4, <1>5, <2>1
  <2> QED BY <1>3, <1>5, <2>2
<1>6. CASE request.budgetTyped = Absent /\ request.budgetField # Absent
  <2>1. Ceiling = request.budgetField /\ request.budgetField \in Nat
    BY <1>2, <1>6 DEF Ceiling
  <2>2. budget = request.budgetField /\ budget # 0
    BY <1>4, <1>6, <2>1
  <2> QED BY <1>3, <1>6, <2>2
<1>7. CASE request.budgetTyped = Absent /\ request.budgetField = Absent
  <2> SUFFICES ASSUME DupeWanted
               PROVE  reference # NoRow /\ Price(i) \in 1..Details[reference].price
    BY <1>7
  <2>1. Ceiling >= 100 /\ budget = Ceiling
    BY <1>4
  <2>2. ReferencePrice > 0 /\ Ceiling = ReferencePrice
    BY <1>7, <2>1 DEF Ceiling, Absent
  <2>3. reference # NoRow /\ ReferencePrice = Details[reference].price
    BY <2>2 DEF ReferencePrice
  <2>4. budget # 0 /\ budget = Details[reference].price
    BY <2>1, <2>2, <2>3
  <2> QED BY <1>3, <2>3, <2>4
<1> QED BY <1>5, <1>6, <1>7

LEMMA InvImpliesRankOrder == RequestInv => RankOrder
<1> SUFFICES ASSUME RequestInv, NEW i \in DOMAIN page, NEW j \in DOMAIN page, i < j
             PROVE  IF budget = 0 \/ Price(i) = Price(j) THEN Raw(i) >= Raw(j)
                    ELSE IF request.dealBreaker THEN Price(i) < Price(j) ELSE Price(i) > Price(j)
  BY DEF RankOrder
<1>1. /\ Perfume(i) = Details[Ranked[i]] /\ Perfume(i) \in PerfumeRow
      /\ Perfume(j) = Details[Ranked[j]] /\ Perfume(j) \in PerfumeRow
  BY CardFacts
<1>2. Price(i) \in Nat /\ Price(j) \in Nat
  BY <1>1 DEF Price, PerfumeRow
<1>3. Raw(i) \in Int /\ Raw(j) \in Int
  BY <1>1, SignalsAreTyped, ScoreFacts DEF Raw
<1>4. /\ PriceKey(Ranked[i]) = (IF budget = 0 THEN 0
                                ELSE IF request.dealBreaker THEN Price(i) ELSE -Price(i))
      /\ PriceKey(Ranked[j]) = (IF budget = 0 THEN 0
                                ELSE IF request.dealBreaker THEN Price(j) ELSE -Price(j))
  BY <1>1 DEF PriceKey, Price
<1>5. ~Before(Ranked[j], Ranked[i])
  BY InOrder
<1>6. ~(PriceKey(Ranked[j]) < PriceKey(Ranked[i]))
      /\ (PriceKey(Ranked[j]) = PriceKey(Ranked[i]) => ~(Raw(j) > Raw(i)))
  BY <1>1, <1>5 DEF Before, Raw
<1> QED BY <1>2, <1>3, <1>4, <1>6

LEMMA InvImpliesBetterIsAhead == RequestInv => BetterIsAhead
<1> SUFFICES ASSUME RequestInv, NEW i \in DOMAIN page, NEW j \in DOMAIN page, i < j,
                    Better(Perfume(j), Perfume(i))
             PROVE  page[i].score = page[j].score
  BY DEF BetterIsAhead
<1>1. /\ Perfume(i) \in PerfumeRow /\ Perfume(j) \in PerfumeRow /\ SignalsTyped(Signals)
  BY CardFacts, SignalsAreTyped
<1>2. /\ page[i].score = MatchScore(Perfume(i), Signals)
      /\ page[j].score = MatchScore(Perfume(j), Signals)
  BY CardFacts DEF Card
<1>3. Price(i) = Price(j)
  BY <1>1 DEF Better, Price, PerfumeRow
<1>4. Raw(i) >= Raw(j)
  BY <1>3, InvImpliesRankOrder DEF RankOrder
<1>5. Signals.names[Perfume(j).id] = Signals.names[Perfume(i).id]
  <2>1. Signals.names = [r \in Row |-> Says(r).names]
    BY DEF Signals
  <2>2. Perfume(i).id \in Row /\ Perfume(j).id \in Row
    BY <1>1 DEF PerfumeRow
  <2> QED BY <2>1, <2>2 DEF Better
<1>6. Raw(i) <= Raw(j)
  BY <1>1, <1>5, BetterScoresMore DEF Raw
<1>7. Raw(i) \in Int /\ Raw(j) \in Int
  BY <1>1, ScoreFacts DEF Raw
<1>8. Raw(i) = Raw(j)
  BY <1>4, <1>6, <1>7
<1> QED BY <1>1, <1>2, <1>8 DEF MatchScore, Raw

LEMMA InvImpliesNegatedSinks == RequestInv => NegatedSinks
<1> SUFFICES ASSUME RequestInv, NEW i \in DOMAIN page, Hit(i)
             PROVE  /\ page[i].score <= 338
                    /\ \A j \in DOMAIN page : budget = 0 /\ i < j => page[j].score <= page[i].score
  BY DEF NegatedSinks
<1>1. \A j \in DOMAIN page : /\ Perfume(j) \in PerfumeRow
                             /\ page[j].score = MatchScore(Perfume(j), Signals)
  BY CardFacts DEF Card
<1>2. page[i].score <= 338
  BY <1>1, SignalsAreTyped, NegatedIsShownLow DEF Hit
<1>3. ASSUME NEW j \in DOMAIN page, budget = 0, i < j PROVE page[j].score <= page[i].score
  <2>1. Raw(i) >= Raw(j)
    BY <1>3, InvImpliesRankOrder DEF RankOrder
  <2>2. Raw(i) \in Int /\ Raw(j) \in Int
    BY <1>1, SignalsAreTyped, ScoreFacts DEF Raw
  <2>3. RawScore(Perfume(j), Signals) <= RawScore(Perfume(i), Signals)
    BY <2>1, <2>2 DEF Raw
  <2> QED BY <1>1, <2>3, SignalsAreTyped, ShownMonotone
<1> QED BY <1>2, <1>3

LEMMA InvImpliesHonestCard == RequestInv => HonestCard
<1> SUFFICES ASSUME RequestInv, NEW i \in DOMAIN page, NEW r \in page[i].remark, r.tone = "met"
             PROVE  LET fit == Fits(Perfume(i), Signals) IN
                    /\ \/ Item(r.about, "met") \in page[i].breakdown
                       \/ r.about = "gender" /\ Signals.gender = None
                    /\ Signals.hours > 0 => fit.longevity >= 90
                    /\ Signals.projection # None => fit.projection >= 90
                    /\ KnownScenarios(Signals) # {} => fit.scenario >= 90
  BY DEF HonestCard
<1>1. /\ Perfume(i) \in PerfumeRow /\ SignalsTyped(Signals)
      /\ page[i].remark = Remark(Perfume(i), Signals)
      /\ page[i].breakdown = Breakdown(Perfume(i), Signals)
  BY CardFacts, SignalsAreTyped DEF Card
<1> QED BY <1>1, RemarkIsHonest

-----------------------------------------------------------------------------
(* The lookup: each query is asked only if those before it found nothing,  *)
(* and what it then finds is right.                                        *)

\* Documented matches of houses that have nothing to do with each other are not
\* accepted.
LEMMA UnrelatedAreRefused ==
    ASSUME NEW M, IsFiniteSet(M), M \subseteq Row, NEW r \in M, NEW q \in M,
           ~Undocumented(r), ~Undocumented(q), Unrelated(Brand(r), Brand(q))
    PROVE  ~Accept(M)
<1> DEFINE B == BestBrands(M)
<1>1. Brand(r) \in B /\ Brand(q) \in B /\ Brand(r) # Brand(q)
  BY DEF BestBrands, Unrelated
<1>2. ~(Cardinality(B) <= 1)
  <2>1. IsFiniteSet(B)
    <3> DEFINE best == {x \in M : Undocumented(x) => \A y \in M : Undocumented(y)}
    <3>1. IsFiniteSet(best)
      BY FS_Subset, best \subseteq M
    <3>2. B = {Brand(x) : x \in best}
      BY DEF BestBrands
    <3> DEFINE f == [x \in best |-> Brand(x)]
    <3> HIDE DEF best
    <3>3. f \in Surjection(best, B)
      BY <3>2 DEF Surjection
    <3> HIDE DEF f
    <3> QED BY <3>1, <3>3, FS_Surjection
  <2>2. IsFiniteSet({Brand(r), Brand(q)}) /\ {Brand(r), Brand(q)} \subseteq B
    BY <1>1, <2>1, FS_Subset
  <2>3. Cardinality({Brand(r), Brand(q)}) = 2
    <3>1. IsFiniteSet({Brand(q)}) /\ Cardinality({Brand(q)}) = 1
      BY FS_Singleton
    <3>2. Cardinality({Brand(q)} \cup {Brand(r)}) = Cardinality({Brand(q)}) + 1
      BY <1>1, <3>1, FS_AddElement
    <3>3. {Brand(q)} \cup {Brand(r)} = {Brand(r), Brand(q)}
      OBVIOUS
    <3> QED BY <3>1, <3>2, <3>3
  <2>4. Cardinality({Brand(r), Brand(q)}) <= Cardinality(B) /\ Cardinality(B) \in Nat
    BY <2>1, <2>2, FS_Subset, FS_CardinalityType
  <2> QED BY <2>3, <2>4
<1>3. ASSUME NEW core \in B, BrandLen[core] >= 4 PROVE ~(B \subseteq Inside[core])
  <2>1. core \in DOMAIN BrandLen
    BY LookupAssumption DEF BestBrands, Brand
  <2> QED BY <1>1, <1>3, <2>1 DEF Unrelated
<1> QED BY <1>2, <1>3 DEF Accept, SameHouse

LEMMA FirstFacts ==
    ASSUME NEW M, NEW closeness, NEW r \in First(M, closeness)
    PROVE  r \in M /\ (Undocumented(r) => \A q \in M : Undocumented(q))
BY DEF First, Earlier

LEMMA LiterallyKeepsInv ==
    ASSUME LookupInv, Literally
    PROVE  LookupInv'
<1>1. /\ tier = "literal" /\ reference = NoRow /\ UNCHANGED <<catalogue, query>>
      /\ Settle(LiteralMatches, Equally, "name")
  BY DEF LookupInv, Literally, Over
<1>2. LiteralMatches' = LiteralMatches /\ LiteralMatches \subseteq catalogue
  BY <1>1 DEF LiteralMatches, Says
<1>3. CASE LiteralMatches # {}
  <2>1. /\ tier' = "over" /\ reference' \in LiteralMatches
        /\ Undocumented(reference') => \A q \in LiteralMatches : Undocumented(q)
    BY <1>1, <1>3, FirstFacts DEF Settle
  <2>2. NamedIsFound'
    BY <1>2, <2>1 DEF NamedIsFound, Undocumented
  <2>3. AmbiguousIsRefused'
    BY <1>2, <1>3 DEF AmbiguousIsRefused
  <2> QED BY <1>1, <1>2, <2>1, <2>2, <2>3 DEF LookupInv, LookupIsRight, Over
<1>4. CASE LiteralMatches = {}
  <2>1. tier' = "name" /\ reference' = NoRow
    BY <1>1, <1>4 DEF Settle
  <2> QED BY <1>1, <1>2, <1>4, <2>1
          DEF LookupInv, LookupIsRight, NamedIsFound, AmbiguousIsRefused, Over
<1> QED BY <1>3, <1>4

\* The matches of a name are taken only if they are accepted.
LEMMA NameIsUnambiguous ==
    ASSUME NEW M, IsFiniteSet(M), M \subseteq Row, Accept(M), NEW r \in M, NEW q \in M
    PROVE  ~(~Undocumented(r) /\ ~Undocumented(q) /\ Unrelated(Brand(r), Brand(q)))
BY UnrelatedAreRefused

LEMMA ByNameKeepsInv ==
    ASSUME LookupInv, ByName, IsFiniteSet(catalogue), catalogue \subseteq Row
    PROVE  LookupInv'
<1> DEFINE M == IF Queries[query].length >= 4 /\ Accept(NameMatches) THEN NameMatches ELSE {}
<1>1. /\ tier = "name" /\ reference = NoRow /\ UNCHANGED <<catalogue, query>>
      /\ LiteralMatches = {} /\ Settle(M, Equally, "fuzzy")
  BY DEF LookupInv, ByName, Over
<1>2. /\ LiteralMatches' = LiteralMatches /\ NameMatches' = NameMatches
      /\ NameMatches \subseteq catalogue /\ IsFiniteSet(NameMatches)
  <2>1. NameMatches \subseteq catalogue
    BY DEF NameMatches
  <2> QED BY <1>1, <2>1, FS_Subset DEF LiteralMatches, NameMatches, Says
<1>3. CASE M # {}
  <2>1. tier' = "over" /\ reference' \in M
    BY <1>1, <1>3, FirstFacts DEF Settle
  <2>2. Accept(NameMatches) /\ M = NameMatches
    BY <1>3
  <2>3. \A r, q \in NameMatches :
            ~(~Undocumented(r) /\ ~Undocumented(q) /\ Unrelated(Brand(r), Brand(q)))
    BY <1>2, <2>2, NameIsUnambiguous
  <2> HIDE DEF M
  <2>4. AmbiguousIsRefused'
    BY <1>2, <2>3 DEF AmbiguousIsRefused, Undocumented
  <2> QED BY <1>1, <1>2, <2>1, <2>2, <2>4 DEF LookupInv, LookupIsRight, NamedIsFound, Over
<1>4. CASE M = {}
  <2>1. tier' = "fuzzy" /\ reference' = NoRow
    BY <1>1, <1>4 DEF Settle
  <2> QED BY <1>1, <1>2, <2>1
          DEF LookupInv, LookupIsRight, NamedIsFound, AmbiguousIsRefused, Over
<1> QED BY <1>3, <1>4

LEMMA ApproximatelyKeepsInv ==
    ASSUME LookupInv, Approximately
    PROVE  LookupInv'
<1> DEFINE M == IF Queries[query].length >= 3 THEN FuzzyMatches ELSE {}
           closeness == [r \in Row |-> Says(r).brandSim + Says(r).nameSim]
<1>1. /\ tier = "fuzzy" /\ reference = NoRow /\ UNCHANGED <<catalogue, query>>
      /\ LiteralMatches = {} /\ Settle(M, closeness, "fuzzyName")
  BY DEF LookupInv, Approximately, Over
<1> HIDE DEF closeness
<1>2. /\ LiteralMatches' = LiteralMatches /\ FuzzyMatches' = FuzzyMatches
      /\ FuzzyMatches \subseteq catalogue
  BY <1>1 DEF LiteralMatches, FuzzyMatches, Says
<1>3. CASE M # {}
  <2>1. tier' = "over" /\ reference' \in FuzzyMatches /\ FuzzyMatches # {}
    BY <1>1, <1>3, FirstFacts DEF Settle
  <2>2. AmbiguousIsRefused'
    BY <1>2, <2>1 DEF AmbiguousIsRefused
  <2> HIDE DEF M
  <2> QED BY <1>1, <1>2, <2>1, <2>2 DEF LookupInv, LookupIsRight, NamedIsFound, Over
<1>4. CASE M = {}
  <2>1. tier' = "fuzzyName" /\ reference' = NoRow
    BY <1>1, <1>4 DEF Settle
  <2> QED BY <1>1, <1>2, <2>1
          DEF LookupInv, LookupIsRight, NamedIsFound, AmbiguousIsRefused, Over
<1> QED BY <1>3, <1>4

LEMMA ApproximatelyByNameKeepsInv ==
    ASSUME LookupInv, ApproximatelyByName, IsFiniteSet(catalogue), catalogue \subseteq Row
    PROVE  LookupInv'
<1> DEFINE M == IF Queries[query].length >= 4 /\ Accept(FuzzyNameMatches) THEN FuzzyNameMatches ELSE {}
           closeness == [r \in Row |-> Says(r).nameSim]
<1>1. /\ tier = "fuzzyName" /\ reference = NoRow /\ UNCHANGED <<catalogue, query>>
      /\ LiteralMatches = {} /\ Settle(M, closeness, "over")
  BY DEF LookupInv, ApproximatelyByName, Over
<1> HIDE DEF closeness
<1>2. /\ LiteralMatches' = LiteralMatches /\ NameMatches' = NameMatches
      /\ FuzzyNameMatches \subseteq catalogue /\ IsFiniteSet(FuzzyNameMatches)
  <2>1. FuzzyNameMatches \subseteq catalogue
    BY DEF FuzzyNameMatches
  <2> QED BY <1>1, <2>1, FS_Subset DEF LiteralMatches, NameMatches, Says
<1>3. CASE M # {}
  <2>1. tier' = "over" /\ reference' \in M
    BY <1>1, <1>3, FirstFacts DEF Settle
  <2>2. Accept(FuzzyNameMatches) /\ M = FuzzyNameMatches
    BY <1>3
  <2>3. \A r, q \in FuzzyNameMatches :
            ~(~Undocumented(r) /\ ~Undocumented(q) /\ Unrelated(Brand(r), Brand(q)))
    BY <1>2, <2>2, NameIsUnambiguous
  <2>4. \A r \in NameMatches : Says(r).nameSim > 45 => r \in FuzzyNameMatches
    BY DEF NameMatches, FuzzyNameMatches
  <2>5. \A r : Says(r)' = Says(r)
    BY <1>1 DEF Says
  <2> HIDE DEF M
  <2>6. AmbiguousIsRefused'
    BY <1>2, <2>3, <2>4, <2>5 DEF AmbiguousIsRefused, Undocumented
  <2> QED BY <1>1, <1>2, <2>1, <2>2, <2>6 DEF LookupInv, LookupIsRight, NamedIsFound, Over
<1>4. CASE M = {}
  <2>1. tier' = "over" /\ reference' = NoRow
    BY <1>1, <1>4 DEF Settle
  <2> QED BY <1>1, <1>2, <2>1
          DEF LookupInv, LookupIsRight, NamedIsFound, AmbiguousIsRefused, Over
<1> QED BY <1>3, <1>4

LEMMA LookupKeepsInv ==
    ASSUME LookupInv, LookupStep, IsFiniteSet(catalogue), catalogue \subseteq Row
    PROVE  LookupInv' /\ UNCHANGED <<catalogue, query>>
<1>1. LookupInv'
  BY LiterallyKeepsInv, ByNameKeepsInv, ApproximatelyKeepsInv, ApproximatelyByNameKeepsInv
     DEF LookupStep
<1>2. UNCHANGED <<catalogue, query>>
  BY DEF LookupStep, Literally, ByName, Approximately, ApproximatelyByName
<1> QED BY <1>1, <1>2

-----------------------------------------------------------------------------
(* The request: what a step leaves alone.                                  *)

LEMMA LookupIsStable ==
    ASSUME LookupInv, UNCHANGED lookupVars
    PROVE  LookupInv'
<1>1. UNCHANGED <<catalogue, query, tier, reference>>
  BY DEF lookupVars
<1>2. /\ LiteralMatches' = LiteralMatches /\ NameMatches' = NameMatches
      /\ FuzzyMatches' = FuzzyMatches /\ \A r : Says(r)' = Says(r)
  BY <1>1 DEF LiteralMatches, NameMatches, FuzzyMatches, Says
<1>3. NamedIsFound => NamedIsFound'
  BY <1>1, <1>2 DEF NamedIsFound, Over, Undocumented
<1>4. AmbiguousIsRefused => AmbiguousIsRefused'
  BY <1>1, <1>2 DEF AmbiguousIsRefused, Over, Undocumented
<1> QED BY <1>1, <1>2, <1>3, <1>4 DEF LookupInv, LookupIsRight, Over

LEMMA SignalsAreStable ==
    ASSUME UNCHANGED <<request, query, reference, budget>>
    PROVE  Signals' = Signals
<1>1. \A r : Says(r)' = Says(r)
  BY DEF Says
<1> QED BY <1>1 DEF Signals

LEMMA CeilingIsStable ==
    ASSUME UNCHANGED <<request, reference>>
    PROVE  Ceiling' = Ceiling /\ DupeWanted' = DupeWanted
BY DEF Ceiling, DupeWanted, ReferencePrice

LEMMA AdmissibleIsStable ==
    ASSUME UNCHANGED <<request, query, reference, budget>>, NEW P, P = pool',
           \A i \in DOMAIN P : Admissible(P[i])
    PROVE  PoolAdmissible'
<1>1. Signals' = Signals
  BY SignalsAreStable
<1>2. ASSUME NEW i \in DOMAIN P PROVE Admissible(P[i])'
  <2> DEFINE r == P[i]
  <2>1. Admissible(r)
    OBVIOUS
  <2> HIDE DEF r
  <2>2. Admissible(r)'
    BY <1>1, <2>1 DEF Admissible, SameFamily, Brand
  <2> QED BY <2>2 DEF r
<1> QED BY <1>2 DEF PoolAdmissible

LEMMA CardsAreStable ==
    ASSUME UNCHANGED <<request, query, reference, budget, pool>>
    PROVE  Cards' = Cards
<1>1. Signals' = Signals
  BY SignalsAreStable
<1>2. \A r, q : Before(r, q)' = Before(r, q)
  BY <1>1 DEF Before, PriceKey
<1>3. \A i, j : Precedes(i, j)' = Precedes(i, j)
  BY <1>2 DEF Precedes
<1>4. \A j : Ahead(j)' = Ahead(j)
  BY <1>3 DEF Ahead
<1>5. \A n : Place(n)' = Place(n)
  BY <1>4 DEF Place
<1>6. Ranked' = Ranked
  BY <1>5 DEF Ranked
<1> QED BY <1>1, <1>6 DEF Cards

-----------------------------------------------------------------------------
(* Each step keeps RequestInv.                                             *)

LEMMA InitRequestInv == Init => RequestInv
<1> SUFFICES ASSUME Init PROVE RequestInv
  OBVIOUS
<1>1. LookupInv
  BY DEF Init, LookupInv, LookupIsRight, NamedIsFound, AmbiguousIsRefused, Over
<1>2. pool \in Seq(catalogue) /\ PoolAdmissible
  BY DEF Init, PoolAdmissible
<1> QED BY <1>1, <1>2 DEF Init, RequestInv

\* A request that is refused, or about to be looked up or priced.
LEMMA EarlyKeepsInv ==
    ASSUME RequestInv, Blank \/ PlainSearch \/ LookedUp \/ Clarify \/ TooLow
    PROVE  RequestInv'
<1>1. /\ stage \in {"received", "lookup", "pricing"} /\ stage' \in {"pricing", "done"}
      /\ status' \in {0, 200, 400, 422}
      /\ UNCHANGED <<lookupVars, request, budget, pool, page>>
  BY DEF RequestInv, Blank, PlainSearch, LookedUp, Clarify, TooLow, Respond
<1>2. pool' = <<>> /\ page' = <<>>
  BY <1>1 DEF RequestInv
<1>3. LookupInv'
  BY <1>1, LookupIsStable DEF RequestInv
<1>4. pool' \in Seq(catalogue') /\ PoolAdmissible'
  BY <1>2 DEF PoolAdmissible
<1> QED BY <1>1, <1>2, <1>3, <1>4 DEF RequestInv, lookupVars

LEMMA BeginLookupKeepsInv ==
    ASSUME RequestInv, BeginLookup
    PROVE  RequestInv'
<1>1. /\ stage = "received" /\ stage' = "lookup" /\ tier' \in {"idle", "literal"}
      /\ UNCHANGED <<catalogue, query, reference, request, status, budget, pool, page>>
  BY DEF BeginLookup
<1>2. reference = NoRow /\ pool = <<>> /\ page = <<>>
  BY <1>1 DEF RequestInv, LookupInv, Over
<1>3. LookupInv'
  BY <1>1, <1>2 DEF RequestInv, LookupInv, LookupIsRight, NamedIsFound, AmbiguousIsRefused, Over
<1>4. pool' \in Seq(catalogue') /\ PoolAdmissible'
  BY <1>1, <1>2 DEF PoolAdmissible
<1> QED BY <1>1, <1>2, <1>3, <1>4 DEF RequestInv

LEMMA LookupActionKeepsInv ==
    ASSUME RequestInv, Lookup
    PROVE  RequestInv'
<1>1. /\ stage = "lookup" /\ LookupStep
      /\ UNCHANGED <<request, stage, status, budget, pool, page>>
  BY DEF Lookup, requestVars
<1>2. LookupInv' /\ UNCHANGED <<catalogue, query>>
  BY <1>1, LookupKeepsInv, RequestAssumption DEF RequestInv
<1>3. pool = <<>> /\ page = <<>>
  BY <1>1 DEF RequestInv
<1>4. pool' \in Seq(catalogue') /\ PoolAdmissible'
  BY <1>1, <1>3 DEF PoolAdmissible
<1> QED BY <1>1, <1>2, <1>3, <1>4 DEF RequestInv

LEMMA PricedKeepsInv ==
    ASSUME RequestInv, Priced
    PROVE  RequestInv'
<1>1. /\ stage = "pricing" /\ stage' = "retrieving"
      /\ Ceiling >= 100 \/ (Ceiling = Absent /\ ~DupeWanted)
      /\ budget' = AtLeast(Ceiling, 0)
      /\ UNCHANGED <<lookupVars, request, status, pool, page>>
  BY DEF Priced
<1>2. pool = <<>> /\ page = <<>>
  BY <1>1 DEF RequestInv
<1>3. LookupInv'
  BY <1>1, LookupIsStable DEF RequestInv
<1>4. Ceiling \in Nat \cup {Absent}
  <2>1. {request.budgetTyped, request.budgetField} \subseteq Nat \cup {Absent}
    BY RequestAssumption DEF RequestInv
  <2>2. reference # NoRow => Details[reference].price \in Nat
    <3>1. reference # NoRow => reference \in Row
      BY RequestAssumption DEF RequestInv, LookupInv
    <3> QED BY <3>1, RequestAssumption DEF PerfumeRow
  <2> QED BY <2>1, <2>2 DEF Ceiling, ReferencePrice
<1>5. Affordable' /\ budget' \in Nat /\ budget' \notin 1..99
  <2>1. Ceiling' = Ceiling /\ DupeWanted' = DupeWanted
    BY <1>1, CeilingIsStable DEF lookupVars
  <2> QED BY <1>1, <1>4, <2>1 DEF Affordable, AtLeast, Absent
<1>6. pool' \in Seq(catalogue') /\ PoolAdmissible'
  BY <1>1, <1>2 DEF PoolAdmissible
<1> QED BY <1>1, <1>2, <1>3, <1>5, <1>6 DEF RequestInv, lookupVars

LEMMA AffordableIsStable ==
    ASSUME UNCHANGED <<request, reference, budget>>
    PROVE  Affordable' = Affordable
BY CeilingIsStable DEF Affordable

LEMMA RetrieveKeepsInv ==
    ASSUME RequestInv, Retrieve
    PROVE  RequestInv'
<1>1. /\ stage = "retrieving" /\ stage' = "ranking"
      /\ UNCHANGED <<lookupVars, request, status, budget, page>>
  BY DEF Retrieve
<1>2. PICK found \in SUBSET {r \in catalogue : Admissible(r)} : pool' \in SetToSeqs(found)
  BY DEF Retrieve
<1>3. Affordable' /\ LookupInv' /\ page' = <<>>
  BY <1>1, AffordableIsStable, LookupIsStable DEF RequestInv, lookupVars
<1>4. IsFiniteSet(found) /\ Cardinality(found) \in Nat
  <2>1. IsFiniteSet(catalogue) /\ found \subseteq catalogue
    BY RequestAssumption DEF RequestInv
  <2> QED BY <2>1, FS_Subset, FS_CardinalityType
<1>5. pool' \in [1..Cardinality(found) -> found]
  BY <1>2 DEF SetToSeqs
<1>6. pool' \in Seq(catalogue)
  <2>1. pool' \in [1..Cardinality(found) -> catalogue]
    BY <1>5
  <2> QED BY <1>4, <2>1
<1>7. PoolAdmissible'
  <2>1. PICK P : P = pool'
    OBVIOUS
  <2>2. \A i \in DOMAIN P : Admissible(P[i])
    BY <1>5, <2>1
  <2> QED BY <1>1, <2>1, <2>2, AdmissibleIsStable DEF lookupVars
<1> QED BY <1>1, <1>3, <1>6, <1>7 DEF RequestInv, lookupVars

LEMMA RankKeepsInv ==
    ASSUME RequestInv, Rank
    PROVE  RequestInv'
<1>1. /\ stage = "ranking" /\ stage' = "done" /\ status' = 200 /\ page' = Cards
      /\ UNCHANGED <<lookupVars, request, budget, pool>>
  BY DEF Rank, Respond
<1>2. Affordable' /\ LookupInv' /\ Cards' = Cards
  BY <1>1, AffordableIsStable, LookupIsStable, CardsAreStable DEF RequestInv, lookupVars
<1>3. PoolAdmissible'
  <2>1. PICK P : P = pool'
    OBVIOUS
  <2>2. \A i \in DOMAIN P : Admissible(P[i])
    BY <1>1, <2>1 DEF RequestInv, PoolAdmissible
  <2> QED BY <1>1, <2>1, <2>2, AdmissibleIsStable DEF lookupVars
<1> QED BY <1>1, <1>2, <1>3 DEF RequestInv, lookupVars

LEMMA StutterKeepsInv ==
    ASSUME RequestInv, UNCHANGED vars
    PROVE  RequestInv'
<1>1. UNCHANGED <<lookupVars, request, stage, status, budget, pool, page>>
  BY DEF vars, requestVars
<1>2. Affordable' = Affordable /\ LookupInv' /\ Cards' = Cards
  BY <1>1, AffordableIsStable, LookupIsStable, CardsAreStable DEF RequestInv, lookupVars
<1>3. PoolAdmissible'
  <2>1. PICK P : P = pool'
    OBVIOUS
  <2>2. \A i \in DOMAIN P : Admissible(P[i])
    BY <1>1, <2>1 DEF RequestInv, PoolAdmissible
  <2> QED BY <1>1, <2>1, <2>2, AdmissibleIsStable DEF lookupVars
<1> QED BY <1>1, <1>2, <1>3 DEF RequestInv, lookupVars

LEMMA NextKeepsInv == RequestInv /\ [Next]_vars => RequestInv'
BY EarlyKeepsInv, BeginLookupKeepsInv, LookupActionKeepsInv, PricedKeepsInv,
   RetrieveKeepsInv, RankKeepsInv, StutterKeepsInv DEF Next

-----------------------------------------------------------------------------
\* The inductive invariant holds in every reachable state: for all requests and
\* catalogues, and all that a query may say about a row.
THEOREM RequestInvariant == Spec => []RequestInv
BY InitRequestInv, NextKeepsInv, PTL DEF Spec

\* Every response is well typed, its results are rows the pool has, and no score
\* is over 1000 tenths.
THEOREM RequestTypes == Spec => []TypeOK
BY RequestInvariant, InvImpliesTypeOK, PTL

\* The reference is what the query names, and no one's if houses share the name.
THEOREM RightReference == Spec => []LookupIsRight
<1>1. RequestInv => LookupIsRight
  BY DEF RequestInv, LookupInv
<1> QED BY <1>1, RequestInvariant, PTL

\* No result is over the price ceiling, which a search for dupes always has.
THEOREM CeilingIsKept == Spec => []CeilingKept
BY RequestInvariant, InvImpliesCeilingKept, PTL

\* The page is in the order of the sort, and no perfume is behind a worse one.
THEOREM PageIsInOrder == Spec => []PageInOrder
<1>1. RequestInv => PageInOrder
  BY InvImpliesRankOrder, InvImpliesBetterIsAhead DEF PageInOrder
<1> QED BY <1>1, RequestInvariant, PTL

\* What contains a negated term keeps a quarter of its score, bonus included.
THEOREM NegatedPerfumesSink == Spec => []NegatedSinks
BY RequestInvariant, InvImpliesNegatedSinks, PTL

\* A highlight confirms what the breakdown of the same card confirms, and takes the
\* place of no shortfall in hours, projection or occasions, the ones it looks at.
THEOREM CardsAreHonest == Spec => []HonestCard
BY RequestInvariant, InvImpliesHonestCard, PTL
=============================================================================
