-------------------------- MODULE SearchPage_proofs --------------------------
(***************************************************************************)
(* The capping loop, for every list of results, every limit and every cap: *)
(* its counts are right, no key is over the cap and the spread is fair.    *)
(* Then the page that five runs of it make: it is full, no perfume is on   *)
(* it twice, no brand too often, and the price order has one seam.         *)
(***************************************************************************)
EXTENDS SearchPage, FiniteSetTheorems, SequenceTheorems, TLAPS

-----------------------------------------------------------------------------
(* The loop.                                                               *)

LEMMA KeysAreKeys == TypeOK => \A i \in 1..Len(input) : KeyAt(i) \in Key
<1> SUFFICES ASSUME TypeOK, NEW i \in 1..Len(input) PROVE KeyAt(i) \in Key
  OBVIOUS
<1>1. input[i] \in Item
  BY DEF TypeOK
<1>2. args.by \in {"brand", "accord"}
  BY DEF TypeOK, Args
<1> QED BY <1>1, <1>2, CapAssumption DEF KeyAt

LEMMA InitCapInv == CapInit => CapInv
<1> SUFFICES ASSUME CapInit PROVE CapInv
  OBVIOUS
<1>1. TypeOK
  <2>1. cap \in Nat \ {0} /\ args \in Args
    BY DEF CapInit, Args
  <2>2. Len(input) \in Nat /\ pos \in 1..(Len(input) + 1)
    BY DEF CapInit
  <2>3. output \in Seq(Item) /\ count \in [Key -> Nat]
    BY DEF CapInit
  <2> QED BY <2>1, <2>2, <2>3 DEF CapInit, TypeOK
<1>2. Counted
  <2>1. \A k \in Key : {i \in taken : KeyAt(i) = k} = {}
    BY DEF CapInit
  <2> QED BY <2>1, FS_EmptySet DEF CapInit, Counted
<1>3. WithinBounds /\ PassedOver /\ cap >= args.maxPerKey
  BY <1>1 DEF CapInit, TypeOK, Args, WithinBounds, PassedOver, Full
<1> QED BY <1>1, <1>2, <1>3 DEF CapInv

LEMMA TakeKeepsInv ==
    ASSUME CapInv, Take
    PROVE  CapInv'
<1> USE DEF CapInv
<1>0. pos \in 1..Len(input) /\ KeyAt(pos) \in Key
  BY KeysAreKeys DEF TypeOK, Take
<1>1. \A i : KeyAt(i)' = KeyAt(i)
  BY DEF Take, KeyAt
<1>2. TypeOK'
  <2>1. output' \in Seq(Item) /\ Len(output') = Len(output) + 1
    BY <1>0 DEF TypeOK, Take
  <2>2. count' \in [Key -> Nat]
    BY <1>0 DEF TypeOK, Take
  <2> QED BY <1>0, <2>1, <2>2 DEF TypeOK, Take
<1>3. Counted'
  <2> SUFFICES ASSUME NEW k \in Key
               PROVE  count'[k] = Cardinality({i \in taken' : KeyAt(i) = k})
    BY <1>1 DEF Counted
  <2> DEFINE old == {i \in taken : KeyAt(i) = k}
  <2>1. count[k] = Cardinality(old) /\ IsFiniteSet(old)
    <3>1. IsFiniteSet(1..Len(input))
      BY FS_Interval DEF TypeOK
    <3> QED BY <3>1, FS_Subset DEF TypeOK, Counted
  <2>2. CASE KeyAt(pos) = k
    <3>1. {i \in taken' : KeyAt(i) = k} = old \cup {pos} /\ pos \notin old
      BY <2>2 DEF Take
    <3>2. count'[k] = count[k] + 1
      BY <1>0, <2>2 DEF Take, TypeOK
    <3> QED BY <2>1, <3>1, <3>2, FS_AddElement
  <2>3. CASE KeyAt(pos) # k
    <3>1. {i \in taken' : KeyAt(i) = k} = old
      BY <2>3 DEF Take
    <3>2. count'[k] = count[k]
      BY <1>0, <2>3 DEF Take, TypeOK
    <3> QED BY <2>1, <3>1, <3>2
  <2> QED BY <2>2, <2>3
<1>4. WithinBounds'
  <2>1. \A k \in Key : count'[k] <= cap
    BY <1>0 DEF Take, TypeOK, WithinBounds
  <2>2. Len(output') <= args.limit
    BY <1>0 DEF Take, TypeOK, Args, Full
  <2> QED BY <2>1, <2>2 DEF WithinBounds, Take
<1>5. \A k \in Key : count'[k] >= count[k]
  BY <1>0 DEF Take, TypeOK
<1>6. PassedOver'
  <2>1. \A i \in 1..Len(input) : KeyAt(i) \in Key
    BY KeysAreKeys
  <2>2. ASSUME cap > args.maxPerKey, NEW i \in (1..Len(input)) \ taken'
        PROVE  count'[KeyAt(i)] >= cap - 1
    <3>1. count[KeyAt(i)] >= cap - 1
      BY <2>2 DEF PassedOver, Take
    <3> HIDE DEF CapInv
    <3> QED BY <1>2, <1>5, <2>1, <2>2, <3>1 DEF CapInv, TypeOK, Take
  <2>3. ASSUME ~Full', NEW i \in (1..pos) \ taken'
        PROVE  count'[KeyAt(i)] >= cap
    <3>1. ~Full /\ i \in (1..(pos - 1)) \ taken /\ i \in 1..Len(input)
      BY <1>0, <2>3 DEF Take, TypeOK
    <3>2. count[KeyAt(i)] >= cap
      BY <3>1 DEF PassedOver
    <3> QED BY <1>2, <1>5, <2>1, <3>1, <3>2 DEF TypeOK, Take
  <2> QED BY <1>0, <1>1, <2>2, <2>3 DEF PassedOver, Take, TypeOK
<1> QED BY <1>2, <1>3, <1>4, <1>6 DEF Take

LEMMA SkipKeepsInv ==
    ASSUME CapInv, Skip
    PROVE  CapInv'
<1> USE DEF CapInv
<1>1. \A i : KeyAt(i)' = KeyAt(i)
  BY DEF Skip, KeyAt
<1>2. TypeOK'
  BY DEF TypeOK, Skip
<1>3. Counted' /\ WithinBounds'
  BY <1>1 DEF Counted, WithinBounds, Skip
<1>4. PassedOver'
  <2>1. Full' = Full
    BY DEF Full, Skip
  <2>2. ASSUME ~Full, NEW i \in (1..pos) \ taken
        PROVE  count[KeyAt(i)] >= cap
    BY <2>2 DEF PassedOver, Skip, TypeOK
  <2>3. Full => progressed
    BY DEF PassedOver, Skip, InLoop, TypeOK
  <2> QED BY <1>1, <2>1, <2>2, <2>3 DEF PassedOver, Skip, TypeOK
<1> QED BY <1>2, <1>3, <1>4 DEF Skip

\* The cap is only relaxed after a pass without progress, when every result left
\* out is of a key that has reached the old cap.
LEMMA EndPassKeepsInv ==
    ASSUME CapInv, EndPass
    PROVE  CapInv'
<1> USE DEF CapInv
<1>1. \A i : KeyAt(i)' = KeyAt(i)
  BY DEF EndPass, KeyAt
<1>2. TypeOK'
  <2>1. Len(input) \in Nat
    BY DEF TypeOK
  <2>2. pos' \in 1..(Len(input') + 1)
    BY <2>1 DEF EndPass
  <2>3. cap' \in Nat \ {0}
    BY DEF TypeOK, EndPass
  <2> QED BY <2>2, <2>3 DEF TypeOK, EndPass
<1>3. Counted'
  BY <1>1 DEF Counted, EndPass
<1>4. WithinBounds'
  BY DEF WithinBounds, EndPass, TypeOK
<1>5. \A i \in 1..Len(input) : count[KeyAt(i)] \in Nat
  BY KeysAreKeys DEF TypeOK
<1>6. cap' > args.maxPerKey => \A i \in (1..Len(input)) \ taken : count[KeyAt(i)] >= cap' - 1
  <2>1. CASE progressed
    BY <2>1 DEF EndPass, PassedOver
  <2>2. CASE ~progressed
    <3>1. ~Full
      BY <2>2 DEF PassedOver, EndPass, InLoop, TypeOK
    <3>2. \A i \in (1..Len(input)) \ taken : count[KeyAt(i)] >= cap
      BY <3>1 DEF PassedOver, EndPass, TypeOK
    <3> QED BY <1>5, <2>2, <3>2 DEF EndPass, TypeOK
  <2> QED BY <2>1, <2>2
<1>7. PassedOver'
  BY <1>1, <1>6 DEF PassedOver, EndPass
<1>8. cap' >= args.maxPerKey
  BY DEF EndPass, TypeOK, Args
<1> QED BY <1>2, <1>3, <1>4, <1>7, <1>8 DEF EndPass

LEMMA CapStepKeepsInv == CapInv /\ [CapStep]_capVars => CapInv'
<1> SUFFICES ASSUME CapInv, [CapStep]_capVars PROVE CapInv'
  OBVIOUS
<1>1. CASE UNCHANGED capVars
  BY <1>1 DEF capVars, CapInv, TypeOK, Counted, WithinBounds, PassedOver, Full, KeyAt
<1> QED BY <1>1, TakeKeepsInv, SkipKeepsInv, EndPassKeepsInv DEF CapStep

\* CapInv is inductive, for every list, limit, cap and set of keys.
THEOREM CapInvariant == CapSpec => []CapInv
BY InitCapInv, CapStepKeepsInv, PTL DEF CapSpec

LEMMA CapInvSpreads == CapInv => FairSpread
<1> SUFFICES ASSUME CapInv, NEW k \in Key, count[k] > args.maxPerKey,
                      NEW i \in (1..Len(input)) \ taken
               PROVE  count[KeyAt(i)] >= count[k] - 1
  BY DEF FairSpread
<1>1. count[k] <= cap /\ count[k] \in Nat /\ cap \in Nat /\ args.maxPerKey \in Nat
  BY DEF CapInv, TypeOK, WithinBounds, Args
<1>2. count[KeyAt(i)] >= cap - 1 /\ count[KeyAt(i)] \in Nat
  BY <1>1, KeysAreKeys DEF CapInv, PassedOver, TypeOK
<1> QED BY <1>1, <1>2

\* The extra that backfill forces is spread fairly: a key that got more than
\* max_per_key is at most one ahead of the key of any result left out
\* (_cap_by_key, as cap_per_brand's docstring promises).
THEOREM SpreadIsFair == CapSpec => []FairSpread
BY CapInvSpreads, CapInvariant, PTL

\* A call starts the loop anew.
LEMMA CallFacts ==
    ASSUME NEW a \in Args, NEW results \in Seq(Item), Call(a, results)
    PROVE  /\ CapInv' /\ args' = a /\ input' = results
           /\ output' = <<>> /\ taken' = {} /\ pos' = 1 /\ cap' = a.maxPerKey
           /\ count' = [k \in Key |-> 0]
<1>1. /\ args' = a /\ input' = results /\ output' = <<>> /\ taken' = {} /\ pos' = 1
      /\ cap' = a.maxPerKey /\ progressed' = FALSE /\ count' = [k \in Key |-> 0]
  BY DEF Call
<1>2. /\ a.limit \in Nat /\ a.maxPerKey \in Nat \ {0} /\ Len(results) \in Nat
      /\ <<>> \in Seq(Item) /\ Len(<<>>) = 0
  BY DEF Args
<1>3. TypeOK'
  <2>1. args' \in Args /\ input' \in Seq(Item) /\ output' \in Seq(Item) /\ cap' \in Nat \ {0}
    BY <1>1, <1>2
  <2>2. count' \in [Key -> Nat]
    BY <1>1
  <2>3. pos' \in 1..(Len(input') + 1)
    BY <1>1, <1>2
  <2>4. taken' \subseteq 1..Len(input') /\ progressed' \in BOOLEAN
    BY <1>1
  <2> QED BY <2>1, <2>2, <2>3, <2>4 DEF TypeOK
<1>4. Counted'
  <2>1. \A k \in Key : {i \in taken' : KeyAt(i)' = k} = {}
    BY <1>1
  <2> QED BY <1>1, <2>1, FS_EmptySet DEF Counted
<1>5. WithinBounds'
  BY <1>1, <1>2 DEF WithinBounds
<1>6. PassedOver'
  <2>1. ~(cap' > args'.maxPerKey) /\ 1..(pos' - 1) = {} /\ ~(pos' > 1)
    BY <1>1, <1>2
  <2> QED BY <2>1 DEF PassedOver
<1>7. cap' >= args'.maxPerKey
  BY <1>1, <1>2
<1> QED BY <1>1, <1>3, <1>4, <1>5, <1>6, <1>7 DEF CapInv

-----------------------------------------------------------------------------
(* Lists of perfumes.                                                      *)

LEMMA RankedLists ==
    ASSUME NEW s \in Seq(Item), Ranked(s)
    PROVE  Distinct(s) /\ InOrder(s)
<1> SUFFICES ASSUME NEW i \in 1..Len(s), NEW j \in 1..Len(s)
             PROVE  (s[i] = s[j] => i = j) /\ (i < j => s[i].rank <= s[j].rank)
  BY DEF Distinct, InOrder
<1>1. s[i].rank \in Int /\ s[j].rank \in Int
  BY DEF Ranked
<1>2. (i < j => s[i].rank < s[j].rank) /\ (j < i => s[j].rank < s[i].rank)
  BY DEF Ranked
<1>3. i < j \/ j < i \/ i = j
  OBVIOUS
<1> QED BY <1>1, <1>2, <1>3

LEMMA EmptyList ==
    /\ <<>> \in Seq(Item) /\ Len(<<>>) = 0 /\ Items(<<>>) = {}
    /\ Ranked(<<>>) /\ Distinct(<<>>) /\ InOrder(<<>>)
    /\ \A k : OfBrand(<<>>, k) = {}
BY DEF Items, Ranked, Distinct, InOrder, OfBrand

LEMMA FirstN ==
    ASSUME NEW n \in Nat
    PROVE  IsFiniteSet(1..n) /\ Cardinality(1..n) = n
<1>1. IsFiniteSet(1..n) /\ Cardinality(1..n) = IF 1 > n THEN 0 ELSE n - 1 + 1
  BY FS_Interval
<1> QED BY <1>1

LEMMA OfBrandIsFinite ==
    ASSUME NEW s \in Seq(Item), NEW k
    PROVE  IsFiniteSet(OfBrand(s, k)) /\ Cardinality(OfBrand(s, k)) \in Nat
<1>1. IsFiniteSet(1..Len(s))
  BY FS_Interval
<1>2. IsFiniteSet(OfBrand(s, k))
  BY <1>1, FS_Subset DEF OfBrand
<1> QED BY <1>2, FS_CardinalityType

\* Without repetitions, a list has no more of a brand than one it is taken from.
LEMMA BrandBound ==
    ASSUME NEW s \in Seq(Item), NEW w \in Seq(Item), Distinct(s), Items(s) \subseteq Items(w),
           NEW k
    PROVE  /\ IsFiniteSet(OfBrand(s, k)) /\ IsFiniteSet(OfBrand(w, k))
           /\ Cardinality(OfBrand(s, k)) <= Cardinality(OfBrand(w, k))
<1> DEFINE f == [i \in OfBrand(s, k) |-> CHOOSE j \in 1..Len(w) : w[j] = s[i]]
<1>1. \A i \in 1..Len(s) : \E j \in 1..Len(w) : w[j] = s[i]
  BY DEF Items
<1>2. \A i \in OfBrand(s, k) : i \in 1..Len(s) /\ f[i] \in OfBrand(w, k) /\ w[f[i]] = s[i]
  BY <1>1 DEF OfBrand
<1>3. f \in [OfBrand(s, k) -> OfBrand(w, k)]
  BY <1>2
<1>4. IsFiniteSet(OfBrand(w, k)) /\ IsFiniteSet(OfBrand(s, k))
  BY OfBrandIsFinite
<1> HIDE DEF f
<1>5. f \in Injection(OfBrand(s, k), OfBrand(w, k))
  BY <1>2, <1>3 DEF Distinct, Injection, IsInjective
<1> QED BY <1>4, <1>5, FS_Injection

LEMMA DiverseWithin ==
    ASSUME NEW s \in Seq(Item), NEW w \in Seq(Item), Distinct(s), Items(s) \subseteq Items(w),
           Diverse(w)
    PROVE  Diverse(s)
<1> SUFFICES ASSUME NEW k \in Key PROVE Cardinality(OfBrand(s, k)) <= MaxPerBrand
  BY DEF Diverse
<1>1. Cardinality(OfBrand(s, k)) <= Cardinality(OfBrand(w, k))
  BY BrandBound
<1>2. Cardinality(OfBrand(w, k)) <= MaxPerBrand
  BY DEF Diverse
<1>3. Cardinality(OfBrand(s, k)) \in Int /\ Cardinality(OfBrand(w, k)) \in Int /\ MaxPerBrand \in Int
  BY OfBrandIsFinite, PageAssumption
<1> QED BY <1>1, <1>2, <1>3

-----------------------------------------------------------------------------
(* What the two kinds of cap do.                                           *)

LEMMA SiftedStep ==
    ASSUME CapInv, Sifted, CapStep
    PROVE  Sifted'
<1>1. /\ input \in Seq(Item) /\ output \in Seq(Item) /\ pos \in 1..(Len(input) + 1)
      /\ Len(input) \in Nat /\ Len(output) \in Nat
  BY DEF CapInv, TypeOK
<1>2. CASE Take
  <2>1. /\ pos \in 1..Len(input) /\ pos' = pos + 1 /\ input' = input
        /\ args' = args /\ cap' = cap
    BY <1>1, <1>2 DEF Take
  <2>2. input[pos] \in Item
    BY <1>1, <2>1, ElementOfSeq
  <2>3. /\ Len(output') = Len(output) + 1 /\ output'[Len(output) + 1] = input[pos]
        /\ \A j \in 1..Len(output) : output'[j] = output[j]
    BY <1>1, <1>2, <2>2, AppendProperties DEF Take
  <2>4. \A j \in 1..Len(output') :
            \/ j \in 1..Len(output) /\ output'[j] = output[j]
            \/ j = Len(output) + 1 /\ output'[j] = input[pos]
    BY <1>1, <2>3
  <2>5. \A i \in 1..Len(input) : input[i].rank \in Int
    BY DEF Sifted, Ranked
  <2>6. \A j \in 1..Len(output) : output[j].rank \in Int
    BY DEF Sifted, Ranked
  <2>7. \A j \in 1..Len(output) : output[j].rank < input[pos].rank
    BY <1>1, <2>1 DEF Sifted
  <2>8. \A i \in (pos + 1)..Len(input) : i \in pos..Len(input) /\ input[pos].rank < input[i].rank
    BY <1>1, <2>1 DEF Sifted, Ranked
  <2>9. Ranked(output')
    <3> SUFFICES ASSUME NEW i \in 1..Len(output'), NEW j \in 1..Len(output')
                 PROVE  /\ output'[i].rank \in Int
                        /\ i < j => output'[i].rank < output'[j].rank
      BY DEF Ranked
    <3>1. output'[i].rank \in Int
      BY <2>1, <2>4, <2>5, <2>6
    <3>2. CASE j \in 1..Len(output)
      <4>1. i < j => i \in 1..Len(output) /\ output'[i] = output[i] /\ output'[j] = output[j]
        BY <1>1, <2>3, <3>2
      <4> QED BY <3>1, <3>2, <4>1 DEF Sifted, Ranked
    <3>3. CASE j = Len(output) + 1
      <4>1. i < j => i \in 1..Len(output) /\ output'[i] = output[i] /\ output'[j] = input[pos]
        BY <1>1, <2>3, <3>3
      <4> QED BY <2>7, <3>1, <4>1
    <3> QED BY <2>4, <3>2, <3>3
  <2>10. Items(output') \subseteq Items(input)
    BY <2>1, <2>4 DEF Sifted, Items
  <2>11. \A j \in 1..Len(output'), i \in (pos + 1)..Len(input) : output'[j].rank < input[i].rank
    BY <2>4, <2>8 DEF Sifted
  <2> QED BY <2>1, <2>9, <2>10, <2>11 DEF Sifted
<1>3. CASE Skip
  <2>1. pos \in 1..Len(input) /\ pos' = pos + 1 /\ UNCHANGED <<input, output, args, cap>>
    BY <1>1, <1>3 DEF Skip
  <2>2. \A i \in (pos + 1)..Len(input) : i \in pos..Len(input)
    BY <1>1
  <2> QED BY <2>1, <2>2 DEF Sifted
<1>4. ~EndPass
  BY DEF EndPass, Sifted
<1> QED BY <1>2, <1>3, <1>4 DEF CapStep

\* With brands for keys, key_counts counts the brands of the output.
LEMMA TalliedStep ==
    ASSUME CapInv, args.by = "brand", CapStep,
           \A k \in Key : Cardinality(OfBrand(output, k)) = count[k]
    PROVE  \A k \in Key : Cardinality(OfBrand(output, k))' = count'[k]
<1>1. /\ input \in Seq(Item) /\ output \in Seq(Item) /\ Len(output) \in Nat
      /\ pos \in 1..(Len(input) + 1) /\ Len(input) \in Nat /\ count \in [Key -> Nat]
  BY DEF CapInv, TypeOK
<1>2. CASE Take
  <2>1. pos \in 1..Len(input) /\ input[pos] \in Item
    BY <1>1, <1>2, ElementOfSeq DEF Take
  <2>2. KeyAt(pos) = input[pos].brand /\ input[pos].brand \in Key
    BY <2>1, CapAssumption DEF KeyAt
  <2>3. /\ Len(output') = Len(output) + 1 /\ output'[Len(output) + 1] = input[pos]
        /\ \A j \in 1..Len(output) : output'[j] = output[j]
    BY <1>1, <1>2, <2>1, AppendProperties DEF Take
  <2>4. ASSUME NEW k \in Key PROVE Cardinality(OfBrand(output, k))' = count'[k]
    <3>1. IsFiniteSet(OfBrand(output, k)) /\ Len(output) + 1 \notin OfBrand(output, k)
      <4>1. Len(output) + 1 \notin 1..Len(output)
        BY <1>1
      <4> QED BY <1>1, <4>1, OfBrandIsFinite DEF OfBrand
    <3>2. OfBrand(output, k)' = OfBrand(output, k)
              \cup (IF input[pos].brand = k THEN {Len(output) + 1} ELSE {})
      <4>1. OfBrand(output, k)' = {i \in 1..(Len(output) + 1) : output'[i].brand = k}
        BY <2>3 DEF OfBrand
      <4>2. \A i \in 1..(Len(output) + 1) : i \in 1..Len(output) \/ i = Len(output) + 1
        BY <1>1
      <4>3. 1..Len(output) \subseteq 1..(Len(output) + 1) /\ Len(output) + 1 \in 1..(Len(output) + 1)
        BY <1>1
      <4> QED BY <2>3, <4>1, <4>2, <4>3 DEF OfBrand
    <3>3. count'[k] = IF input[pos].brand = k THEN count[k] + 1 ELSE count[k]
      BY <1>1, <1>2, <2>2 DEF Take
    <3>4. Cardinality(OfBrand(output, k) \cup {Len(output) + 1}) = Cardinality(OfBrand(output, k)) + 1
      BY <3>1, FS_AddElement
    <3> QED BY <3>2, <3>3, <3>4
  <2> QED BY <2>4
<1>3. CASE Skip \/ EndPass
  BY <1>3 DEF Skip, EndPass, OfBrand
<1> QED BY <1>2, <1>3 DEF CapStep

LEMMA FromFrontStep ==
    ASSUME CapInv, ByBrand, Diverse(input), FromFront, CapStep
    PROVE  FromFront'
<1>1. /\ input \in Seq(Item) /\ output \in Seq(Item) /\ Len(output) \in Nat
      /\ pos \in 1..(Len(input) + 1) /\ Len(input) \in Nat
      /\ args.limit \in Nat /\ cap \in Nat /\ taken \subseteq 1..Len(input)
      /\ count \in [Key -> Nat]
  BY DEF CapInv, TypeOK, Args
<1>2. CASE Take
  <2>1. pos \in 1..Len(input) /\ input[pos] \in Item
    BY <1>1, <1>2, ElementOfSeq DEF Take
  <2>2. /\ Len(output') = Len(output) + 1 /\ output'[Len(output) + 1] = input[pos]
        /\ \A j \in 1..Len(output) : output'[j] = output[j]
    BY <1>1, <1>2, <2>1, AppendProperties DEF Take
  <2>3. pos = Len(output) + 1
    BY <1>1, <1>2 DEF Take, FromFront
  <2>4. /\ taken' = 1..Len(output') /\ input' = input /\ pos' = Len(output') + 1
        /\ pos' <= Len(output') + 1
    BY <1>1, <1>2, <2>2, <2>3 DEF Take, FromFront
  <2>5. \A i \in 1..Len(output') : output'[i] = input[i]
    BY <1>1, <2>2, <2>3 DEF FromFront
  <2> QED BY <2>4, <2>5 DEF FromFront
<1>3. CASE Skip
  <2>1. pos \in 1..Len(input) /\ pos' = pos + 1 /\ UNCHANGED <<args, input, output, taken>>
    BY <1>1, <1>3 DEF Skip
  <2>2. pos \in taken \/ Full
    <3> SUFFICES ASSUME pos \notin taken PROVE Full
      OBVIOUS
    <3> DEFINE k == input[pos].brand
               counted == {i \in taken : KeyAt(i) = k}
    <3>1. \A i \in 1..Len(input) : KeyAt(i) = input[i].brand
      BY DEF KeyAt, ByBrand
    <3>2. k \in Key
      BY <1>1, <2>1, ElementOfSeq, CapAssumption
    <3>3. counted \cup {pos} \subseteq OfBrand(input, k) /\ pos \notin counted
      BY <1>1, <2>1, <3>1 DEF OfBrand
    <3>4. IsFiniteSet(OfBrand(input, k)) /\ Cardinality(OfBrand(input, k)) <= MaxPerBrand
      BY <1>1, <3>2, OfBrandIsFinite DEF Diverse
    <3>5. IsFiniteSet(counted)
      BY <3>3, <3>4, FS_Subset
    <3>6. Cardinality(counted \cup {pos}) = Cardinality(counted) + 1
      BY <3>3, <3>5, FS_AddElement
    <3>7. Cardinality(counted \cup {pos}) <= Cardinality(OfBrand(input, k))
      BY <3>3, <3>4, FS_Subset
    <3>8. count[k] = Cardinality(counted) /\ cap >= MaxPerBrand
      BY <3>2 DEF CapInv, Counted, ByBrand
    <3>9. Cardinality(counted) \in Nat /\ Cardinality(OfBrand(input, k)) \in Nat /\ MaxPerBrand \in Nat
      BY <3>4, <3>5, FS_CardinalityType, PageAssumption
    <3>10. count[k] < cap
      BY <1>1, <3>4, <3>6, <3>7, <3>8, <3>9
    <3>11. Full \/ count[KeyAt(pos)] >= cap
      BY <1>3 DEF Skip
    <3>12. count[k] \in Nat /\ ~(count[k] >= cap) /\ KeyAt(pos) = k
      BY <1>1, <2>1, <3>1, <3>2, <3>10
    <3> QED BY <3>11, <3>12
  <2>3. pos' <= Len(output) + 1 \/ Full
    BY <1>1, <2>1, <2>2 DEF FromFront
  <2> QED BY <2>1, <2>3 DEF FromFront, Full
<1>4. CASE EndPass
  <2>1. pos' = 1 /\ UNCHANGED <<args, input, output, taken>>
    BY <1>4 DEF EndPass
  <2> QED BY <1>1, <2>1 DEF FromFront
<1> QED BY <1>2, <1>3, <1>4 DEF CapStep

\* What is taken from the front is as good as what it is taken from.
LEMMA FrontFacts ==
    ASSUME CapInv, FromFront, Distinct(input)
    PROVE  /\ Distinct(output) /\ Items(output) \subseteq Items(input)
           /\ InOrder(input) => InOrder(output)
<1>1. Len(output) \in Nat /\ taken \subseteq 1..Len(input)
  BY DEF CapInv, TypeOK
<1>2. \A i \in 1..Len(output) : i \in 1..Len(input) /\ output[i] = input[i]
  BY <1>1 DEF FromFront
<1> QED BY <1>2 DEF Distinct, Items, InOrder

\* A call that returns has reached its limit, or taken everything.
LEMMA FrontIsAll ==
    ASSUME CapInv, FromFront, args.backfill, Returned
    PROVE  Len(output) = args.limit \/ Len(output) = Len(input)
<1>1. /\ Len(output) \in Nat /\ Len(input) \in Nat /\ taken \subseteq 1..Len(input)
      /\ args.limit \in Nat /\ args.maxPerKey \in Nat /\ cap \in Nat
      /\ Len(output) <= args.limit /\ count \in [Key -> Nat]
  BY DEF CapInv, TypeOK, Args, WithinBounds
<1>2. SUFFICES ASSUME ~Full PROVE Len(output) = Len(input)
  BY <1>1 DEF Full
<1>3. pos = 1 /\ cap > MaxCap
  <2>1. MaxCap \in Nat
    BY <1>1 DEF MaxCap, Larger
  <2>2. pos \in Nat /\ (pos = 1 /\ ~InLoop)
    BY <1>1 DEF Returned, CapInv, TypeOK
  <2> QED BY <1>1, <1>2, <2>1, <2>2 DEF InLoop
<1>4. cap > args.maxPerKey /\ cap - 1 >= args.limit
  BY <1>1, <1>3 DEF MaxCap, Larger
<1>5. \A k \in Key : count[k] <= Len(output)
  <2> SUFFICES ASSUME NEW k \in Key PROVE count[k] <= Len(output)
    OBVIOUS
  <2>1. IsFiniteSet(1..Len(output)) /\ Cardinality(1..Len(output)) = Len(output)
    BY <1>1, FirstN
  <2>2. {i \in taken : KeyAt(i) = k} \subseteq 1..Len(output)
    BY DEF FromFront
  <2>3. Cardinality({i \in taken : KeyAt(i) = k}) <= Cardinality(1..Len(output))
    BY <2>1, <2>2, FS_Subset
  <2>4. count[k] = Cardinality({i \in taken : KeyAt(i) = k})
    BY DEF CapInv, Counted
  <2> QED BY <2>1, <2>3, <2>4
<1>6. ASSUME NEW i \in (1..Len(input)) \ taken PROVE FALSE
  <2>1. count[KeyAt(i)] >= cap - 1 /\ KeyAt(i) \in Key
    BY <1>4, KeysAreKeys DEF CapInv, PassedOver
  <2>2. count[KeyAt(i)] >= args.limit /\ count[KeyAt(i)] <= Len(output)
    BY <1>1, <1>4, <1>5, <2>1
  <2>3. Len(output) >= args.limit
    BY <1>1, <2>1, <2>2
  <2> QED BY <1>2, <2>3 DEF Full
<1>7. 1..Len(input) = 1..Len(output)
  BY <1>6 DEF CapInv, TypeOK, FromFront
<1>8. Len(input) > Len(output) => Len(input) \in 1..Len(input)
  BY <1>1
<1>9. Len(output) > Len(input) => Len(output) \in 1..Len(output)
  BY <1>1
<1> QED BY <1>1, <1>7, <1>8, <1>9

-----------------------------------------------------------------------------
(* The remainder.                                                          *)

LEMMA LeastNat ==
    ASSUME NEW T \in SUBSET Nat, T # {}
    PROVE  \E m \in T : \A i \in T : m <= i
<1>1. PICK m \in T : \A i \in T : ~(<<i, m>> \in OpToRel(<, Nat))
  BY NatLessThanWellFounded, WFMin
<1>2. \A i \in T : ~(i < m)
  BY <1>1 DEF OpToRel
<1> QED BY <1>2

Below(S, i) == {j \in S : j < i}
HowMany(S, i) == Cardinality(Below(S, i))

LEMMA BelowFacts ==
    ASSUME NEW L \in Nat, NEW S \in SUBSET (1..L)
    PROVE  /\ IsFiniteSet(S) /\ Cardinality(S) \in Nat
           /\ \A i : IsFiniteSet(Below(S, i)) /\ HowMany(S, i) \in Nat
           /\ \A i, j \in Int : i <= j => HowMany(S, i) <= HowMany(S, j)
<1>1. IsFiniteSet(S) /\ Cardinality(S) \in Nat
  <2>1. IsFiniteSet(1..L)
    BY FirstN
  <2>2. IsFiniteSet(S)
    BY <2>1, FS_Subset
  <2> QED BY <2>2, FS_CardinalityType
<1>2. ASSUME NEW i PROVE IsFiniteSet(Below(S, i)) /\ HowMany(S, i) \in Nat
  <2>1. Below(S, i) \in SUBSET S
    BY DEF Below
  <2>2. IsFiniteSet(Below(S, i))
    BY <1>1, <2>1, FS_Subset
  <2> QED BY <2>2, FS_CardinalityType DEF HowMany
<1>3. ASSUME NEW i \in Int, NEW j \in Int, i <= j
      PROVE  HowMany(S, i) <= HowMany(S, j)
  <2>1. \A k \in S : k \in Int
    OBVIOUS
  <2>4. \A k \in S : k < i => k < j
    BY <1>3, <2>1
  <2>2. Below(S, i) \in SUBSET Below(S, j)
    BY <2>4 DEF Below
  <2>3. IsFiniteSet(Below(S, j))
    BY <1>2
  <2> QED BY <2>2, <2>3, FS_Subset DEF HowMany
<1> QED BY <1>1, <1>2, <1>3

LEMMA NthFacts ==
    ASSUME NEW L \in Nat, NEW S \in SUBSET (1..L), NEW n \in 1..Cardinality(S)
    PROVE  Nth(S, n) \in S /\ HowMany(S, Nth(S, n)) = n - 1
<1> DEFINE Past == {i \in Nat : HowMany(S, i) > n - 1}
<1>1. /\ Cardinality(S) \in Nat /\ n \in Nat /\ n <= Cardinality(S)
      /\ \A i : IsFiniteSet(Below(S, i)) /\ HowMany(S, i) \in Nat
  BY BelowFacts
<1>2. L + 1 \in Past
  <2>3. \A k \in S : k < L + 1
    OBVIOUS
  <2>1. Below(S, L + 1) = S
    BY <2>3 DEF Below
  <2>2. HowMany(S, L + 1) = Cardinality(S)
    BY <2>1 DEF HowMany
  <2> QED BY <1>1, <2>2
<1>3. PICK m \in Past : \A i \in Past : m <= i
  <2>1. Past \in SUBSET Nat /\ Past # {}
    BY <1>2
  <2> HIDE DEF Past
  <2> QED BY <2>1, LeastNat
<1>4. m \in Nat /\ HowMany(S, m) > n - 1
  OBVIOUS
<1>5. m # 0
  <2>3. \A k \in S : ~(k < 0)
    OBVIOUS
  <2>1. Below(S, 0) = {}
    BY <2>3 DEF Below
  <2>2. HowMany(S, 0) = 0
    BY <2>1, FS_EmptySet DEF HowMany
  <2> QED BY <1>1, <1>4, <2>2
<1>6. m - 1 \in Nat /\ ~(m <= m - 1)
  BY <1>4, <1>5
<1>7. ~(HowMany(S, m - 1) > n - 1)
  BY <1>3, <1>6
<1> HIDE DEF Past
<1>8. Below(S, m) = Below(S, m - 1) \cup (IF m - 1 \in S THEN {m - 1} ELSE {})
  <2>1. \A j \in S : j \in Int
    OBVIOUS
  <2>2. \A j \in S : j < m <=> j < m - 1 \/ j = m - 1
    BY <1>4, <2>1
  <2> QED BY <2>2 DEF Below
<1>9. m - 1 \in S
  BY <1>1, <1>4, <1>7, <1>8 DEF HowMany
<1>10. HowMany(S, m) = HowMany(S, m - 1) + 1
  <2>1. m - 1 \notin Below(S, m - 1)
    BY <1>6 DEF Below
  <2> QED BY <1>1, <1>8, <1>9, <2>1, FS_AddElement DEF HowMany
<1>11. HowMany(S, m - 1) = n - 1
  <2>1. HowMany(S, m - 1) \in Nat /\ HowMany(S, m) \in Nat
    BY <1>1
  <2> QED BY <1>1, <1>4, <1>7, <1>10, <2>1
<1>12. \E i \in S : Cardinality({j \in S : j < i}) = n - 1
  BY <1>9, <1>11 DEF Below, HowMany
<1> QED BY <1>12 DEF Nth, Below, HowMany

LEMMA NthIncreases ==
    ASSUME NEW L \in Nat, NEW S \in SUBSET (1..L),
           NEW n \in 1..Cardinality(S), NEW m \in 1..Cardinality(S), n < m
    PROVE  Nth(S, n) < Nth(S, m)
<1>1. /\ Nth(S, n) \in S /\ HowMany(S, Nth(S, n)) = n - 1
      /\ Nth(S, m) \in S /\ HowMany(S, Nth(S, m)) = m - 1
  BY NthFacts
<1>2. Nth(S, n) \in Int /\ Nth(S, m) \in Int /\ n \in Int /\ m \in Int
  <2>1. Cardinality(S) \in Nat
    BY BelowFacts
  <2>2. n \in Int /\ m \in Int
    BY <2>1
  <2>3. \A i \in S : i \in Int
    OBVIOUS
  <2> QED BY <1>1, <2>2, <2>3
<1>3. Nth(S, m) <= Nth(S, n) => m - 1 <= n - 1
  BY <1>1, <1>2, BelowFacts
<1> QED BY <1>2, <1>3

LEMMA RemainderFacts ==
    ASSUME wide \in Seq(Item), output \in Seq(Item), Ranked(wide)
    PROVE  /\ Remainder \in Seq(Item) /\ Ranked(Remainder)
           /\ Items(Remainder) \subseteq Items(wide) \ Items(output)
           /\ Len(Remainder) + Len(output) >= Len(wide)
<1> DEFINE left == {i \in 1..Len(wide) : wide[i] \notin Items(output)}
           gone == {i \in 1..Len(wide) : wide[i] \in Items(output)}
           size == Cardinality(left)
<1>1. Len(wide) \in Nat /\ Len(output) \in Nat /\ left \in SUBSET (1..Len(wide))
  OBVIOUS
<1>2. Remainder = [n \in 1..size |-> wide[Nth(left, n)]]
  BY DEF Remainder
<1>3. size \in Nat /\ \A n \in 1..size : Nth(left, n) \in left
  BY <1>1, BelowFacts, NthFacts
<1>4. \A n \in 1..size : /\ wide[Nth(left, n)] \in Item /\ wide[Nth(left, n)] \in Items(wide)
                         /\ wide[Nth(left, n)] \notin Items(output)
  BY <1>3, ElementOfSeq DEF Items
<1>5. Ranked(wide) /\ \A n, m \in 1..size : n < m => Nth(left, n) < Nth(left, m)
  BY <1>1, NthIncreases
<1>6. \A n \in 1..size : Nth(left, n) \in 1..Len(wide)
  BY <1>3
<1>7. Cardinality(gone) <= Len(output) /\ Cardinality(gone) \in Nat /\ IsFiniteSet(gone)
  <2> DEFINE f == [i \in gone |-> CHOOSE j \in 1..Len(output) : output[j] = wide[i]]
  <2>1. \A i \in gone : f[i] \in 1..Len(output) /\ output[f[i]] = wide[i]
    BY DEF Items
  <2>2. f \in [gone -> 1..Len(output)]
    BY <2>1
  <2>3. \A i, j \in gone : wide[i] = wide[j] => i = j
    BY RankedLists DEF Distinct
  <2> HIDE DEF f, gone
  <2>4. f \in Injection(gone, 1..Len(output))
    BY <2>1, <2>2, <2>3 DEF Injection, IsInjective
  <2>5. IsFiniteSet(1..Len(output)) /\ Cardinality(1..Len(output)) = Len(output)
    BY <1>1, FirstN
  <2>6. IsFiniteSet(gone) /\ Cardinality(gone) <= Cardinality(1..Len(output))
    BY <2>4, <2>5, FS_Injection
  <2> QED BY <2>5, <2>6, FS_CardinalityType
<1>8. size = Len(wide) - Cardinality(gone)
  <2>1. IsFiniteSet(1..Len(wide)) /\ Cardinality(1..Len(wide)) = Len(wide)
    BY <1>1, FirstN
  <2>2. left = (1..Len(wide)) \ gone /\ (1..Len(wide)) \cap gone = gone
    OBVIOUS
  <2> HIDE DEF left, gone
  <2>3. /\ Cardinality((1..Len(wide)) \ gone)
                = Cardinality(1..Len(wide)) - Cardinality((1..Len(wide)) \cap gone)
    BY <2>1, FS_Difference
  <2> QED BY <2>1, <2>2, <2>3
<1> HIDE DEF left, gone
<1>9. Remainder \in Seq(Item) /\ Len(Remainder) = size /\ \A n \in 1..size : Remainder[n] = wide[Nth(left, n)]
  BY <1>2, <1>3, <1>4
<1> HIDE DEF size
<1>10. Ranked(Remainder)
  BY <1>5, <1>6, <1>9 DEF Ranked
<1>11. Items(Remainder) \subseteq Items(wide) \ Items(output)
  <2>1. \A n \in 1..size : Remainder[n] \in Items(wide) \ Items(output)
    BY <1>4, <1>9
  <2> QED BY <1>9, <2>1 DEF Items
<1>12. Len(Remainder) + Len(output) >= Len(wide)
  BY <1>1, <1>3, <1>7, <1>8, <1>9
<1> QED BY <1>9, <1>10, <1>11, <1>12

\* A page with a remainder that has nothing of it.
LEMMA JoinedFacts ==
    ASSUME NEW s \in Seq(Item), NEW t \in Seq(Item)
    PROVE  /\ s \o t \in Seq(Item) /\ Len(s \o t) = Len(s) + Len(t)
           /\ Items(s \o t) = Items(s) \cup Items(t)
           /\ Distinct(s) /\ Distinct(t) /\ Items(s) \cap Items(t) = {} => Distinct(s \o t)
           /\ InOrder(s) => InOrder(SubSeq(s \o t, 1, Len(s)))
           /\ InOrder(t) => InOrder(SubSeq(s \o t, Len(s) + 1, Len(s \o t)))
<1> DEFINE u == s \o t
           m == Len(s)
           n == Len(t)
<1>1. /\ u \in Seq(Item) /\ Len(u) = m + n /\ m \in Nat /\ n \in Nat
      /\ \A i \in 1..m : u[i] = s[i]
      /\ \A i \in 1..n : u[m + i] = t[i]
  BY ConcatProperties
<1> HIDE DEF u
<1>2. ASSUME NEW i \in 1..(m + n), i \notin 1..m
      PROVE  i - m \in 1..n /\ u[i] = t[i - m]
  <2>1. i - m \in 1..n /\ m + (i - m) = i
    BY <1>1, <1>2
  <2> QED BY <1>1, <2>1
<1>3. \A i \in 1..m : i \in 1..(m + n)
  BY <1>1
<1>4. \A i \in 1..n : m + i \in 1..(m + n)
  BY <1>1
<1> HIDE DEF m, n
<1>5. Items(u) = Items(s) \cup Items(t)
  <2>1. Items(u) = {u[i] : i \in 1..(m + n)} /\ Items(s) = {s[i] : i \in 1..m}
        /\ Items(t) = {t[i] : i \in 1..n}
    BY <1>1 DEF Items, m, n
  <2>2. Items(u) \subseteq Items(s) \cup Items(t)
    BY <1>1, <1>2, <2>1
  <2>3. Items(s) \subseteq Items(u) /\ Items(t) \subseteq Items(u)
    BY <1>1, <1>3, <1>4, <2>1
  <2> QED BY <2>2, <2>3
<1>6. ASSUME Distinct(s), Distinct(t), Items(s) \cap Items(t) = {} PROVE Distinct(u)
  <2> SUFFICES ASSUME NEW i \in 1..(m + n), NEW j \in 1..(m + n), u[i] = u[j] PROVE i = j
    BY <1>1 DEF Distinct
  <2>1. \A k \in 1..m : s[k] \in Items(s)
    BY DEF Items, m
  <2>2. \A k \in 1..n : t[k] \in Items(t)
    BY DEF Items, n
  <2>3. CASE i \in 1..m /\ j \in 1..m
    BY <1>1, <1>6, <2>3 DEF Distinct, m
  <2>4. CASE i \notin 1..m /\ j \notin 1..m
    <3>1. i - m \in 1..n /\ j - m \in 1..n /\ t[i - m] = t[j - m]
      BY <1>2, <2>4
    <3>2. i - m = j - m
      BY <1>6, <3>1 DEF Distinct, n
    <3> QED BY <1>1, <3>2
  <2>5. CASE i \in 1..m /\ j \notin 1..m
    <3>1. u[i] \in Items(s) /\ u[j] \in Items(t)
      BY <1>1, <1>2, <2>1, <2>2, <2>5
    <3> QED BY <1>6, <3>1
  <2>6. CASE i \notin 1..m /\ j \in 1..m
    <3>1. u[i] \in Items(t) /\ u[j] \in Items(s)
      BY <1>1, <1>2, <2>1, <2>2, <2>6
    <3> QED BY <1>6, <3>1
  <2> QED BY <2>3, <2>4, <2>5, <2>6
<1>7. /\ Len(SubSeq(u, 1, m)) = m /\ \A i \in 1..m : SubSeq(u, 1, m)[i] = u[i]
      /\ Len(SubSeq(u, m + 1, m + n)) = n
      /\ \A i \in 1..n : SubSeq(u, m + 1, m + n)[i] = u[m + i]
  <2>1. \A i \in 1..m : u[i] \in Item
    BY <1>1, <1>3, ElementOfSeq
  <2>2. \A i \in (m + 1)..(m + n) : u[i] \in Item
    <3>1. \A i \in (m + 1)..(m + n) : i \in 1..(m + n)
      BY <1>1
    <3> QED BY <1>1, <3>1, ElementOfSeq
  <2>3. /\ Len(SubSeq(u, 1, m)) = IF 1 <= m THEN m - 1 + 1 ELSE 0
        /\ \A i \in 1..(m - 1 + 1) : SubSeq(u, 1, m)[i] = u[1 + i - 1]
    BY <1>1, <2>1, SubSeqProperties
  <2>4. /\ Len(SubSeq(u, m + 1, m + n)) = IF m + 1 <= m + n THEN (m + n) - (m + 1) + 1 ELSE 0
        /\ \A i \in 1..((m + n) - (m + 1) + 1) : SubSeq(u, m + 1, m + n)[i] = u[(m + 1) + i - 1]
    BY <1>1, <2>2, SubSeqProperties
  <2>5. m - 1 + 1 = m /\ (m + n) - (m + 1) + 1 = n /\ \A i \in Int : 1 + i - 1 = i /\ (m + 1) + i - 1 = m + i
    BY <1>1
  <2> QED BY <1>1, <2>3, <2>4, <2>5
<1>8. InOrder(s) => InOrder(SubSeq(u, 1, m))
  BY <1>1, <1>7 DEF InOrder, m
<1>9. InOrder(t) => InOrder(SubSeq(u, m + 1, m + n))
  BY <1>1, <1>7 DEF InOrder, n
<1> QED BY <1>1, <1>5, <1>6, <1>8, <1>9 DEF u, m, n

-----------------------------------------------------------------------------
(* The steps of a search.                                                  *)

LEMMA SearchConstants ==
    /\ \A n \in Nat : CapPerBrand(n) \in Args
    /\ \A pool \in Seq(Item) : /\ Strict("brand", MaxPerBrand, pool) \in Args
                               /\ Strict("accord", MaxPerAccord, pool) \in Args
    /\ LlmPoolCap \in Nat \ {0} /\ MaxPerBrand \in Nat \ {0}
BY PageAssumption DEF CapPerBrand, Strict, Args

LEMMA InitSearchInv == Init => SearchInv
<1> SUFFICES ASSUME Init PROVE SearchInv
  OBVIOUS
<1>1. input \in Seq(Item) /\ limit \in Nat \ {0} /\ Ranked(input)
  <2>1. input \in Seq(Item) /\ \A i \in 1..Len(input) : input[i].rank = i
    BY PageAssumption DEF Init
  <2>2. limit \in Nat \ {0}
    BY PageAssumption DEF Init
  <2> QED BY <2>1, <2>2 DEF Ranked
<1>2. CapInv
  <2>1. args \in Args /\ args.maxPerKey = MaxPerBrand
    BY <1>1, SearchConstants DEF Init, Strict
  <2>2. CapInit
    BY <1>1, <2>1 DEF Init, CapInit
  <2> QED BY <2>2, InitCapInv
<1>3. SearchTypes
  BY <1>1, EmptyList DEF Init, SearchTypes
<1>4. StrictCaps
  <2>1. ByBrand /\ ~args.backfill /\ cap = args.maxPerKey
    BY DEF Init, ByBrand, Strict
  <2>2. Sifted
    BY <1>1, <2>1, EmptyList DEF Init, Sifted
  <2>3. \A k \in Key : Cardinality(OfBrand(output, k)) = count[k]
    BY EmptyList, FS_EmptySet DEF Init
  <2> QED BY <2>1, <2>2, <2>3 DEF Init, StrictCaps
<1>5. PageCaps /\ FullPage /\ PageFits
  BY DEF Init, PageCaps, FullPage, PageFits, PageIsDiverse, OneSeam, Done
<1> QED BY <1>2, <1>3, <1>4, <1>5 DEF SearchInv


LEMMA CapStepKeepsSearch ==
    ASSUME SearchInv, Cap
    PROVE  SearchInv'
<1>1. /\ CapInv /\ SearchTypes /\ StrictCaps /\ PageCaps /\ CapStep
      /\ stage \notin {"enhance", "done"}
      /\ UNCHANGED <<limit, budget, reference, stage, wide, narrow, enhanced, page>>
  BY DEF SearchInv, Cap, request
<1>2. CapInv'
  BY <1>1, CapStepKeepsInv
<1>3. UNCHANGED <<args, input>>
  BY <1>1 DEF CapStep, Take, Skip, EndPass
<1>4. SearchTypes'
  BY <1>1 DEF SearchTypes
<1>5. StrictCaps'
  <2>1. ASSUME stage = "brands"
        PROVE  Sifted' /\ \A k \in Key : Cardinality(OfBrand(output, k))' = count'[k]
    BY <1>1, <2>1, SiftedStep, TalliedStep DEF StrictCaps, ByBrand
  <2>2. stage = "characters" => Sifted'
    BY <1>1, SiftedStep DEF StrictCaps
  <2> QED BY <1>1, <1>3, <2>1, <2>2 DEF StrictCaps, ByBrand
<1>6. PageCaps'
  <2>1. input \in Seq(Item) /\ wide \in Seq(Item)
    BY <1>1 DEF CapInv, TypeOK, SearchTypes
  <2>2. ASSUME stage \in {"llmPage", "page"}, Distinct(enhanced) PROVE FromFront'
    <3>1. Diverse(wide) /\ Distinct(input) /\ Items(input) \subseteq Items(wide) /\ ByBrand /\ FromFront
      BY <1>1, <2>2 DEF StrictCaps, PageCaps
    <3> QED BY <1>1, <2>1, <3>1, DiverseWithin, FromFrontStep
  <2>3. ASSUME stage = "rest" PROVE FromFront'
    <3>1. Diverse(wide) /\ Ranked(input) /\ Items(input) \subseteq Items(wide) /\ ByBrand /\ FromFront
      BY <1>1, <2>3 DEF StrictCaps, PageCaps
    <3> QED BY <1>1, <2>1, <3>1, RankedLists, DiverseWithin, FromFrontStep
  <2> QED BY <1>1, <1>3, <2>2, <2>3 DEF PageCaps, ByBrand
<1>7. FullPage' /\ PageFits'
  <2>1. stage' # "done"
    BY <1>1
  <2> QED BY <2>1 DEF Done, FullPage, PageFits, PageIsDiverse, OneSeam
<1> QED BY <1>2, <1>4, <1>5, <1>6, <1>7 DEF SearchInv

LEMMA WidenedKeepsInv ==
    ASSUME SearchInv, Widened
    PROVE  SearchInv'
<1>1. /\ CapInv /\ SearchTypes /\ StrictCaps /\ stage = "brands"
      /\ wide' = output
      /\ UNCHANGED <<limit, budget, reference, enhanced, page>>
  BY DEF SearchInv, Widened, request
<1>2. output \in Seq(Item) /\ input \in Seq(Item) /\ MaxPerBrand \in Nat
  BY <1>1, SearchConstants DEF CapInv, TypeOK
<1>3. Ranked(output) /\ Diverse(output)
  <2>1. ByBrand /\ Sifted /\ \A k \in Key : Cardinality(OfBrand(output, k)) = count[k]
    BY <1>1 DEF StrictCaps
  <2>2. \A k \in Key : count[k] <= MaxPerBrand
    BY <1>1, <2>1 DEF CapInv, WithinBounds, Sifted, ByBrand
  <2> QED BY <2>1, <2>2 DEF Sifted, Diverse
<1>4. CASE reference
  <2>1. stage' = "enhance" /\ narrow' = output /\ UNCHANGED capVars
    BY <1>4 DEF Widened
  <2>2. CapInv'
    BY <1>1, <2>1, CapStepKeepsInv
  <2>3. SearchTypes'
    BY <1>1, <1>2, <2>1 DEF SearchTypes
  <2>4. StrictCaps'
    BY <1>1, <1>3, <2>1 DEF StrictCaps
  <2>5. PageCaps' /\ FullPage' /\ PageFits'
    BY <2>1 DEF PageCaps, Done, FullPage, PageFits, PageIsDiverse, OneSeam
  <2> QED BY <2>2, <2>3, <2>4, <2>5 DEF SearchInv
<1>5. CASE ~reference
  <2>1. stage' = "characters" /\ narrow' = narrow /\ Call(Strict("accord", MaxPerAccord, input), output)
    BY <1>5 DEF Widened
  <2>2. Strict("accord", MaxPerAccord, input) \in Args
    BY <1>2, SearchConstants
  <2>3. /\ CapInv' /\ args' = Strict("accord", MaxPerAccord, input) /\ input' = output
        /\ output' = <<>> /\ pos' = 1 /\ cap' = args'.maxPerKey
    BY <1>2, <2>1, <2>2, CallFacts
  <2>4. SearchTypes'
    BY <1>1, <1>2, <2>1 DEF SearchTypes
  <2>5. Sifted'
    <3>1. ~args'.backfill
      BY <2>3 DEF Strict
    <3> QED BY <1>3, <2>3, <3>1, EmptyList DEF Sifted
  <2>6. StrictCaps'
    BY <1>1, <1>3, <2>1, <2>3, <2>5 DEF StrictCaps
  <2>7. PageCaps' /\ FullPage' /\ PageFits'
    BY <2>1 DEF PageCaps, Done, FullPage, PageFits, PageIsDiverse, OneSeam
  <2> QED BY <2>3, <2>4, <2>6, <2>7 DEF SearchInv
<1> QED BY <1>4, <1>5

LEMMA NarrowedKeepsInv ==
    ASSUME SearchInv, Narrowed
    PROVE  SearchInv'
<1>1. /\ CapInv /\ SearchTypes /\ StrictCaps /\ stage = "characters"
      /\ narrow' = output /\ stage' = "enhance"
      /\ UNCHANGED <<args, input, output, taken, count, cap, pos, progressed>>
      /\ UNCHANGED <<limit, budget, reference, wide, enhanced, page>>
  BY DEF SearchInv, Narrowed, request, capVars
<1>2. CapInv'
  BY <1>1, CapStepKeepsInv DEF capVars
<1>3. SearchTypes'
  BY <1>1 DEF SearchTypes, CapInv, TypeOK
<1>4. StrictCaps'
  BY <1>1 DEF StrictCaps, Sifted
<1>5. PageCaps' /\ FullPage' /\ PageFits'
  BY <1>1 DEF PageCaps, Done, FullPage, PageFits, PageIsDiverse, OneSeam
<1> QED BY <1>2, <1>3, <1>4, <1>5 DEF SearchInv

\* What the LLM picked, it was shown.
LEMMA PicksAreNarrow ==
    ASSUME narrow \in Seq(Item), NEW s \in Picks, LlmPickCount \in Nat
    PROVE  s \in Seq(Item) /\ Items(s) \subseteq Items(narrow)
<1> DEFINE last == Shortest(LlmPoolCap, Len(narrow))
           shown == Items(SubSeq(narrow, 1, last))
<1>1. last \in Int /\ last <= Len(narrow) /\ Len(narrow) \in Nat
  BY SearchConstants DEF Shortest
<1>2. \A i \in 1..last : i \in 1..Len(narrow)
  BY <1>1
<1>3. \A i \in 1..last : narrow[i] \in Item /\ narrow[i] \in Items(narrow)
  BY <1>2, ElementOfSeq DEF Items
<1> HIDE DEF last
<1>4. /\ Len(SubSeq(narrow, 1, last)) = IF 1 <= last THEN last - 1 + 1 ELSE 0
      /\ \A i \in 1..(last - 1 + 1) : SubSeq(narrow, 1, last)[i] = narrow[1 + i - 1]
  BY <1>1, <1>3, SubSeqProperties
<1>5. \A i \in 1..Len(SubSeq(narrow, 1, last)) :
          i \in 1..last /\ SubSeq(narrow, 1, last)[i] = narrow[i]
  BY <1>1, <1>4
<1>6. shown \subseteq Item /\ shown \subseteq Items(narrow)
  BY <1>3, <1>5 DEF Items
<1>7. Picks = UNION {[1..n -> shown] : n \in 1..LlmPickCount}
  BY DEF Picks, last
<1> HIDE DEF shown
<1>8. PICK n \in 1..LlmPickCount : s \in [1..n -> shown]
  BY <1>7
<1>9. n \in Nat /\ s \in [1..n -> Item] /\ \A i \in 1..n : s[i] \in Items(narrow)
  BY <1>6, <1>8
<1>10. s \in Seq(Item) /\ Len(s) = n
  BY <1>9
<1> QED BY <1>9, <1>10 DEF Items

LEMMA EnhanceKeepsInv ==
    ASSUME SearchInv, Enhance
    PROVE  SearchInv'
<1>1. /\ CapInv /\ SearchTypes /\ StrictCaps /\ stage = "enhance" /\ stage' = "llmPage"
      /\ enhanced' \in Picks /\ (budget => InOrder(enhanced'))
      /\ Call(CapPerBrand(LlmPickCount), enhanced')
      /\ UNCHANGED <<limit, budget, reference, wide, narrow, page>>
  BY DEF SearchInv, Enhance, request
<1>2. LlmPickCount \in Nat /\ LlmPickCount <= limit
  BY <1>1, SearchConstants DEF SearchTypes, LlmPickCount, Shortest
<1>3. PICK s : s = enhanced'
  OBVIOUS
<1>4. s \in Picks /\ narrow \in Seq(Item)
  BY <1>1, <1>3 DEF SearchTypes
<1>5. s \in Seq(Item) /\ Items(s) \subseteq Items(narrow)
  BY <1>2, <1>4, PicksAreNarrow
<1>6. Ranked(narrow) /\ Items(narrow) \subseteq Items(wide) /\ Ranked(wide) /\ Diverse(wide)
  BY <1>1 DEF StrictCaps
<1>7. CapPerBrand(LlmPickCount) \in Args
  BY <1>2, SearchConstants
<1>8. /\ CapInv' /\ args' = CapPerBrand(LlmPickCount) /\ input' = s
      /\ output' = <<>> /\ taken' = {} /\ pos' = 1
  BY <1>1, <1>3, <1>5, <1>7, CallFacts
<1>9. SearchTypes'
  BY <1>1, <1>3, <1>5 DEF SearchTypes
<1>10. StrictCaps'
  BY <1>1, <1>6 DEF StrictCaps
<1>11. FromFront'
  BY <1>8, EmptyList DEF FromFront
<1>12. ByBrand' /\ args'.backfill /\ args'.limit <= limit'
  BY <1>1, <1>2, <1>8 DEF ByBrand, CapPerBrand
<1>13. PageCaps'
  BY <1>1, <1>3, <1>5, <1>6, <1>8, <1>11, <1>12 DEF PageCaps
<1>14. FullPage' /\ PageFits'
  BY <1>1 DEF Done, FullPage, PageFits, PageIsDiverse, OneSeam
<1> QED BY <1>8, <1>9, <1>10, <1>13, <1>14 DEF SearchInv

LEMMA NoEnhancementKeepsInv ==
    ASSUME SearchInv, NoEnhancement
    PROVE  SearchInv'
<1>1. /\ CapInv /\ SearchTypes /\ StrictCaps /\ stage = "enhance" /\ stage' = "page"
      /\ Call(CapPerBrand(limit), narrow)
      /\ UNCHANGED <<limit, budget, reference, wide, narrow, enhanced, page>>
  BY DEF SearchInv, NoEnhancement, request
<1>2. limit \in Nat /\ narrow \in Seq(Item)
  BY <1>1 DEF SearchTypes
<1>3. Ranked(narrow) /\ Items(narrow) \subseteq Items(wide) /\ Ranked(wide) /\ Diverse(wide)
  BY <1>1 DEF StrictCaps
<1>4. CapPerBrand(limit) \in Args
  BY <1>2, SearchConstants
<1>5. /\ CapInv' /\ args' = CapPerBrand(limit) /\ input' = narrow
      /\ output' = <<>> /\ taken' = {} /\ pos' = 1
  BY <1>1, <1>2, <1>4, CallFacts
<1>6. SearchTypes'
  BY <1>1 DEF SearchTypes
<1>7. StrictCaps'
  BY <1>1, <1>3 DEF StrictCaps
<1>8. FromFront'
  BY <1>5, EmptyList DEF FromFront
<1>9. ByBrand' /\ args'.backfill /\ args'.limit <= limit'
  BY <1>1, <1>2, <1>5 DEF ByBrand, CapPerBrand
<1>10. Distinct(narrow) /\ InOrder(narrow)
  BY <1>2, <1>3, RankedLists
<1>11. PageCaps'
  BY <1>1, <1>3, <1>5, <1>8, <1>9, <1>10 DEF PageCaps
<1>12. FullPage' /\ PageFits'
  BY <1>1 DEF Done, FullPage, PageFits, PageIsDiverse, OneSeam
<1> QED BY <1>5, <1>6, <1>7, <1>11, <1>12 DEF SearchInv

\* The whole of a list, and nothing after it.
LEMMA WholeList ==
    ASSUME NEW s \in Seq(Item), InOrder(s)
    PROVE  \E n \in 0..Len(s) : /\ InOrder(SubSeq(s, 1, n))
                                /\ InOrder(SubSeq(s, n + 1, Len(s)))
<1>1. s \o <<>> = s /\ Len(s) \in Nat /\ Len(s) \in 0..Len(s)
  BY ConcatEmptySeq
<1>2. InOrder(SubSeq(s, 1, Len(s))) /\ InOrder(SubSeq(s, Len(s) + 1, Len(s)))
  BY <1>1, EmptyList, JoinedFacts
<1> QED BY <1>1, <1>2

LEMMA PagedKeepsInv ==
    ASSUME SearchInv, Paged
    PROVE  SearchInv'
<1>1. /\ CapInv /\ SearchTypes /\ StrictCaps /\ PageCaps /\ stage \in {"llmPage", "page"}
      /\ Returned /\ page' = output
      /\ UNCHANGED <<limit, budget, reference, wide, narrow, enhanced>>
  BY DEF SearchInv, Paged, request
<1>2. /\ limit \in Nat /\ wide \in Seq(Item) /\ output \in Seq(Item) /\ Len(output) \in Nat
      /\ input \in Seq(Item) /\ args.limit \in Nat /\ Len(output) <= args.limit
  BY <1>1 DEF SearchTypes, CapInv, TypeOK, WithinBounds, Args
<1>3. /\ args.limit <= limit /\ Items(input) \subseteq Items(wide)
      /\ Distinct(enhanced) => Distinct(input) /\ FromFront /\ (budget => InOrder(input))
  BY <1>1 DEF PageCaps
<1>4. /\ Ranked(wide) /\ Diverse(wide) /\ Ranked(narrow) /\ Items(narrow) \subseteq Items(wide)
  BY <1>1 DEF StrictCaps
<1>5. Distinct(enhanced) =>
          Distinct(output) /\ Items(output) \subseteq Items(wide) /\ (budget => InOrder(output))
  BY <1>1, <1>3, FrontFacts
<1>6. SearchTypes' <=> stage' \in {"rest", "done"} \/ SearchTypes'
  BY <1>1, <1>2 DEF SearchTypes
<1>7. CASE Len(output) < limit
  <2>1. stage' = "rest" /\ Call(CapPerBrand(limit - Len(output)), Remainder)
    BY <1>7 DEF Paged
  <2>2. /\ Remainder \in Seq(Item) /\ Ranked(Remainder)
        /\ Items(Remainder) \subseteq Items(wide) \ Items(output)
        /\ Len(Remainder) + Len(output) >= Len(wide)
    BY <1>2, <1>4, RemainderFacts
  <2>3. limit - Len(output) \in Nat
    BY <1>2, <1>7
  <2>4. CapPerBrand(limit - Len(output)) \in Args
    BY <2>3, SearchConstants
  <2>5. /\ CapInv' /\ args' = CapPerBrand(limit - Len(output)) /\ input' = Remainder
        /\ output' = <<>> /\ taken' = {} /\ pos' = 1
    BY <2>1, <2>2, <2>4, CallFacts
  <2>6. SearchTypes'
    BY <1>1, <1>6, <2>1
  <2>7. StrictCaps'
    BY <1>1, <1>4, <2>1 DEF StrictCaps
  <2>8. FromFront'
    BY <2>5, EmptyList DEF FromFront
  <2>9. ByBrand' /\ args'.backfill /\ args'.limit = limit' - Len(page') /\ Len(page') < limit'
    BY <1>1, <1>7, <2>5 DEF ByBrand, CapPerBrand
  <2>10. PageCaps'
    BY <1>1, <1>5, <2>1, <2>2, <2>5, <2>8, <2>9 DEF PageCaps
  <2>11. FullPage' /\ PageFits'
    BY <2>1 DEF Done, FullPage, PageFits, PageIsDiverse, OneSeam
  <2> QED BY <2>5, <2>6, <2>7, <2>10, <2>11 DEF SearchInv
<1>8. CASE ~(Len(output) < limit)
  <2>1. stage' = "done" /\ UNCHANGED <<args, input, output, taken, count, cap, pos, progressed>>
    BY <1>8 DEF Paged, capVars
  <2>2. CapInv'
    BY <1>1, <2>1, CapStepKeepsInv DEF capVars
  <2>3. SearchTypes'
    BY <1>1, <1>6, <2>1
  <2>4. StrictCaps'
    BY <1>1, <1>4, <2>1 DEF StrictCaps
  <2>5. PageCaps'
    BY <2>1 DEF PageCaps
  <2>6. FullPage'
    <3>1. Len(output) = limit
      BY <1>2, <1>3, <1>8
    <3>2. Len(wide) \in Nat
      BY <1>2
    <3> QED BY <1>1, <1>2, <3>1, <3>2 DEF FullPage, Shortest
  <2>7. PageIsDiverse'
    <3>1. Distinct(enhanced) => Diverse(output)
      BY <1>2, <1>4, <1>5, DiverseWithin
    <3> QED BY <1>1, <1>5, <3>1 DEF PageIsDiverse
  <2>8. OneSeam'
    <3>1. Distinct(enhanced) /\ budget =>
              \E n \in 0..Len(output) : /\ InOrder(SubSeq(output, 1, n))
                                        /\ InOrder(SubSeq(output, n + 1, Len(output)))
      BY <1>2, <1>5, WholeList
    <3> QED BY <1>1, <3>1 DEF OneSeam
  <2> QED BY <2>2, <2>3, <2>4, <2>5, <2>6, <2>7, <2>8 DEF SearchInv, PageFits
<1> QED BY <1>7, <1>8

LEMMA FilledKeepsInv ==
    ASSUME SearchInv, Filled
    PROVE  SearchInv'
<1>1. /\ CapInv /\ SearchTypes /\ StrictCaps /\ PageCaps /\ stage = "rest" /\ stage' = "done"
      /\ Returned /\ page' = page \o output
      /\ UNCHANGED <<args, input, output, taken, count, cap, pos, progressed>>
      /\ UNCHANGED <<limit, budget, reference, wide, narrow, enhanced>>
  BY DEF SearchInv, Filled, request, capVars
<1>2. /\ limit \in Nat /\ wide \in Seq(Item) /\ page \in Seq(Item) /\ output \in Seq(Item)
      /\ input \in Seq(Item) /\ Len(wide) \in Nat /\ Len(page) \in Nat
      /\ Len(output) \in Nat /\ Len(input) \in Nat
  BY <1>1 DEF SearchTypes, CapInv, TypeOK
<1>3. /\ args.backfill /\ args.limit = limit - Len(page) /\ Len(page) < limit
      /\ Ranked(input) /\ Items(input) \subseteq Items(wide) \ Items(page) /\ FromFront
      /\ Len(input) + Len(page) >= Len(wide)
      /\ Distinct(enhanced) => /\ Distinct(page) /\ Items(page) \subseteq Items(wide)
                               /\ budget => InOrder(page)
  BY <1>1 DEF PageCaps
<1>4. Ranked(wide) /\ Diverse(wide) /\ Ranked(narrow) /\ Items(narrow) \subseteq Items(wide)
  BY <1>1 DEF StrictCaps
<1>5. Distinct(output) /\ Items(output) \subseteq Items(wide) \ Items(page) /\ InOrder(output)
  BY <1>1, <1>2, <1>3, RankedLists, FrontFacts
<1>6. PICK p : p = page \o output
  OBVIOUS
<1>7. /\ p \in Seq(Item) /\ Len(p) = Len(page) + Len(output)
      /\ Items(p) = Items(page) \cup Items(output)
      /\ Distinct(page) => Distinct(p)
      /\ InOrder(page) => InOrder(SubSeq(p, 1, Len(page)))
      /\ InOrder(SubSeq(p, Len(page) + 1, Len(p)))
  <2>1. Items(page) \cap Items(output) = {}
    BY <1>5
  <2> QED BY <1>2, <1>5, <1>6, <2>1, JoinedFacts
<1>8. CapInv'
  BY <1>1, CapStepKeepsInv DEF capVars
<1>9. SearchTypes'
  BY <1>1, <1>6, <1>7 DEF SearchTypes
<1>10. StrictCaps'
  BY <1>1, <1>4 DEF StrictCaps
<1>11. PageCaps'
  BY <1>1 DEF PageCaps
<1>12. FullPage'
  <2>1. Len(output) = args.limit \/ Len(output) = Len(input)
    BY <1>1, <1>3, FrontIsAll
  <2>2. Len(output) <= args.limit
    BY <1>1 DEF CapInv, WithinBounds
  <2>3. Len(p) <= limit /\ Len(p) >= Shortest(limit, Len(wide))
    BY <1>2, <1>3, <1>7, <2>1, <2>2 DEF Shortest
  <2> QED BY <1>1, <1>6, <2>3 DEF FullPage
<1>13. PageIsDiverse'
  <2>1. Distinct(enhanced) => Distinct(p) /\ Diverse(p)
    BY <1>2, <1>3, <1>4, <1>5, <1>7, DiverseWithin
  <2> QED BY <1>1, <1>6, <2>1 DEF PageIsDiverse
<1>14. OneSeam'
  <2>1. Len(page) \in 0..Len(p)
    BY <1>2, <1>7
  <2>2. Distinct(enhanced) /\ budget =>
            \E n \in 0..Len(p) : /\ InOrder(SubSeq(p, 1, n))
                                 /\ InOrder(SubSeq(p, n + 1, Len(p)))
    BY <1>3, <1>7, <2>1
  <2> QED BY <1>1, <1>6, <2>2 DEF OneSeam
<1> QED BY <1>8, <1>9, <1>10, <1>11, <1>12, <1>13, <1>14 DEF SearchInv, PageFits

LEMMA SearchNextKeepsInv == SearchInv /\ [Next]_vars => SearchInv'
<1> SUFFICES ASSUME SearchInv, [Next]_vars PROVE SearchInv'
  OBVIOUS
<1>1. CASE UNCHANGED vars
  BY <1>1 DEF vars, capVars, SearchInv, CapInv, TypeOK, Counted, WithinBounds, PassedOver, Full,
              KeyAt, SearchTypes, StrictCaps, PageCaps, Sifted, FromFront, ByBrand, FullPage,
              PageFits, PageIsDiverse, OneSeam, Done
<1> QED BY <1>1, CapStepKeepsSearch, WidenedKeepsInv, NarrowedKeepsInv, EnhanceKeepsInv,
           NoEnhancementKeepsInv, PagedKeepsInv, FilledKeepsInv DEF Next

\* What every call of the cap is given and has done holds in every state of a search,
\* for every catalogue, limit and cap.
THEOREM SearchInvariant == Spec => []SearchInv
BY InitSearchInv, SearchNextKeepsInv, PTL DEF Spec

\* A page never has more results than asked for, and fewer only when the pool, capped
\* by brand, has no more (the backfill of context_search and dupe_search).
THEOREM PageIsFull == Spec => []FullPage
<1>1. SearchInv => FullPage
  BY DEF SearchInv
<1> QED BY <1>1, SearchInvariant, PTL

\* No perfume is on a page twice, no brand more than max_per_brand times, and the price
\* order breaks at most once, where the remainder begins (unless the LLM repeats itself).
THEOREM PageFitsTogether == Spec => []PageFits
<1>1. SearchInv => PageFits
  BY DEF SearchInv
<1> QED BY <1>1, SearchInvariant, PTL

\* The same of every cap of a search: no brand and no accord that got more than its cap
\* is more than one ahead of a result left out.
THEOREM SearchSpreadsFairly == Spec => []FairSpread
<1>1. SearchInv => FairSpread
  BY CapInvSpreads DEF SearchInv
<1> QED BY <1>1, SearchInvariant, PTL
=============================================================================
