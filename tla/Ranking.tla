------------------------------- MODULE Ranking -------------------------------
(***************************************************************************)
(* How backend/app/services/decision_engine.py scores a perfume against    *)
(* what a request signals, and what the card of the perfume then claims.   *)
(*                                                                         *)
(* Fits are percentages, rounded down; scores are tenths of a point.  A    *)
(* note or accord is a term that stands for all its descriptive variants   *)
(* ("Jasmine", "Moroccan Jasmine"), which _notes_equivalent equates, so    *)
(* that a whole-word match is membership.  0 stands for a missing price,   *)
(* budget or number of hours, Unknown for a missing score.                 *)
(***************************************************************************)
EXTENDS Integers, FiniteSets

CONSTANTS
    Term,             \* notes, accords and words of a query
    ScenarioAccords,  \* SCENARIO_MAP: the accords of a scenario
    ScenarioNotes,    \*               and its notes
    FamilyTerms,      \* NOTE_FAMILIES
    AgeAccords,       \* AGE_BRACKET_ACCORDS
    FreshScenarios, FreshFamilies,
    TopNotes, TopAccords,   \* notes of a TOP_TIER_FAMILIES family, TOP_ACCORDS
    BaseNotes, BaseAccords  \* notes of a BASE_TIER_FAMILIES family, BASE_ACCORDS

TermSets(f) == \A x \in DOMAIN f : f[x] \subseteq Term

ASSUME RankingAssumption ==
    /\ IsFiniteSet(Term)
    /\ TermSets(ScenarioAccords) /\ TermSets(ScenarioNotes)
    /\ DOMAIN ScenarioNotes = DOMAIN ScenarioAccords
    /\ TermSets(FamilyTerms) /\ IsFiniteSet(DOMAIN FamilyTerms)
    /\ TermSets(AgeAccords)

None == "none"
Unknown == -1

Percent(part, whole) == (100 * part) \div whole
AtMost(n, m) == IF n <= m THEN n ELSE m
AtLeast(n, m) == IF n >= m THEN n ELSE m
Common(S, T) == Cardinality(S \cap T)

-----------------------------------------------------------------------------
(* The fits.  p is a perfume, s what the request signals.                  *)

PriceFit(p, s) ==
    IF s.budget = 0 \/ p.price = 0 THEN 100
    ELSE IF p.price > s.budget THEN 0
    ELSE IF s.dealBreaker THEN 100 - Percent(p.price, s.budget)
    ELSE Percent(p.price, s.budget)

\* p.leans is the gender whose notes and accords outnumber the other's by more
\* than one.
GenderFit(p, s) ==
    IF s.gender = None \/ p.gender = None THEN 100
    ELSE IF p.gender = "unisex"
         THEN IF <<s.gender, p.leans>> \in {<<"male", "female">>, <<"female", "male">>}
              THEN 85 ELSE 100
    ELSE IF p.gender = s.gender THEN 100 ELSE 40

GenderMatched(p, s) == p.gender \in {s.gender, "unisex"} /\ GenderFit(p, s) >= 90

\* TYPE_PERFORMANCE_ADJUSTMENTS, in percent.
Adjustment ==
    [extrait |-> <<115, 85>>, elixir |-> <<115, 85>>, parfum |-> <<115, 85>>,
     edp |-> <<108, 93>>, edt |-> <<90, 110>>, cologne |-> <<75, 115>>,
     spray |-> <<50, 70>>]

\* The longevity and the sillage of a perfume, adjusted to its concentration.
Adjusted(p) ==
    IF p.type = None \/ Unknown \in {p.longevity, p.sillage}
    THEN [longevity |-> p.longevity, sillage |-> p.sillage]
    ELSE [longevity |-> AtMost((p.longevity * Adjustment[p.type][1]) \div 100, 100),
          sillage   |-> AtMost((p.sillage   * Adjustment[p.type][2]) \div 100, 100)]

\* The midpoint of LONGEVITY_HOUR_BUCKETS; "10+" counts as 10 to 14.
EstimatedHours(longevity) ==
    IF longevity < 30 THEN 3
    ELSE IF longevity < 50 THEN 5
    ELSE IF longevity < 70 THEN 7
    ELSE IF longevity < 85 THEN 9 ELSE 12

\* Variant: the quotient is upside down.
LongevityFitInverted(p, s) ==
    LET longevity == Adjusted(p).longevity
        estimated == EstimatedHours(longevity)
    IN  IF s.hours = 0 /\ ~s.longLasting THEN 100
        ELSE IF longevity = Unknown THEN 50
        ELSE IF s.hours = 0 THEN longevity
        ELSE IF estimated >= s.hours THEN Percent(s.hours, estimated)
        ELSE AtLeast(20, Percent(estimated, s.hours))

LongevityFit(p, s) ==
    LET longevity == Adjusted(p).longevity
        estimated == EstimatedHours(longevity)
    IN  IF s.hours = 0 /\ ~s.longLasting THEN 100
        ELSE IF longevity = Unknown THEN 50
        ELSE IF s.hours = 0 THEN longevity
        ELSE IF estimated >= s.hours THEN 100
        ELSE AtLeast(20, Percent(estimated, s.hours))

Strength == [light |-> 1, moderate |-> 2, strong |-> 3]
SillageLabel(sillage) ==
    IF sillage < 35 THEN "light" ELSE IF sillage < 65 THEN "moderate" ELSE "strong"

ProjectionFit(p, s) ==
    LET sillage == Adjusted(p).sillage
        apart == Strength[SillageLabel(sillage)] - Strength[s.projection]
    IN  IF s.projection = None THEN 100
        ELSE IF sillage = Unknown THEN 60
        ELSE IF apart = 0 THEN 100 ELSE IF apart \in {-1, 1} THEN 60 ELSE 20

KnownScenarios(s) == s.scenarios \cap DOMAIN ScenarioAccords

\* 70/30: two accords, and three notes, are full credit.
ScenarioFit(p, s) ==
    LET accords == UNION {ScenarioAccords[x] : x \in KnownScenarios(s)}
        notes == UNION {ScenarioNotes[x] : x \in KnownScenarios(s)}
    IN  (IF accords = {} THEN 70 ELSE 35 * AtMost(Common(p.accords, accords), 2))
          + (IF notes = {} THEN 30 ELSE 10 * AtMost(Common(p.notes, notes), 3))

AgeFit(p, s) ==
    IF s.age = None THEN 100
    ELSE IF p.accords = {} THEN 80
    ELSE LET size == Cardinality(p.accords)
         IN  60 + (40 * AtMost(2 * Common(p.accords, AgeAccords[s.age]), size)) \div size

ValidFamilies(s) == s.families \cap DOMAIN FamilyTerms

FamilyFit(p, s) ==
    LET has(f) == FamilyTerms[f] \cap (p.notes \cup p.accords) # {}
    IN  IF ValidFamilies(s) = {} THEN 100
        ELSE Percent(Cardinality({f \in ValidFamilies(s) : has(f)}),
                     Cardinality(ValidFamilies(s)))

WantsFresh(s) == s.scenarios \cap FreshScenarios # {} \/ s.families \cap FreshFamilies # {}
HasBridge(s) == WantsFresh(s) /\ s.hours >= 6

BridgeFit(p, s) ==
    LET fresh == p.top \cap TopNotes # {} \/ p.accords \cap TopAccords # {}
        dense == p.base \cap BaseNotes # {} \/ p.accords \cap BaseAccords # {}
    IN  IF ~HasBridge(s) \/ (fresh /\ dense) THEN 100
        ELSE IF fresh \/ dense THEN 50 ELSE 20

Jaccard(S, T) ==
    IF S = {} \/ T = {} THEN 0 ELSE Percent(Common(S, T), Cardinality(S \cup T))

HasReference(s) == s.refAccords \cup s.refNotes # {}

\* Against a reference the real overlap of the compositions, else the notes and
\* accords that the query names, five of them being full credit.
NoteMatch(p, s) ==
    IF HasReference(s)
    THEN (65 * Jaccard(p.accords, s.refAccords) + 35 * Jaccard(p.notes, s.refNotes)) \div 100
    ELSE 20 * AtMost(Common(p.notes, s.words) + Common(p.accords, s.words), 5)

-----------------------------------------------------------------------------
(* The score.                                                              *)

Weight ==
    [sim |-> 7, note |-> 20, scenario |-> 28, longevity |-> 20, projection |-> 10,
     family |-> 15, bridge |-> 15, price |-> 5, gender |-> 8, age |-> 5]

Dimension == DOMAIN Weight

Fits(p, s) ==
    [sim |-> p.similarity, note |-> NoteMatch(p, s), scenario |-> ScenarioFit(p, s),
     longevity |-> LongevityFit(p, s), projection |-> ProjectionFit(p, s),
     family |-> FamilyFit(p, s), bridge |-> BridgeFit(p, s), price |-> PriceFit(p, s),
     gender |-> GenderFit(p, s), age |-> AgeFit(p, s)]

\* Similarity and note match always count, the others only when signalled.
Active(s) ==
    {"sim", "note"}
      \cup {d \in {"scenario"} : s.scenarios # {}}
      \cup {d \in {"longevity"} : s.longLasting \/ s.hours > 0}
      \cup {d \in {"projection"} : s.projection # None}
      \cup {d \in {"family"} : ValidFamilies(s) # {}}
      \cup {d \in {"bridge"} : HasBridge(s)}
      \cup {d \in {"price"} : s.budget > 0}
      \cup {d \in {"gender"} : s.gender # None}
      \cup {d \in {"age"} : s.age # None}

Part(f, active, d) == IF d \in active THEN Weight[d] * f[d] ELSE 0

Weighted(f, active) ==
    Part(f, active, "sim") + Part(f, active, "note") + Part(f, active, "scenario")
      + Part(f, active, "longevity") + Part(f, active, "projection")
      + Part(f, active, "family") + Part(f, active, "bridge")
      + Part(f, active, "price") + Part(f, active, "gender") + Part(f, active, "age")

Scale(active) == Weighted([d \in Dimension |-> 1], active)

\* hybrid_score(): the weighted mean, rounded to a tenth of a point.
HybridScore(f, active) ==
    (20 * Weighted(f, active) + Scale(active)) \div (2 * Scale(active))

\* _identity_boost(), in tenths, for how closely the query names the perfume.
Bonus == [exact |-> 350, full |-> 300, both |-> 250, name |-> 150, brand |-> 80, no |-> 0]

NegatedHit(p, s) == s.negated \cap (p.accords \cup p.notes) # {}

\* Variant: the penalty is applied before the bonus.
RawScoreBonusLast(p, s) ==
    HybridScore(Fits(p, s), Active(s)) * (IF NegatedHit(p, s) THEN 1 ELSE 4)
      + Bonus[s.names[p.id]] * 4

\* _raw_score, in quarters of a tenth: a negated term leaves a quarter of it.
RawScore(p, s) ==
    (HybridScore(Fits(p, s), Active(s)) + Bonus[s.names[p.id]])
      * (IF NegatedHit(p, s) THEN 1 ELSE 4)

\* Variant: the displayed score is not capped.
MatchScoreUncapped(p, s) == (RawScore(p, s) + 2) \div 4

MatchScore(p, s) == AtMost(1000, (RawScore(p, s) + 2) \div 4)

-----------------------------------------------------------------------------
(* What the card says.                                                     *)

Status(fit, met, partial) ==
    IF fit >= met THEN "met" ELSE IF fit >= partial THEN "partial" ELSE "unmet"

Item(about, status) == [about |-> about, status |-> status]
When(condition, item) == IF condition THEN {item} ELSE {}

\* _build_breakdown(): only criteria the request signalled.
Breakdown(p, s) ==
    LET fit == Fits(p, s) IN
         When(NegatedHit(p, s), Item("negated", "unmet"))
    \cup When(s.names[p.id] # "no", Item("identity", "met"))
    \cup When(KnownScenarios(s) # {}, Item("scenario", Status(fit.scenario, 85, 50)))
    \cup When(HasReference(s), Item("note", Status(fit.note, 50, 20)))
    \cup When(~HasReference(s) /\ fit.note > 15, Item("note", Status(fit.note, 60, 25)))
    \cup When(s.families # {}, Item("family", Status(fit.family, 75, 40)))
    \cup When(HasBridge(s), Item("bridge", Status(fit.bridge, 90, 40)))
    \cup When(s.hours > 0 \/ s.longLasting, Item("longevity", Status(fit.longevity, 85, 50)))
    \cup When(s.projection # None, Item("projection", Status(fit.projection, 85, 50)))
    \cup When(s.gender # None, Item("gender", IF GenderMatched(p, s) THEN "met"
                                              ELSE Status(fit.gender, 90, 50)))
    \cup When(s.age # None, Item("age", Status(fit.age, 90, 65)))
    \cup When(s.budget > 0, Item("price", IF p.price \in 1..s.budget THEN "met" ELSE "unmet"))

Say(about, tone, urgency) == [about |-> about, tone |-> tone, urgency |-> urgency]

\* Variant: half of the hours are good enough to be confirmed.
LongevityRemarkEager(p, s) ==
    IF s.hours > 0
    THEN {IF LongevityFit(p, s) >= 50 THEN Say("longevity", "met", 70)
          ELSE Say("longevity", "short", 99)}
    ELSE When(s.longLasting, Say("longevity", "plain", 60))

LongevityRemark(p, s) ==
    IF s.hours > 0
    THEN {IF LongevityFit(p, s) >= 90 THEN Say("longevity", "met", 70)
          ELSE Say("longevity", "short", 99)}
    ELSE When(s.longLasting, Say("longevity", "plain", 60))

\* The candidates for the second highlight of _build_highlights().
Remarks(p, s) ==
    LongevityRemark(p, s)
      \cup When(s.projection # None,
                IF ProjectionFit(p, s) >= 90 THEN Say("projection", "met", 50)
                ELSE Say("projection", "short", 95))
      \cup When(KnownScenarios(s) # {},
                IF ScenarioFit(p, s) >= 90 THEN Say("scenario", "met", 40)
                ELSE Say("scenario", "short", 90))
      \cup When(GenderMatched(p, s), Say("gender", "met", 20))

\* raw_query: the query, and what the reference is made of.
Mentioned(s) == s.words \cup s.refAccords \cup s.refNotes

\* The explanation has two highlights: the identity and the composition of the
\* perfume come first, then the most urgent remark.
Remark(p, s) ==
    IF s.names[p.id] # "no" /\ p.accords \cup (p.notes \cap Mentioned(s)) # {} THEN {}
    ELSE {r \in Remarks(p, s) : \A q \in Remarks(p, s) : q.urgency <= r.urgency}

Card(p, s) ==
    [id |-> p.id, score |-> MatchScore(p, s), breakdown |-> Breakdown(p, s),
     remark |-> Remark(p, s)]
=============================================================================
