------------------------------- MODULE Request -------------------------------
(***************************************************************************)
(* The first half of context_search and dupe_search (routes_search.py,     *)
(* routes_dupe.py): what a request signals, the reference perfume it       *)
(* names, the price ceiling, the candidate pool of db_repository.py and    *)
(* its ranking.  SearchPage goes on with the ranked list.                  *)
(*                                                                         *)
(* What intent_detector.py finds in a query is part of the request.        *)
(***************************************************************************)
EXTENDS Ranking, ReferenceLookup, SequencesExt

CONSTANTS
    Requests,    \* requests, see Signals and Ceiling for their fields
    Catalogues,  \* sets of rows
    Defaults,    \* SCENARIO_PERFORMANCE_DEFAULTS: hours and projection
    PoolSize,    \* _candidate_pool_size(fetch_limit)
    FetchLimit   \* fetch_limit

\* A row as _format_perfume_row() returns it.
PerfumeRow ==
    [id : Row, brand : DOMAIN BrandLen, nameLen : Nat, price : Nat,
     gender : {None, "male", "female", "unisex"}, leans : {None, "male", "female"},
     type : DOMAIN Adjustment \cup {None},
     longevity : 0..100 \cup {Unknown}, sillage : 0..100 \cup {Unknown},
     similarity : -100..100,
     notes : SUBSET Term, accords : SUBSET Term, top : SUBSET Term, base : SUBSET Term]

Absent == -1

ASSUME RequestAssumption ==
    /\ \A C \in Catalogues : C \subseteq Row /\ IsFiniteSet(C)
    /\ {PoolSize, FetchLimit} \subseteq Nat \ {0}
    /\ \A r \in Row : Details[r] \in PerfumeRow /\ Details[r].id = r
    /\ \A q \in DOMAIN Queries, r \in Row : Queries[q].row[r].names \in DOMAIN Bonus
    /\ \A d \in DOMAIN Defaults : Defaults[d].hours \in 1..24
    /\ \A q \in Requests :
          /\ q.handler \in {"context", "dupe"} /\ q.query \in DOMAIN Queries
          /\ {q.hoursField, q.hoursTyped} \subseteq Nat
          /\ {q.budgetTyped, q.budgetField} \subseteq Nat \cup {Absent}

VARIABLES
    request,
    stage,   \* "received", "lookup", "pricing", "retrieving", "ranking" or "done"
    status,  \* of the response, 0 before there is one
    budget,  \* the price ceiling, 0 if there is none
    pool,    \* the rows _fetch_candidates returned, in its order
    page     \* the cards of rank_and_explain

requestVars == <<request, stage, status, budget, pool, page>>
vars == <<lookupVars, requestVars>>

Init ==
    /\ request \in Requests
    /\ catalogue \in Catalogues
    /\ query = request.query
    /\ tier = "idle" /\ reference = NoRow
    /\ stage = "received" /\ status = 0 /\ budget = 0 /\ pool = <<>> /\ page = <<>>

Respond(code) == status' = code /\ stage' = "done"

-----------------------------------------------------------------------------
\* Python's "x or y".
Or(x, y, falsy) == IF x # falsy THEN x ELSE y

\* infer_performance_from_scenarios(): long enough, and quiet enough, for all.
InferredHours(scenarios) ==
    CHOOSE h \in {Defaults[x].hours : x \in scenarios} :
        \A x \in scenarios : Defaults[x].hours <= h
InferredProjection(scenarios) ==
    CHOOSE j \in {Defaults[x].projection : x \in scenarios} :
        \A x \in scenarios : Strength[j] <= Strength[Defaults[x].projection]

Stated(q) ==
    [hours |-> Or(q.hoursField, q.hoursTyped, 0),
     projection |-> Or(q.projectionField, q.projectionTyped, None)]

\* What is said of performance, else what the scenarios imply.
Performance(q) ==
    LET typical == q.scenarios \cap DOMAIN Defaults
    IN  [hours |-> IF typical = {} THEN Stated(q).hours
                   ELSE Or(Stated(q).hours, InferredHours(typical), 0),
         projection |-> IF typical = {} THEN Stated(q).projection
                        ELSE Or(Stated(q).projection, InferredProjection(typical), None)]

\* The arguments of rank_and_explain().  names says how closely the query names
\* each row.
Signals ==
    LET q == request
        terms(f) == IF reference = NoRow THEN {} ELSE Details[reference][f]
    IN  [words |-> q.words, scenarios |-> q.scenarios, families |-> q.families,
         hours |-> Performance(q).hours,
         longLasting |-> q.longPhrase \/ Performance(q).hours > 0,
         projection |-> Performance(q).projection,
         gender |-> Or(q.genderField, q.genderTyped, None), age |-> q.age,
         budget |-> budget, dealBreaker |-> q.dealBreaker, negated |-> q.negated,
         refAccords |-> terms("accords"), refNotes |-> terms("notes"),
         names |-> [r \in Row |-> Says(r).names]]

-----------------------------------------------------------------------------
DupeWanted == request.handler = "dupe" \/ request.dupeIntent

\* A query of blanks; only context_search checks for it.
Blank ==
    /\ stage = "received" /\ request.handler = "context" /\ request.blank
    /\ Respond(400)
    /\ UNCHANGED <<lookupVars, request, budget, pool, page>>

\* find_reference_perfume() is called, and returns at once for a short query.
BeginLookup ==
    /\ stage = "received" /\ DupeWanted
    /\ request.handler = "context" => ~request.blank
    /\ stage' = "lookup"
    /\ tier' = IF request.short THEN "idle" ELSE "literal"
    /\ UNCHANGED <<catalogue, query, reference, request, status, budget, pool, page>>

PlainSearch ==
    /\ stage = "received" /\ ~DupeWanted /\ ~request.blank
    /\ stage' = "pricing"
    /\ UNCHANGED <<lookupVars, request, status, budget, pool, page>>

Lookup == stage = "lookup" /\ LookupStep /\ UNCHANGED requestVars

LookedUp ==
    /\ stage = "lookup" /\ tier \in {"idle", "over"}
    /\ stage' = "pricing"
    /\ UNCHANGED <<lookupVars, request, status, budget, pool, page>>

ReferencePrice == IF reference = NoRow THEN 0 ELSE Details[reference].price

\* Variant: the field, which a slider always fills, comes before what was typed.
CeilingFieldFirst ==
    IF request.budgetField # Absent THEN request.budgetField
    ELSE IF request.budgetTyped # Absent THEN request.budgetTyped
    ELSE IF DupeWanted /\ ReferencePrice > 0 THEN ReferencePrice
    ELSE Absent

\* A price typed in the query, else the field, else what the original costs.
Ceiling ==
    IF request.budgetTyped # Absent THEN request.budgetTyped
    ELSE IF request.budgetField # Absent THEN request.budgetField
    ELSE IF DupeWanted /\ ReferencePrice > 0 THEN ReferencePrice
    ELSE Absent

Clarify ==
    /\ stage = "pricing" /\ DupeWanted /\ Ceiling = Absent
    /\ Respond(422)
    /\ UNCHANGED <<lookupVars, request, budget, pool, page>>

TooLow ==
    /\ stage = "pricing" /\ Ceiling \in 0..99
    /\ Respond(400)
    /\ UNCHANGED <<lookupVars, request, budget, pool, page>>

Priced ==
    /\ stage = "pricing"
    /\ Ceiling >= 100 \/ (Ceiling = Absent /\ ~DupeWanted)
    /\ budget' = AtLeast(Ceiling, 0)
    /\ stage' = "retrieving"
    /\ UNCHANGED <<lookupVars, request, status, pool, page>>

SameFamily(r) ==
    reference # NoRow /\ (Brand(r) \in Inside[Brand(reference)] \/ Brand(reference) \in Inside[Brand(r)])

\* The WHERE clause of _fetch_candidates().  Its pattern finds the terms in
\* excluded; the rest of the negated terms are left to _negation_penalty().
Admissible(r) ==
    LET p == Details[r] IN
    /\ budget # 0 => p.price \in 1..budget
    /\ r # reference /\ ~SameFamily(r)
    /\ request.excluded \cap (p.notes \cup p.accords) = {}
    /\ Signals.gender # None => p.gender \in {None, "unisex", Signals.gender}

\* The index scan is approximate: it may miss any row.  The order is that of
\* the distances of the embeddings, which similarity has only a part of.
Retrieve ==
    /\ stage = "retrieving"
    /\ \E found \in SUBSET {r \in catalogue : Admissible(r)} :
           Cardinality(found) <= PoolSize /\ pool' \in SetToSeqs(found)
    /\ stage' = "ranking"
    /\ UNCHANGED <<lookupVars, request, status, budget, page>>

\* apply_price_order(): the main key of the sort, low values first.
PriceKey(r) ==
    LET price == Details[r].price IN
    IF budget = 0 THEN 0 ELSE IF request.dealBreaker THEN price ELSE -price

\* Variant: ties are broken by the displayed score, which is capped.
BeforeCapped(r, q) ==
    \/ PriceKey(r) < PriceKey(q)
    \/ /\ PriceKey(r) = PriceKey(q)
       /\ MatchScore(Details[r], Signals) > MatchScore(Details[q], Signals)

Before(r, q) ==
    \/ PriceKey(r) < PriceKey(q)
    \/ /\ PriceKey(r) = PriceKey(q)
       /\ RawScore(Details[r], Signals) > RawScore(Details[q], Signals)

\* The sort is stable.
Precedes(i, j) == Before(pool[i], pool[j]) \/ (i < j /\ ~Before(pool[j], pool[i]))

\* n - 1 results precede the one in place n.
Ahead(j) == {i \in DOMAIN pool : Precedes(i, j)}
Place(n) == CHOOSE j \in DOMAIN pool : Cardinality(Ahead(j)) = n - 1
Ranked == [n \in DOMAIN pool |-> pool[Place(n)]]

\* rank_and_explain(): score, sort, truncate, explain.
Cards ==
    LET ranked == Ranked
    IN  [i \in 1..AtMost(Len(pool), FetchLimit) |-> Card(Details[ranked[i]], Signals)]

Rank ==
    /\ stage = "ranking"
    /\ page' = Cards
    /\ Respond(200)
    /\ UNCHANGED <<lookupVars, request, budget, pool>>

Next ==
    \/ Blank \/ BeginLookup \/ PlainSearch \/ Lookup \/ LookedUp
    \/ Clarify \/ TooLow \/ Priced \/ Retrieve \/ Rank

Spec == Init /\ [][Next]_vars

-----------------------------------------------------------------------------
TypeOK ==
    /\ request.handler \in {"context", "dupe"} /\ query = request.query
    /\ catalogue \subseteq Row
    /\ tier \in {"idle", "literal", "name", "fuzzy", "fuzzyName", "over"}
    /\ reference \in catalogue \cup {NoRow}
    /\ stage \in {"received", "lookup", "pricing", "retrieving", "ranking", "done"}
    /\ status \in {0, 200, 400, 422}
    /\ budget = 0 \/ budget >= 100
    /\ ToSet(pool) \subseteq catalogue
    /\ \A i \in DOMAIN page : page[i].id \in ToSet(pool) /\ page[i].score \in -1000..1000

Perfume(i) == Details[page[i].id]
Price(i) == Perfume(i).price
Raw(i) == RawScore(Perfume(i), Signals)
Hit(i) == NegatedHit(Perfume(i), Signals)

\* No result is dearer than the price the user typed, or else gave in the field;
\* and "cheaper than X" is never answered without a ceiling: unless the user
\* gave one it is the price of X.
CeilingKept ==
    \A i \in DOMAIN page :
        /\ request.budgetTyped # Absent => Price(i) \in 1..request.budgetTyped
        /\ request.budgetTyped = Absent /\ request.budgetField # Absent
             => Price(i) \in 1..request.budgetField
        /\ DupeWanted /\ {request.budgetTyped, request.budgetField} = {Absent}
             => reference # NoRow /\ Price(i) \in 1..Details[reference].price

\* With a budget the page begins near it, or for a deal-breaker at the cheapest.
\* Otherwise, and among equal prices, it is in the order of the scores before they
\* are capped: of two perfumes shown with 100 the one that the query names more
\* closely is first.
RankOrder ==
    \A i, j \in DOMAIN page : i < j =>
        IF budget = 0 \/ Price(i) = Price(j) THEN Raw(i) >= Raw(j)
        ELSE IF request.dealBreaker THEN Price(i) < Price(j) ELSE Price(i) > Price(j)

Better(p, q) ==
    /\ p.similarity >= q.similarity /\ p.longevity >= q.longevity
    /\ Unknown \notin {p.longevity, q.longevity}
    /\ p = [q EXCEPT !.id = p.id, !.brand = p.brand, !.nameLen = p.nameLen,
                     !.similarity = p.similarity, !.longevity = p.longevity]
    /\ Says(p.id).names = Says(q.id).names

\* A perfume is never behind one that it differs from only by being more similar
\* to the query and lasting longer, unless both are shown with the same score.
BetterIsAhead ==
    \A i, j \in DOMAIN page :
        i < j /\ Better(Perfume(j), Perfume(i)) => page[i].score = page[j].score

\* The order of the page: the sort against the scores, and the scores against the
\* perfumes.
PageInOrder == RankOrder /\ BetterIsAhead

\* What contains a negated term scores no more than a quarter of the best score
\* with the best bonus, even if the query names it; without a budget only worse
\* results are behind it.
NegatedSinks ==
    \A i \in DOMAIN page : Hit(i) =>
        /\ page[i].score <= 338
        /\ \A j \in DOMAIN page : budget = 0 /\ i < j => page[j].score <= page[i].score

\* "prioritizing a shortfall (honesty about what's NOT fully met) over a redundant
\* confirmation", as far as it goes: what the explanation confirms is met by the
\* breakdown of the same card, and a perfume that falls short of the hours, the
\* projection or the occasions asked for gets no confirmation.  A family that was
\* preferred, a note that was excluded, a gender or an age are no shortfalls to
\* generate_highlights: where one of them is not met something else may be confirmed.
\* (GenderMatched also holds if no gender was asked for, and is then confirmed.)
HonestCard ==
    \A i \in DOMAIN page : \A r \in page[i].remark : r.tone = "met" =>
        LET fit == Fits(Perfume(i), Signals) IN
        /\ Item(r.about, "met") \in page[i].breakdown
             \/ (r.about = "gender" /\ Signals.gender = None)
        /\ Signals.hours > 0 => fit.longevity >= 90
        /\ Signals.projection # None => fit.projection >= 90
        /\ KnownScenarios(Signals) # {} => fit.scenario >= 90

-----------------------------------------------------------------------------
(* What makes these inductive: until the page is there nothing is, and then   *)
(* it is what ranking the pool gives; the pool is what the ceiling admits.    *)

Affordable ==
    \/ Ceiling >= 100 /\ budget = Ceiling
    \/ Ceiling = Absent /\ ~DupeWanted /\ budget = 0

PoolAdmissible == \A i \in DOMAIN pool : Admissible(pool[i])

RequestInv ==
    /\ request \in Requests /\ catalogue \in Catalogues /\ query = request.query
    /\ LookupInv
    /\ stage \in {"received", "lookup", "pricing", "retrieving", "ranking", "done"}
    /\ stage = "received" => tier = "idle"
    /\ status \in {0, 200, 400, 422}
    /\ budget \in Nat /\ budget \notin 1..99
    /\ stage \in {"retrieving", "ranking"} \/ pool # <<>> => Affordable
    /\ stage \notin {"ranking", "done"} => pool = <<>>
    /\ pool \in Seq(catalogue) /\ PoolAdmissible
    /\ page = <<>> \/ (stage = "done" /\ page = Cards)
=============================================================================
