--------------------------- MODULE ReferenceLookup ---------------------------
(***************************************************************************)
(* find_reference_perfume of backend/app/services/db_repository.py: which  *)
(* perfume of our own does a query name?  Four queries, each asked only if *)
(* those before found nothing: brand and perfume literally, the perfume    *)
(* alone, both approximately, the perfume alone approximately.             *)
(*                                                                         *)
(* What a query has to do with a row is data: does it contain the brand    *)
(* and the perfume's name, before and after _clean_query_for_lookup, and   *)
(* how similar (word_similarity, in percent) are they to a part of it?     *)
(***************************************************************************)
EXTENDS Integers, FiniteSets

CONSTANTS
    Row,        \* ids of the table perfumes
    Details,    \* the row of an id: brand, nameLen, notes, ...
    BrandLen,   \* the length of a brand's name
    Inside,     \* the brands whose name contains that of a brand, itself included
    Queries     \* what a query says about each row, and its cleaned length

ASSUME LookupAssumption ==
    \A r \in Row : /\ Details[r].brand \in DOMAIN BrandLen
                   /\ Details[r].brand \in Inside[Details[r].brand]

VARIABLES
    catalogue,  \* the rows that exist
    query,      \* the query
    tier,       \* the query that is next, "over", or "idle" before the first
    reference   \* the row found, or None

lookupVars == <<catalogue, query, tier, reference>>

NoRow == 0

Says(r) == Queries[query].row[r]

Undocumented(r) == Details[r].notes = {}
Brand(r) == Details[r].brand
NameLen(r) == Details[r].nameLen

\* Variant: closeness and length come before documentation.
EarlierShortest(r, q, closeness) ==
    \/ closeness[r] > closeness[q]
    \/ closeness[r] = closeness[q] /\ NameLen(r) < NameLen(q)
    \/ /\ closeness[r] = closeness[q] /\ NameLen(r) = NameLen(q)
       /\ Undocumented(q) \/ ~Undocumented(r)

\* ORDER BY: documented rows first, then by closeness, then short names.
Earlier(r, q, closeness) ==
    \/ ~Undocumented(r) /\ Undocumented(q)
    \/ /\ Undocumented(r) = Undocumented(q)
       /\ \/ closeness[r] > closeness[q]
          \/ closeness[r] = closeness[q] /\ NameLen(r) <= NameLen(q)

First(M, closeness) == {r \in M : \A q \in M : Earlier(r, q, closeness)}
Equally == [r \in Row |-> 0]

\* _is_same_brand_group(): the shortest name is inside of every other.
SameHouse(brands) ==
    \/ Cardinality(brands) <= 1
    \/ \E core \in brands : /\ \A b \in brands : BrandLen[core] <= BrandLen[b]
                            /\ BrandLen[core] >= 4
                            /\ brands \subseteq Inside[core]

\* best_tier_brands
BestBrands(M) == {Brand(r) : r \in {x \in M : Undocumented(x) => \A q \in M : Undocumented(q)}}

\* Variant: any match will do.
AcceptAny(M) == M # {}

\* Are the matches by the perfume's name unambiguous?
Accept(M) == M # {} /\ SameHouse(BestBrands(M))

-----------------------------------------------------------------------------
\* LIMIT 1; rows that tie are returned in any order.
Settle(M, closeness, otherwise) ==
    IF M # {}
    THEN reference' \in First(M, closeness) /\ tier' = "over"
    ELSE tier' = otherwise /\ UNCHANGED reference

LiteralMatches ==
    {r \in catalogue : /\ BrandLen[Brand(r)] >= 3 /\ NameLen(r) >= 3
                       /\ Says(r).brand /\ Says(r).name}

Literally ==
    /\ tier = "literal"
    /\ Settle(LiteralMatches, Equally, "name")
    /\ UNCHANGED <<catalogue, query>>

NameMatches == {r \in catalogue : NameLen(r) >= 4 /\ Says(r).nameLeft}

ByName ==
    /\ tier = "name"
    /\ LET M == IF Queries[query].length >= 4 /\ Accept(NameMatches) THEN NameMatches ELSE {}
       IN  Settle(M, Equally, "fuzzy")
    /\ UNCHANGED <<catalogue, query>>

\* FUZZY_REFERENCE_THRESHOLD = 0.3
FuzzyMatches ==
    {r \in catalogue : /\ BrandLen[Brand(r)] >= 3 /\ NameLen(r) >= 3
                       /\ Says(r).brandSim > 30 /\ Says(r).nameSim > 30}

Approximately ==
    /\ tier = "fuzzy"
    /\ Settle(IF Queries[query].length >= 3 THEN FuzzyMatches ELSE {},
              [r \in Row |-> Says(r).brandSim + Says(r).nameSim], "fuzzyName")
    /\ UNCHANGED <<catalogue, query>>

FuzzyNameMatches == {r \in catalogue : NameLen(r) >= 4 /\ Says(r).nameSim > 45}

ApproximatelyByName ==
    /\ tier = "fuzzyName"
    /\ LET M == IF Queries[query].length >= 4 /\ Accept(FuzzyNameMatches) THEN FuzzyNameMatches ELSE {}
       IN  Settle(M, [r \in Row |-> Says(r).nameSim], "over")
    /\ UNCHANGED <<catalogue, query>>

LookupStep == Literally \/ ByName \/ Approximately \/ ApproximatelyByName

-----------------------------------------------------------------------------
Over == tier = "over"

\* A perfume that the query names with its brand is found, whatever else the
\* query resembles, and one with note data if there is any.
NamedIsFound ==
    Over /\ LiteralMatches # {} =>
        /\ reference \in LiteralMatches
        /\ Undocumented(reference) => \A r \in LiteralMatches : Undocumented(r)

\* Two houses, and none has a name that is part of both.
Unrelated(b, c) ==
    /\ b # c
    /\ \A core \in DOMAIN BrandLen : BrandLen[core] >= 4 => ~({b, c} \subseteq Inside[core])

\* "Black", which unrelated houses have each documented a perfume of, names none
\* of them: no query finds another reference for it either, unless it resembles
\* a brand as well.  (The comment on _AMBIGUITY_GUARD_CTE.)
AmbiguousIsRefused ==
    \A r, q \in NameMatches :
        /\ Over /\ LiteralMatches = {}
        /\ ~Undocumented(r) /\ ~Undocumented(q)
        /\ Unrelated(Brand(r), Brand(q))
        /\ Says(r).nameSim > 45 /\ Says(q).nameSim > 45
        /\ FuzzyMatches = {}
        => reference = NoRow

\* Two properties that pull the four tiers in opposite directions.
LookupIsRight == NamedIsFound /\ AmbiguousIsRefused

\* Each query is asked only if those before it found nothing.
LookupInv ==
    /\ tier \in {"idle", "literal", "name", "fuzzy", "fuzzyName", "over"}
    /\ reference \in catalogue \cup {NoRow}
    /\ ~Over => reference = NoRow
    /\ tier \in {"name", "fuzzy", "fuzzyName"} => LiteralMatches = {}
    /\ LookupIsRight
=============================================================================
