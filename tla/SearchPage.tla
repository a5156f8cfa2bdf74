----------------------------- MODULE SearchPage -----------------------------
(***************************************************************************)
(* How context_search and dupe_search (backend/app/api/routes_search.py,   *)
(* routes_dupe.py) turn the ranked candidate pool into a page of results:  *)
(* two strict caps, the optional re-ranking by the LLM, a cap with         *)
(* backfill, and a remainder from the wider pool.  Every cap is a run of   *)
(* the loop of CapByKey.                                                   *)
(*                                                                         *)
(* A perfume is its rank in the deterministic order.  With a budget that   *)
(* order is the price order (nearest the budget, or cheapest, first).      *)
(***************************************************************************)
EXTENDS CapByKey

CONSTANTS
    Pools,       \* candidate pools: sequences of items in rank order
    Limits,      \* values of req.limit
    LlmPoolCap,  \* llm_pool_cap
    MaxPerBrand, MaxPerAccord

ASSUME PageAssumption ==
    /\ Pools \subseteq Seq(Item)
    /\ \A pool \in Pools : \A i \in 1..Len(pool) : pool[i].rank = i
    /\ Limits \subseteq Nat \ {0}
    /\ {LlmPoolCap, MaxPerBrand, MaxPerAccord} \subseteq Nat \ {0}

VARIABLES
    limit,      \* req.limit
    budget,     \* is a budget given or detected?
    reference,  \* is the search grounded in a reference perfume?
    stage,      \* the call of _cap_by_key that runs, "enhance" or "done"
    wide,       \* pre_diversity_results
    narrow,     \* results, once its scent characters are capped
    enhanced,   \* what enhance_with_llm returned, in price order
    page        \* final

request == <<limit, budget, reference>>
vars == <<capVars, limit, budget, reference, stage, wide, narrow, enhanced, page>>

Items(s) == {s[i] : i \in 1..Len(s)}
Shortest(m, n) == IF m <= n THEN m ELSE n
LlmPickCount == Shortest(limit, LlmPoolCap)

Strict(attribute, max, pool) ==
    [limit |-> Len(pool), by |-> attribute, maxPerKey |-> max, backfill |-> FALSE]
CapPerBrand(n) ==
    [limit |-> n, by |-> "brand", maxPerKey |-> MaxPerBrand, backfill |-> TRUE]

\* search_by_context() or search_by_budget() has returned its pool, no longer
\* than fetch_limit, and cap_per_brand(results, fetch_limit, backfill=False)
\* is called.
Init ==
    /\ limit \in Limits
    /\ budget \in BOOLEAN
    /\ reference \in BOOLEAN
    /\ stage = "brands"
    /\ input \in Pools
    /\ args = Strict("brand", MaxPerBrand, input)
    /\ output = <<>> /\ taken = {} /\ count = [k \in Key |-> 0]
    /\ cap = MaxPerBrand /\ pos = 1 /\ progressed = FALSE
    /\ wide = <<>> /\ narrow = <<>> /\ enhanced = <<>> /\ page = <<>>

-----------------------------------------------------------------------------
\* One step of the cap that runs.
Cap ==
    /\ stage \notin {"enhance", "done"}
    /\ CapStep
    /\ UNCHANGED <<request, stage, wide, narrow, enhanced, page>>

\* The strict cap by brand is done: cap_by_scent_character follows, unless the
\* results are meant to be like a reference.
Widened ==
    /\ stage = "brands" /\ Returned
    /\ wide' = output
    /\ IF reference
       THEN stage' = "enhance" /\ narrow' = output /\ UNCHANGED capVars
       ELSE /\ stage' = "characters"
            /\ Call(Strict("accord", MaxPerAccord, input), output)
            /\ UNCHANGED narrow
    /\ UNCHANGED <<request, enhanced, page>>

Narrowed ==
    /\ stage = "characters" /\ Returned
    /\ narrow' = output
    /\ stage' = "enhance"
    /\ UNCHANGED <<capVars, request, wide, enhanced, page>>

\* What the LLM may pick: ids of the candidates it was shown, at most as many as
\* asked for, in any order, with any adjusted scores.
Picks ==
    LET shown == Items(SubSeq(narrow, 1, Shortest(LlmPoolCap, Len(narrow))))
    IN  UNION {[1..n -> shown] : n \in 1..LlmPickCount}

InOrder(s) == \A i, j \in 1..Len(s) : i < j => s[i].rank <= s[j].rank

\* Variant: the picks are left in the order of the LLM.
EnhanceUnordered ==
    /\ stage = "enhance"
    /\ enhanced' \in Picks
    /\ stage' = "llmPage"
    /\ Call(CapPerBrand(LlmPickCount), enhanced')
    /\ UNCHANGED <<request, wide, narrow, page>>

\* enhance_with_llm() returns picks.  apply_price_order() sorts them by price,
\* or without a budget by their blended scores, which may give any order.
Enhance ==
    /\ stage = "enhance"
    /\ enhanced' \in {s \in Picks : budget => InOrder(s)}
    /\ stage' = "llmPage"
    /\ Call(CapPerBrand(LlmPickCount), enhanced')
    /\ UNCHANGED <<request, wide, narrow, page>>

\* No API key, an open breaker, an error or no valid pick.
NoEnhancement ==
    /\ stage = "enhance"
    /\ stage' = "page"
    /\ Call(CapPerBrand(limit), narrow)
    /\ UNCHANGED <<request, wide, narrow, enhanced, page>>

\* Variant: what is on the page already is not left out.
RemainderAll == wide

\* The members of a set of positions, in order.
Nth(S, n) == CHOOSE i \in S : Cardinality({j \in S : j < i}) = n - 1

Remainder ==
    LET left == {i \in 1..Len(wide) : wide[i] \notin Items(output)}
    IN  [n \in 1..Cardinality(left) |-> wide[Nth(left, n)]]

\* The page is capped; a shortfall is filled from the wider pool.
Paged ==
    /\ stage \in {"llmPage", "page"} /\ Returned
    /\ page' = output
    /\ IF Len(output) < limit
       THEN stage' = "rest" /\ Call(CapPerBrand(limit - Len(output)), Remainder)
       ELSE stage' = "done" /\ UNCHANGED capVars
    /\ UNCHANGED <<request, wide, narrow, enhanced>>

Filled ==
    /\ stage = "rest" /\ Returned
    /\ page' = page \o output
    /\ stage' = "done"
    /\ UNCHANGED <<capVars, request, wide, narrow, enhanced>>

Next == Cap \/ Widened \/ Narrowed \/ Enhance \/ NoEnhancement \/ Paged \/ Filled

Spec == Init /\ [][Next]_vars

-----------------------------------------------------------------------------
Distinct(s) == \A i, j \in 1..Len(s) : s[i] = s[j] => i = j
OfBrand(s, k) == {i \in 1..Len(s) : s[i].brand = k}
Diverse(s) == \A k \in Key : Cardinality(OfBrand(s, k)) <= MaxPerBrand
Done == stage = "done"

\* As long as the LLM names no perfume twice (nothing in enhance_with_llm keeps
\* it from doing so, and then neither holds), no perfume is on the page twice
\* and no brand more than MaxPerBrand times: the remainder is capped on its own
\* and still adds up.
PageIsDiverse == Done /\ Distinct(enhanced) => Distinct(page) /\ Diverse(page)

\* A page is never shorter than the request asks for while the pool, capped by
\* brand, has results left - whatever the character cap and the LLM dropped.
FullPage == Done => Len(page) <= limit /\ Len(page) >= Shortest(limit, Len(wide))

\* With a budget, the page is in price order but for one seam, where the
\* remainder begins.
OneSeam ==
    Done /\ budget /\ Distinct(enhanced) =>
        \E n \in 0..Len(page) : /\ InOrder(SubSeq(page, 1, n))
                                /\ InOrder(SubSeq(page, n + 1, Len(page)))

\* The LLM's part and the remainder make one page.
PageFits == PageIsDiverse /\ OneSeam

-----------------------------------------------------------------------------
(* What makes these inductive: what each call of the cap is given, and what *)
(* it has done so far.                                                     *)

Ranked(s) ==
    \A i, j \in 1..Len(s) : s[i].rank \in Int /\ (i < j => s[i].rank < s[j].rank)

\* A strict cap goes through ranked results once and lets some of them pass.
Sifted ==
    /\ ~args.backfill /\ cap = args.maxPerKey
    /\ Ranked(input) /\ Ranked(output) /\ Items(output) \subseteq Items(input)
    /\ \A j \in 1..Len(output), i \in pos..Len(input) : output[j].rank < input[i].rank

\* A cap with backfill takes everything from the front: what it is given is of the
\* wide pool, where no brand is over the cap, and so none ever reaches it.
FromFront ==
    /\ taken = 1..Len(output) /\ \A i \in taken : output[i] = input[i]
    /\ pos <= Len(output) + 1 \/ Full

ByBrand == args.by = "brand" /\ args.maxPerKey = MaxPerBrand

SearchTypes ==
    /\ limit \in Nat \ {0} /\ {budget, reference} \subseteq BOOLEAN
    /\ stage \in {"brands", "characters", "enhance", "llmPage", "page", "rest", "done"}
    /\ {wide, narrow, enhanced, page} \subseteq Seq(Item)

StrictCaps ==
    /\ stage = "brands" =>
          /\ ByBrand /\ Sifted
          /\ \A k \in Key : Cardinality(OfBrand(output, k)) = count[k]
    /\ stage = "characters" => input = wide /\ Sifted
    /\ stage # "brands" => Ranked(wide) /\ Diverse(wide)
    /\ stage \notin {"brands", "characters"} =>
          Ranked(narrow) /\ Items(narrow) \subseteq Items(wide)

PageCaps ==
    /\ stage \in {"llmPage", "page"} =>
          /\ ByBrand /\ args.backfill /\ args.limit <= limit
          /\ Items(input) \subseteq Items(wide)
          /\ Distinct(enhanced) =>
                Distinct(input) /\ FromFront /\ (budget => InOrder(input))
    /\ stage = "rest" =>
          /\ ByBrand /\ args.backfill /\ args.limit = limit - Len(page) /\ Len(page) < limit
          /\ Ranked(input) /\ Items(input) \subseteq Items(wide) \ Items(page) /\ FromFront
          /\ Len(input) + Len(page) >= Len(wide)
          /\ Distinct(enhanced) =>
                /\ Distinct(page) /\ Items(page) \subseteq Items(wide)
                /\ budget => InOrder(page)

SearchInv == CapInv /\ SearchTypes /\ StrictCaps /\ PageCaps /\ FullPage /\ PageFits
=============================================================================
