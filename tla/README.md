# AuraMatch AI: a TLA+ model

TLA+ modules for the parts of AuraMatch AI (a FastAPI backend and a Next.js
frontend that recommend perfumes) whose correctness depends on the order in
which things happen, or on a loop that is easy to get wrong. Paths below are
relative to the repository, `app/` stands for `backend/app/`.

Checking: `tlc -config X.cfg M.tla` for the pairs of the table of runs, and
`tlapm M_proofs.tla` for the proofs.

## 1. The system

One uvicorn worker runs the API in one asyncio event loop; two coroutines
interleave only where one awaits. PostgreSQL is shared with the ingestion
script `seed_data.py`, a process of its own, and with operators who change the
`api_keys` table by hand. Groq is a remote LLM that may fail at any time. The
frontend keeps its chats in the browser's localStorage.

| Part | State | Operations | Interacts with |
|---|---|---|---|
| Circuit breaker `app/services/circuit_breaker.py` | state, failure count, time of opening | `call` = acquire, await, record | every search shares the one of `llm_enrichment.py`; two more guard the preference extractor and the off-topic classifier |
| Preferences `app/services/preference_extractor.py`, `off_topic_classifier.py`, `intent_detector.py`, `app/api/routes_classify.py` | embeddings of the scenarios and of two lists of anchors, two breakers | `classify`, `extract_preferences`, `eager_init` and its lazy twin | limiter, embedding model, Groq; the search page asks it first |
| Rate limiter `app/services/rate_limiter.py` | a token bucket per key | `check_rate_limit` | `require_api_key`, the two preference endpoints |
| API keys `app/api/auth.py` | the `api_keys` table | `require_api_key`; issue, revoke, change a limit | limiter, writer pool |
| Database pools `app/api/dependencies.py` | a writer and, perhaps, a reader pool, a lock for each | `get_db`, `get_reader_db`, `close_db` | every route, the sweeper, re-embeds |
| Lifespan `app/main.py` | where start-up or shutdown is, the sweeper's task | `lifespan` before and after its yield | pools, sweeper, embeddings; uvicorn, which calls it |
| Upsert `app/ingestion/upsert.py` | the `perfumes` table | `upsert_perfume` | ingestion, the sweeper |
| Ingestion `seed_data.py`, `app/ingestion/validators.py` | the rows in memory, how far its loop has got | load, merge, cut, seed; run again | `upsert_perfume` |
| Embedding sweeper `app/services/embedding_sweeper.py` | embeddings and their time stamps | text sweep, image sweep, stop | upserts, `POST /admin/re-embed`, the trigger of migration 0008 |
| Search and dupe handlers `app/api/routes_search.py`, `routes_dupe.py` | none of their own | reference, price ceiling, candidates, caps, LLM, page | candidate retrieval, decision engine, LLM |
| Candidate retrieval `app/services/db_repository.py` | the `perfumes` table, read only | `find_reference_perfume`, `_fetch_candidates` | handlers, decision engine |
| Decision engine `app/services/decision_engine.py` | none | `rank_and_explain`, `apply_price_order`, `_cap_by_key` | handlers, retrieval |
| Search page `frontend/src/app/search/page.tsx` | chat on the screen, history, panel, requests in flight | send, show more, new, open, delete, reload | API, localStorage |
| Profiles, embedding model, HNSW tuner, A/B testing, image search, middleware, metrics | mostly none | see the list in `PROJECT.json` | |

What is hard about them, and what would make them correct:

* *Breaker.* Calls admitted in one state end in another. Correct: one trial at a
  time, trials a full window apart, an outage noticed, and recovery always
  possible.
* *Limiter and keys.* Refilling is lazy; the key row is read before an await and
  decided upon after it. Correct: no window with more than capacity plus inflow,
  revocation is final, only admitted requests pay.
* *Preferences.* Tables are filled in place, an await per entry, and read by
  everybody; Groq may answer anything; nothing catches an open breaker. Correct: no
  query meets a table that is being filled, none fails because Groq does, and what
  the user said is never overruled.
* *Pools.* A search holds a reader connection while it waits for a writer
  connection. Correct: no gridlock, no leak, everybody is served.
* *Lifespan.* Pools are created by whoever comes first, perhaps by several at
  once, and closed while tasks that nobody awaits may still want one. Correct: one
  pool each, open as long as it is used, closed in the end, and an end there is.
* *Upsert.* Two SELECTs and a write, each its own transaction. Correct: data of a
  higher-priority source is never lost and no second row of a key appears.
* *Ingestion.* The sources do not come in the order of their priorities, priorities
  are compared twice (in memory, in the upsert), rows are skipped, statements fail,
  a row without a name kills the script, which is then run again. Correct: from the
  data sets to the table the trusted source wins, and a second run is harmless.
* *Sweeper.* Reads a batch, and writes the rows long after, next to two other
  writers and a trigger that makes rows stale. Correct: whatever is marked up to
  date is, and everything gets there.
* *From the request to the ranking.* Signals come from fields, from the text or
  are inferred; four lookups of decreasing strength; three sources of the price
  ceiling; scores that are capped, boosted and cut. Correct: the perfume that was
  named is the reference, no result is over the ceiling, the order is that of the
  scores and not of what is shown of them, and a card does not contradict itself.
* *Page of results.* Four runs of a loop that relaxes a cap, around an LLM that
  may answer anything. Correct: full, diverse, ordered pages and a loop that ends.
* *Search page.* Answers arrive after the user has moved on; the history exists
  three times (storage, panel, screen). Correct: nothing mixed up or lost, and a
  dialog that neither repeats nor skips a question.

## 2. The modules

| Module | Models | How |
|---|---|---|
| `CircuitBreaker` | `circuit_breaker.py` and its callers | The three sections under the lock are one step each (`Acquire`; `RecordSuccess`, `RecordFailure` in `Answer`, `RemoteError`). A `Tick` is time; timers saturate at the only value they are compared with, so nothing is bounded. `RaisesOnError` says whether the wrapped function lets its errors out. |
| `Breaker` | what a circuit breaker is to its callers | No clock: an open breaker lets a trial through whenever it likes. `CircuitBreaker` implements it (`ImplementsBreaker`), `Preferences` has two of them. |
| `RateLimiter` | `rate_limiter.py` | `Check` = `check_rate_limit`, one step as it has no await but uncontended locks. Tokens are integers: a token is `Minute` units and a tick adds `capacity` units, so that no fraction is lost. `winAge`, `winGrants` observe a window that may start at any time. |
| `ApiAccess` | `auth.py` over `RateLimiter` (`INSTANCE`) | `Arrive`, `Lookup` (the awaited SELECT), then `Reject` or `RateLimit` without an await; the operator's `Revoke` and `SetRate` in between. |
| `DbPool` | `dependencies.py` and the order of the routes' dependencies | `Take` one connection per dependency, `Finish`, `Release` one at a time in the order of the exit stack. `Split` = is `DATABASE_READER_URL` set. |
| `Lifespan` | `lifespan()`, the creation and closing of the pools, over `DbPool` (extends it) | `Enter`, `Create`, `CreateFails` are the two looks at a pool's variable and what is between them, under the lock; `Acquire`, `HandlerEnds`, `GiveBack` are steps of `DbPool`. The sweeper is a user of the writer pool that `lifespan()` cancels and awaits, `Background` are the `_reembed` tasks nobody awaits. uvicorn (drains before the code after the yield runs) and asyncpg are external: `close()` waits for the connections that are out (`awaited`), not for tasks queued for one, and an `acquire()` may raise (`AcquireFails`). |
| `Preferences` | `routes_classify.py`, `preference_extractor.py`, `off_topic_classifier.py`, and the scenario table of `intent_detector.py`, over `RateLimiter` (extends it) and two `Breaker`s (`INSTANCE`) | One step from await to await: `Accept` (limit, regexes, keywords), one step per embedding for start-up and lazy filling alike, `Judge`, the calls of Groq. What a text says is any set of fields. |
| `Upsert` | `upsert.py` under `seed_local` | One action per SQL statement; a row is reduced to its priority, a normalized key to the set of names that share it. |
| `Ingest` | `seed_data.py` over `Upsert` (extends it) | `Load`, `TakeRow` per row of the merge, `Seed`; then the loop of `seed_local`, whose `Begin`, `LookUpKey`, `Overwrite`, `Add`, `CountError` are the steps of `Upsert` with three more columns: `url` stands for the optional values (COALESCE), `notes` for the lists (replaced), `price` for the stored price, observed or an estimate drawn by this run or an earlier one (COALESCE, and never NULL). What each loader can return is an assumption on `Rows`. |
| `EmbeddingSweeper` | `embedding_sweeper.py`, `trigger_reembed`, the upsert's effect on embeddings, the trigger | Texts, images and embeddings are version numbers. `fresh` is `last_embedded_at >= updated_at`. SELECTs, embeddings, fetches and UPDATEs fail now and then; the images of `broken` always. Edits come at any time; `overtaken` remembers the rows whose last edit came while somebody was embedding the text before. `LoggerTakesFields`, `VectorTakesLists` name what the sweeper takes for granted. |
| `CapByKey` | `_cap_by_key` | The two nested loops, one result per step. |
| `Ranking` | the scores and cards of `decision_engine.py` | Functions of a perfume and the signals of a request: fits in percent, scores in tenths of a point as the code rounds them. A note stands for its descriptive variants, so that a whole-word match is membership. Of the explanation only what it claims is left (`Remark`). |
| `ReferenceLookup` | `find_reference_perfume` | One action per SQL query. How a query resembles a row is data; rows that tie come in any order. |
| `Request` | the first half of both handlers, `_fetch_candidates`, `rank_and_explain` | Stages; extends the two modules above. The approximate index returns any admissible rows in any order. The stable sort is stated by what it returns: in place n is the result that n - 1 others precede. |
| `SearchPage` | the second half of both handlers | Stages, each a `Call` of `CapByKey`; `Enhance` lets the LLM pick anything it was shown, in any order and more than once. A perfume is its rank, a brand and an accord. |
| `ChatPage` | `search/page.tsx` | A handler, or what runs when an answer comes in, is one step together with the render and the effect that saves. Messages are reduced to kind, turn, topic and page count. The two awaits of `sendMessage` are one: between them it neither reads nor writes state. |
| `MCSearchPage`, `MCChatPage`, `MCRequest`, `MCIngest` | | Rows of the data sets; finite item sets and pools, question types, symmetry; a catalogue and the requests made of it. |
| `*_proofs` | | Theorems about the module of that name, and about the modules it is built on: `Lifespan_proofs` has those of `DbPool` (and of `EmbeddingSweeper`, its task), `Ingest_proofs` those of `Upsert`, `Preferences_proofs` those of `CircuitBreaker`, `SearchPage_proofs` those of `CapByKey`, `Request_proofs` those of `ReferenceLookup` and `Ranking`. |

`ApiAccess` composes with `RateLimiter` by refinement: with the requests hidden,
it *is* the limiter (theorem `ImplementsLimiter`), so the limiter's bound is one
about admitted requests. `SearchPage` extends `CapByKey`: the loop's invariant is
checked inside whole searches and on its own. `Ingest` implements
`Upsert` with one session (theorem `ImplementsUpsert`). `Lifespan` implements `DbPool`
(theorem `ImplementsDbPool`) and `Preferences` the limiter (`EndpointsImplementLimiter`),
so that what is proved of the parts holds in the wholes. `Request` ends where `SearchPage`
begins: its ranked page is one of the pools in rank order that `SearchPage` takes.

Names that begin with an action's name and say what is different (`EnterWithoutLook`
next to `Enter`) are variants with a plausible mistake in them. No specification
uses them; they are there to show, run by run, that each property notices its
mistake.

## 3. The runs

| Run | Bounds | Distinct states | Shows |
|---|---|---|---|
| `breaker` | 3 callers, threshold 2, window 3 ticks, calls of at most 2 | 580 | `ImplementsBreaker`, `HalfOpenIsOneTrial`, `OutageOpensBreaker`, `ProbesAreSpaced`, `KeepsProbing`, `RecoversWithService` |
| `preferences` | start-up with 2 scenarios, then requests to both endpoints for ever, 2 a minute, 2 ticks a minute, 3 fields, breakers that trip after 2 failures | 2 289 600 | `BurstBound`, `GroqFailsNoQuery`, `LocalKept`, `TablesWhole` |
| `access` | 2 requests in flight, a publishable and a secret key, 2 addresses, limit 1 | 599 524 | `RevocationHolds`, `OnlyAdmittedPay` |
| `lifespan` | 2 searches, 1 other request, 2 re-embeds and the sweeper on 1 + 1 connections, from boot to exit | 20 164 | `LifeInv`, `OnePool`, `PoolOutlivesUsers`, `ClosedAtExit`, `EveryRequestServed`, `ShutdownEnds` |
| `pool_single_node` | 2 searches, 1 other request, 2 connections | | violates `NoGridlock` |
| `ingest` | 4 of 8 rows from 6 sources, 3 names of one key and 1 of its own, 81 old tables, 2 runs | 1 289 947 | `HighestWins`, `BatchWins`, `RerunSafe`, `NoNewTwin` |
| `sweeper` | 3 rows, one or two with an image nobody can fetch, batches of 2, up to 2 edits and any re-embeds of one row | 100 463 | `FreshIsCurrent`, `TextCatchesUp`, `ImagesCatchUp` |
| `sweeper_shipped` | 2 rows, as configured | | violates `TextCatchesUp` |
| `request` | 497 requests over the catalogues of up to 3 of 10 perfumes, pools of 3, pages of 2 | 1 148 043 | `LookupIsRight`, `CeilingKept`, `PageInOrder`, `NegatedSinks`, `HonestCard` |
| `search` | pools of up to 5, pages of up to 4, caps 2 and 3, LLM pool 3; loop alone on lists of 5 | 304 710 | `FairSpread`, `PageFits`, `FullPage`, `Served` |
| `chat` | 3 chats, history of 2, 3 messages, 2 question types, 2 pages | 2 037 087 | `MessageOnce`, `BackgroundKept`, `DialogInOrder` |
| `chat_stale_panel` | the same with 2 messages | | violates `NewChatKeepsOld` |

`LookupIsRight` is `NamedIsFound` and `AmbiguousIsRefused`, `PageInOrder` is
`RankOrder` and `BetterIsAhead`, `PageFits` is `PageIsDiverse` and `OneSeam`; each
half has a mutant that only it notices.

The inductive invariants (`BreakerInv`, `LimiterInv`, `AccessInv`, `PrefInv`,
`CapInv`, `SearchInv`, `PartsInv` with `DialogInv`, `RequestInv`, `SweeperInv`), which
contain the types, are proved (section 4) and so are not checked again by runs, though
they hold there as well when they are added to the cfg (`RequestInv` with
`CatalogueSize = 2`, to stay within minutes). `LifeInv`, `IngestInv`, `ChatInv` and the
`TypeOK` of `Request`, which say something to a reader by themselves, are checked.

`DbPool` and `RateLimiter` have no passing run of their own: `lifespan` and
`preferences` ask their questions with the code around them, where pools come and
go and where start-up delays the first request.

Why the bounds are enough:

* *Breaker.* Three callers are the least with a trial, a late success and a late
  failure at once; the window is longer than a call, as 30 s is longer than the
  3 s timeout of httpx. There is no other bound.
* *Preferences.* Two scenarios are the least that can be half there; a request to
  each endpoint at a time is a query in the middle of each table while another fills
  it, and failures of Groq that alternate between the breakers; requests are
  repeated without a bound. Three fields: a core one, the scenarios (which have two
  sources) and one that is no reason to ask. Two ticks a minute leave a partial
  refill between a minute's start and end, and only time within a minute matters,
  since a bucket that was idle for one is full.
* *Access.* Two requests are enough for a decision to interleave with another
  request's and with the operator. `Rate = {1}` keeps the state space small, so
  `SetRate` changes nothing in this run; the theorems `BurstsAreBounded` and
  `AdmissionsAreBounded` hold of whatever limits a bucket is asked with.
* *Pools and lifespan.* More searches than connections of each pool. Two searches
  race to create the reader pool, two re-embeds to create a writer pool after the
  close; any creation may fail, the sweeper may be dead from its first line, and the
  shutdown may come at any time.
* *Ingest.* Three names of one key are needed for an ambiguous match plus a third
  name. Four rows hold a chain of three sources of rising or falling priority for
  one key and a row that is skipped or kills the script. A second run is the last
  that can differ from the one before it, estimated prices apart, as `RerunSafe` shows.
* *Sweeper.* A batch is smaller than the table. One broken image leaves room in a
  batch, two fill it, so that the premise of `ImagesCatchUp` is met and not met, and
  is needed. Two edits of one row, next to two sweeps of it and a re-embed, make every
  order of read, edit and write possible, a second edit after one that was overtaken
  included; the other rows compete for the batches.
* *Request.* Three rows are a reference and two candidates, or the three rows of
  one name; a pool of 3 for a page of 2 makes the truncation bite. The requests
  are not all combinations of all signals: one set varies what a query names and
  the ceilings, one the occasions, families and hours, one the names, negated
  terms and people. The catalogue has what the tie breaks and thresholds are
  about: a house under three names, unrelated houses that share a name, rows
  without notes, price or longevity, a pair that differs only in strength.
* *Search.* A cap of 2 is exceeded first by a third result, so five results hold
  an over-represented brand and another; limits on both sides of the caps and of
  the LLM's pool. The first perfume's brand is fixed, the keys being symmetric.
* *Chat.* Three chats push one out of a history of two; three messages are the
  least with two questions or a restart and a question after it.

Fairness:

* *Breaker.* `WF(Tick)`; a call ends (httpx has a timeout); searches keep coming.
  The remote service owes nothing: recovery is only claimed if it stays up.
* *Pools and lifespan.* A handler ends (each await in it has a timeout or is a
  query), releases happen, `create_pool` returns or raises, and a waiter that could be
  served again and again is served: asyncio and asyncpg wake the waiters of a lock or
  pool in their order. `lifespan()` goes on when what it awaits has happened; nothing
  makes a shutdown begin.
* *Sweeper.* The event loop runs its task and the background tasks. Strong
  fairness of `SelectText`, `SelectImage`, `SweepText` and `SweepImage` says that a
  SELECT, or the embedding of a row, that is tried for ever does not fail each time;
  a broken image always does. Which rows a SELECT without ORDER BY returns is not
  fair to anybody.
* *Search.* A handler runs on (the LLM call has a timeout).
* The other specifications make no liveness claim.

Deadlock is checked everywhere but in `pool_single_node` (where the gridlock is
the point), `lifespan` (which ends), `search`, `request` and `ingest` (a page that is done, or a script that
has run twice, has no successor).

## 4. The proofs

All for any value of the constants that satisfies the named assumptions.

| Theorem | Says | Argument |
|---|---|---|
| `BreakerInvariant`, `Implements`, `OneTrial`, `OutageNoticed`, `SpacedProbes` | `BreakerInv`, `ImplementsBreaker`, `HalfOpenIsOneTrial`, `OutageOpensBreaker`, `ProbesAreSpaced` | No call has started since the breaker opened (`OpenAdmitsNone`), and every call in flight is at least as old as the last start (`InFlightSinceStart`); with calls shorter than the window (`CallsAreShort`) none is left when a trial starts. `HalfOpenIsOneTrial` is not inductive without these two. The refinement is a simulation step by step. |
| `LimiterInvariant`, `BurstsAreBounded` | `LimiterInv`, `BurstBound` | `Conservation`: what was granted in the window plus what is left now is at most a full bucket plus the inflow. `BurstBound` alone says nothing about what is left. |
| `EndpointsImplementLimiter`, `QueriesAreBounded` | `Preferences` refines the limiter; `BurstBound` for queries | Only `Accept` touches a bucket, by `Check`. |
| `PreferencesInvariant`, `GroqIsHarmless`, `LocalIsKept`, `TablesAreWhole` | `PrefInv`, `GroqFailsNoQuery`, `LocalKept`, `TablesWhole` | Both breakers are as new in every state (`BreakersFresh`), so the branch that fails a query is never taken; how far the start-up has come decides what is in the tables (`BootFirst`), and no request has begun before its end; who asks Groq has an open core field and is on topic (`Asking`). None of the three is inductive alone. |
| `ImplementsLimiter`, `AdmissionsAreBounded`, `AccessInvariant`, `RevocationIsFinal`, `ChargesAreAdmissions` | refinement of the limiter; its bound for admissions; `AccessInv`; `RevocationHolds`; `OnlyAdmittedPay` | Step simulation: `RateLimit` is `Check`, `Tick` and `Observe` themselves, everything else stutters. Revocation needs that a row read by a late request says so. That only an admission lowers a bucket is the limiter's own lemma (`OnlyGrantsLower`), used through the refinement. |
| `PoolInvariant`, `NothingLeaks`, `SplitPoolsProgress`, `BelowLimitProgress` | `PoolInv`, `NoLeak`, `NoGridlock` with two pools, and with one pool and fewer searches than connections | Nobody waits while it holds a connection it got from `get_db`, so the owners of writer connections run; below the limit, counting owners. |
| `ImplementsDbPool`, `LifespanInvariant`, `PoolsAreCreatedOnce`, `PoolsOutliveUsers`, `PoolsAreClosed` | the lifespan is a behaviour of `DbPool`; `OnePool`, `PoolOutlivesUsers`, `ClosedAtExit` | Only the holder of a lock creates, and the variable is still empty when it does (`Locks`); each phase of the shutdown rules out some users (`ByPhase`): the requests are over before the sweeper is cancelled, and the sweeper before `close_db` begins, so nothing that `lifespan()` waits for uses a pool that is closed, although `close()` itself waits for connections only and re-embeds still queue for them. |
| `OneSessionInv`, `PriorityIsMonotone`, `HigherPriorityWins`, `TwinsAreOld` | `UpsertInv`, `PriorityNeverDrops`, `HighestWins`, `NoNewTwin` for one session | What a session read still stands when it writes (`ReadStands`). |
| `IngestInvariant`, `ImplementsUpsert`, `ScriptHighestWins`, `ScriptMakesNoTwin`, `LoadedRowsAreAnswered` | `IngestInv`; every run of the script is a behaviour of one session of `Upsert`, so its properties hold of the script; `BatchWins` | The job has one row per key, at least as trusted as each row merged into it (`JobAnswersBatch`), and each row before the current one is skipped or in `done` (`DealtWith`); `HighestWins` does the rest. |
| `RerunIsSafe` | `RerunSafe`, for finitely many names | After a clean first run each row of the table has the data of its owner, the last row of the job that found it and has its priority (`FirstRun`). The second run finds the same rows, since priorities and names stay, inserts nothing, and writes a row only for an owner's data, with a price that is an estimate where it was one (`Origin`): after a merge a row has one owner at most, so every write repeats what is there; with `--da-only` lists may change on the way and are back at the end (`SecondRun`). |
| `SweeperInvariant`, `FreshRowsAreCurrent` | `SweeperInv`, `FreshIsCurrent` | Whoever is going to write the embedding of a row that no edit has overtaken has read its current text (`ReadIsCurrent`); an edit while nobody is at work on the row makes it one of these again. |
| `CapInvariant`, `SpreadIsFair` | `CapInv`, `FairSpread` | The cap is relaxed only when each result left out is of a key that has reached it (`PassedOver`). |
| `SearchInvariant`, `PageIsFull`, `PageFitsTogether`, `SearchSpreadsFairly` | `SearchInv`, `FullPage`, `PageFits`, and `FairSpread` of each call in a search | The handler is a chain of calls of the loop. A call without backfill keeps the order of the ranks (`Sifted`), so the wide pool has no brand over its cap; every later call with backfill is given perfumes of the wide pool, none of which reaches the cap, and so takes everything from the front (`FromFront`): the page is what it was given, cut at the limit. `StrictCaps` and `PageCaps` say at each stage what the list in hand is; the remainder has none of the page's perfumes and enough of them to fill it. |
| `PartsInvariant`, `ChatInvariant`, `MessageIsOnce`, `DialogIsInOrder`, `BackgroundIsKept` | `PartsInv` (which `DialogInv` is equivalent to), `ChatInv`, `MessageOnce`, `DialogInOrder`, `BackgroundKept` | History, panel and screen are three copies that overlap. Lemmas say what each list operation does to ids and entries (update, removal, the trim of a full history), and that all copies together stay consistent when one conversation grows by a message or is copied (`StoreInv`). The order of the dialog needs two more facts: no message is of a turn to come, and the turn awaiting its answer has none (`TurnsCounted`); where the message that awaits its answer is the last one, nothing that decides on the answer has changed since it was sent (`SnapshotHolds`). |
| `RequestInvariant`, `RightReference` | `RequestInv`, `LookupIsRight` | A tier is tried only if those before it found nothing (`LookupInv`): so what is named is not passed over, and an ambiguous name comes to its end without a reference. |
| `CeilingIsKept` | `CeilingKept` | While the pool is there the ceiling is the one of the request (`Affordable`), and every row of the pool was admitted under it (`PoolAdmissible`); the page is made of the pool. |
| `PageIsInOrder`, `RequestTypes` | `PageInOrder`, `TypeOK` | `Precedes` is a strict total order of the positions of the pool, so the sets `Ahead` are strictly nested, their cardinalities are 0, 1, ..., and `Place` is a permutation (the sort as a counting argument, with the cardinality theorems of the library). Each fit is a percentage, so the score is a mean that lies within bounds and grows with similarity and longevity: integer division is monotone. |
| `NegatedPerfumesSink`, `CardsAreHonest` | `NegatedSinks`, `HonestCard` | Properties of one card and one pair of cards: from the bounds of the score and its penalty, and by cases of the remarks, given that the page is `Cards`. A remark that all is met is denied by a shortfall of hours, projection or occasions; families, excluded notes, gender and age are none to the code, nor to the property. |

Assumptions on constants are the `ASSUME`s of the modules; `CallsAreShort`,
`RaisesOnError`, `Split`, `OneSession` and, for `RerunIsSafe`, that the
names are finitely many, are hypotheses of the theorems that need them.

Only model-checked: every liveness property (`KeepsProbing`,
`RecoversWithService`, `EveryRequestServed`, `ShutdownEnds`, `TextCatchesUp`, `ImagesCatchUp`,
`Served`), because the prover has neither fairness nor `ENABLED` within its
reach. Every other property of a passing run is stated by a theorem. No module uses
a RECURSIVE operator.

Trying to prove them changed four definitions. `AmbiguousIsRefused` took one house with
a name of three letters for two unrelated ones, in which case it is false; `Unrelated`
now asks for two houses. The similarity of a row may be negative (a cosine), and with it
the score: `TypeOK` allows for it, and a row of `MCRequest` has one. The sort was an
operator of the community modules that no prover can look into; it is now stated by its
result. And what a row is (`PerfumeRow`) and what a request may hold, which the proofs
of the scores need, are assumptions that TLC evaluates (`RequestAssumption`).

## 5. Where the code disagrees with what it says

Shown by a run:

* `pool_single_node`: with one pool (the shipped docker-compose), as many
  concurrent searches as there are connections each hold one and wait for a
  second one, for ever (`app/api/dependencies.py:47`).
* `sweeper_shipped`: the first log line of the sweeper raises and ends its task
  (`app/services/embedding_sweeper.py:31`).
* `chat_stale_panel`: deleting a chat saves the list the panel was opened with
  (`page.tsx:502`).

Other disagreements the models reproduce, or that were met while reading:

* `_record_success` closes the breaker from any state: a call let through before
  it opened closes it without a window or trial (`circuit_breaker.py:57`; the
  module's docstring, line 8, says calls are rejected until the timeout elapses).
* The functions behind two of the three breakers catch their own errors
  (`preference_extractor.py:80`, `off_topic_classifier.py:206`): with
  `RaisesOnError = FALSE`, `OutageOpensBreaker` fails.
* Nor do `_extract_llm` and `_classify_llm` owe to their breakers that an outage is
  cheap: each query pays for its timeouts. `GroqFailsNoQuery` holds for that reason
  only; if `_classify_llm` let its errors out, queries would fail with the
  `CircuitBreakerOpenError` that `classify` does not catch (`off_topic_classifier.py:221`).
  One error could get out, and `Preferences` leaves it out: that of closing the HTTP
  client in the `finally` of `_classify_llm` (`:210`), outside of its `try`.
* What Groq extracts is merged outside of the `try`: a reply that is no object, or
  whose "scenarios" cannot be iterated, fails the request
  (`preference_extractor.py:123`, `ExtractorMisleads`). `enhance_with_llm` does the same
  with `{"results": null}` or an id that is a list (`llm_enrichment.py:162`), though
  its docstring (`:7`) promises that a failure never fails the search.
* A query that cannot be embedded fails the request (`off_topic_classifier.py:161`,
  `JudgeFails`), while the tables it is compared with may fail to be embedded.
* An embedding that fails in the middle of the scenario table leaves the part before
  it there for ever, since only an empty table is filled again
  (`intent_detector.py:31`); and while a request fills it, others are compared with
  what it has so far. `TablesWhole` therefore speaks of a start-up without failure.
* A re-embed that outlives the shutdown finds no pool and opens one that nobody closes
  (`routes_events.py:155`), although `close_db` closes "both writer and reader pools
  at shutdown" (`dependencies.py:87`); `ClosedAtExit` allows for it. One that is queued
  for a connection when `close_db` begins has its pool closed under it, or is given a
  connection that nobody will close: `PoolOutlivesUsers` leaves re-embeds out, of which
  it would be false.
* A call that is cancelled is neither a success nor a failure to the breaker, since
  `CancelledError` is no `Exception` (`circuit_breaker.py:84`): were a trial cancelled,
  HALF_OPEN would never end. Nothing in the repository cancels or times out a task that
  is calling, so `CircuitBreaker` has no such ending.
* `await sweep_task` raises what ended the sweeper, and only `CancelledError` is caught:
  after `sweeper_shipped` neither the pools nor the HTTP clients are closed
  (`main.py:64`, `ShutdownRaises`).
* A publishable key from a foreign origin gets 401 (`auth.py:74`), not the 403 of
  the docstring (`auth.py:52`).
* A bucket keeps the limit it was created with (`rate_limiter.py:66`) when a
  key's `rate_limit_per_minute` changes; the response header shows the new one.
* `reset_seconds` is rounded down (`rate_limiter.py:47`).
* With a working logger the sweeper would still fail to write: no codec turns its
  list into a vector (`embedding_sweeper.py:98`; `VectorTakesLists = FALSE`).
* The priority of a record is compared in Python with what an earlier statement
  read; another session may have written in between (`upsert.py:68`). With two
  `Session`s `HighestWins` and `PriorityNeverDrops` of `Upsert` fail, and so does
  `NoNewTwin`, as ON CONFLICT guards the exact name only (`upsert.py:110`).
* The merge drops a row that comes after a more trusted one with all its lists and
  values (`seed_data.py:481`); its comment (`:488`) says that a lower-priority source's
  tier tags are not discarded. `india_mainstream`, the most trusted source, is loaded
  third, so it takes nothing from the three after it.
* `real_price_inr` is not among the values the merge takes over (`seed_data.py:483`):
  the observed price of an `indian_brands` row is lost to any later source. An estimate
  is random and never NULL (`:655`), so COALESCE (`upsert.py:81`) keeps nothing and each
  run overwrites the stored price: `RerunSafe` says that a rerun changes estimates, and
  nothing else, and puts none in the place of an observed price.
* The docstring of `load_all_datasets` (`seed_data.py:417`) ranks `indian_brands` above
  `da_fragrance`; `SOURCE_PRIORITY` has them the other way round (`seed_data.py:27`, 0 and 1),
  and that is what the merge and the upsert go by.
* A row without a brand or perfume, which two loaders let through, raises outside of
  the loop's `try` (`seed_data.py:659`) and ends the run; the issues `validate_record`
  has for it (`validators.py:25`) are never seen.
* A blank entry goes where the merge puts it: it gets the more trusted row it was
  merged into skipped (`Spoilt`).
* `--da-only` loads three sources and does not merge, "no dedup needed for single
  source" (`seed_data.py:445`).
* An upsert between a sweep's SELECT and its UPDATE leaves the old text's embedding
  marked up to date (`embedding_sweeper.py:92`), for as long as nobody touches the row;
  the background re-embed does the same (`routes_events.py:151`). `FreshIsCurrent` and
  `TextCatchesUp` set such rows apart (`overtaken`) and are false without that.
* As many unfetchable images as a batch holds can fill every batch
  (`embedding_sweeper.py:120`; `ImagesCatchUp` is false without its premise); a replaced
  image keeps the embedding of the old one (`embedding_sweeper.py:118`).
* The final slice promises a response "never shorter than requested purely because of a
  diversity constraint" (`documentation/DECISION_ENGINE.md:146`), with "real backfill
  material" for it (`routes_search.py:122`). But the wide pool has gone through the
  strict brand cap by then, and what that dropped is not there to fill the page with:
  `FullPage` is measured against what is left after that cap.
* An LLM that names a perfume several times gets it on the page several times,
  past the cap of its brand (`llm_enrichment.py:164`; `PageIsDiverse` without its
  premise fails).
* With a budget the remainder is appended after the last price sort
  (`routes_search.py:214`): price order holds on both sides of one seam
  (`OneSeam`).
* The explanation says that a perfume "comfortably covers the 10+ hours" of a
  wedding when 9 are estimated (`decision_engine.py:721`, a fit of 0.9 is enough);
  with 8 required and 7 estimated the breakdown says met (0.85) and the
  explanation "a bit short".
* `gender_matched` is also true without a gender asked for, if the perfume is
  unisex or untagged (`decision_engine.py:999`): its card may say "Tailored to the
  gender you specified". `HonestCard` leaves this case out.
* A perfume of no preferred family, with an excluded note, or of the wrong gender or age
  may still get a remark that something is met, since `_build_highlights` takes none of
  these for a shortfall, although its docstring puts "honesty about what's NOT fully
  met" first (`decision_engine.py:697`). `HonestCard` covers hours, projection and occasions.
* Met while reading, and not modelled: the fallback of `get_ab_test` is never used, and
  without a client the id is "unknown" whatever the request id, because `or` binds
  tighter than the conditional (`dependencies.py:103`); `SET LOCAL` outside of a
  transaction has no effect, so that the HNSW calibration measures one setting
  (`main.py:54`); a rating out of range, or a re-embed that is logged, raises in the
  standard logger, which takes no fields, so that the route answers 500 instead of the
  202 of `routes_events.py:5`; `main.py:112` says that every request passes the
  logging middleware, which redirects to HTTPS and preflights do not; the average
  score of a profile counts missing scores as 0 (`user_profile.py`); weights leave
  their bounds when they are renormalized (`optimize_weights.py`).
* Hours inferred from a scenario (8 for the office) count as the explicit wish for
  long wear that `_bridge_fit` speaks of (`decision_engine.py:970`).
* A scenario that is not in `SCENARIO_MAP` is not refused: it activates the weight
  of a fit of 1.0 (`decision_engine.py:965`), which `hybrid_score` says only
  signalled preferences do; the docstring's weight of gender, 0.05, is 0.08.
* A name that is ambiguous, or whose rows have no notes, may still be resolved to
  a row of another name that merely resembles it (`db_repository.py:490`).
* `exclude_family_brand` compares brands with that of the reference only
  (`db_repository.py:264`): "Diorfor" is no family of "Christian Dior" there, and is
  one in `_is_same_brand_group`.
* An answer that comes in after the user has switched chats is appended to the
  chat on the screen, not to the one it was asked in (`page.tsx:628`); and a
  `loadingMore` that was saved is never reset (`page.tsx:674`).

## 6. Not modelled, and the plan

Scenario tables, intent regular expressions, templates and prompts are data: the
modules take whatever they may produce. Scores are exact to a tenth of a point,
fits to a percent; binary floating point is left out. Localstorage that is full or shared
between tabs, and React's double effects in development, are left out of
`ChatPage`. Time is discrete, and updates within the same tick or transaction
timestamp are ordered as the code's comparisons order them.

Parts that are not modelled, and why:

* *Profiles, events, A/B testing, metrics, failure injection, configuration.* Single
  statements, sums and hashes, without state that a second actor could disturb.
* *HNSW tuner.* A loop over measured recall before the first request; nothing that is
  modelled depends on the number it finds.
* *Intent regexes and scenario keywords.* Tables. What they may find is an input of
  `Request` and of `Preferences`.
* *Middleware.* Each wraps one request and keeps nothing between requests; the order
  they are in is a finding above.
* *Embedding model, image model, pgvector's index.* Libraries: a call that takes a while
  and may fail, rows in any order.
* *`optimize_weights.py`.* An offline numerical search. *Other pages* render what one
  request returned; `search-fsm.ts` and `queries.ts` are not used.

What could come next: that the ranked page of `Request` is a pool `SearchPage` may start
from, as a theorem; the sweeper inside of `Lifespan`, rather than next to it; a run of `access` with limits that change, which exceeds
five minutes with two requests and both kinds of keys.
