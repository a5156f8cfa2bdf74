-------------------------- MODULE EmbeddingSweeper --------------------------
(***************************************************************************)
(* The background sweep of backend/app/services/embedding_sweeper.py, next *)
(* to the other writers of the perfumes table: the ingestion upsert and    *)
(* the background re-embed of POST /admin/re-embed.                        *)
(*                                                                         *)
(* Texts, images and embeddings are abstracted to version numbers: an      *)
(* embedding is the version it was computed from.  A sweep reads a batch   *)
(* in one SELECT and writes its rows one UPDATE at a time, long after.     *)
(* Every UPDATE fires the trigger of migration 0008, updated_at = NOW().   *)
(* Nothing keeps an edit of a row from coming in between: `overtaken', a   *)
(* history variable, remembers the rows whose last edit did.               *)
(***************************************************************************)
EXTENDS Integers, FiniteSets

CONSTANTS
    Row,               \* rows of perfumes
    BatchSize,         \* _BATCH_SIZE
    BrokenSets,        \* which rows may be the ones whose image_url cannot be fetched or decoded
    Busy,              \* bound: the rows that ingestion and re-embeds are about
    MaxEdits,          \* bound: how often ingestion rewrites one row
    LoggerTakesFields, \* does logger.info(event, field=...) work?
    VectorTakesLists   \* does the driver encode a list as a vector parameter?

ASSUME SweeperAssumption ==
    /\ BatchSize \in Nat \ {0}
    /\ BrokenSets \subseteq SUBSET Row
    /\ Busy \subseteq Row
    /\ MaxEdits \in Nat
    /\ {LoggerTakesFields, VectorTakesLists} \subseteq BOOLEAN

None == -1
Version == 0..MaxEdits

VARIABLES
    text,     \* version of brand, perfume, main_accords, notes
    embedded, \* the version the embedding column was computed from
    fresh,    \* last_embedded_at is set and not before updated_at
    image,    \* version of image_url
    imageEmb, \* the version image_embedding was computed from
    step,     \* where start_sweeper() is
    batch,    \* the rows of the current SELECT that are still to do
    read,     \* what that SELECT returned for each of them
    pending,  \* the text a background re-embed of the row is working on (bound: one a row)
    broken,   \* the rows whose image cannot be fetched or decoded
    overtaken \* history: the rows last edited while an embedding of them was under way

table == <<text, embedded, fresh, image, imageEmb>>
ghosts == <<broken, overtaken>>
sweeperVars == <<text, embedded, fresh, image, imageEmb, step, batch, read, pending, broken, overtaken>>

SweeperTypeOK ==
    /\ text \in [Row -> Version]
    /\ embedded \in [Row -> Version \cup {None}]
    /\ fresh \in [Row -> BOOLEAN]
    /\ image \in [Row -> Version]
    /\ imageEmb \in [Row -> Version \cup {None}]
    /\ step \in {"start", "selectText", "text", "selectImage", "image", "sleep", "dead", "stopped"}
    /\ batch \subseteq Row
    /\ read \in [Row -> Version]
    /\ pending \in [Row -> Version \cup {None}]
    /\ broken \subseteq Row
    /\ overtaken \subseteq Row

\* A row may have been seeded with an embedding; last_embedded_at is not set.
SweeperInit ==
    /\ text = [r \in Row |-> 0]
    /\ embedded \in [Row -> {0, None}]
    /\ fresh = [r \in Row |-> FALSE]
    /\ image = [r \in Row |-> 0]
    /\ imageEmb = [r \in Row |-> None]
    /\ step = "start"
    /\ batch = {}
    /\ read = [r \in Row |-> 0]
    /\ pending = [r \in Row |-> None]
    /\ broken \in BrokenSets
    /\ overtaken = {}

-----------------------------------------------------------------------------
(* The sweeper.                                                            *)

\* start_sweeper() logs its interval outside of any try: if the logger refuses
\* the field, the task ends here.
Start ==
    /\ step = "start"
    /\ step' = IF LoggerTakesFields THEN "selectText" ELSE "dead"
    /\ UNCHANGED <<table, batch, read, pending, ghosts>>

\* LIMIT without ORDER BY: any rows, as many as there are up to the limit.
Batches(eligible) ==
    {b \in SUBSET eligible :
        \/ Cardinality(b) = BatchSize
        \/ Cardinality(b) < BatchSize /\ b = eligible}

Select(from, eligible, version, to, skip) ==
    /\ step = from
    /\ batch' \in Batches(eligible)
    /\ read' = [r \in Row |-> IF r \in batch' THEN version[r] ELSE 0]
    /\ step' = IF batch' = {} THEN skip ELSE to
    /\ UNCHANGED <<table, pending, ghosts>>

TextToDo == {r \in Row : embedded[r] = None \/ ~fresh[r]}

\* Variant: with no text to embed the sweep is over.
SelectTextOnly == Select("selectText", TextToDo, text, "text", "sleep")

\* Rows whose embedding is missing or stale; the images are next, also without any.
SelectText == Select("selectText", TextToDo, text, "text", "selectImage")

SelectImage ==
    Select("selectImage", {r \in Row : imageEmb[r] = None}, image, "image", "sleep")

\* The connection or the SELECT fails, outside of the loop over the rows: the rest
\* of the sweep is abandoned, the images too if it was the texts' turn.
SelectFails ==
    /\ step \in {"selectText", "selectImage"}
    /\ step' = "sleep"
    /\ UNCHANGED <<table, batch, read, pending, ghosts>>

\* The next row of a batch; after the last one the loop ends.
Consume(r, next) ==
    /\ r \in batch
    /\ batch' = batch \ {r}
    /\ read' = [read EXCEPT ![r] = 0]
    /\ step' = IF batch = {r} THEN next ELSE step

\* Variant: only the embedding is written, not last_embedded_at.
StoreTextNoStamp(r, version) ==
    /\ embedded' = [embedded EXCEPT ![r] = version]
    /\ fresh' = [fresh EXCEPT ![r] = FALSE]
    /\ UNCHANGED <<text, image, imageEmb>>

\* UPDATE ... SET embedding = $1::vector, last_embedded_at = NOW(): the trigger
\* sets updated_at to the same time.  Whether the text is still the one that was
\* read is not asked.
StoreText(r, version) ==
    /\ embedded' = [embedded EXCEPT ![r] = version]
    /\ fresh' = [fresh EXCEPT ![r] = TRUE]
    /\ UNCHANGED <<text, image, imageEmb>>

SweepText(r) ==
    /\ step = "text"
    /\ VectorTakesLists
    /\ StoreText(r, read[r])
    /\ Consume(r, "selectImage")
    /\ UNCHANGED <<pending, ghosts>>

\* The embedding or its UPDATE fails, now and then or, with a driver that does
\* not encode lists, always: a warning, and on to the next row.
SweepTextFails(r) ==
    /\ step = "text"
    /\ Consume(r, "selectImage")
    /\ UNCHANGED <<table, pending, ghosts>>

\* UPDATE ... SET image_embedding: the trigger makes the row stale once more.
SweepImage(r) ==
    /\ step = "image"
    /\ r \notin broken /\ VectorTakesLists
    /\ imageEmb' = [imageEmb EXCEPT ![r] = read[r]]
    /\ fresh' = [fresh EXCEPT ![r] = FALSE]
    /\ Consume(r, "sleep")
    /\ UNCHANGED <<text, embedded, image, pending, ghosts>>

\* compute_image_embedding() returned None or raised, or the UPDATE failed: always
\* for a broken image, now and then for another.
SweepImageFails(r) ==
    /\ step = "image"
    /\ Consume(r, "sleep")
    /\ UNCHANGED <<table, pending, ghosts>>

\* The 60 s between two sweeps.
Wake ==
    /\ step = "sleep"
    /\ step' = "selectText"
    /\ UNCHANGED <<table, batch, read, pending, ghosts>>

\* lifespan: stop_sweeper() and sweep_task.cancel(), at whatever await it is.
Stop ==
    /\ step \notin {"dead", "stopped"}
    /\ step' = "stopped"
    /\ batch' = {}
    /\ read' = [r \in Row |-> 0]
    /\ UNCHANGED <<table, pending, ghosts>>

-----------------------------------------------------------------------------
(* The other writers.                                                      *)

\* Somebody has read the text of the row and will write its embedding.
InWork(r) == (step = "text" /\ r \in batch) \/ pending[r] # None

Overtake(r) == overtaken' = IF InWork(r) THEN overtaken \cup {r} ELSE overtaken \ {r}

\* Variant: nothing tells the sweeper that the text of the row has changed.
UpsertNoTrigger(r) ==
    /\ r \in Busy /\ text[r] < MaxEdits
    /\ text' = [text EXCEPT ![r] = text[r] + 1]
    /\ Overtake(r)
    /\ UNCHANGED <<embedded, fresh, image, imageEmb, step, batch, read, pending, broken>>

\* upsert_perfume() rewrites a row: new text with its own embedding, and the
\* image_url the record has, which may be another one.
Upsert(r) ==
    /\ r \in Busy /\ text[r] < MaxEdits
    /\ text' = [text EXCEPT ![r] = text[r] + 1]
    /\ embedded' = [embedded EXCEPT ![r] = text[r] + 1]
    /\ fresh' = [fresh EXCEPT ![r] = FALSE]
    /\ image' \in {image, [image EXCEPT ![r] = text[r] + 1]}
    /\ Overtake(r)
    /\ UNCHANGED <<imageEmb, step, batch, read, pending, broken>>

\* trigger_reembed() reads the row and leaves the rest to a background task.
Reembed(r) ==
    /\ r \in Busy /\ pending[r] = None
    /\ pending' = [pending EXCEPT ![r] = text[r]]
    /\ UNCHANGED <<table, step, batch, read, ghosts>>

\* _reembed() ends: it has written its embedding, or logged what it failed of.
ReembedDone(r) ==
    /\ pending[r] # None
    /\ pending' = [pending EXCEPT ![r] = None]
    /\ (VectorTakesLists /\ StoreText(r, pending[r])) \/ UNCHANGED table
    /\ UNCHANGED <<step, batch, read, ghosts>>

Sweep ==
    \/ Start \/ SelectText \/ SelectImage \/ SelectFails \/ Wake
    \/ \E r \in Row : SweepText(r) \/ SweepTextFails(r) \/ SweepImage(r) \/ SweepImageFails(r)

SweeperNext ==
    \/ Sweep
    \/ Stop
    \/ \E r \in Row : Upsert(r) \/ Reembed(r) \/ ReembedDone(r)

SweeperSpec == SweeperInit /\ [][SweeperNext]_sweeperVars

\* The event loop runs the sweeper's task and the background tasks again and
\* again, and what is tried again and again - a SELECT, an embedding, the UPDATE of
\* a row - does not fail each time.
Fairness ==
    /\ WF_sweeperVars(Sweep)
    /\ SF_sweeperVars(SelectText) /\ SF_sweeperVars(SelectImage)
    /\ \A r \in Row :
          /\ WF_sweeperVars(ReembedDone(r))
          /\ SF_sweeperVars(SweepText(r)) /\ SF_sweeperVars(SweepImage(r))

FairSpec == SweeperSpec /\ Fairness

-----------------------------------------------------------------------------
Stopped == step = "stopped"

Current(r) == embedded[r] = text[r]

\* A row the sweeper takes for up to date has the embedding of its text - or its
\* last edit came while an embedding of the text before was under way, the one race
\* that embedding_sweeper.py and routes_events.py leave open.  Every other order of
\* sweeps, image updates, re-embeds and edits, before, between and after them, marks
\* no wrong embedding as right.
FreshIsCurrent == \A r \in Row : fresh[r] => Current(r) \/ r \in overtaken

\* "missing or stale": unless the sweeper is told to stop, every row ends up marked
\* as up to date and is left alone, whatever fails now and then and although each
\* image update makes its row stale again; and unless its last edit overtook an
\* embedding under way, with the embedding of its text.
TextCatchesUp ==
    <>Stopped \/ \A r \in Row : <>[](fresh[r] /\ (Current(r) \/ r \in overtaken))

\* While fewer images are broken than a batch holds, every other one is embedded in
\* the end.  (A batch's worth of them can fill every batch: image_embedding stays NULL
\* and the SELECT has no ORDER BY.)
ImagesCatchUp ==
    Cardinality(broken) < BatchSize =>
        <>Stopped \/ \A r \in Row : <>(imageEmb[r] # None \/ r \in broken)

\* The inductive invariant of FreshIsCurrent: whoever is going to write the embedding
\* of a row that no edit has overtaken has read its current text.
ReadIsCurrent ==
    \A r \in Row \ overtaken :
        /\ step = "text" /\ r \in batch => read[r] = text[r]
        /\ pending[r] # None => pending[r] = text[r]

SweeperInv == SweeperTypeOK /\ ReadIsCurrent /\ FreshIsCurrent
=============================================================================
