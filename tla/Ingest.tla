------------------------------- MODULE Ingest -------------------------------
(***************************************************************************)
(* backend/seed_data.py: the rows of the data sets are loaded one source   *)
(* after the other, merged by normalized name (not with --da-only), cut    *)
(* (--max), and handed one by one to upsert_perfume (module Upsert).  The  *)
(* script may be run again.                                                *)
(*                                                                         *)
(* Of a row's data three fields are left, one of each kind: url, a value   *)
(* that may be missing; notes, a list, reduced to the sources its entries  *)
(* come from, Blank among them being an entry of white space; and price,   *)
(* reduced to the source that has observed it, or None: the script then    *)
(* makes an estimate up, by random.                                        *)
(***************************************************************************)
EXTENDS Upsert, SequencesExt

CONSTANTS
    Rows,       \* what the data sets may hold, as the loaders return it
    MaxRows,    \* bound on the rows of all data sets together
    Nameless,   \* names whose brand or perfume is empty
    Earlier,    \* the sources of the rows the table may hold at first
    None, Blank

\* The order in which load_all_datasets loads, and the trust in each source.
LoadOrder == [da_fragrance |-> 1, indian_brands |-> 2, india_mainstream |-> 3,
              fra_perfumes |-> 4, fra_cleaned |-> 5, nandini |-> 6]
LocalSource == {"da_fragrance", "indian_brands", "india_mainstream"}

SourcePriority == [india_mainstream |-> 5, nandini |-> 4, fra_cleaned |-> 3,
                   fra_perfumes |-> 2, da_fragrance |-> 1]
PriorityOf(source) ==
    IF source \in DOMAIN SourcePriority THEN SourcePriority[source] ELSE 0

Source == DOMAIN LoadOrder
Row == [name : Name, source : Source, url : {None} \cup Source,
        notes : SUBSET (Source \cup {Blank}), price : {None} \cup Source]

\* What each loader may return.  Two take a line without a name, two read a
\* price, one reads a url, and not all drop blank entries.
HasName(r) == r.name \notin Nameless
DaFragranceRow(r) == r.source = "da_fragrance" /\ r.url = None /\ r.price = None
IndianRow(r) == r.source = "indian_brands" /\ r.url = None /\ Blank \notin r.notes
MainstreamRow(r) == r.source = "india_mainstream" /\ r.url = None /\ HasName(r)
FraPerfumesRow(r) ==
    r.source = "fra_perfumes" /\ r.url = None /\ r.price = None /\ HasName(r)
FraCleanedRow(r) ==
    r.source = "fra_cleaned" /\ r.price = None /\ Blank \notin r.notes /\ HasName(r)
NandiniRow(r) ==
    /\ r.source = "nandini" /\ r.url = None /\ r.price = None
    /\ Blank \notin r.notes /\ HasName(r)

ASSUME IngestAssumption ==
    /\ (\E s \in Session : Session = {s}) /\ Name # {}
    /\ MaxPriority = 5 /\ MaxRows \in Nat
    /\ Rows \subseteq Row /\ Nameless \subseteq Name
    /\ \A r \in Rows : \/ DaFragranceRow(r) \/ IndianRow(r) \/ MainstreamRow(r)
                       \/ FraPerfumesRow(r) \/ FraCleanedRow(r) \/ NandiniRow(r)

VARIABLES
    url, notes, price,   \* the columns of each row, next to Upsert's prio
    run,          \* how often seed_local has been entered
    daOnly,       \* the script's option
    todo,         \* rows that have been read and not been merged yet
    batch,        \* history: the rows that have been merged
    job,          \* what they have been merged to, the rows seed_local is given
    at,           \* the one it is at
    clean,        \* history: nothing has failed in this run
    settled       \* history: the table after a clean first run

table == <<rows, prio, url, notes, price>>
script == <<run, daOnly, todo, batch, job>>
ingestVars == <<vars, url, notes, price, script, at, clean, settled>>

-----------------------------------------------------------------------------
\* What the more trusted row lacks is taken over from the one it replaces, but for
\* the price, which is not among the fields that are.
Combine(old, new) ==
    [new EXCEPT !.url = IF @ = None THEN old.url ELSE @, !.notes = old.notes \cup @]

\* Variant: the row loaded last wins, as in a plain dictionary.
MergeRowLast(kept, row) ==
    IF \A i \in DOMAIN kept : kept[i].name \notin SameKey(row.name)
    THEN Append(kept, row)
    ELSE [i \in DOMAIN kept |->
            IF kept[i].name \in SameKey(row.name) THEN Combine(kept[i], row) ELSE kept[i]]

\* The in-memory merge: a row that is more trusted than the one kept for its key
\* takes that one's place.  A row that is not is dropped with all it says.
MergeRow(kept, row) ==
    IF \A i \in DOMAIN kept : kept[i].name \notin SameKey(row.name)
    THEN Append(kept, row)
    ELSE [i \in DOMAIN kept |->
            IF /\ kept[i].name \in SameKey(row.name)
               /\ PriorityOf(row.source) > PriorityOf(kept[i].source)
            THEN Combine(kept[i], row)
            ELSE kept[i]]

\* Data sets are read in order; --da-only reads the local ones only.
Loadable(only) ==
    {q \in BoundedSeq(Rows, MaxRows) :
        /\ only => \A i \in DOMAIN q : q[i].source \in LocalSource
        /\ \A i, j \in DOMAIN q :
              i < j => LoadOrder[q[i].source] <= LoadOrder[q[j].source]}

\* The quality gate.
HasIssues(row) == Blank \in row.notes

\* What estimate_inr_price draws, and the estimates a table may hold.
Drawn == IF run = 1 THEN "drawn in run 1" ELSE "drawn in run 2"
Estimates == {"drawn before", "drawn in run 1", "drawn in run 2"}

\* price = row.get("real_price_inr") or estimate_inr_price(row["brand"])
PriceOf(row) == IF row.price = None THEN Drawn ELSE row.price

-----------------------------------------------------------------------------
IngestInit ==
    \E origin \in [Name \ Nameless -> Earlier \cup {None}] :
        LET stored == {n \in Name \ Nameless : origin[n] # None} IN
        /\ rows = stored
        /\ prio = [n \in Name |-> IF n \in stored THEN PriorityOf(origin[n]) ELSE 0]
        /\ url = [n \in Name |-> IF n \in stored /\ origin[n] = "fra_cleaned"
                                 THEN origin[n] ELSE None]
        /\ notes = [n \in Name |-> IF n \in stored THEN {origin[n]} ELSE {}]
        /\ price = [n \in Name |-> IF n \in stored THEN "drawn before" ELSE None]
        /\ rec = [s \in Session |-> [name |-> CHOOSE n \in Name : TRUE, prio |-> 0]]
        /\ target = [s \in Session |-> rec[s].name]
        /\ pc = [s \in Session |-> "idle"]
        /\ seen = [s \in Session |-> 0]
        /\ done = {}
        /\ run = 0 /\ daOnly = FALSE /\ todo = <<>> /\ batch = {} /\ job = <<>>
        /\ at = 1 /\ clean = TRUE /\ settled = <<>>

\* load_all_datasets reads the data sets, ...
Load ==
    /\ run = 0 /\ todo = <<>> /\ job = <<>>
    /\ \E only \in BOOLEAN : \E q \in Loadable(only) : daOnly' = only /\ todo' = q
    /\ UNCHANGED <<vars, url, notes, price, run, batch, job, at, clean, settled>>

\* ... goes through their rows, ...
TakeRow ==
    /\ todo # <<>>
    /\ job' = IF daOnly THEN Append(job, Head(todo)) ELSE MergeRow(job, Head(todo))
    /\ batch' = batch \cup {Head(todo)}
    /\ todo' = Tail(todo)
    /\ UNCHANGED <<vars, url, notes, price, run, daOnly, at, clean, settled>>

\* ... and returns the first k of them, if --max is k, to seed_local.
Seed ==
    /\ run = 0 /\ todo = <<>>
    /\ \E k \in 1..Len(job) :
          /\ job' = SubSeq(job, 1, k)
          /\ batch' = {r \in batch : IF daOnly THEN r \in ToSet(job')
                                     ELSE \E i \in 1..k : job[i].name \in SameKey(r.name)}
    /\ run' = 1
    /\ at' = 1
    /\ UNCHANGED <<vars, url, notes, price, daOnly, todo, clean, settled>>

\* The script is started again, on the same data sets with the same options.
RunAgain(s) ==
    /\ run = 1 /\ at > Len(job) /\ pc[s] = "idle"
    /\ run' = 2
    /\ at' = 1
    /\ settled' = IF clean THEN table ELSE <<>>
    /\ clean' = TRUE
    /\ UNCHANGED <<vars, url, notes, price, daOnly, todo, batch, job>>

-----------------------------------------------------------------------------
\* The loop of seed_local.
AtRow(s) == pc[s] = "idle" /\ run > 0 /\ at <= Len(job)
NextRow == at' = at + 1

\* PerfumeRecord(...) raises, outside of the loop's try: the script dies.
Raise(s) ==
    /\ AtRow(s) /\ job[at].name \in Nameless
    /\ at' = Len(job) + 1 /\ clean' = FALSE
    /\ UNCHANGED <<vars, url, notes, price, script, settled>>

\* validate_record finds issues: the record is skipped.
SkipInvalid(s) ==
    /\ AtRow(s) /\ job[at].name \notin Nameless /\ HasIssues(job[at])
    /\ NextRow
    /\ UNCHANGED <<vars, url, notes, price, script, clean, settled>>

Begin(s) ==
    /\ AtRow(s) /\ job[at].name \notin Nameless /\ ~HasIssues(job[at])
    /\ MatchExact(s, [name |-> job[at].name, prio |-> PriorityOf(job[at].source)])
    /\ UNCHANGED <<url, notes, price, script, at, clean, settled>>

LookUpKey(s) ==
    /\ MatchKey(s)
    /\ UNCHANGED <<url, notes, price, script, at, clean, settled>>

\* The UPDATE: lists are replaced, COALESCE keeps a value the record lacks.  It
\* never lacks a price.
Overwrite(s) ==
    /\ Update(s)
    /\ IF rec[s].prio < seen[s]
       THEN UNCHANGED <<url, notes, price>>
       ELSE /\ notes' = [notes EXCEPT ![target[s]] = job[at].notes]
            /\ price' = [price EXCEPT ![target[s]] = PriceOf(job[at])]
            /\ url' = [url EXCEPT ![target[s]] =
                          IF job[at].url = None THEN @ ELSE job[at].url]
    /\ NextRow
    /\ UNCHANGED <<script, clean, settled>>

Add(s) ==
    /\ Insert(s)
    /\ IF rec[s].name \in rows
       THEN UNCHANGED <<url, notes, price>>
       ELSE /\ notes' = [notes EXCEPT ![rec[s].name] = job[at].notes]
            /\ price' = [price EXCEPT ![rec[s].name] = PriceOf(job[at])]
            /\ url' = [url EXCEPT ![rec[s].name] = job[at].url]
    /\ NextRow
    /\ UNCHANGED <<script, clean, settled>>

\* The statement fails; the error is counted and the loop goes on.
CountError(s) ==
    /\ Fail(s)
    /\ clean' = FALSE
    /\ NextRow
    /\ UNCHANGED <<url, notes, price, script, settled>>

IngestNext ==
    \/ Load \/ TakeRow \/ Seed
    \/ \E s \in Session :
        \/ RunAgain(s) \/ Raise(s) \/ SkipInvalid(s) \/ Begin(s)
        \/ LookUpKey(s) \/ Overwrite(s) \/ Add(s) \/ CountError(s)

IngestSpec == IngestInit /\ [][IngestNext]_ingestVars

-----------------------------------------------------------------------------
\* The types, and what a record is being merged from.
IngestTypeOK ==
    /\ run \in 0..2 /\ daOnly \in BOOLEAN /\ clean \in BOOLEAN
    /\ batch \subseteq Row
    /\ todo \in Seq(Row) /\ job \in Seq(Row)
    /\ at \in 1..(Len(job) + 1)
    /\ run = 0 => at = 1
    /\ run > 0 => todo = <<>>
    /\ \A s \in Session : pc[s] # "idle" =>
          /\ run > 0 /\ at <= Len(job)
          /\ rec[s] = [name |-> job[at].name, prio |-> PriorityOf(job[at].source)]

\* A row is skipped with its whole name if one of the rows merged has issues:
\* the merge comes first, and the blank entry goes where the list goes.
Spoilt(r) ==
    IF daOnly THEN HasIssues(r)
    ELSE \E q \in batch : q.name \in SameKey(r.name) /\ HasIssues(q)

\* Each row that was loaded is answered by one of the job: itself, or after a
\* merge the only one of its key, which is at least as trusted.
Answers(row, r) ==
    IF daOnly THEN row = r
    ELSE row.name \in SameKey(r.name) /\ PriorityOf(row.source) >= PriorityOf(r.source)

JobAnswersBatch ==
    /\ \A r \in batch : \E i \in DOMAIN job : Answers(job[i], r)
    /\ ~daOnly => \A i, j \in DOMAIN job : job[i].name \in SameKey(job[j].name) => i = j
    /\ \A i \in DOMAIN job : HasIssues(job[i]) /\ ~daOnly => Spoilt(job[i])

\* The rows before the current one have been skipped or merged into the table.
DealtWith ==
    run > 0 /\ clean =>
        \A i \in 1..(at - 1) :
            \/ HasIssues(job[i])
            \/ [name |-> job[i].name, prio |-> PriorityOf(job[i].source)] \in done

IngestInv == UpsertInv /\ IngestTypeOK /\ JobAnswersBatch /\ DealtWith

RunOver == run > 0 /\ at > Len(job) /\ \A s \in Session : pc[s] = "idle"

\* "higher-priority sources' data always wins", from the data sets to the table:
\* after a run in which nothing failed, each row that was loaded, merged away or
\* not, is answered by a row of its key at least as trusted.
BatchWins ==
    RunOver /\ clean =>
        \A r \in batch : \/ Spoilt(r)
                         \/ \E n \in SameKey(r.name) \cap rows : prio[n] >= PriorityOf(r.source)

\* Where a price comes from: the source that observed it, or an estimate.
Origin(p) == IF p \in Estimates THEN "estimate" ELSE p
OriginIn(row) == IF row.price = None THEN "estimate" ELSE row.price

\* "this same function is safe to run more than once": a second run of the same
\* data sets leaves the table as it found it but for the estimated prices, and
\* after a merge it does so at each step, whatever fails.  Estimates are drawn
\* anew; none takes the place of an observed price, nor the other way round.
RerunSafe ==
    run = 2 /\ settled # <<>> /\ (daOnly => RunOver /\ clean) =>
        LET P == settled[5] IN
        /\ settled = <<rows, prio, url, notes, P>>
        /\ \A n \in Name : Origin(price[n]) = Origin(P[n])

\* The inductive invariant of RerunSafe.  The row n of the table is the one that
\* upsert_perfume finds for r.
Finds(r, n) ==
    /\ n \in rows
    /\ n = r.name \/ (r.name \notin rows /\ SameKey(r.name) \cap rows = {n})

\* Row i of the job is one that row n may have its data from, and the last such
\* before row k.
Claims(i, n) ==
    /\ ~HasIssues(job[i]) /\ Finds(job[i], n)
    /\ prio[n] = PriorityOf(job[i].source)

Owns(i, n, k) ==
    /\ i \in 1..(k - 1) /\ Claims(i, n)
    /\ \A j \in (i + 1)..(k - 1) : ~Claims(j, n)

Answered(i) ==
    \/ HasIssues(job[i])
    \/ \E n \in Name : Finds(job[i], n) /\ prio[n] >= PriorityOf(job[i].source)

\* What the statement at hand has found, and what the columns and rows are.
Statement ==
    /\ url = [n \in Name |-> url[n]] /\ notes = [n \in Name |-> notes[n]]
    /\ price = [n \in Name |-> price[n]]
    /\ daOnly => /\ \A i \in DOMAIN todo : todo[i].url = None
                 /\ \A i \in DOMAIN job : job[i].url = None
    /\ \A s \in Session :
          /\ pc[s] # "idle" => ~HasIssues(job[at])
          /\ pc[s] = "update" => Finds(job[at], target[s])

\* In a first run without failure, each row of the table has the data of the last
\* row of the job that owns it.
FirstRun ==
    run = 1 /\ clean =>
        /\ \A i \in 1..(at - 1) : Answered(i)
        /\ \A n \in Name, i \in 1..(at - 1) : Owns(i, n, at) =>
              /\ notes[n] = job[i].notes /\ Origin(price[n]) = OriginIn(job[i])
              /\ job[i].url = None \/ url[n] = job[i].url

\* In a second one only lists and prices change, and only to those of an owner.
SecondRun ==
    run = 2 /\ settled # <<>> =>
        LET M == settled[4]
            P == settled[5] IN
        /\ settled = <<rows, prio, url, M, P>> /\ M = [n \in Name |-> M[n]]
        /\ \A i \in DOMAIN job : Answered(i)
        /\ \A n \in Name, i \in DOMAIN job : Owns(i, n, Len(job) + 1) =>
              /\ M[n] = job[i].notes /\ Origin(P[n]) = OriginIn(job[i])
              /\ job[i].url = None \/ url[n] = job[i].url
        /\ ~daOnly => /\ notes = M
                     /\ \A n \in Name : Origin(price[n]) = Origin(P[n])
        /\ daOnly /\ clean => \A n \in Name :
              \/ notes[n] = M[n] /\ Origin(price[n]) = Origin(P[n])
              \/ \E i \in 1..(at - 1) :
                    /\ Owns(i, n, at)
                    /\ notes[n] = job[i].notes /\ Origin(price[n]) = OriginIn(job[i])

RerunInv == Statement /\ FirstRun /\ SecondRun
=============================================================================
