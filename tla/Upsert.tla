------------------------------- MODULE Upsert -------------------------------
(***************************************************************************)
(* backend/app/ingestion/upsert.py: one PerfumeRecord is merged into the   *)
(* perfumes table, matched by its exact (brand, perfume) name first and by *)
(* its normalized_key otherwise.  Each statement commits on its own, so a  *)
(* session is preempted between its SELECTs and its write.  A session is   *)
(* one ingestion process (seed_data.py, seed_local); what a row holds is   *)
(* abstracted to the priority of the source it came from.                  *)
(***************************************************************************)
EXTENDS Integers, FiniteSets

CONSTANTS
    Session,      \* ingestion processes that run at the same time
    Name,         \* (brand, perfume) pairs: the table's unique constraint
    Key,          \* the names that share a normalized_key, a partition of Name
    MaxPriority   \* source priorities are 0..MaxPriority

ASSUME UpsertAssumption ==
    /\ MaxPriority \in Nat
    /\ Key \subseteq SUBSET Name
    /\ UNION Key = Name
    /\ \A k, l \in Key : k = l \/ k \cap l = {}

Priority == 0..MaxPriority
Record == [name : Name, prio : Priority]

VARIABLES
    rows,     \* the names that have a row
    prio,     \* source_priority of each row (NULL counts as 0)
    pc,       \* the next statement of each session
    rec,      \* the record it is merging
    target,   \* the row its SELECT returned
    seen,     \* the source_priority it read there
    done      \* history: the records upsert_perfume has returned for

session == <<pc, rec, target, seen>>
vars == <<rows, prio, pc, rec, target, seen, done>>

\* The names that normalize to the same key as n.
SameKey(n) == {m \in Name : \E k \in Key : n \in k /\ m \in k}

TypeOK ==
    /\ rows \subseteq Name
    /\ prio \in [Name -> Priority]
    /\ pc \in [Session -> {"idle", "matchKey", "update", "insert"}]
    /\ rec \in [Session -> Record]
    /\ target \in [Session -> Name]
    /\ seen \in [Session -> Priority]
    /\ done \subseteq Record

\* Any table: rows seeded before the key existed may share one.
Init ==
    /\ rows \in SUBSET Name
    /\ prio \in {p \in [Name -> Priority] : \A n \in Name \ rows : p[n] = 0}
    /\ pc = [s \in Session |-> "idle"]
    /\ rec \in {[s \in Session |-> r] : r \in [name : Name, prio : {0}]}
    /\ target = [s \in Session |-> rec[s].name]
    /\ seen = [s \in Session |-> 0]
    /\ done = {}

-----------------------------------------------------------------------------
Read(s, n) ==
    /\ target' = [target EXCEPT ![s] = n]
    /\ seen' = [seen EXCEPT ![s] = prio[n]]
    /\ pc' = [pc EXCEPT ![s] = "update"]

NoMatch(s, next) ==
    /\ pc' = [pc EXCEPT ![s] = next]
    /\ UNCHANGED <<target, seen>>

\* SELECT ... WHERE brand = $1 AND perfume = $2
MatchExact(s, r) ==
    /\ pc[s] = "idle"
    /\ rec' = [rec EXCEPT ![s] = r]
    /\ IF r.name \in rows THEN Read(s, r.name) ELSE NoMatch(s, "matchKey")
    /\ UNCHANGED <<rows, prio, done>>

Matches(s) == SameKey(rec[s].name) \cap rows

\* Variant: only the exact name is looked up.
MatchKeyNever(s) ==
    /\ pc[s] = "matchKey"
    /\ NoMatch(s, "insert")
    /\ UNCHANGED <<rows, prio, rec, done>>

\* Variant: of several rows that match, one is guessed.
MatchKeyGuess(s) ==
    /\ pc[s] = "matchKey"
    /\ IF Matches(s) # {}
       THEN \E n \in Matches(s) : Read(s, n)
       ELSE NoMatch(s, "insert")
    /\ UNCHANGED <<rows, prio, rec, done>>

\* SELECT ... WHERE normalized_key = $1: one row is the match, several are
\* ambiguous and none of them is touched.
MatchKey(s) ==
    /\ pc[s] = "matchKey"
    /\ IF Cardinality(Matches(s)) = 1
       THEN \E n \in Matches(s) : Read(s, n)
       ELSE NoMatch(s, "insert")
    /\ UNCHANGED <<rows, prio, rec, done>>

Return(s) ==
    /\ pc' = [pc EXCEPT ![s] = "idle"]
    /\ done' = done \cup {rec[s]}
    /\ UNCHANGED <<rec, target, seen>>

\* Variant: the priorities are not compared.
UpdateAlways(s) ==
    /\ pc[s] = "update"
    /\ prio' = [prio EXCEPT ![target[s]] = rec[s].prio]
    /\ Return(s)
    /\ UNCHANGED rows

\* UPDATE ... WHERE id = $1, unless the priority read before is higher.
Update(s) ==
    /\ pc[s] = "update"
    /\ prio' = IF rec[s].prio < seen[s]
               THEN prio
               ELSE [prio EXCEPT ![target[s]] = rec[s].prio]
    /\ Return(s)
    /\ UNCHANGED rows

\* INSERT ... ON CONFLICT (brand, perfume) DO NOTHING
Insert(s) ==
    /\ pc[s] = "insert"
    /\ rows' = rows \cup {rec[s].name}
    /\ prio' = IF rec[s].name \in rows
               THEN prio
               ELSE [prio EXCEPT ![rec[s].name] = rec[s].prio]
    /\ Return(s)

\* A statement fails; seed_local counts the error and goes on.
Fail(s) ==
    /\ pc[s] # "idle"
    /\ pc' = [pc EXCEPT ![s] = "idle"]
    /\ UNCHANGED <<rows, prio, rec, target, seen, done>>

Next ==
    \E s \in Session :
        \/ \E r \in Record : MatchExact(s, r)
        \/ MatchKey(s) \/ Update(s) \/ Insert(s) \/ Fail(s)

Spec == Init /\ [][Next]_vars

-----------------------------------------------------------------------------
\* "higher-priority sources' data always wins": once upsert_perfume has
\* returned for a record, some row of its key holds data of at least its
\* priority, whatever is merged afterwards and in whatever order.
HighestWins ==
    \A r \in done : \E n \in SameKey(r.name) \cap rows : prio[n] >= r.prio

\* The data of a row is never replaced by data of a lower-priority source.
PriorityNeverDrops == [][\A n \in rows : n \in rows' /\ prio'[n] >= prio[n]]_vars

\* A new row never becomes the second one of its key: a twin only joins rows
\* that were ambiguous already.
NoNewTwin == [][\A n \in rows' \ rows : Cardinality(SameKey(n) \cap rows) # 1]_vars

\* The inductive invariant of a single session: what it read still stands when
\* it writes.
ReadStands ==
    \A s \in Session :
        /\ pc[s] = "update" => /\ target[s] \in SameKey(rec[s].name) \cap rows
                               /\ seen[s] = prio[target[s]]
        /\ pc[s] = "matchKey" => rec[s].name \notin rows
        /\ pc[s] = "insert" => /\ rec[s].name \notin rows
                               /\ Cardinality(Matches(s)) # 1

UpsertInv == TypeOK /\ ReadStands
=============================================================================
