--------------------------- MODULE Ingest_proofs ---------------------------
(***************************************************************************)
(* A single ingestion process keeps the source-priority promise, for any   *)
(* names, keys, priorities and any table it starts from (first half).      *)
(*                                                                         *)
(* The script only touches the table through upsert_perfume: with its      *)
(* loop and its other columns hidden it is a behaviour of Upsert by one    *)
(* session, so what is proved of that holds for whole runs.  With what the *)
(* merge keeps, the promise reaches from the data sets to the table.       *)
(***************************************************************************)
EXTENDS Ingest, FiniteSetTheorems, TLAPS

OneSession == \A s, t \in Session : s = t

\* Sharing a key is reflexive on names; it is symmetric and transitive because
\* the keys partition them.
LEMMA SameKeyFacts ==
    /\ \A n \in Name : n \in SameKey(n)
    /\ \A n, m \in Name : m \in SameKey(n) => SameKey(m) = SameKey(n)
<1>1. \A n \in Name : n \in SameKey(n)
  BY UpsertAssumption DEF SameKey
<1>2. ASSUME NEW n \in Name, NEW m \in Name, m \in SameKey(n)
      PROVE  SameKey(m) = SameKey(n)
  <2>1. PICK k \in Key : n \in k /\ m \in k
    BY <1>2 DEF SameKey
  <2>2. \A l \in Key : (n \in l \/ m \in l) => l = k
    BY <2>1, UpsertAssumption
  <2> QED BY <2>1, <2>2 DEF SameKey
<1> QED BY <1>1, <1>2

LEMMA InitUpsertInv == Init => UpsertInv
<1> SUFFICES ASSUME Init PROVE UpsertInv
  OBVIOUS
<1>1. 0 \in Priority
  BY UpsertAssumption DEF Priority
<1>2. rec \in [Session -> Record]
  BY <1>1 DEF Init, Record
<1>3. TypeOK
  BY <1>1, <1>2 DEF Init, TypeOK, Record
<1> QED BY <1>3 DEF Init, UpsertInv, ReadStands

\* The first SELECT.
LEMMA MatchExactKeepsInv ==
    ASSUME OneSession, UpsertInv, NEW s \in Session, NEW r \in Record, MatchExact(s, r)
    PROVE  UpsertInv'
<1> USE DEF UpsertInv, MatchExact
<1>1. r.name \in Name
  BY DEF Record
<1>2. CASE r.name \in rows
  <2>1. TypeOK'
    BY <1>1, <1>2 DEF TypeOK, Read
  <2> QED BY <1>1, <1>2, <2>1, SameKeyFacts DEF OneSession, ReadStands, Read, TypeOK
<1>3. CASE r.name \notin rows
  <2>1. TypeOK'
    BY <1>1, <1>3 DEF TypeOK, NoMatch
  <2> QED BY <1>3, <2>1 DEF OneSession, ReadStands, NoMatch, TypeOK
<1> QED BY <1>2, <1>3

\* The second SELECT.
LEMMA MatchKeyKeepsInv ==
    ASSUME OneSession, UpsertInv, NEW s \in Session, MatchKey(s)
    PROVE  UpsertInv'
<1> USE DEF UpsertInv, MatchKey
<1>1. CASE Cardinality(Matches(s)) = 1
  <2>1. PICK n \in Matches(s) : Read(s, n)
    BY <1>1
  <2>2. n \in Name
    BY <2>1 DEF Matches, TypeOK
  <2>3. TypeOK'
    BY <2>1, <2>2 DEF TypeOK, Read
  <2> QED BY <2>1, <2>3 DEF OneSession, ReadStands, Read, TypeOK, Matches
<1>2. CASE Cardinality(Matches(s)) # 1
  <2>1. NoMatch(s, "insert")
    BY <1>2
  <2>2. TypeOK'
    BY <2>1 DEF TypeOK, NoMatch
  <2> QED BY <1>2, <2>1, <2>2 DEF OneSession, ReadStands, NoMatch, TypeOK, Matches
<1> QED BY <1>1, <1>2

\* The write, or a failed statement: the session is idle again.
LEMMA WriteKeepsInv ==
    ASSUME OneSession, UpsertInv, NEW s \in Session, Update(s) \/ Insert(s) \/ Fail(s)
    PROVE  UpsertInv'
<1> USE DEF UpsertInv
<1>1. rec[s] \in Record /\ rec[s].name \in Name /\ rec[s].prio \in Priority
  BY DEF TypeOK, Record
<1>2. TypeOK' /\ pc' = [pc EXCEPT ![s] = "idle"]
  BY <1>1 DEF TypeOK, Update, Insert, Fail, Return
<1> QED BY <1>2 DEF OneSession, ReadStands, TypeOK

LEMMA NextKeepsInv == OneSession /\ UpsertInv /\ [Next]_vars => UpsertInv'
<1>1. ASSUME UpsertInv, UNCHANGED vars PROVE UpsertInv'
  BY <1>1 DEF vars, UpsertInv, TypeOK, ReadStands, Matches
<1> QED BY <1>1, MatchExactKeepsInv, MatchKeyKeepsInv, WriteKeepsInv DEF Next

\* With one session, what it read still stands when it writes.
THEOREM OneSessionInv == OneSession => (Spec => []UpsertInv)
<1> SUFFICES ASSUME OneSession PROVE Spec => []UpsertInv
  OBVIOUS
<1> QED BY InitUpsertInv, NextKeepsInv, PTL DEF Spec

\* No step lowers the priority of a row or removes it.
LEMMA StepKeepsPriority ==
    ASSUME UpsertInv, [Next]_vars
    PROVE  \A n \in rows : n \in rows' /\ prio'[n] >= prio[n]
<1> USE DEF UpsertInv
<1>0. \A n \in Name : prio[n] \in Int
  BY DEF TypeOK, Priority
<1>1. ASSUME NEW s \in Session, Update(s)
      PROVE  \A n \in rows : n \in rows' /\ prio'[n] >= prio[n]
  BY <1>0, <1>1 DEF Update, ReadStands, TypeOK, Record, Priority
<1>2. ASSUME NEW s \in Session, Insert(s)
      PROVE  \A n \in rows : n \in rows' /\ prio'[n] >= prio[n]
  BY <1>0, <1>2 DEF Insert, TypeOK
<1>3. UNCHANGED <<rows, prio>> => \A n \in rows : n \in rows' /\ prio'[n] >= prio[n]
  BY <1>0 DEF TypeOK
<1> QED BY <1>1, <1>2, <1>3 DEF Next, MatchExact, MatchKey, Fail, vars

\* A lower-priority source never replaces the data of a row.
THEOREM PriorityIsMonotone == OneSession => (Spec => PriorityNeverDrops)
<1> SUFFICES ASSUME OneSession PROVE Spec => PriorityNeverDrops
  OBVIOUS
<1>1. UpsertInv /\ [Next]_vars
      => [\A n \in rows : n \in rows' /\ prio'[n] >= prio[n]]_vars
  BY StepKeepsPriority
<1> QED BY <1>1, OneSessionInv, PTL DEF Spec, PriorityNeverDrops

\* The write of a record leaves a row of its key with at least its priority.
LEMMA WriteCounts ==
    ASSUME UpsertInv, NEW s \in Session, Update(s) \/ Insert(s)
    PROVE  \E n \in SameKey(rec[s].name) \cap rows' : prio'[n] >= rec[s].prio
<1> USE DEF UpsertInv
<1>0. rec[s].name \in Name /\ rec[s].prio \in Int /\ \A n \in Name : prio[n] \in Int
  BY DEF TypeOK, Record, Priority
<1>1. CASE Update(s)
  <2>1. target[s] \in SameKey(rec[s].name) \cap rows' /\ seen[s] = prio[target[s]]
    BY <1>1 DEF Update, ReadStands
  <2> QED BY <1>0, <1>1, <2>1 DEF Update, TypeOK
<1>2. CASE Insert(s)
  BY <1>0, <1>2, SameKeyFacts DEF Insert, ReadStands, TypeOK
<1> QED BY <1>1, <1>2

\* "higher-priority sources' data always wins", for every order of records.
THEOREM HigherPriorityWins == OneSession => (Spec => []HighestWins)
<1> SUFFICES ASSUME OneSession PROVE Spec => []HighestWins
  OBVIOUS
<1>1. Init => HighestWins
  BY DEF Init, HighestWins
<1>2. UpsertInv /\ HighestWins /\ [Next]_vars => HighestWins'
  <2> SUFFICES ASSUME UpsertInv, HighestWins, [Next]_vars, NEW r \in done'
               PROVE  \E n \in SameKey(r.name) \cap rows' : prio'[n] >= r.prio
    BY DEF HighestWins, SameKey
  <2>1. CASE r \in done
    <3>1. PICK n \in SameKey(r.name) \cap rows : prio[n] >= r.prio
      BY <2>1 DEF HighestWins
    <3>2. n \in rows' /\ prio'[n] >= prio[n]
      BY <3>1, StepKeepsPriority
    <3>3. r.prio \in Int /\ prio[n] \in Int
      BY <2>1, <3>1 DEF UpsertInv, TypeOK, Record, Priority
    <3>4. prio'[n] \in Int
      BY <3>1, NextKeepsInv DEF UpsertInv, TypeOK, Priority
    <3> QED BY <3>1, <3>2, <3>3, <3>4
  <2>2. CASE r \notin done
    <3>1. PICK s \in Session : (Update(s) \/ Insert(s)) /\ r = rec[s]
      BY <2>2 DEF Next, MatchExact, MatchKey, Update, Insert, Fail, Return, vars
    <3> QED BY <3>1, WriteCounts
  <2> QED BY <2>1, <2>2
<1> QED BY <1>1, <1>2, OneSessionInv, PTL DEF Spec

\* A new row joins a key only when the key had no row or was ambiguous before.
THEOREM TwinsAreOld == OneSession => (Spec => NoNewTwin)
<1> SUFFICES ASSUME OneSession PROVE Spec => NoNewTwin
  OBVIOUS
<1>1. UpsertInv /\ [Next]_vars
      => [\A n \in rows' \ rows : Cardinality(SameKey(n) \cap rows) # 1]_vars
  <2> SUFFICES ASSUME UpsertInv, Next, NEW n \in rows' \ rows
               PROVE  Cardinality(SameKey(n) \cap rows) # 1
    BY DEF vars
  <2>1. PICK s \in Session : Insert(s) /\ n = rec[s].name
    BY DEF Next, MatchExact, MatchKey, Update, Insert, Fail
  <2> QED BY <2>1 DEF UpsertInv, ReadStands, Insert, Matches
<1> QED BY <1>1, OneSessionInv, PTL DEF Spec, NoNewTwin

-----------------------------------------------------------------------------
LEMMA ScriptIsOneSession == OneSession
BY IngestAssumption DEF OneSession

LEMMA PriorityOfIsPriority ==
    \A source : PriorityOf(source) \in Priority /\ PriorityOf(source) \in Int
BY IngestAssumption DEF PriorityOf, SourcePriority, Priority

\* A table of old rows is a table Upsert may start from.
LEMMA InitIsInit == IngestInit => Init
<1> SUFFICES ASSUME IngestInit PROVE Init
  OBVIOUS
<1>0. PICK origin \in [Name \ Nameless -> Earlier \cup {None}] :
        LET stored == {n \in Name \ Nameless : origin[n] # None} IN
        /\ rows = stored
        /\ prio = [n \in Name |-> IF n \in stored THEN PriorityOf(origin[n]) ELSE 0]
  BY Zenon DEF IngestInit
<1>1. /\ rows = {n \in Name \ Nameless : origin[n] # None}
      /\ prio = [n \in Name |-> IF n \in rows THEN PriorityOf(origin[n]) ELSE 0]
  BY <1>0
<1>2. 0 \in Priority
  BY IngestAssumption DEF Priority
<1>3. rows \in SUBSET Name
  BY <1>1
<1>4. prio \in {p \in [Name -> Priority] : \A n \in Name \ rows : p[n] = 0}
  <2>1. \A n \in Name : (IF n \in rows THEN PriorityOf(origin[n]) ELSE 0) \in Priority
    BY <1>2, PriorityOfIsPriority
  <2> QED BY <1>1, <2>1
<1>5. [name |-> CHOOSE n \in Name : TRUE, prio |-> 0] \in [name : Name, prio : {0}]
  BY IngestAssumption
<1>6. rec \in {[s \in Session |-> r] : r \in [name : Name, prio : {0}]}
  <2>1. rec = [s \in Session |-> [name |-> CHOOSE n \in Name : TRUE, prio |-> 0]]
    BY DEF IngestInit
  <2> QED BY <1>5, <2>1
<1>7. /\ pc = [s \in Session |-> "idle"]
      /\ target = [s \in Session |-> rec[s].name]
      /\ seen = [s \in Session |-> 0]
      /\ done = {}
  BY DEF IngestInit
<1> QED BY <1>3, <1>4, <1>6, <1>7 DEF Init

\* Beginning, looking up, writing and failing are steps of upsert_perfume; what
\* the script does around them leaves the table and the session alone.
LEMMA StepIsStep == IngestTypeOK /\ [IngestNext]_ingestVars => [Next]_vars
<1> SUFFICES ASSUME IngestTypeOK, [IngestNext]_ingestVars PROVE [Next]_vars
  OBVIOUS
<1>1. (Load \/ TakeRow \/ Seed) => UNCHANGED vars
  BY DEF Load, TakeRow, Seed
<1>2. ASSUME NEW s \in Session, RunAgain(s) \/ Raise(s) \/ SkipInvalid(s)
      PROVE  UNCHANGED vars
  BY <1>2 DEF RunAgain, Raise, SkipInvalid
<1>3. ASSUME NEW s \in Session, Begin(s)
      PROVE  Next
  <2>1. job[at] \in Row
    BY <1>3 DEF Begin, AtRow, IngestTypeOK
  <2>2. [name |-> job[at].name, prio |-> PriorityOf(job[at].source)] \in Record
    BY <2>1, PriorityOfIsPriority DEF Row, Record
  <2> QED BY <1>3, <2>2 DEF Begin, Next
<1>4. ASSUME NEW s \in Session, LookUpKey(s) \/ Overwrite(s) \/ Add(s) \/ CountError(s)
      PROVE  Next
  BY <1>4 DEF LookUpKey, Overwrite, Add, CountError, Next
<1> QED BY <1>1, <1>2, <1>3, <1>4 DEF IngestNext, ingestVars

-----------------------------------------------------------------------------
\* A row of the job that takes in another one is still a row.
LEMMA CombineIsRow ==
    ASSUME NEW old \in Row, NEW new \in Row
    PROVE  /\ Combine(old, new) \in Row
           /\ Combine(old, new).name = new.name
           /\ Combine(old, new).source = new.source
           /\ HasIssues(Combine(old, new)) <=> HasIssues(old) \/ HasIssues(new)
BY DEF Combine, Row, HasIssues

LEMMA MergeRowIsJob ==
    ASSUME NEW kept \in Seq(Row), NEW row \in Row
    PROVE  MergeRow(kept, row) \in Seq(Row)
<1>1. CASE \A i \in DOMAIN kept : kept[i].name \notin SameKey(row.name)
  BY <1>1 DEF MergeRow
<1>2. CASE ~\A i \in DOMAIN kept : kept[i].name \notin SameKey(row.name)
  <2> DEFINE M == [i \in DOMAIN kept |->
            IF /\ kept[i].name \in SameKey(row.name)
               /\ PriorityOf(row.source) > PriorityOf(kept[i].source)
            THEN Combine(kept[i], row)
            ELSE kept[i]]
  <2>1. MergeRow(kept, row) = M
    BY <1>2 DEF MergeRow
  <2>2. DOMAIN kept = 1..Len(kept) /\ Len(kept) \in Nat
    OBVIOUS
  <2>3. \A i \in DOMAIN kept : M[i] \in Row
    BY CombineIsRow
  <2>4. M \in [1..Len(kept) -> Row]
    BY <2>2, <2>3
  <2> QED BY <2>1, <2>2, <2>4
<1> QED BY <1>1, <1>2

LEMMA LoadableIsSeq == \A only \in BOOLEAN : \A q \in Loadable(only) : q \in Seq(Row)
<1> SUFFICES ASSUME NEW only \in BOOLEAN, NEW q \in Loadable(only) PROVE q \in Seq(Row)
  OBVIOUS
<1>1. PICK m \in 0..MaxRows : q \in [1..m -> Rows]
  BY DEF Loadable, BoundedSeq, SeqOf
<1>2. q \in [1..m -> Row] /\ m \in Nat
  BY <1>1, IngestAssumption
<1> QED BY <1>2

LEMMA InitTypeOK == IngestInit => IngestTypeOK
<1> SUFFICES ASSUME IngestInit PROVE IngestTypeOK
  OBVIOUS
<1>1. /\ run = 0 /\ daOnly = FALSE /\ todo = <<>> /\ batch = {} /\ job = <<>>
      /\ at = 1 /\ clean = TRUE
      /\ \A s \in Session : pc[s] = "idle"
  BY DEF IngestInit
<1>2. <<>> \in Seq(Row) /\ Len(<<>>) = 0
  OBVIOUS
<1>3. at \in 1..(Len(job) + 1)
  BY <1>1, <1>2
<1>4. todo \in Seq(Row) /\ job \in Seq(Row) /\ batch \subseteq Row
  BY <1>1, <1>2
<1>5. daOnly \in BOOLEAN /\ clean \in BOOLEAN
  BY <1>1, Zenon
<1>6. run = 0 /\ run \in 0..2 /\ at = 1 /\ \A s \in Session : pc[s] = "idle"
  BY <1>1
<1> QED BY ONLY <1>3, <1>4, <1>5, <1>6 DEF IngestTypeOK

LEMMA TypeStep ==
    ASSUME IngestTypeOK, UpsertInv, IngestNext
    PROVE  IngestTypeOK'
<1> USE DEF IngestTypeOK
<1>1. CASE Load
  BY <1>1, LoadableIsSeq DEF Load, vars
<1>2. CASE TakeRow
  <2>1. run = 0 /\ Head(todo) \in Row /\ Tail(todo) \in Seq(Row)
    BY <1>2 DEF TakeRow
  <2>2. job' \in Seq(Row)
    <3>1. job \in Seq(Row)
      OBVIOUS
    <3>2. MergeRow(job, Head(todo)) \in Seq(Row)
      BY ONLY <2>1, <3>1, MergeRowIsJob
    <3>3. Append(job, Head(todo)) \in Seq(Row)
      BY ONLY <2>1, <3>1
    <3> QED BY <1>2, <3>2, <3>3 DEF TakeRow
  <2>3. at' = 1 /\ run' = 0
    BY <1>2, <2>1 DEF TakeRow
  <2>4. at' \in 1..(Len(job') + 1)
    BY <2>2, <2>3
  <2>5. \A s \in Session : pc'[s] = "idle"
    BY <1>2, <2>1 DEF TakeRow, vars
  <2> QED BY <1>2, <2>1, <2>2, <2>3, <2>4, <2>5 DEF TakeRow
<1>3. CASE Seed
  <2>1. PICK k \in 1..Len(job) : job' = SubSeq(job, 1, k)
    BY <1>3 DEF Seed
  <2>2. job' \in Seq(Row) /\ Len(job') = k
    BY <2>1
  <2>3. batch' \subseteq Row
    BY <1>3 DEF Seed
  <2>4. \A s \in Session : pc'[s] = "idle"
    BY <1>3 DEF Seed, vars
  <2> QED BY <1>3, <2>1, <2>2, <2>3, <2>4 DEF Seed
<1>4. ASSUME NEW s \in Session, RunAgain(s) PROVE IngestTypeOK'
  BY <1>4, ScriptIsOneSession DEF RunAgain, vars, OneSession
<1>5. ASSUME NEW s \in Session, Raise(s) \/ SkipInvalid(s) PROVE IngestTypeOK'
  <2>1. \A t \in Session : pc'[t] = "idle"
    BY <1>5, ScriptIsOneSession DEF Raise, SkipInvalid, AtRow, vars, OneSession
  <2>2. at' \in 1..(Len(job) + 1) /\ run > 0 /\ clean' \in BOOLEAN /\ UNCHANGED script
    <3>1. Len(job) \in Nat
      OBVIOUS
    <3>2. CASE Raise(s)
      <4>1. clean' \in BOOLEAN
        BY <3>2, Zenon DEF Raise
      <4> QED BY <3>1, <3>2, <4>1 DEF Raise, AtRow
    <3>3. CASE SkipInvalid(s)
      BY <3>1, <3>3 DEF SkipInvalid, AtRow, NextRow
    <3> QED BY <1>5, <3>2, <3>3
  <2> QED BY <2>1, <2>2 DEF script
<1>6. ASSUME NEW s \in Session, Begin(s) PROVE IngestTypeOK'
  BY <1>6, ScriptIsOneSession
     DEF Begin, AtRow, MatchExact, script, OneSession, UpsertInv, TypeOK
<1>7. ASSUME NEW s \in Session, LookUpKey(s) PROVE IngestTypeOK'
  BY <1>7, ScriptIsOneSession
     DEF LookUpKey, MatchKey, script, OneSession, UpsertInv, TypeOK
<1>8. ASSUME NEW s \in Session, Overwrite(s) \/ Add(s) \/ CountError(s)
      PROVE  IngestTypeOK'
  <2>1. pc[s] # "idle" /\ pc' = [pc EXCEPT ![s] = "idle"]
    BY <1>8 DEF Overwrite, Update, Add, Insert, Return, CountError, Fail
  <2>2. at <= Len(job) /\ at' = at + 1 /\ UNCHANGED script /\ clean' \in BOOLEAN
    BY <1>8, <2>1 DEF Overwrite, Add, CountError, NextRow
  <2> QED BY <2>1, <2>2, ScriptIsOneSession DEF script, OneSession, UpsertInv, TypeOK
<1> QED BY <1>1, <1>2, <1>3, <1>4, <1>5, <1>6, <1>7, <1>8 DEF IngestNext

-----------------------------------------------------------------------------
\* The merge of one row: its place in the job, and what the other places keep.
LEMMA MergeRowAnswers ==
    ASSUME ~daOnly, NEW kept \in Seq(Row), NEW row \in Row,
           \A i, j \in DOMAIN kept : kept[i].name \in SameKey(kept[j].name) => i = j
    PROVE  LET m == MergeRow(kept, row) IN
           /\ \E i \in DOMAIN m : Answers(m[i], row)
           /\ \A r \in Row : \A i \in DOMAIN kept :
                 Answers(kept[i], r) => i \in DOMAIN m /\ Answers(m[i], r)
           /\ \A i, j \in DOMAIN m : m[i].name \in SameKey(m[j].name) => i = j
           /\ \A i \in DOMAIN m : HasIssues(m[i]) =>
                 \/ HasIssues(row) /\ row.name \in SameKey(m[i].name)
                 \/ /\ i \in DOMAIN kept /\ HasIssues(kept[i])
                    /\ SameKey(kept[i].name) = SameKey(m[i].name)
<1> DEFINE m == MergeRow(kept, row)
<1>0. /\ DOMAIN kept = 1..Len(kept) /\ Len(kept) \in Nat
      /\ row.name \in Name /\ \A i \in DOMAIN kept : kept[i] \in Row /\ kept[i].name \in Name
      /\ \A r \in Row : r.name \in Name
  <2>1. DOMAIN kept = 1..Len(kept) /\ Len(kept) \in Nat /\ \A i \in DOMAIN kept : kept[i] \in Row
    OBVIOUS
  <2>2. \A r \in Row : r.name \in Name
    BY DEF Row
  <2> QED BY <2>1, <2>2
<1>1. CASE \A i \in DOMAIN kept : kept[i].name \notin SameKey(row.name)
  <2>1. /\ m = Append(kept, row) /\ DOMAIN m = 1..(Len(kept) + 1)
        /\ m[Len(kept) + 1] = row /\ \A i \in DOMAIN kept : m[i] = kept[i]
    BY <1>1 DEF MergeRow
  <2>2. Answers(row, row)
    BY <1>0, SameKeyFacts, PriorityOfIsPriority DEF Answers
  <2>3. \A i \in DOMAIN kept : row.name \notin SameKey(kept[i].name)
    BY <1>0, <1>1, SameKeyFacts
  <2>4. \A i, j \in DOMAIN m : m[i].name \in SameKey(m[j].name) => i = j
    BY <1>0, <1>1, <2>1, <2>3
  <2> QED BY <1>0, <2>1, <2>2, <2>4, SameKeyFacts
<1>2. CASE \E i \in DOMAIN kept : kept[i].name \in SameKey(row.name)
  <2>1. PICK p \in DOMAIN kept : kept[p].name \in SameKey(row.name)
    BY <1>2
  <2>2. \A i \in DOMAIN kept : kept[i].name \in SameKey(row.name) => i = p
    BY <1>0, <2>1, SameKeyFacts
  <2>3. /\ DOMAIN m = DOMAIN kept
        /\ \A i \in DOMAIN kept : i # p => m[i] = kept[i]
        /\ m[p] = IF PriorityOf(row.source) > PriorityOf(kept[p].source)
                  THEN Combine(kept[p], row) ELSE kept[p]
    BY <1>2, <2>1, <2>2 DEF MergeRow
  <2>4. /\ SameKey(m[p].name) = SameKey(row.name) /\ SameKey(kept[p].name) = SameKey(row.name)
        /\ m[p].name \in SameKey(row.name) /\ m[p].name \in Name
        /\ PriorityOf(m[p].source) >= PriorityOf(row.source)
        /\ PriorityOf(m[p].source) >= PriorityOf(kept[p].source)
        /\ HasIssues(m[p]) => HasIssues(kept[p]) \/ HasIssues(row)
    BY <1>0, <2>1, <2>3, CombineIsRow, SameKeyFacts, PriorityOfIsPriority
  <2>5. Answers(m[p], row)
    BY <2>4 DEF Answers
  <2>6. \A r \in Row : Answers(kept[p], r) => Answers(m[p], r)
    <3> SUFFICES ASSUME NEW r \in Row, Answers(kept[p], r) PROVE Answers(m[p], r)
      OBVIOUS
    <3>1. kept[p].name \in SameKey(r.name) /\ SameKey(kept[p].name) = SameKey(r.name)
      BY <1>0, SameKeyFacts DEF Answers
    <3> QED BY <2>4, <3>1, PriorityOfIsPriority DEF Answers
  <2>7. \A i, j \in DOMAIN m : m[i].name \in SameKey(m[j].name) => i = j
    <3> SUFFICES ASSUME NEW i \in DOMAIN kept, NEW j \in DOMAIN kept,
                        m[i].name \in SameKey(m[j].name)
                 PROVE  i = j
      BY <2>3
    <3>1. \A k \in DOMAIN kept : m[k].name \in Name /\ SameKey(m[k].name) = SameKey(kept[k].name)
      BY <1>0, <2>3, <2>4
    <3>2. SameKey(m[i].name) = SameKey(m[j].name)
      BY <3>1, SameKeyFacts
    <3>3. kept[i].name \in SameKey(kept[j].name)
      BY <1>0, <3>1, <3>2, SameKeyFacts
    <3> QED BY <3>3
  <2>8. row.name \in SameKey(m[p].name)
    BY <1>0, <2>4, SameKeyFacts
  <2> QED BY <2>3, <2>4, <2>5, <2>6, <2>7, <2>8
<1> QED BY <1>1, <1>2

LEMMA JobStep ==
    ASSUME IngestTypeOK, JobAnswersBatch, IngestNext
    PROVE  JobAnswersBatch'
<1>1. CASE Load
  <2>1. job = <<>> /\ job' = job /\ batch' = batch
    BY <1>1 DEF Load
  <2>2. DOMAIN job = {}
    BY <2>1
  <2>3. batch = {}
    BY <2>2 DEF JobAnswersBatch
  <2> QED BY <2>1, <2>2, <2>3 DEF JobAnswersBatch
<1>2. CASE TakeRow
  <2> DEFINE row == Head(todo)
  <2>1. /\ job \in Seq(Row) /\ row \in Row /\ batch' = batch \cup {row} /\ batch \subseteq Row
        /\ daOnly' = daOnly
    BY <1>2 DEF TakeRow, IngestTypeOK
  <2>2. CASE daOnly
    <3>1. /\ job' = Append(job, row) /\ DOMAIN job' = 1..(Len(job) + 1)
          /\ job'[Len(job) + 1] = row /\ \A i \in DOMAIN job : job'[i] = job[i]
          /\ DOMAIN job = 1..Len(job) /\ Len(job) \in Nat
      BY <1>2, <2>1, <2>2 DEF TakeRow
    <3>2. \A r \in batch' : \E i \in DOMAIN job' : job'[i] = r
      BY <2>1, <2>2, <3>1 DEF JobAnswersBatch, Answers
    <3> QED BY <2>1, <2>2, <3>2 DEF JobAnswersBatch, Answers
  <2>3. CASE ~daOnly
    <3>1. job' = MergeRow(job, row)
      BY <1>2, <2>3 DEF TakeRow
    <3>2. \A i, j \in DOMAIN job : job[i].name \in SameKey(job[j].name) => i = j
      BY <2>3 DEF JobAnswersBatch
    <3>3. /\ \E i \in DOMAIN job' : Answers(job'[i], row)
          /\ \A r \in Row : \A i \in DOMAIN job :
                Answers(job[i], r) => i \in DOMAIN job' /\ Answers(job'[i], r)
          /\ \A i, j \in DOMAIN job' : job'[i].name \in SameKey(job'[j].name) => i = j
          /\ \A i \in DOMAIN job' : HasIssues(job'[i]) =>
                \/ HasIssues(row) /\ row.name \in SameKey(job'[i].name)
                \/ /\ i \in DOMAIN job /\ HasIssues(job[i])
                   /\ SameKey(job[i].name) = SameKey(job'[i].name)
      BY <2>1, <2>3, <3>1, <3>2, MergeRowAnswers
    <3>4. \A r \in batch' : \E i \in DOMAIN job' : Answers(job'[i], r)
      BY <2>1, <3>3 DEF JobAnswersBatch
    <3>5. \A i \in DOMAIN job' : HasIssues(job'[i]) =>
             \E q \in batch' : q.name \in SameKey(job'[i].name) /\ HasIssues(q)
      BY <2>1, <2>3, <3>3 DEF JobAnswersBatch, Spoilt
    <3> QED BY <2>1, <2>3, <3>3, <3>4, <3>5 DEF JobAnswersBatch, Answers, Spoilt
  <2> QED BY <2>2, <2>3
<1>3. CASE Seed
  <2>1. PICK k \in 1..Len(job) :
          /\ job' = SubSeq(job, 1, k)
          /\ batch' = {r \in batch : IF daOnly THEN r \in ToSet(job')
                                     ELSE \E i \in 1..k : job[i].name \in SameKey(r.name)}
    BY <1>3 DEF Seed
  <2>2. /\ DOMAIN job' = 1..k /\ DOMAIN job = 1..Len(job) /\ k \in Nat /\ Len(job) \in Nat
        /\ 1..k \subseteq DOMAIN job
        /\ \A i \in 1..k : job'[i] = job[i] /\ job[i].name \in Name
        /\ \A i \in DOMAIN job : job[i].name \in Name
        /\ \A r \in batch : r.name \in Name
    <3>1. job \in Seq(Row) /\ batch \subseteq Row
      BY DEF IngestTypeOK
    <3>2. /\ DOMAIN job = 1..Len(job) /\ Len(job) \in Nat /\ k \in Nat /\ k <= Len(job)
          /\ \A i \in DOMAIN job : job[i] \in Row
      BY <3>1
    <3>3. DOMAIN job' = 1..k /\ \A i \in 1..k : job'[i] = job[i]
      BY <2>1, <3>1
    <3>4. \A r \in Row : r.name \in Name
      BY DEF Row
    <3> QED BY <3>1, <3>2, <3>3, <3>4
  <2>3. daOnly' = daOnly /\ batch' \subseteq batch
    BY <1>3, <2>1 DEF Seed
  <2>4. CASE daOnly
    <3>1. \A r \in batch' : \E i \in DOMAIN job' : job'[i] = r
      BY <2>1, <2>4 DEF ToSet
    <3> QED BY <2>3, <2>4, <3>1 DEF JobAnswersBatch, Answers
  <2>5. CASE ~daOnly
    <3>1. ASSUME NEW r \in batch' PROVE \E i \in DOMAIN job' : Answers(job'[i], r)
      <4>1. PICK i \in 1..k : job[i].name \in SameKey(r.name)
        BY <2>1, <2>5
      <4>2. PICK j \in DOMAIN job : Answers(job[j], r)
        BY <2>3 DEF JobAnswersBatch
      <4>3. job[i].name \in SameKey(job[j].name)
        BY <2>2, <2>3, <2>5, <4>1, <4>2, SameKeyFacts DEF Answers
      <4>4. i = j
        BY <2>2, <2>5, <4>3 DEF JobAnswersBatch
      <4> QED BY <2>2, <4>2, <4>4
    <3>2. \A i, j \in DOMAIN job' : job'[i].name \in SameKey(job'[j].name) => i = j
      BY <2>2, <2>5 DEF JobAnswersBatch
    <3>3. ASSUME NEW i \in DOMAIN job', HasIssues(job'[i])
          PROVE  \E q \in batch' : q.name \in SameKey(job'[i].name) /\ HasIssues(q)
      <4>1. PICK q \in batch : q.name \in SameKey(job[i].name) /\ HasIssues(q)
        BY <2>2, <2>5, <3>3 DEF JobAnswersBatch, Spoilt
      <4>2. job[i].name \in SameKey(q.name)
        BY <2>2, <4>1, SameKeyFacts
      <4>3. q \in batch'
        BY <2>1, <2>2, <2>5, <4>2
      <4> QED BY <2>2, <4>1, <4>3
    <3> QED BY <2>3, <2>5, <3>1, <3>2, <3>3 DEF JobAnswersBatch, Answers, Spoilt
  <2> QED BY <2>4, <2>5
<1>4. ASSUME NEW s \in Session,
             \/ RunAgain(s) \/ Raise(s) \/ SkipInvalid(s) \/ Begin(s)
             \/ LookUpKey(s) \/ Overwrite(s) \/ Add(s) \/ CountError(s)
      PROVE  UNCHANGED <<job, batch, daOnly>>
  BY <1>4 DEF RunAgain, Raise, SkipInvalid, Begin, LookUpKey, Overwrite, Add, CountError, script
<1>5. UNCHANGED <<job, batch, daOnly>> => JobAnswersBatch'
  BY DEF JobAnswersBatch, Answers, Spoilt
<1> QED BY <1>1, <1>2, <1>3, <1>4, <1>5 DEF IngestNext

LEMMA DealtStep ==
    ASSUME IngestTypeOK, DealtWith, IngestNext
    PROVE  DealtWith'
<1>1. CASE Load \/ TakeRow
  <2>1. run' = 0
    BY <1>1 DEF Load, TakeRow, IngestTypeOK
  <2> QED BY <2>1 DEF DealtWith
<1>2. CASE Seed \/ \E s \in Session : RunAgain(s)
  <2>1. at' = 1
    BY <1>2 DEF Seed, RunAgain
  <2> QED BY <2>1 DEF DealtWith
<1>3. CASE \E s \in Session : Raise(s) \/ CountError(s)
  BY <1>3 DEF Raise, CountError, DealtWith
<1>4. ASSUME NEW s \in Session, Begin(s) \/ LookUpKey(s) PROVE DealtWith'
  <2>1. UNCHANGED <<run, clean, at, job, done>>
    BY <1>4 DEF Begin, LookUpKey, MatchExact, MatchKey, script
  <2> QED BY <2>1 DEF DealtWith
<1>5. ASSUME NEW s \in Session, SkipInvalid(s) PROVE DealtWith'
  <2>1. /\ UNCHANGED <<run, clean, job, done>> /\ at' = at + 1 /\ HasIssues(job[at])
        /\ at \in Int
    BY <1>5 DEF SkipInvalid, NextRow, script, vars, IngestTypeOK
  <2> QED BY <2>1 DEF DealtWith
<1>6. ASSUME NEW s \in Session, Overwrite(s) \/ Add(s) PROVE DealtWith'
  <2>1. /\ UNCHANGED <<run, clean, job>> /\ at' = at + 1 /\ at \in Int
        /\ done' = done \cup {rec[s]} /\ pc[s] # "idle"
    BY <1>6 DEF Overwrite, Update, Add, Insert, Return, NextRow, script, IngestTypeOK
  <2>2. rec[s] = [name |-> job[at].name, prio |-> PriorityOf(job[at].source)]
    BY <2>1 DEF IngestTypeOK
  <2> QED BY <2>1, <2>2 DEF DealtWith
<1> QED BY <1>1, <1>2, <1>3, <1>4, <1>5, <1>6 DEF IngestNext

-----------------------------------------------------------------------------
LEMMA InitIngestInv == IngestInit => IngestInv
<1> SUFFICES ASSUME IngestInit PROVE IngestInv
  OBVIOUS
<1>1. run = 0 /\ batch = {} /\ job = <<>>
  BY DEF IngestInit
<1>2. DOMAIN job = {}
  BY <1>1
<1>3. JobAnswersBatch /\ DealtWith
  BY <1>1, <1>2 DEF JobAnswersBatch, DealtWith
<1> QED BY <1>3, InitIsInit, InitUpsertInv, InitTypeOK DEF IngestInv

LEMMA NextKeepsIngestInv == IngestInv /\ [IngestNext]_ingestVars => IngestInv'
<1> SUFFICES ASSUME IngestInv, [IngestNext]_ingestVars PROVE IngestInv'
  OBVIOUS
<1>1. UpsertInv'
  BY StepIsStep, NextKeepsInv, ScriptIsOneSession DEF IngestInv
<1>2. CASE IngestNext
  BY <1>1, <1>2, TypeStep, JobStep, DealtStep DEF IngestInv
<1>3. CASE UNCHANGED ingestVars
  BY <1>1, <1>3 DEF IngestInv, IngestTypeOK, JobAnswersBatch, Answers, Spoilt, DealtWith,
                    ingestVars, vars, script
<1> QED BY <1>2, <1>3

\* In every run of the script, what upsert_perfume has read still stands when it
\* writes, and the job answers for all rows the merge has seen.
THEOREM IngestInvariant == IngestSpec => []IngestInv
BY InitIngestInv, NextKeepsIngestInv, PTL DEF IngestSpec

\* The script implements the upsert: loading, merging, skipping and dying are
\* steps in which upsert_perfume does nothing.
THEOREM ImplementsUpsert == IngestSpec => Spec
<1>1. IngestInv /\ [IngestNext]_ingestVars => [Next]_vars
  BY StepIsStep DEF IngestInv
<1> QED BY <1>1, InitIsInit, IngestInvariant, PTL DEF IngestSpec, Spec

\* Hence whatever has been merged into the table stays answered by it, ...
THEOREM ScriptHighestWins == IngestSpec => []HighestWins
BY ImplementsUpsert, HigherPriorityWins, ScriptIsOneSession

\* ... and the script never creates a second row of a key.
THEOREM ScriptMakesNoTwin == IngestSpec => NoNewTwin
BY ImplementsUpsert, TwinsAreOld, ScriptIsOneSession

\* From the data sets to the table: after a run without failure each row that
\* was loaded is answered by a row of its key at least as trusted.
THEOREM LoadedRowsAreAnswered == IngestSpec => []BatchWins
<1>1. IngestInv /\ HighestWins => BatchWins
  <2> SUFFICES ASSUME IngestInv, HighestWins, RunOver, clean,
                      NEW r \in batch, ~Spoilt(r)
               PROVE  \E n \in SameKey(r.name) \cap rows : prio[n] >= PriorityOf(r.source)
    BY DEF BatchWins
  <2>1. PICK i \in DOMAIN job : Answers(job[i], r)
    BY DEF IngestInv, JobAnswersBatch
  <2>2. /\ job[i] \in Row /\ r \in Row /\ r.name \in Name /\ job[i].name \in Name
        /\ i \in 1..(at - 1)
    <3>1. job \in Seq(Row) /\ at > Len(job) /\ at \in Int /\ batch \subseteq Row
      BY DEF IngestInv, IngestTypeOK, RunOver
    <3>2. DOMAIN job = 1..Len(job) /\ Len(job) \in Nat /\ job[i] \in Row
      BY <2>1, <3>1
    <3>3. \A row \in Row : row.name \in Name
      BY DEF Row
    <3> QED BY <2>1, <3>1, <3>2, <3>3
  <2>3. /\ job[i].name \in SameKey(r.name) /\ SameKey(job[i].name) = SameKey(r.name)
        /\ PriorityOf(job[i].source) >= PriorityOf(r.source)
    BY <2>1, <2>2, SameKeyFacts, PriorityOfIsPriority DEF Answers
  <2>4. ~HasIssues(job[i])
    BY <2>1, <2>3 DEF IngestInv, JobAnswersBatch, Answers, Spoilt
  <2>5. [name |-> job[i].name, prio |-> PriorityOf(job[i].source)] \in done
    BY <2>2, <2>4 DEF IngestInv, DealtWith, RunOver
  <2>6. PICK n \in SameKey(job[i].name) \cap rows : prio[n] >= PriorityOf(job[i].source)
    BY <2>5 DEF HighestWins
  <2>7. prio[n] \in Int
    BY <2>6 DEF IngestInv, UpsertInv, TypeOK, Priority
  <2> QED BY <2>3, <2>6, <2>7, PriorityOfIsPriority
<1> QED BY <1>1, IngestInvariant, ScriptHighestWins, PTL

-----------------------------------------------------------------------------
(* The script is safe to run again.                                        *)

LEMMA JobFacts ==
    ASSUME IngestTypeOK
    PROVE  /\ DOMAIN job = 1..Len(job) /\ Len(job) \in Nat
           /\ at \in Nat \ {0} /\ at <= Len(job) + 1
           /\ \A i \in DOMAIN job : job[i] \in Row /\ job[i].name \in Name
<1>1. job \in Seq(Row) /\ at \in 1..(Len(job) + 1)
  BY DEF IngestTypeOK
<1>2. \A r \in Row : r.name \in Name
  BY DEF Row
<1> QED BY <1>1, <1>2

\* upsert_perfume finds one row at most, and one of the record's key.
LEMMA FindsOne ==
    ASSUME UpsertInv, NEW r \in Row
    PROVE  /\ \A n : Finds(r, n) => n \in rows /\ n \in Name /\ n \in SameKey(r.name)
           /\ \A n, m : Finds(r, n) /\ Finds(r, m) => n = m
<1>1. r.name \in Name /\ rows \subseteq Name
  BY DEF Row, UpsertInv, TypeOK
<1> QED BY <1>1, SameKeyFacts DEF Finds

\* One more row of the job, before and after a step.
LEMMA OwnsNext ==
    ASSUME NEW k \in Nat \ {0}, NEW i \in Nat, NEW n
    PROVE  /\ Owns(i, n, k + 1) <=> \/ i = k /\ Claims(k, n)
                                    \/ Owns(i, n, k) /\ ~Claims(k, n)
           /\ (Owns(i, n, k + 1) <=> \/ i = k /\ Claims(k, n)
                                     \/ Owns(i, n, k) /\ ~Claims(k, n))'
<1>0. /\ i \in 1..(k + 1 - 1) <=> i \in 1..(k - 1) \/ i = k
      /\ \A j : j \in (i + 1)..(k + 1 - 1) <=> j \in (i + 1)..(k - 1) \/ (j = k /\ i < k)
  OBVIOUS
<1>1. Owns(i, n, k + 1) <=> \/ i = k /\ Claims(k, n)
                            \/ Owns(i, n, k) /\ ~Claims(k, n)
  BY <1>0 DEF Owns
<1>2. (Owns(i, n, k + 1) <=> \/ i = k /\ Claims(k, n)
                             \/ Owns(i, n, k) /\ ~Claims(k, n))'
  BY <1>0 DEF Owns
<1> QED BY <1>1, <1>2

\* Owning depends on the claims up to there only.
LEMMA OwnsFrame ==
    ASSUME NEW k \in Nat, NEW n, \A i \in 1..(k - 1) : Claims(i, n)' <=> Claims(i, n)
    PROVE  \A i \in 1..(k - 1) : Owns(i, n, k)' <=> Owns(i, n, k)
BY DEF Owns

\* After a merge a row of the table has one claimant, which is its owner.
LEMMA OneClaimant ==
    ASSUME IngestInv, ~daOnly, NEW i \in DOMAIN job, NEW n, Claims(i, n)
    PROVE  Owns(i, n, Len(job) + 1)
<1>1. ASSUME NEW j \in DOMAIN job, Claims(j, n) PROVE i = j
  <2>1. /\ job[i] \in Row /\ job[j] \in Row /\ job[i].name \in Name /\ job[j].name \in Name
    BY JobFacts DEF IngestInv
  <2>2. n \in Name /\ n \in SameKey(job[i].name) /\ n \in SameKey(job[j].name)
    BY <1>1, <2>1, FindsOne DEF Claims, IngestInv
  <2>3. job[i].name \in SameKey(job[j].name)
    BY <2>1, <2>2, SameKeyFacts
  <2> QED BY <2>3 DEF IngestInv, JobAnswersBatch
<1>2. DOMAIN job = 1..Len(job) /\ Len(job) \in Nat
  BY JobFacts DEF IngestInv
<1> QED BY <1>1, <1>2 DEF Owns

\* A row is written with the price it brings, or else with an estimate.
LEMMA PriceIsWritten ==
    ASSUME NEW row \in Row
    PROVE  Origin(PriceOf(row)) = OriginIn(row)
<1>1. CASE row.price = None
  BY <1>1 DEF Origin, OriginIn, PriceOf, Drawn, Estimates
<1>2. CASE row.price # None
  <2>1. row.price \in Source
    BY <1>2 DEF Row
  <2>2. row.price \notin Estimates
    BY <2>1 DEF Estimates, Source, LoadOrder
  <2> QED BY <1>2, <2>2 DEF Origin, OriginIn, PriceOf
<1> QED BY <1>1, <1>2

\* What an UPDATE, or one that is left out, does to the table.
LEMMA OverwriteEffect ==
    ASSUME IngestInv, Statement, NEW s \in Session, Overwrite(s)
    PROVE  \E k \in DOMAIN job, n \in Name :
              /\ k = at /\ at' = k + 1 /\ Finds(job[k], n) /\ ~HasIssues(job[k])
              /\ UNCHANGED <<rows, script, clean, settled>>
              /\ \/ /\ PriorityOf(job[k].source) < prio[n]
                    /\ UNCHANGED <<prio, notes, url, price>>
                 \/ /\ PriorityOf(job[k].source) >= prio[n]
                    /\ prio' = [prio EXCEPT ![n] = PriorityOf(job[k].source)]
                    /\ notes' = [notes EXCEPT ![n] = job[k].notes]
                    /\ price' = [price EXCEPT ![n] = PriceOf(job[k])]
                    /\ url' = [url EXCEPT ![n] = IF job[k].url = None THEN @ ELSE job[k].url]
<1>1. /\ pc[s] = "update" /\ at \in DOMAIN job /\ at' = at + 1
      /\ rec[s] = [name |-> job[at].name, prio |-> PriorityOf(job[at].source)]
      /\ UNCHANGED <<rows, script, clean, settled>>
  <2>1. pc[s] = "update" /\ at' = at + 1 /\ UNCHANGED <<rows, script, clean, settled>>
    BY DEF Overwrite, Update, NextRow
  <2> QED BY <2>1, JobFacts DEF IngestInv, IngestTypeOK
<1>2. Finds(job[at], target[s]) /\ ~HasIssues(job[at])
  BY <1>1 DEF Statement
<1>3. target[s] \in Name /\ seen[s] = prio[target[s]] /\ prio[target[s]] \in Int
  BY <1>1 DEF IngestInv, UpsertInv, ReadStands, TypeOK, Priority
<1>4. rec[s].prio = PriorityOf(job[at].source) /\ PriorityOf(job[at].source) \in Int
  BY <1>1, PriorityOfIsPriority
<1>5. \/ /\ PriorityOf(job[at].source) < prio[target[s]]
         /\ UNCHANGED <<prio, notes, url, price>>
      \/ /\ PriorityOf(job[at].source) >= prio[target[s]]
         /\ prio' = [prio EXCEPT ![target[s]] = PriorityOf(job[at].source)]
         /\ notes' = [notes EXCEPT ![target[s]] = job[at].notes]
         /\ price' = [price EXCEPT ![target[s]] = PriceOf(job[at])]
         /\ url' = [url EXCEPT ![target[s]] = IF job[at].url = None THEN @ ELSE job[at].url]
  BY <1>3, <1>4 DEF Overwrite, Update
<1> QED BY <1>1, <1>2, <1>3, <1>5

\* What an INSERT does: it is only reached by a record that finds no row.
LEMMA AddEffect ==
    ASSUME IngestInv, Statement, NEW s \in Session, Add(s)
    PROVE  \E k \in DOMAIN job, n \in Name :
              /\ k = at /\ at' = k + 1 /\ n = job[k].name /\ ~HasIssues(job[k])
              /\ n \notin rows /\ \A m : SameKey(n) \cap rows # {m}
              /\ UNCHANGED <<script, clean, settled>>
              /\ rows' = rows \cup {n}
              /\ prio' = [prio EXCEPT ![n] = PriorityOf(job[k].source)]
              /\ notes' = [notes EXCEPT ![n] = job[k].notes]
              /\ price' = [price EXCEPT ![n] = PriceOf(job[k])]
              /\ url' = [url EXCEPT ![n] = job[k].url]
<1>1. /\ pc[s] = "insert" /\ at \in DOMAIN job /\ at' = at + 1
      /\ rec[s] = [name |-> job[at].name, prio |-> PriorityOf(job[at].source)]
      /\ UNCHANGED <<script, clean, settled>>
  <2>1. pc[s] = "insert" /\ at' = at + 1 /\ UNCHANGED <<script, clean, settled>>
    BY DEF Add, Insert, NextRow
  <2> QED BY <2>1, JobFacts DEF IngestInv, IngestTypeOK
<1>2. ~HasIssues(job[at]) /\ job[at].name \in Name
  BY <1>1, JobFacts DEF Statement, IngestInv
<1>3. rec[s].name = job[at].name /\ rec[s].prio = PriorityOf(job[at].source)
  BY <1>1
<1>4. job[at].name \notin rows /\ Cardinality(SameKey(job[at].name) \cap rows) # 1
  BY <1>1, <1>3 DEF IngestInv, UpsertInv, ReadStands, Matches
<1>5. \A m : SameKey(job[at].name) \cap rows # {m}
  BY <1>4, FS_Singleton
<1>6. /\ rows' = rows \cup {job[at].name}
      /\ prio' = [prio EXCEPT ![job[at].name] = PriorityOf(job[at].source)]
      /\ notes' = [notes EXCEPT ![job[at].name] = job[at].notes]
      /\ price' = [price EXCEPT ![job[at].name] = PriceOf(job[at])]
      /\ url' = [url EXCEPT ![job[at].name] = job[at].url]
  BY <1>3, <1>4 DEF Add, Insert
<1> QED BY <1>1, <1>2, <1>4, <1>5, <1>6

\* One of several rows that are an only match is that match.
LEMMA OnlyMatch ==
    ASSUME IsFiniteSet(Name), NEW S \in SUBSET Name, Cardinality(S) = 1, NEW n \in S
    PROVE  S = {n}
<1>1. IsFiniteSet(S)
  BY FS_Subset
<1>2. PICK x : S = {x}
  BY <1>1, FS_Singleton
<1> QED BY <1>2

LEMMA InitStatement == IngestInit => Statement
<1> SUFFICES ASSUME IngestInit PROVE Statement
  OBVIOUS
<1>0. job = <<>> /\ todo = <<>>
  BY Zenon DEF IngestInit
<1>a. \A s \in Session : pc[s] = "idle"
  BY DEF IngestInit
<1>1. DOMAIN job = {} /\ DOMAIN todo = {} /\ \A s \in Session : pc[s] = "idle"
  BY <1>0, <1>a
<1>2. PICK origin \in [Name \ Nameless -> Earlier \cup {None}] :
        LET stored == {n \in Name \ Nameless : origin[n] # None} IN
        /\ url = [n \in Name |-> IF n \in stored /\ origin[n] = "fra_cleaned"
                                 THEN origin[n] ELSE None]
        /\ notes = [n \in Name |-> IF n \in stored THEN {origin[n]} ELSE {}]
        /\ price = [n \in Name |-> IF n \in stored THEN "drawn before" ELSE None]
  BY Zenon DEF IngestInit
<1>3. /\ url = [n \in Name |-> url[n]] /\ notes = [n \in Name |-> notes[n]]
      /\ price = [n \in Name |-> price[n]]
  BY <1>2
<1> QED BY <1>1, <1>3 DEF Statement

\* The sources of --da-only have no urls.
LEMMA LocalHasNoUrl ==
    ASSUME NEW q \in Loadable(TRUE), NEW i \in DOMAIN q
    PROVE  q[i].url = None
<1>1. PICK m \in 0..MaxRows : q \in [1..m -> Rows]
  BY DEF Loadable, BoundedSeq, SeqOf
<1>2. q[i] \in Rows /\ q[i].source \in LocalSource
  BY <1>1 DEF Loadable
<1> QED BY <1>2, IngestAssumption
        DEF LocalSource, DaFragranceRow, IndianRow, MainstreamRow, FraPerfumesRow,
            FraCleanedRow, NandiniRow

LEMMA StatementStep ==
    ASSUME IsFiniteSet(Name), IngestInv, Statement, IngestNext
    PROVE  Statement'
<1> DEFINE Columns == /\ url = [n \in Name |-> url[n]] /\ notes = [n \in Name |-> notes[n]]
                      /\ price = [n \in Name |-> price[n]]
           NoUrls == daOnly => /\ \A i \in DOMAIN todo : todo[i].url = None
                               /\ \A i \in DOMAIN job : job[i].url = None
           Found == \A s \in Session :
                       /\ pc[s] # "idle" => ~HasIssues(job[at])
                       /\ pc[s] = "update" => Finds(job[at], target[s])
<1>0. Columns /\ NoUrls /\ Found
  BY DEF Statement
<1> HIDE DEF Columns, NoUrls, Found
<1>1. Columns'
  <2>1. ASSUME NEW s \in Session, Overwrite(s) PROVE Columns'
    BY <1>0, <2>1, OverwriteEffect DEF Columns
  <2>2. ASSUME NEW s \in Session, Add(s) PROVE Columns'
    BY <1>0, <2>2, AddEffect DEF Columns
  <2>3. UNCHANGED <<url, notes, price>> => Columns'
    BY <1>0 DEF Columns
  <2> QED BY <2>1, <2>2, <2>3
          DEF IngestNext, Load, TakeRow, Seed, RunAgain, Raise, SkipInvalid, Begin,
              LookUpKey, CountError
<1>2. NoUrls'
  <2>1. CASE Load
    <3>1. PICK only \in BOOLEAN : \E q \in Loadable(only) : daOnly' = only /\ todo' = q
      BY <2>1 DEF Load
    <3>2. job' = <<>> /\ DOMAIN <<>> = {}
      BY <2>1 DEF Load
    <3> QED BY <3>1, <3>2, LocalHasNoUrl DEF NoUrls
  <2>2. CASE TakeRow
    <3> SUFFICES ASSUME daOnly PROVE NoUrls'
      BY <2>2 DEF TakeRow, NoUrls
    <3>1. /\ todo \in Seq(Row) /\ job \in Seq(Row) /\ todo # <<>>
          /\ todo' = Tail(todo) /\ job' = Append(job, Head(todo))
      BY <2>2 DEF TakeRow, IngestInv, IngestTypeOK
    <3>2. /\ \A i \in DOMAIN todo' : i + 1 \in DOMAIN todo /\ todo'[i] = todo[i + 1]
          /\ 1 \in DOMAIN todo /\ Head(todo) = todo[1]
      BY <3>1
    <3>3. \A i \in DOMAIN job' : \/ i \in DOMAIN job /\ job'[i] = job[i]
                                 \/ job'[i] = Head(todo)
      BY <3>1
    <3> QED BY <1>0, <3>2, <3>3 DEF NoUrls
  <2>3. CASE Seed
    <3>1. PICK k \in 1..Len(job) : job' = SubSeq(job, 1, k)
      BY <2>3 DEF Seed
    <3>2. job \in Seq(Row)
      BY DEF IngestInv, IngestTypeOK
    <3>3. \A i \in DOMAIN job' : i \in DOMAIN job /\ job'[i] = job[i]
      BY <3>1, <3>2
    <3> QED BY <1>0, <2>3, <3>3 DEF NoUrls, Seed
  <2>4. UNCHANGED <<job, todo, daOnly>> => NoUrls'
    BY <1>0 DEF NoUrls
  <2> QED BY <2>1, <2>2, <2>3, <2>4
          DEF IngestNext, RunAgain, Raise, SkipInvalid, Begin, LookUpKey, Overwrite, Add,
              CountError, script
<1>3. Found'
  <2>1. (\A s \in Session : pc'[s] = "idle") => Found'
    BY DEF Found
  <2>2. CASE Load \/ TakeRow \/ Seed
    <3>1. \A s \in Session : pc'[s] = "idle"
      BY <2>2 DEF Load, TakeRow, Seed, vars, IngestInv, IngestTypeOK
    <3> QED BY <2>1, <3>1
  <2>3. ASSUME NEW s \in Session, RunAgain(s) \/ Raise(s) \/ SkipInvalid(s) PROVE Found'
    BY <2>1, <2>3, ScriptIsOneSession
       DEF RunAgain, Raise, SkipInvalid, AtRow, vars, OneSession
  <2>4. ASSUME NEW s \in Session, Overwrite(s) \/ Add(s) \/ CountError(s) PROVE Found'
    <3>1. pc' = [pc EXCEPT ![s] = "idle"]
      BY <2>4 DEF Overwrite, Add, CountError, Update, Insert, Fail, Return
    <3> QED BY <2>1, <3>1, ScriptIsOneSession DEF OneSession, IngestInv, UpsertInv, TypeOK
  <2>5. ASSUME NEW s \in Session, Begin(s) PROVE Found'
    <3>1. /\ ~HasIssues(job[at]) /\ UNCHANGED <<rows, job, at>>
          /\ IF job[at].name \in rows THEN Read(s, job[at].name) ELSE NoMatch(s, "matchKey")
      BY <2>5 DEF Begin, MatchExact, script
    <3>2. CASE job[at].name \in rows
      BY <3>1, <3>2, ScriptIsOneSession
         DEF Found, Finds, HasIssues, Read, OneSession, IngestInv, UpsertInv, TypeOK
    <3>3. CASE job[at].name \notin rows
      BY <3>1, <3>3, ScriptIsOneSession
         DEF Found, HasIssues, NoMatch, OneSession, IngestInv, UpsertInv, TypeOK
    <3> QED BY <3>2, <3>3
  <2>6. ASSUME NEW s \in Session, LookUpKey(s) PROVE Found'
    <3>1. /\ pc[s] = "matchKey" /\ UNCHANGED <<rows, job, at>> /\ rec[s].name = job[at].name
          /\ ~HasIssues(job[at]) /\ job[at].name \notin rows
      <4>1. pc[s] = "matchKey" /\ UNCHANGED <<rows, job, at>>
        BY <2>6 DEF LookUpKey, MatchKey, script
      <4> QED BY <1>0, <4>1 DEF Found, IngestInv, IngestTypeOK, UpsertInv, ReadStands
    <3>2. CASE Cardinality(Matches(s)) = 1
      <4>1. PICK n \in Matches(s) : Read(s, n)
        BY <2>6, <3>2 DEF LookUpKey, MatchKey
      <4>2. Matches(s) \in SUBSET Name
        BY DEF Matches, SameKey
      <4>3. SameKey(job[at].name) \cap rows = {n}
        BY <3>1, <3>2, <4>1, <4>2, OnlyMatch DEF Matches
      <4>4. Finds(job[at], n)'
        BY <3>1, <4>3 DEF Finds, SameKey
      <4> QED BY <3>1, <4>1, <4>4, ScriptIsOneSession
              DEF Found, HasIssues, Read, OneSession, IngestInv, UpsertInv, TypeOK
    <3>3. CASE Cardinality(Matches(s)) # 1
      <4>1. NoMatch(s, "insert")
        BY <2>6, <3>3 DEF LookUpKey, MatchKey
      <4> QED BY <3>1, <4>1, ScriptIsOneSession
              DEF Found, HasIssues, NoMatch, OneSession, IngestInv, UpsertInv, TypeOK
    <3> QED BY <3>2, <3>3
  <2> QED BY <2>2, <2>3, <2>4, <2>5, <2>6 DEF IngestNext
<1> QED BY <1>1, <1>2, <1>3 DEF Statement, Columns, NoUrls, Found

\* An UPDATE of row n changes no claim to another row, and only row k of the job
\* is answered by n.
LEMMA OverwriteClaims ==
    ASSUME IngestInv, NEW k \in DOMAIN job, NEW n \in Name, Finds(job[k], n),
           UNCHANGED <<rows, job>>,
           \/ prio' = prio
           \/ prio' = [prio EXCEPT ![n] = PriorityOf(job[k].source)]
    PROVE  /\ \A i, m : Finds(job[i], m)' <=> Finds(job[i], m)
           /\ \A i, m : m # n /\ m \in Name => (Claims(i, m)' <=> Claims(i, m))
           /\ \A m : m # n => ~Claims(k, m) /\ ~Claims(k, m)'
           /\ \A m \in Name : m # n => prio'[m] = prio[m]
           /\ prio'[n] = prio[n] \/ prio'[n] = PriorityOf(job[k].source)
<1>1. \A i, m : Finds(job[i], m)' <=> Finds(job[i], m)
  BY DEF Finds, SameKey
<1>2. prio \in [Name -> Priority]
  BY DEF IngestInv, UpsertInv, TypeOK
<1>3. /\ \A m \in Name : m # n => prio'[m] = prio[m]
      /\ prio'[n] = prio[n] \/ prio'[n] = PriorityOf(job[k].source)
  BY <1>2
<1>4. \A i, m : m # n /\ m \in Name => (Claims(i, m)' <=> Claims(i, m))
  BY <1>1, <1>3 DEF Claims, HasIssues
<1>5. \A m : m # n => ~Finds(job[k], m)
  BY FindsOne, JobFacts DEF IngestInv
<1>6. \A m : m # n => ~Claims(k, m) /\ ~Claims(k, m)'
  BY <1>1, <1>5 DEF Claims
<1> QED BY <1>1, <1>3, <1>4, <1>6

LEMMA FirstOverwrite ==
    ASSUME IngestInv, Statement, FirstRun, NEW s \in Session, Overwrite(s)
    PROVE  FirstRun'
<1> SUFFICES ASSUME run = 1, clean
             PROVE  (/\ \A i \in 1..(at - 1) : Answered(i)
                     /\ \A n \in Name, i \in 1..(at - 1) : Owns(i, n, at) =>
                           /\ notes[n] = job[i].notes /\ Origin(price[n]) = OriginIn(job[i])
                           /\ job[i].url = None \/ url[n] = job[i].url)'
  BY OverwriteEffect DEF FirstRun, script
<1>1. PICK k \in DOMAIN job, n \in Name :
          /\ k = at /\ at' = k + 1 /\ Finds(job[k], n) /\ ~HasIssues(job[k])
          /\ UNCHANGED <<rows, script, clean, settled>>
          /\ \/ /\ PriorityOf(job[k].source) < prio[n]
                /\ UNCHANGED <<prio, notes, url, price>>
             \/ /\ PriorityOf(job[k].source) >= prio[n]
                /\ prio' = [prio EXCEPT ![n] = PriorityOf(job[k].source)]
                /\ notes' = [notes EXCEPT ![n] = job[k].notes]
                /\ price' = [price EXCEPT ![n] = PriceOf(job[k])]
                /\ url' = [url EXCEPT ![n] = IF job[k].url = None THEN @ ELSE job[k].url]
  BY OverwriteEffect
<1>2. /\ k \in Nat \ {0} /\ job' = job /\ DOMAIN job = 1..Len(job) /\ Len(job) \in Nat
      /\ prio \in [Name -> Priority] /\ \A m \in Name : prio[m] \in Int
      /\ PriorityOf(job[k].source) \in Int
      /\ \A i \in DOMAIN job : PriorityOf(job[i].source) \in Int
      /\ \A i \in 1..(k - 1) : i \in DOMAIN job /\ i \in Nat
  BY <1>1, JobFacts, PriorityOfIsPriority DEF script, IngestInv, UpsertInv, TypeOK, Priority
<1>3. /\ \A i, m : Finds(job[i], m)' <=> Finds(job[i], m)
      /\ \A i, m : m # n /\ m \in Name => (Claims(i, m)' <=> Claims(i, m))
      /\ \A m : m # n => ~Claims(k, m) /\ ~Claims(k, m)'
      /\ \A m \in Name : m # n => prio'[m] = prio[m]
      /\ prio'[n] = prio[n] \/ prio'[n] = PriorityOf(job[k].source)
  <2>1. /\ Finds(job[k], n) /\ UNCHANGED <<rows, job>>
        /\ \/ prio' = prio
           \/ prio' = [prio EXCEPT ![n] = PriorityOf(job[k].source)]
    BY <1>1, <1>2
  <2> QED BY <2>1, OverwriteClaims, Zenon
<1>4. prio'[n] >= prio[n] /\ prio'[n] >= PriorityOf(job[k].source) /\ prio'[n] \in Int
  BY <1>1, <1>2
<1>5. ASSUME NEW i \in 1..k PROVE Answered(i)'
  <2>1. CASE i = k
    BY <1>1, <1>2, <1>3, <1>4, <2>1 DEF Answered
  <2>2. CASE i # k
    <3>1. i \in 1..(k - 1)
      BY <1>2, <2>2
    <3>2. Answered(i)
      BY <1>1, <3>1 DEF FirstRun
    <3>3. CASE HasIssues(job[i])
      BY <1>2, <3>3 DEF Answered, HasIssues
    <3>4. CASE \E m \in Name : Finds(job[i], m) /\ prio[m] >= PriorityOf(job[i].source)
      <4>1. PICK m \in Name : Finds(job[i], m) /\ prio[m] >= PriorityOf(job[i].source)
        BY <3>4
      <4>2. prio'[m] >= PriorityOf(job[i].source)
        BY <1>2, <1>3, <1>4, <4>1
      <4> QED BY <1>2, <1>3, <4>1, <4>2 DEF Answered
    <3> QED BY <3>2, <3>3, <3>4 DEF Answered
  <2> QED BY <2>1, <2>2
<1>6. ASSUME NEW m \in Name, NEW i \in 1..k, Owns(i, m, k + 1)'
      PROVE  /\ notes'[m] = job[i].notes /\ Origin(price'[m]) = OriginIn(job[i])
             /\ job[i].url = None \/ url'[m] = job[i].url
  <2>0. /\ i \in Nat /\ notes = [x \in Name |-> notes[x]] /\ url = [x \in Name |-> url[x]]
        /\ price = [x \in Name |-> price[x]] /\ Origin(PriceOf(job[k])) = OriginIn(job[k])
    BY <1>2, JobFacts, PriceIsWritten DEF Statement, IngestInv
  <2>1. \/ i = k /\ Claims(k, m)'
        \/ Owns(i, m, k)' /\ ~Claims(k, m)'
    BY <1>2, <1>6, <2>0, OwnsNext
  <2>2. ASSUME Owns(i, m, k)
        PROVE  /\ notes[m] = job[i].notes /\ Origin(price[m]) = OriginIn(job[i])
               /\ job[i].url = None \/ url[m] = job[i].url
    BY <1>1, <2>2 DEF FirstRun, Owns
  <2>3. CASE m # n
    <3>1. Owns(i, m, k)'
      BY <1>3, <2>1, <2>3
    <3>2. i \in 1..(k - 1)
      BY <1>2, <3>1 DEF Owns
    <3>3. Owns(i, m, k)
      BY <1>2, <1>3, <2>3, <3>1, <3>2, OwnsFrame
    <3>4. notes'[m] = notes[m] /\ price'[m] = price[m] /\ url'[m] = url[m]
      BY <1>1, <2>0, <2>3
    <3> QED BY <2>2, <3>3, <3>4
  <2>4. CASE m = n /\ PriorityOf(job[k].source) < prio[n]
    <3>1. UNCHANGED <<prio, notes, url, price>>
      BY <1>1, <1>2, <2>4
    <3>2. ~Claims(k, n)'
      BY <1>2, <2>4, <3>1 DEF Claims
    <3>3. Owns(i, n, k)'
      BY <2>1, <2>4, <3>2
    <3>4. i \in 1..(k - 1) /\ \A j \in 1..(k - 1) : Claims(j, n)' <=> Claims(j, n)
      BY <1>2, <1>3, <3>1, <3>3 DEF Owns, Claims, HasIssues
    <3>5. Owns(i, n, k)
      BY <1>2, <3>3, <3>4, OwnsFrame
    <3> QED BY <2>2, <2>4, <3>1, <3>5
  <2>5. CASE m = n /\ PriorityOf(job[k].source) >= prio[n]
    <3>1. /\ prio' = [prio EXCEPT ![n] = PriorityOf(job[k].source)]
          /\ notes' = [notes EXCEPT ![n] = job[k].notes]
          /\ price' = [price EXCEPT ![n] = PriceOf(job[k])]
          /\ url' = [url EXCEPT ![n] = IF job[k].url = None THEN @ ELSE job[k].url]
      BY <1>1, <1>2, <2>5
    <3>2. Claims(k, n)'
      BY <1>1, <1>2, <1>3, <3>1 DEF Claims, HasIssues
    <3>3. i = k
      BY <2>1, <2>5, <3>2
    <3> QED BY <2>0, <2>5, <3>1, <3>3
  <2> QED BY <1>2, <2>3, <2>4, <2>5
<1>7. 1..(at' - 1) = 1..k /\ at' = k + 1
  BY <1>1, <1>2
<1>8. ASSUME NEW m \in Name, NEW i \in 1..k, Owns(i, m, at)' PROVE Owns(i, m, k + 1)'
  BY <1>7, <1>8 DEF Owns
<1> QED BY <1>2, <1>5, <1>6, <1>7, <1>8

\* An INSERT of row n: what the other rows are claimed by stays the same, and n is
\* claimed by nothing before row k.
LEMMA AddClaims ==
    ASSUME IngestInv, Statement, NEW s \in Session, Add(s)
    PROVE  \E k \in DOMAIN job, n \in Name :
              /\ k = at /\ at' = k + 1 /\ n = job[k].name /\ ~HasIssues(job[k])
              /\ n \notin rows /\ \A m : SameKey(n) \cap rows # {m}
              /\ UNCHANGED <<script, clean, settled>>
              /\ rows' = rows \cup {n}
              /\ prio' = [prio EXCEPT ![n] = PriorityOf(job[k].source)]
              /\ notes' = [notes EXCEPT ![n] = job[k].notes]
              /\ price' = [price EXCEPT ![n] = PriceOf(job[k])]
              /\ url' = [url EXCEPT ![n] = job[k].url]
              /\ \A i \in DOMAIN job, m \in Name : m # n => (Finds(job[i], m)' <=> Finds(job[i], m))
              /\ \A i \in DOMAIN job, m \in Name : m # n => (Claims(i, m)' <=> Claims(i, m))
              /\ \A m : m # n => ~Claims(k, m)'
              /\ \A i \in DOMAIN job, m \in Name :
                    Finds(job[i], m) => m # n /\ Finds(job[i], m)' /\ ~Finds(job[i], n)'
              /\ \A m \in Name : m # n => prio'[m] = prio[m]
              /\ prio'[n] = PriorityOf(job[k].source) /\ n \in Name /\ Finds(job[k], n)'
<1>0. PICK k \in DOMAIN job, n \in Name :
          /\ k = at /\ at' = k + 1 /\ n = job[k].name /\ ~HasIssues(job[k])
          /\ n \notin rows /\ \A m : SameKey(n) \cap rows # {m}
          /\ UNCHANGED <<script, clean, settled>>
          /\ rows' = rows \cup {n}
          /\ prio' = [prio EXCEPT ![n] = PriorityOf(job[k].source)]
          /\ notes' = [notes EXCEPT ![n] = job[k].notes]
          /\ price' = [price EXCEPT ![n] = PriceOf(job[k])]
          /\ url' = [url EXCEPT ![n] = job[k].url]
  BY AddEffect
<1>a. n = job[k].name /\ n \notin rows /\ rows' = rows \cup {n} /\ job' = job
  BY <1>0 DEF script
<1>b. \A m : SameKey(n) \cap rows # {m}
  BY <1>0
<1>1. /\ \A i \in DOMAIN job : job[i].name \in Name
      /\ n \in Name /\ rows \subseteq Name /\ prio \in [Name -> Priority]
  BY JobFacts DEF IngestInv, UpsertInv, TypeOK
<1>2. /\ \A m \in Name : m # n => prio'[m] = prio[m]
      /\ prio'[n] = PriorityOf(job[k].source)
  BY <1>0, <1>1
<1>3. ASSUME NEW i \in DOMAIN job, NEW m, m # n
      PROVE  Finds(job[i], m)' <=> Finds(job[i], m)
  <2>1. ASSUME Finds(job[i], m) PROVE Finds(job[i], m)'
    <3>1. CASE m = job[i].name
      BY <1>a, <1>b, <2>1, <3>1 DEF Finds
    <3>2. CASE job[i].name \notin rows /\ SameKey(job[i].name) \cap rows = {m}
      <4>1. n \notin SameKey(job[i].name)
        BY <1>a, <1>b, <1>1, <3>2, SameKeyFacts
      <4>2. job[i].name # n
        BY <1>a, <1>b, <1>1, <4>1, SameKeyFacts
      <4> QED BY <1>a, <1>b, <3>2, <4>1, <4>2 DEF Finds, SameKey
    <3> QED BY <2>1, <3>1, <3>2 DEF Finds
  <2>2. ASSUME Finds(job[i], m)' PROVE Finds(job[i], m)
    <3>1. m \in rows
      BY <1>a, <1>b, <1>3, <2>2 DEF Finds
    <3>2. CASE m = job[i].name
      BY <1>a, <1>b, <3>1, <3>2 DEF Finds
    <3>3. CASE job[i].name \notin rows' /\ SameKey(job[i].name) \cap rows' = {m}
      BY <1>a, <1>b, <1>3, <3>1, <3>3 DEF Finds
    <3> QED BY <1>a, <2>2, <3>2, <3>3 DEF Finds, SameKey
  <2> QED BY <2>1, <2>2
<1>4. \A i \in DOMAIN job, m \in Name : m # n => (Claims(i, m)' <=> Claims(i, m))
  BY <1>a, <1>2, <1>3 DEF Claims, HasIssues
<1>5. Finds(job[k], n)'
  BY <1>a DEF Finds
<1>6. \A m : m # n => ~Claims(k, m)'
  BY <1>a DEF Claims, Finds
<1>7. ASSUME NEW i \in DOMAIN job, NEW m \in Name, Finds(job[i], m)
      PROVE  m # n /\ Finds(job[i], m)' /\ ~Finds(job[i], n)'
  <2>1. m # n /\ Finds(job[i], m)'
    BY <1>a, <1>3, <1>7 DEF Finds
  <2>2. ASSUME Finds(job[i], n)' PROVE FALSE
    BY <1>a, <1>b, <2>1, <2>2 DEF Finds
  <2> QED BY <2>1, <2>2
<1>8. /\ \A i \in DOMAIN job, m \in Name : m # n => (Finds(job[i], m)' <=> Finds(job[i], m))
      /\ \A i \in DOMAIN job, m \in Name : m # n => (Claims(i, m)' <=> Claims(i, m))
      /\ \A m : m # n => ~Claims(k, m)'
      /\ \A i \in DOMAIN job, m \in Name :
            Finds(job[i], m) => m # n /\ Finds(job[i], m)' /\ ~Finds(job[i], n)'
      /\ \A m \in Name : m # n => prio'[m] = prio[m]
      /\ prio'[n] = PriorityOf(job[k].source) /\ n \in Name /\ Finds(job[k], n)'
  BY <1>1, <1>2, <1>3, <1>4, <1>5, <1>6, <1>7
<1> QED BY <1>0, <1>8

LEMMA FirstAdd ==
    ASSUME IngestInv, Statement, FirstRun, NEW s \in Session, Add(s)
    PROVE  FirstRun'
<1> SUFFICES ASSUME run = 1, clean
             PROVE  (/\ \A i \in 1..(at - 1) : Answered(i)
                     /\ \A n \in Name, i \in 1..(at - 1) : Owns(i, n, at) =>
                           /\ notes[n] = job[i].notes /\ Origin(price[n]) = OriginIn(job[i])
                           /\ job[i].url = None \/ url[n] = job[i].url)'
  BY AddEffect DEF FirstRun, script
<1>1. PICK k \in DOMAIN job, n \in Name :
          /\ k = at /\ at' = k + 1 /\ n = job[k].name /\ ~HasIssues(job[k])
          /\ n \notin rows /\ \A m : SameKey(n) \cap rows # {m}
          /\ UNCHANGED <<script, clean, settled>>
          /\ rows' = rows \cup {n}
          /\ prio' = [prio EXCEPT ![n] = PriorityOf(job[k].source)]
          /\ notes' = [notes EXCEPT ![n] = job[k].notes]
          /\ price' = [price EXCEPT ![n] = PriceOf(job[k])]
          /\ url' = [url EXCEPT ![n] = job[k].url]
          /\ \A i \in DOMAIN job, m \in Name : m # n => (Finds(job[i], m)' <=> Finds(job[i], m))
          /\ \A i \in DOMAIN job, m \in Name : m # n => (Claims(i, m)' <=> Claims(i, m))
          /\ \A m : m # n => ~Claims(k, m)'
          /\ \A i \in DOMAIN job, m \in Name :
                Finds(job[i], m) => m # n /\ Finds(job[i], m)' /\ ~Finds(job[i], n)'
          /\ \A m \in Name : m # n => prio'[m] = prio[m]
          /\ prio'[n] = PriorityOf(job[k].source) /\ n \in Name /\ Finds(job[k], n)'
  BY AddClaims
<1>2. /\ k \in Nat \ {0} /\ job' = job /\ DOMAIN job = 1..Len(job) /\ Len(job) \in Nat
      /\ \A m \in Name : prio[m] \in Int
      /\ PriorityOf(job[k].source) \in Int
      /\ \A i \in DOMAIN job : PriorityOf(job[i].source) \in Int
      /\ \A i \in 1..(k - 1) : i \in DOMAIN job /\ i \in Nat
  BY <1>1, JobFacts, PriorityOfIsPriority DEF script, IngestInv, UpsertInv, TypeOK, Priority
<1>3. /\ \A i \in DOMAIN job, m \in Name : m # n => (Finds(job[i], m)' <=> Finds(job[i], m))
      /\ \A i \in DOMAIN job, m \in Name : m # n => (Claims(i, m)' <=> Claims(i, m))
      /\ \A m : m # n => ~Claims(k, m)'
      /\ \A i \in DOMAIN job, m \in Name :
            Finds(job[i], m) => m # n /\ Finds(job[i], m)' /\ ~Finds(job[i], n)'
      /\ \A m \in Name : m # n => prio'[m] = prio[m]
      /\ prio'[n] = PriorityOf(job[k].source) /\ n \in Name /\ Finds(job[k], n)'
  BY <1>1
<1>4. ASSUME NEW i \in 1..(k - 1) PROVE Answered(i)
  BY <1>1 DEF FirstRun
<1>5. ASSUME NEW i \in 1..k PROVE Answered(i)'
  <2>1. CASE i = k
    BY <1>2, <1>3, <2>1 DEF Answered
  <2>2. CASE i # k
    <3>1. i \in 1..(k - 1) /\ i \in DOMAIN job
      BY <1>2, <2>2
    <3>2. CASE HasIssues(job[i])
      BY <1>2, <3>2 DEF Answered, HasIssues
    <3>3. CASE \E m \in Name : Finds(job[i], m) /\ prio[m] >= PriorityOf(job[i].source)
      BY <1>2, <1>3, <3>1, <3>3 DEF Answered
    <3> QED BY <1>4, <3>1, <3>2, <3>3 DEF Answered
  <2> QED BY <2>1, <2>2
<1>6. ASSUME NEW m \in Name, NEW i \in 1..k, Owns(i, m, k + 1)'
      PROVE  /\ notes'[m] = job[i].notes /\ Origin(price'[m]) = OriginIn(job[i])
             /\ job[i].url = None \/ url'[m] = job[i].url
  <2>0. /\ i \in Nat /\ notes = [x \in Name |-> notes[x]] /\ url = [x \in Name |-> url[x]]
        /\ price = [x \in Name |-> price[x]] /\ Origin(PriceOf(job[k])) = OriginIn(job[k])
    BY <1>2, JobFacts, PriceIsWritten DEF Statement, IngestInv
  <2>1. \/ i = k /\ Claims(k, m)'
        \/ Owns(i, m, k)' /\ ~Claims(k, m)'
    BY <1>2, <1>6, <2>0, OwnsNext
  <2>2. CASE m # n
    <3>1. Owns(i, m, k)'
      BY <1>3, <2>1, <2>2
    <3>2. i \in 1..(k - 1)
      BY <1>2, <3>1 DEF Owns
    <3>3. Owns(i, m, k)
      BY <1>2, <1>3, <2>2, <3>1, <3>2, OwnsFrame
    <3>4. /\ notes[m] = job[i].notes /\ Origin(price[m]) = OriginIn(job[i])
          /\ job[i].url = None \/ url[m] = job[i].url
      BY <1>1, <3>2, <3>3 DEF FirstRun
    <3>5. notes'[m] = notes[m] /\ price'[m] = price[m] /\ url'[m] = url[m]
      BY <1>1, <2>0, <2>2
    <3> QED BY <3>4, <3>5
  <2>3. CASE m = n
    <3>1. ASSUME i # k PROVE FALSE
      <4>1. Owns(i, n, k)'
        BY <2>1, <2>3, <3>1
      <4>2. i \in 1..(k - 1) /\ i \in DOMAIN job /\ ~HasIssues(job[i]) /\ Finds(job[i], n)'
        BY <1>2, <4>1 DEF Owns, Claims, HasIssues
      <4>3. PICK x \in Name : Finds(job[i], x)
        BY <1>4, <4>2 DEF Answered
      <4> QED BY <1>3, <4>2, <4>3
    <3>2. i = k
      BY <3>1
    <3> QED BY <1>1, <2>0, <2>3, <3>2
  <2> QED BY <2>2, <2>3
<1>7. 1..(at' - 1) = 1..k /\ at' = k + 1
  BY <1>1, <1>2
<1>8. ASSUME NEW m \in Name, NEW i \in 1..k, Owns(i, m, at)' PROVE Owns(i, m, k + 1)'
  BY <1>7, <1>8 DEF Owns
<1> QED BY <1>2, <1>5, <1>6, <1>7, <1>8

\* While rows, prio and the job stay, so does what is claimed and answered.
LEMMA SameTable ==
    ASSUME UNCHANGED <<rows, prio, job>>
    PROVE  /\ \A i : Answered(i)' <=> Answered(i)
           /\ \A i, n : Claims(i, n)' <=> Claims(i, n)
           /\ \A k, i, n : Owns(i, n, k)' <=> Owns(i, n, k)
<1>1. \A i, n : Finds(job[i], n)' <=> Finds(job[i], n)
  BY DEF Finds, SameKey
<1>2. \A i, n : Claims(i, n)' <=> Claims(i, n)
  BY <1>1 DEF Claims, HasIssues
<1>3. \A i : Answered(i)' <=> Answered(i)
  BY <1>1 DEF Answered, HasIssues
<1>4. \A k, i, n : Owns(i, n, k)' <=> Owns(i, n, k)
  BY <1>2 DEF Owns
<1> QED BY <1>2, <1>3, <1>4

\* In a second run an UPDATE writes what the row's owners wrote before.
LEMMA SecondOverwrite ==
    ASSUME IngestInv, Statement, SecondRun, NEW s \in Session, Overwrite(s)
    PROVE  SecondRun'
<1> SUFFICES ASSUME run = 2, settled # <<>> PROVE SecondRun'
  BY OverwriteEffect DEF SecondRun, script
<1>1. PICK k \in DOMAIN job, n \in Name :
          /\ k = at /\ at' = k + 1 /\ Finds(job[k], n) /\ ~HasIssues(job[k])
          /\ UNCHANGED <<rows, script, clean, settled>>
          /\ \/ /\ PriorityOf(job[k].source) < prio[n]
                /\ UNCHANGED <<prio, notes, url, price>>
             \/ /\ PriorityOf(job[k].source) >= prio[n]
                /\ prio' = [prio EXCEPT ![n] = PriorityOf(job[k].source)]
                /\ notes' = [notes EXCEPT ![n] = job[k].notes]
                /\ price' = [price EXCEPT ![n] = PriceOf(job[k])]
                /\ url' = [url EXCEPT ![n] = IF job[k].url = None THEN @ ELSE job[k].url]
  BY OverwriteEffect
<1>2. PICK M, P, L : M = settled[4] /\ P = settled[5] /\ L = Len(job)
  OBVIOUS
<1>3. /\ k \in Nat \ {0} /\ job' = job /\ DOMAIN job = 1..L /\ L \in Nat
      /\ prio = [m \in Name |-> prio[m]] /\ prio[n] \in Int
      /\ PriorityOf(job[k].source) \in Int
      /\ url = [x \in Name |-> url[x]] /\ notes = [x \in Name |-> notes[x]]
      /\ price = [x \in Name |-> price[x]] /\ Origin(PriceOf(job[k])) = OriginIn(job[k])
  BY <1>1, <1>2, JobFacts, PriorityOfIsPriority, PriceIsWritten
     DEF script, IngestInv, UpsertInv, TypeOK, Priority, Statement
<1>4. /\ settled = <<rows, prio, url, M, P>> /\ M = [m \in Name |-> M[m]]
      /\ \A i \in DOMAIN job : Answered(i)
      /\ \A m \in Name, i \in DOMAIN job : Owns(i, m, L + 1) =>
            /\ M[m] = job[i].notes /\ Origin(P[m]) = OriginIn(job[i])
            /\ job[i].url = None \/ url[m] = job[i].url
      /\ ~daOnly => /\ notes = M
                   /\ \A m \in Name : Origin(price[m]) = Origin(P[m])
      /\ daOnly /\ clean => \A m \in Name :
            \/ notes[m] = M[m] /\ Origin(price[m]) = Origin(P[m])
            \/ \E i \in 1..(at - 1) :
                  /\ Owns(i, m, at)
                  /\ notes[m] = job[i].notes /\ Origin(price[m]) = OriginIn(job[i])
  BY <1>2 DEF SecondRun
<1>5. prio[n] >= PriorityOf(job[k].source)
  <2>1. PICK m \in Name : Finds(job[k], m) /\ prio[m] >= PriorityOf(job[k].source)
    BY <1>1, <1>4 DEF Answered
  <2> QED BY <1>1, <2>1, FindsOne, JobFacts DEF IngestInv
<1>6. prio' = prio
  BY <1>1, <1>3, <1>5
<1>7. \/ /\ ~Claims(k, n)
         /\ UNCHANGED <<notes, url, price>>
      \/ /\ Claims(k, n)
         /\ notes' = [notes EXCEPT ![n] = job[k].notes]
         /\ price' = [price EXCEPT ![n] = PriceOf(job[k])]
         /\ url' = [url EXCEPT ![n] = IF job[k].url = None THEN @ ELSE job[k].url]
  BY <1>1, <1>3, <1>5 DEF Claims
<1>8. Claims(k, n) /\ ~daOnly => /\ M[n] = job[k].notes /\ Origin(P[n]) = OriginIn(job[k])
                                 /\ job[k].url = None \/ url[n] = job[k].url
  BY <1>2, <1>4, OneClaimant
<1>9. url' = url
  <2>1. daOnly => job[k].url = None
    BY DEF Statement
  <2> QED BY <1>3, <1>7, <1>8, <2>1
<1>10. ~daOnly => /\ notes' = M
                  /\ \A m \in Name : Origin(price'[m]) = Origin(P[m])
  BY <1>3, <1>4, <1>7, <1>8
<1>11. /\ \A i \in DOMAIN job : Answered(i)'
       /\ \A i, m : Claims(i, m)' <=> Claims(i, m)
       /\ \A K, i, m : Owns(i, m, K)' <=> Owns(i, m, K)
  BY <1>1, <1>3, <1>4, <1>6, SameTable
<1>12. \A m : m # n => ~Claims(k, m)
  BY <1>1, FindsOne, JobFacts DEF IngestInv, Claims
<1>13. ASSUME daOnly, clean, NEW m \in Name
       PROVE  \/ notes'[m] = M[m] /\ Origin(price'[m]) = Origin(P[m])
              \/ \E i \in 1..k :
                    /\ Owns(i, m, k + 1)'
                    /\ notes'[m] = job[i].notes /\ Origin(price'[m]) = OriginIn(job[i])
  <2>1. CASE Claims(k, m)
    <3>1. notes'[m] = job[k].notes /\ Origin(price'[m]) = OriginIn(job[k])
      BY <1>3, <1>7, <1>12, <2>1
    <3>2. Owns(k, m, k + 1)'
      BY <1>3, <1>11, <2>1, OwnsNext
    <3> QED BY <1>3, <3>1, <3>2
  <2>2. CASE ~Claims(k, m)
    <3>1. notes'[m] = notes[m] /\ price'[m] = price[m]
      BY <1>3, <1>7, <2>2
    <3>2. ASSUME NEW i \in 1..(k - 1), Owns(i, m, k) PROVE i \in 1..k /\ Owns(i, m, k + 1)'
      <4>1. i \in Nat /\ i \in 1..k
        BY <1>3
      <4> QED BY <1>3, <1>11, <2>2, <3>2, <4>1, OwnsNext
    <3> QED BY <1>1, <1>4, <1>13, <3>1, <3>2
  <2> QED BY <2>1, <2>2
<1>14. /\ settled' = <<rows', prio', url', M, P>> /\ settled'[4] = M /\ settled'[5] = P
       /\ Len(job') = L
       /\ daOnly' = daOnly /\ clean' = clean /\ at' = k + 1 /\ 1..(at' - 1) = 1..k
  BY <1>1, <1>2, <1>3, <1>4, <1>6, <1>9 DEF script
<1> QED BY <1>3, <1>4, <1>9, <1>10, <1>11, <1>13, <1>14 DEF SecondRun

\* A second run inserts nothing.
LEMMA SecondAdd ==
    ASSUME IngestInv, Statement, SecondRun, NEW s \in Session, Add(s)
    PROVE  SecondRun'
<1> SUFFICES ASSUME run = 2, settled # <<>> PROVE FALSE
  BY AddEffect DEF SecondRun, script
<1>1. PICK k \in DOMAIN job, n \in Name :
          /\ n = job[k].name /\ ~HasIssues(job[k])
          /\ n \notin rows /\ \A m : SameKey(n) \cap rows # {m}
  BY AddEffect
<1>2. Answered(k)
  BY DEF SecondRun
<1>3. PICK m \in Name : Finds(job[k], m)
  BY <1>1, <1>2 DEF Answered
<1> QED BY <1>1, <1>3 DEF Finds

\* A row that is skipped owns nothing.
LEMMA SkipStep ==
    ASSUME IngestInv, FirstRun, SecondRun, NEW s \in Session, SkipInvalid(s)
    PROVE  FirstRun' /\ SecondRun'
<1>1. PICK k : k = at
  OBVIOUS
<1>2. /\ k \in DOMAIN job /\ k \in Nat \ {0} /\ HasIssues(job[k]) /\ at' = k + 1
      /\ UNCHANGED <<table, script, clean, settled>>
  <2>1. k \in DOMAIN job /\ k \in Nat \ {0}
    BY <1>1, JobFacts DEF SkipInvalid, AtRow, IngestInv
  <2> QED BY <1>1, <2>1 DEF SkipInvalid, NextRow, vars, table
<1>3. UNCHANGED <<rows, prio, url, notes, price, job, run, daOnly, clean, settled>>
  BY <1>2 DEF table, script
<1>4. /\ \A i : Answered(i)' <=> Answered(i)
      /\ \A i, n : Claims(i, n)' <=> Claims(i, n)
      /\ \A K, i, n : Owns(i, n, K)' <=> Owns(i, n, K)
  BY <1>3, SameTable
<1>5. Answered(k) /\ \A n : ~Claims(k, n)
  BY <1>2 DEF Answered, Claims
<1>6. ASSUME NEW i \in 1..k, NEW n
      PROVE  /\ Owns(i, n, at)' <=> Owns(i, n, at)
             /\ Owns(i, n, at) => i \in 1..(at - 1)
  <2>1. i \in Nat
    BY <1>2
  <2>2. Owns(i, n, k + 1) <=> Owns(i, n, k)
    BY <1>2, <1>5, <2>1, OwnsNext
  <2>3. Owns(i, n, k + 1)' <=> Owns(i, n, k + 1)
    BY <1>4
  <2>4. Owns(i, n, at)' <=> Owns(i, n, k + 1)'
    BY <1>2 DEF Owns
  <2> QED BY <1>1, <2>2, <2>3, <2>4 DEF Owns
<1>7. 1..(at' - 1) = 1..k /\ 1..(at - 1) \subseteq 1..k /\ \A i \in 1..k : i \in 1..(at - 1) \/ i = k
  BY <1>1, <1>2
<1>8. FirstRun'
  <2>1. ASSUME run = 1, clean, NEW i \in 1..k PROVE Answered(i)'
    BY <1>4, <1>5, <1>7, <2>1 DEF FirstRun
  <2>2. ASSUME run = 1, clean, NEW n \in Name, NEW i \in 1..k, Owns(i, n, at)'
        PROVE  /\ notes'[n] = job'[i].notes /\ Origin(price'[n]) = OriginIn(job'[i])
               /\ job'[i].url = None \/ url'[n] = job'[i].url
    BY <1>3, <1>6, <2>2 DEF FirstRun
  <2> QED BY <1>3, <1>7, <2>1, <2>2 DEF FirstRun
<1>9. SecondRun'
  <2> SUFFICES ASSUME run = 2, settled # <<>> PROVE SecondRun'
    BY <1>3 DEF SecondRun
  <2>1. PICK M, P, L : M = settled[4] /\ P = settled[5] /\ L = Len(job)
    OBVIOUS
  <2>2. /\ settled = <<rows, prio, url, M, P>> /\ M = [m \in Name |-> M[m]]
        /\ \A i \in DOMAIN job : Answered(i)
        /\ \A m \in Name, i \in DOMAIN job : Owns(i, m, L + 1) =>
              /\ M[m] = job[i].notes /\ Origin(P[m]) = OriginIn(job[i])
              /\ job[i].url = None \/ url[m] = job[i].url
        /\ ~daOnly => /\ notes = M
                     /\ \A m \in Name : Origin(price[m]) = Origin(P[m])
        /\ daOnly /\ clean => \A m \in Name :
              \/ notes[m] = M[m] /\ Origin(price[m]) = Origin(P[m])
              \/ \E i \in 1..(at - 1) :
                    /\ Owns(i, m, at)
                    /\ notes[m] = job[i].notes /\ Origin(price[m]) = OriginIn(job[i])
    BY <2>1 DEF SecondRun
  <2>3. daOnly /\ clean => \A m \in Name :
              \/ notes'[m] = M[m] /\ Origin(price'[m]) = Origin(P[m])
              \/ \E i \in 1..k :
                    /\ Owns(i, m, at)'
                    /\ notes'[m] = job[i].notes /\ Origin(price'[m]) = OriginIn(job[i])
    BY <1>3, <1>6, <1>7, <2>2
  <2>4. /\ settled' = <<rows', prio', url', M, P>>
        /\ \A i \in DOMAIN job' : Answered(i)'
        /\ \A m \in Name, i \in DOMAIN job' : Owns(i, m, Len(job) + 1)' =>
              /\ M[m] = job'[i].notes /\ Origin(P[m]) = OriginIn(job'[i])
              /\ job'[i].url = None \/ url'[m] = job'[i].url
    <3>1. \A i, m : Owns(i, m, Len(job) + 1)' <=> Owns(i, m, L + 1)
      <4>1. job' = job /\ Len(job) = L
        BY <1>3, <2>1
      <4> QED BY <1>4, <4>1 DEF Owns
    <3>2. ASSUME NEW i \in DOMAIN job PROVE Answered(i)'
      BY <1>4, <2>2
    <3>3. ASSUME NEW m \in Name, NEW i \in DOMAIN job, Owns(i, m, L + 1)
          PROVE  /\ M[m] = job[i].notes /\ Origin(P[m]) = OriginIn(job[i])
                 /\ job[i].url = None \/ url[m] = job[i].url
      BY <2>2, <3>3
    <3>4. settled' = <<rows', prio', url', M, P>>
      BY <1>3, <2>2
    <3> QED BY <1>3, <3>1, <3>2, <3>3, <3>4
  <2>5. ~daOnly' => notes' = M /\ \A m \in Name : Origin(price'[m]) = Origin(P[m])
    BY <1>3, <2>2
  <2>6. settled'[4] = M /\ settled'[5] = P /\ M = [m \in Name |-> M[m]]
    BY <2>2, <2>4
  <2>7. daOnly' /\ clean' => \A m \in Name :
              \/ notes'[m] = M[m] /\ Origin(price'[m]) = Origin(P[m])
              \/ \E i \in 1..(at' - 1) :
                    /\ Owns(i, m, at)'
                    /\ notes'[m] = job'[i].notes /\ Origin(price'[m]) = OriginIn(job'[i])
    BY <1>3, <1>7, <2>3
  <2> QED BY <2>4, <2>5, <2>6, <2>7 DEF SecondRun
<1> QED BY <1>8, <1>9

\* A clean first run is what the second one starts from.
LEMMA AgainStep ==
    ASSUME IngestInv, Statement, FirstRun, NEW s \in Session, RunAgain(s)
    PROVE  FirstRun' /\ SecondRun'
<1>1. /\ run = 1 /\ run' = 2 /\ at > Len(job)
      /\ settled' = IF clean THEN table ELSE <<>>
      /\ UNCHANGED <<rows, prio, url, notes, price, daOnly, job>>
  BY DEF RunAgain, vars
<1>2. FirstRun'
  BY <1>1 DEF FirstRun
<1>3. SecondRun'
  <2> SUFFICES ASSUME clean PROVE SecondRun'
    BY <1>1 DEF SecondRun
  <2>1. PICK M, P, L : M = notes /\ P = price /\ L = Len(job)
    OBVIOUS
  <2>2. at = L + 1 /\ DOMAIN job = 1..L /\ 1..(at - 1) = 1..L /\ M = [n \in Name |-> M[n]]
    BY <1>1, <2>1, JobFacts DEF IngestInv, Statement
  <2>3. /\ \A i \in DOMAIN job : Answered(i)
        /\ \A n \in Name, i \in DOMAIN job : Owns(i, n, L + 1) =>
              /\ M[n] = job[i].notes /\ Origin(P[n]) = OriginIn(job[i])
              /\ job[i].url = None \/ url[n] = job[i].url
    BY <1>1, <2>1, <2>2 DEF FirstRun
  <2>4. /\ \A i : Answered(i)' <=> Answered(i)
        /\ \A K, i, n : Owns(i, n, K)' <=> Owns(i, n, K)
    BY <1>1, SameTable
  <2>5. /\ settled' = <<rows', prio', url', M, P>> /\ settled'[4] = M /\ settled'[5] = P
        /\ Len(job') = L /\ notes' = M /\ price' = P
    BY <1>1, <2>1 DEF table
  <2> QED BY <1>1, <2>2, <2>3, <2>4, <2>5 DEF SecondRun
<1> QED BY <1>2, <1>3

\* Steps that leave the table and the row at hand alone, but may count a failure.
LEMMA QuietStep ==
    ASSUME FirstRun, SecondRun,
           UNCHANGED <<rows, prio, url, notes, price, job, run, daOnly, settled>>,
           ~clean' \/ UNCHANGED <<at, clean>>
    PROVE  FirstRun' /\ SecondRun'
<1>1. /\ \A i : Answered(i)' <=> Answered(i)
      /\ \A K, i, n : Owns(i, n, K)' <=> Owns(i, n, K)
  BY SameTable
<1>2. CASE UNCHANGED <<at, clean>>
  <2>1. PICK k, L : k = at /\ L = Len(job)
    OBVIOUS
  <2>2. \A i, n : Owns(i, n, at)' <=> Owns(i, n, at)
    BY <1>1, <1>2, <2>1
  <2>3. \A i, n : Owns(i, n, Len(job) + 1)' <=> Owns(i, n, Len(job) + 1)
    BY <1>1, <2>1
  <2> QED BY <1>1, <1>2, <2>2, <2>3 DEF FirstRun, SecondRun
<1>3. CASE ~clean'
  <2>1. PICK L : L = Len(job)
    OBVIOUS
  <2>2. \A i, n : Owns(i, n, Len(job) + 1)' <=> Owns(i, n, Len(job) + 1)
    BY <1>1, <2>1
  <2> QED BY <1>1, <1>3, <2>2 DEF FirstRun, SecondRun
<1> QED BY <1>2, <1>3

LEMMA NextKeepsRerunInv ==
    ASSUME IsFiniteSet(Name), IngestInv, RerunInv, [IngestNext]_ingestVars
    PROVE  RerunInv'
<1> USE DEF RerunInv
<1>1. CASE Load \/ TakeRow \/ Seed
  <2>1. run = 0 /\ run' # 2
    BY <1>1 DEF Load, TakeRow, Seed, IngestInv, IngestTypeOK
  <2>2. run' = 1 => 1..(at' - 1) = {}
    BY <1>1, <2>1 DEF Load, TakeRow, Seed
  <2> QED BY <1>1, <2>1, <2>2, StatementStep DEF IngestNext, FirstRun, SecondRun
<1>2. ASSUME NEW s \in Session, Raise(s) \/ CountError(s) PROVE RerunInv'
  <2>1. UNCHANGED <<rows, prio, url, notes, price, job, run, daOnly, settled>> /\ ~clean'
    BY <1>2 DEF Raise, CountError, Fail, script, vars
  <2> QED BY <1>2, <2>1, QuietStep, StatementStep DEF IngestNext
<1>3. ASSUME NEW s \in Session, Begin(s) \/ LookUpKey(s) PROVE RerunInv'
  <2>1. UNCHANGED <<rows, prio, url, notes, price, job, run, daOnly, settled, at, clean>>
    BY <1>3 DEF Begin, LookUpKey, MatchExact, MatchKey, script
  <2> QED BY <1>3, <2>1, QuietStep, StatementStep DEF IngestNext
<1>4. ASSUME NEW s \in Session, RunAgain(s) PROVE RerunInv'
  BY <1>4, AgainStep, StatementStep DEF IngestNext
<1>5. ASSUME NEW s \in Session, SkipInvalid(s) PROVE RerunInv'
  BY <1>5, SkipStep, StatementStep DEF IngestNext
<1>6. ASSUME NEW s \in Session, Overwrite(s) PROVE RerunInv'
  BY <1>6, FirstOverwrite, SecondOverwrite, StatementStep DEF IngestNext
<1>7. ASSUME NEW s \in Session, Add(s) PROVE RerunInv'
  BY <1>7, FirstAdd, SecondAdd, StatementStep DEF IngestNext
<1>8. CASE UNCHANGED ingestVars
  <2>1. UNCHANGED <<rows, prio, url, notes, price, job, run, daOnly, settled, at, clean, todo, pc, target>>
    BY <1>8 DEF ingestVars, vars, script
  <2>2. Statement'
    BY <2>1 DEF Statement, Finds, HasIssues, SameKey
  <2> QED BY <2>1, <2>2, QuietStep
<1> QED BY <1>1, <1>2, <1>3, <1>4, <1>5, <1>6, <1>7, <1>8 DEF IngestNext

\* A second run of seed_data.py on the same data sets leaves the table as it found
\* it but for the amounts of the estimated prices, which every run draws anew ("this
\* same function is safe to run more than once"); after a merge it does so at every
\* step and whatever fails: by RerunInv, every row has the data of the last row of
\* the job that owns it, and that row writes it again.
THEOREM RerunIsSafe == IsFiniteSet(Name) => (IngestSpec => []RerunSafe)
<1> SUFFICES ASSUME IsFiniteSet(Name) PROVE IngestSpec => []RerunSafe
  OBVIOUS
<1>1. IngestInit => RerunInv
  <2>1. IngestInit => run = 0
    BY DEF IngestInit
  <2> QED BY <2>1, InitStatement DEF RerunInv, FirstRun, SecondRun
<1>2. IngestInv /\ RerunInv /\ [IngestNext]_ingestVars => RerunInv'
  BY NextKeepsRerunInv
<1>3. IngestInv /\ RerunInv => RerunSafe
  <2> SUFFICES ASSUME IngestInv, RerunInv, run = 2, settled # <<>>,
                      daOnly => RunOver /\ clean
               PROVE  /\ settled = <<rows, prio, url, notes, settled[5]>>
                      /\ \A n \in Name : Origin(price[n]) = Origin(settled[5][n])
    BY DEF RerunSafe
  <2>1. PICK M, P : M = settled[4] /\ P = settled[5]
    OBVIOUS
  <2>2. settled = <<rows, prio, url, M, P>> /\ M = [n \in Name |-> M[n]]
    BY <2>1 DEF RerunInv, SecondRun
  <2>3. notes = [n \in Name |-> notes[n]]
    BY DEF RerunInv, Statement
  <2>4. CASE ~daOnly
    BY <2>1, <2>2, <2>4 DEF RerunInv, SecondRun
  <2>5. CASE daOnly
    <3>1. at = Len(job) + 1 /\ clean /\ DOMAIN job = 1..Len(job)
      BY <2>5, JobFacts DEF RunOver, IngestInv
    <3>2. at - 1 = Len(job)
      BY <3>1, JobFacts DEF IngestInv
    <3>3. \A n \in Name : notes[n] = M[n] /\ Origin(price[n]) = Origin(P[n])
      BY <2>1, <2>5, <3>1, <3>2 DEF RerunInv, SecondRun
    <3> QED BY <2>1, <2>2, <2>3, <3>3
  <2> QED BY <2>4, <2>5
<1> QED BY <1>1, <1>2, <1>3, IngestInvariant, PTL DEF IngestSpec
=============================================================================
