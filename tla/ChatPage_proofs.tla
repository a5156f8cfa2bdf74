---------------------------- MODULE ChatPage_proofs ----------------------------
(***************************************************************************)
(* Chats are kept, apart and in order: proved for every set of ids and of  *)
(* questions, every limit of the history and any number of messages.       *)
(***************************************************************************)
EXTENDS ChatPage, SequenceTheorems, TLAPS

-----------------------------------------------------------------------------
(* Lists of conversations.                                                 *)

LEMMA IdsOfRange ==
    ASSUME NEW list
    PROVE  Ids(list) = {e.id : e \in Range(list)}
BY DEF Ids, Range

LEMMA RemoveAtFacts ==
    ASSUME NEW S, NEW list \in Seq(S), NEW k \in 1..Len(list)
    PROVE  /\ RemoveAt(list, k) \in Seq(S)
           /\ Len(RemoveAt(list, k)) = Len(list) - 1
           /\ \A i \in 1..(k - 1) : RemoveAt(list, k)[i] = list[i]
           /\ \A i \in k..(Len(list) - 1) : RemoveAt(list, k)[i] = list[i + 1]
<1> DEFINE n == Len(list)
           front == SubSeq(list, 1, k - 1)
           back == SubSeq(list, k + 1, n)
<1>1. n \in Nat /\ k \in Nat /\ 1 <= k /\ k <= n
  OBVIOUS
<1>2. front \in Seq(S) /\ Len(front) = k - 1 /\ \A i \in 1..(k - 1) : front[i] = list[i]
  BY <1>1, SubSeqProperties
<1>3. back \in Seq(S) /\ Len(back) = n - k /\ \A i \in 1..(n - k) : back[i] = list[k + i]
  BY <1>1, SubSeqProperties
<1>4. RemoveAt(list, k) = front \o back
  BY DEF RemoveAt
<1> HIDE DEF n, front, back
<1>5. /\ front \o back \in Seq(S) /\ Len(front \o back) = Len(front) + Len(back)
      /\ \A i \in 1..(Len(front) + Len(back)) :
             (front \o back)[i] = IF i <= Len(front) THEN front[i] ELSE back[i - Len(front)]
  BY <1>2, <1>3, ConcatProperties
<1>6. Len(front) + Len(back) = n - 1
  BY <1>1, <1>2, <1>3
<1>7. ASSUME NEW i \in 1..(k - 1) PROVE (front \o back)[i] = list[i]
  <2>1. i \in 1..(n - 1) /\ i <= k - 1
    BY <1>1
  <2> QED BY <1>2, <1>5, <1>6, <2>1
<1>8. ASSUME NEW i \in k..(n - 1) PROVE (front \o back)[i] = list[i + 1]
  <2>1. i \in 1..(n - 1) /\ ~(i <= k - 1)
    BY <1>1
  <2>2. i - (k - 1) \in 1..(n - k) /\ k + (i - (k - 1)) = i + 1
    BY <1>1
  <2>3. (front \o back)[i] = back[i - (k - 1)]
    BY <1>2, <1>5, <1>6, <2>1
  <2>4. back[i - (k - 1)] = list[k + (i - (k - 1))]
    BY <1>3, <2>2
  <2> QED BY <2>2, <2>3, <2>4
<1> QED BY <1>4, <1>5, <1>6, <1>7, <1>8 DEF n

\* Without() leaves out the one entry with the id and moves those after it up.
LEMMA WithoutFacts ==
    ASSUME NEW list \in Seq(Entry), IdsDistinct(list), NEW id
    PROVE  /\ Without(list, id) \in Seq(Entry)
           /\ IdsDistinct(Without(list, id))
           /\ Range(Without(list, id)) = {e \in Range(list) : e.id # id}
           /\ Len(Without(list, id)) = IF id \in Ids(list) THEN Len(list) - 1 ELSE Len(list)
<1> DEFINE rest == Without(list, id)
<1>1. CASE id \notin Ids(list)
  <2>1. rest = list
    BY <1>1 DEF Without
  <2>2. \A e \in Range(list) : e.id # id
    BY <1>1 DEF Range, Ids
  <2> QED BY <1>1, <2>1, <2>2
<1>2. CASE id \in Ids(list)
  <2>1. PICK k \in 1..Len(list) : list[k].id = id /\ rest = RemoveAt(list, k)
    <3> DEFINE k == CHOOSE i \in DOMAIN list : list[i].id = id
    <3>1. \E i \in DOMAIN list : list[i].id = id
      BY <1>2 DEF Ids
    <3>2. k \in DOMAIN list /\ list[k].id = id
      BY <3>1
    <3>3. DOMAIN list = 1..Len(list)
      BY LenProperties
    <3>4. rest = RemoveAt(list, k)
      BY <1>2 DEF Without
    <3> QED BY <3>2, <3>3, <3>4
  <2> DEFINE n == Len(list)
  <2> HIDE DEF rest
  <2>2. n \in Nat /\ n > 0
    BY <2>1
  <2>5. /\ rest \in Seq(Entry) /\ Len(rest) = n - 1
        /\ \A i \in 1..(n - 1) : rest[i] = IF i < k THEN list[i] ELSE list[i + 1]
    <3>1. /\ rest \in Seq(Entry) /\ Len(rest) = n - 1
          /\ \A i \in 1..(k - 1) : rest[i] = list[i]
          /\ \A i \in k..(n - 1) : rest[i] = list[i + 1]
      BY <2>1, RemoveAtFacts
    <3> QED BY <2>1, <2>2, <3>1
  <2>6. IdsDistinct(rest)
    BY <2>1, <2>2, <2>5 DEF IdsDistinct
  <2>7. Range(rest) = {e \in Range(list) : e.id # id}
    <3>1. ASSUME NEW i \in 1..(n - 1) PROVE rest[i] \in Range(list) /\ rest[i].id # id
      <4>1. CASE i < k
        <5>1. i \in 1..n /\ i # k /\ rest[i] = list[i]
          BY <2>1, <2>2, <2>5, <4>1
        <5> QED BY <2>1, <5>1 DEF IdsDistinct, Range
      <4>2. CASE ~(i < k)
        <5>1. i + 1 \in 1..n /\ i + 1 # k /\ rest[i] = list[i + 1]
          BY <2>1, <2>2, <2>5, <4>2
        <5> QED BY <2>1, <5>1 DEF IdsDistinct, Range
      <4> QED BY <4>1, <4>2
    <3>2. ASSUME NEW i \in 1..n, list[i].id # id PROVE list[i] \in Range(rest)
      <4>1. CASE i < k
        BY <2>1, <2>2, <2>5, <4>1 DEF Range
      <4>2. CASE i > k
        <5>1. i - 1 \in 1..(n - 1) /\ rest[i - 1] = list[i]
          BY <2>1, <2>2, <2>5, <4>2
        <5> QED BY <2>5, <5>1 DEF Range
      <4> QED BY <2>1, <3>2, <4>1, <4>2
    <3> QED BY <2>5, <3>1, <3>2 DEF Range
  <2> QED BY <1>2, <2>5, <2>6, <2>7 DEF rest
<1> QED BY <1>1, <1>2

\* Trimmed() keeps the first MaxSaved entries.
LEMMA TrimmedFacts ==
    ASSUME NEW list \in Seq(Entry)
    PROVE  /\ Trimmed(list) \in Seq(Entry)
           /\ Len(Trimmed(list)) = IF Len(list) > MaxSaved THEN MaxSaved ELSE Len(list)
           /\ \A i \in 1..Len(Trimmed(list)) : i \in 1..Len(list) /\ Trimmed(list)[i] = list[i]
           /\ Len(list) <= MaxSaved => Trimmed(list) = list
<1> DEFINE n == IF Len(list) > MaxSaved THEN MaxSaved ELSE Len(list)
<1>1. MaxSaved \in Nat /\ Len(list) \in Nat
  BY ChatAssumption
<1>2. n \in 0..Len(list)
  BY <1>1
<1>3. Trimmed(list) = SubSeq(list, 1, n)
  BY DEF Trimmed
<1>4. /\ SubSeq(list, 1, n) \in Seq(Entry) /\ Len(SubSeq(list, 1, n)) = n
      /\ \A i \in 1..n : SubSeq(list, 1, n)[i] = list[i]
  BY <1>1, <1>2, SubSeqProperties
<1>5. Len(list) <= MaxSaved => SubSeq(list, 1, n) = list
  BY <1>1, <1>4, SeqEqual
<1> QED BY <1>1, <1>2, <1>3, <1>4, <1>5

LEMMA IdsDistinctTrimmed ==
    ASSUME NEW list \in Seq(Entry), IdsDistinct(list)
    PROVE  IdsDistinct(Trimmed(list)) /\ Range(Trimmed(list)) \subseteq Range(list)
<1> DEFINE short == Trimmed(list)
<1>1. /\ short \in Seq(Entry)
      /\ \A i \in 1..Len(short) : i \in 1..Len(list) /\ short[i] = list[i]
  BY TrimmedFacts
<1> HIDE DEF short
<1>2. IdsDistinct(short)
  BY <1>1 DEF IdsDistinct
<1>3. Range(short) \subseteq Range(list)
  BY <1>1 DEF Range
<1> QED BY <1>2, <1>3 DEF short

\* What the saving effect makes of a list: the entry comes first, every other one
\* is kept but, if the list was full and did not have the entry, the last.
Updated(list, entry) == Trimmed(<<entry>> \o Without(list, entry.id))

LEMMA UpdatedList ==
    ASSUME NEW list \in Seq(Entry), WellFormed(list),
           NEW entry \in Entry, entry.messages # <<>>
    PROVE  /\ Updated(list, entry) \in Seq(Entry) /\ WellFormed(Updated(list, entry))
           /\ entry \in Range(Updated(list, entry))
           /\ \A e \in Range(Updated(list, entry)) :
                  e = entry \/ (e \in Range(list) /\ e.id # entry.id)
           /\ \A k \in 1..Len(list) : list[k].id # entry.id =>
                  \/ list[k] \in Range(Updated(list, entry))
                  \/ k = MaxSaved /\ entry.id \notin Ids(list)
<1> DEFINE new == Updated(list, entry)
           rest == Without(list, entry.id)
           long == <<entry>> \o rest
<1>1. /\ rest \in Seq(Entry) /\ IdsDistinct(rest)
      /\ Range(rest) = {e \in Range(list) : e.id # entry.id}
      /\ Len(rest) = IF entry.id \in Ids(list) THEN Len(list) - 1 ELSE Len(list)
  BY WithoutFacts DEF WellFormed
<1> HIDE DEF rest
<1>2. /\ long \in Seq(Entry) /\ Len(long) = Len(rest) + 1
      /\ long[1] = entry /\ \A i \in 1..Len(rest) : long[i + 1] = rest[i]
  <2>1. <<entry>> \in Seq(Entry) /\ Len(<<entry>>) = 1 /\ <<entry>>[1] = entry
    OBVIOUS
  <2> QED BY <1>1, <2>1, ConcatProperties
<1> HIDE DEF long
<1>13. ASSUME NEW i \in 1..Len(long), i # 1
       PROVE  i - 1 \in 1..Len(rest) /\ long[i] = rest[i - 1]
  <2>1. i - 1 \in 1..Len(rest) /\ (i - 1) + 1 = i
    BY <1>1, <1>2, <1>13
  <2> QED BY <1>2, <2>1
<1>3. Range(long) = {entry} \cup Range(rest)
  <2>1. Range(long) = {long[i] : i \in 1..Len(long)} /\ Range(rest) = {rest[i] : i \in 1..Len(rest)}
    BY <1>1, <1>2, LenProperties DEF Range
  <2>3. 1 \in 1..Len(long) /\ \A i \in 1..Len(rest) : i + 1 \in 1..Len(long)
    BY <1>1, <1>2
  <2>4. Range(long) \subseteq {entry} \cup Range(rest)
    BY <1>2, <1>13, <2>1
  <2>5. {entry} \cup Range(rest) \subseteq Range(long)
    BY <1>2, <2>1, <2>3
  <2> QED BY <2>4, <2>5
<1>4. IdsDistinct(long)
  <2>1. \A i \in 1..Len(rest) : rest[i].id # entry.id
    BY <1>1 DEF Range
  <2>2. ASSUME NEW i \in 1..Len(long), NEW j \in 1..Len(long), long[i].id = long[j].id
        PROVE  i = j
    <3>1. i # 1 => i - 1 \in 1..Len(rest) /\ long[i] = rest[i - 1]
      BY <1>13
    <3>2. j # 1 => j - 1 \in 1..Len(rest) /\ long[j] = rest[j - 1]
      BY <1>13
    <3>3. i - 1 = j - 1 => i = j
      OBVIOUS
    <3> QED BY <1>1, <1>2, <2>1, <2>2, <3>1, <3>2, <3>3 DEF IdsDistinct
  <2> QED BY <2>2 DEF IdsDistinct
<1>5. new = Trimmed(long)
  BY DEF long, rest, Updated
<1> HIDE DEF new
<1>6. /\ new \in Seq(Entry) /\ IdsDistinct(new)
      /\ Len(new) = IF Len(long) > MaxSaved THEN MaxSaved ELSE Len(long)
      /\ \A i \in 1..Len(new) : new[i] = long[i]
      /\ Range(new) \subseteq Range(long)
  <2>1. /\ Trimmed(long) \in Seq(Entry)
        /\ Len(Trimmed(long)) = IF Len(long) > MaxSaved THEN MaxSaved ELSE Len(long)
        /\ \A i \in 1..Len(Trimmed(long)) : i \in 1..Len(long) /\ Trimmed(long)[i] = long[i]
    BY <1>2, TrimmedFacts
  <2>2. IdsDistinct(Trimmed(long)) /\ Range(Trimmed(long)) \subseteq Range(long)
    BY <1>2, <1>4, IdsDistinctTrimmed
  <2> QED BY <1>5, <2>1, <2>2
<1>7. MaxSaved \in Nat /\ MaxSaved >= 1 /\ Len(list) \in Nat /\ Len(list) <= MaxSaved
  BY ChatAssumption DEF WellFormed
<1>8. \A e \in Range(new) : e = entry \/ (e \in Range(list) /\ e.id # entry.id)
  BY <1>1, <1>3, <1>6
<1>9. WellFormed(new)
  BY <1>2, <1>6, <1>7, <1>8 DEF WellFormed
<1>10. \A i \in 1..Len(new) : new[i] \in Range(new)
  BY <1>6, LenProperties DEF Range
<1>11. entry \in Range(new)
  BY <1>1, <1>2, <1>6, <1>7, <1>10
<1>12. ASSUME NEW k \in 1..Len(list), list[k].id # entry.id
       PROVE  list[k] \in Range(new) \/ (k = MaxSaved /\ entry.id \notin Ids(list))
  <2>1. list[k] \in Range(rest)
    BY <1>1, <1>12, LenProperties DEF Range
  <2>2. PICK j \in 1..Len(rest) : rest[j] = list[k]
    BY <1>1, <2>1, LenProperties DEF Range
  <2>3. long[j + 1] = list[k]
    BY <1>2, <2>2
  <2>4. CASE j + 1 <= MaxSaved
    <3>1. j + 1 \in 1..Len(new)
      BY <1>1, <1>2, <1>6, <1>7, <2>2, <2>4
    <3> QED BY <1>6, <1>10, <2>3, <3>1
  <2>5. CASE j + 1 > MaxSaved
    <3>1. entry.id \notin Ids(list) /\ j = MaxSaved /\ j \in 1..Len(list)
      BY <1>1, <1>7, <2>2, <2>5
    <3>2. rest = list
      BY <3>1 DEF rest, Without
    <3>3. j = k
      BY <2>2, <3>1, <3>2 DEF WellFormed, IdsDistinct
    <3> QED BY <3>1, <3>3
  <2> QED BY <1>7, <2>2, <2>4, <2>5
<1> QED BY <1>6, <1>8, <1>9, <1>11, <1>12 DEF new
-----------------------------------------------------------------------------
(* The history.                                                            *)

PanelFits ==
    panelOpen =>
        /\ Ids(saved) \subseteq Ids(panel) \cup {conversationId}
        /\ \A e \in Range(saved), f \in Range(panel) :
               e.id = f.id /\ e.id # conversationId => e = f

HistoryInv ==
    /\ messages \in Seq(Message) /\ conversationId \in Conv
    /\ panel \in Seq(Entry) /\ saved \in Seq(Entry)
    /\ panelOpen \in BOOLEAN /\ activeId \in Conv \cup {"none"}
    /\ WellFormed(saved) /\ WellFormed(panel)
    /\ PanelFits

AwaitTypes ==
    /\ pending \in Seq([turn : 1..MaxTurns, messages : Seq(Message)]) /\ Len(pending) <= 1
    /\ IsLoading => pending[1].turn <= turns
    /\ moreRequests \subseteq [turn : 1..MaxTurns, pages : 0..MaxPages]
    /\ turns \in 0..MaxTurns

LEMMA ChatInvParts == ChatInv <=> HistoryInv /\ AwaitTypes
BY DEF ChatInv, TypeOK, HistoryInv, AwaitTypes, PanelFits

LEMMA StoresAreEntries ==
    ASSUME HistoryInv
    PROVE  Stores \subseteq Entry
<1>1. \A e \in Range(saved) : e \in Entry
  BY LenProperties, ElementOfSeq DEF HistoryInv, Range
<1>2. \A e \in Range(panel) : e \in Entry
  BY LenProperties, ElementOfSeq DEF HistoryInv, Range
<1>3. OnScreen \in Entry
  BY DEF HistoryInv, OnScreen, Entry
<1> QED BY <1>1, <1>2, <1>3 DEF Stores

\* What showing a conversation does to the history.
LEMMA ShowSaves ==
    ASSUME HistoryInv, NEW id \in Conv, NEW msgs \in Seq(Message), Show(id, msgs)
    PROVE  /\ conversationId' = id /\ messages' = msgs
           /\ saved' \in Seq(Entry) /\ WellFormed(saved')
           /\ activeId' \in Conv \cup {"none"}
           /\ \A e \in Range(saved') :
                  \/ e = [id |-> id, messages |-> msgs]
                  \/ e \in Range(saved) /\ (e.id = id => msgs = <<>>)
           /\ \A k \in 1..Len(saved) : saved[k].id # id =>
                  saved[k] \in Range(saved') \/ (k = MaxSaved /\ id \notin Ids(saved))
           /\ msgs # <<>> => [id |-> id, messages |-> msgs] \in Range(saved')
<1> DEFINE entry == [id |-> id, messages |-> msgs]
<1>1. conversationId' = id /\ messages' = msgs
  BY DEF Show
<1>2. CASE msgs = <<>>
  <2>1. saved' = saved /\ activeId' = activeId
    BY <1>2 DEF Show, storage
  <2>2. \A k \in 1..Len(saved) : saved[k] \in Range(saved)
    BY LenProperties DEF HistoryInv, Range
  <2> QED BY <1>1, <1>2, <2>1, <2>2 DEF HistoryInv
<1>3. CASE msgs # <<>>
  <2>1. /\ entry \in Entry /\ entry.messages # <<>> /\ entry.id = id
        /\ entry = [id |-> id, messages |-> msgs]
    BY <1>3 DEF Entry
  <2>2. saved' = Trimmed(<<entry>> \o Without(saved, entry.id)) /\ activeId' = id
    BY <1>3 DEF Show
  <2> HIDE DEF entry
  <2>3. /\ saved' \in Seq(Entry) /\ WellFormed(saved')
        /\ \A e \in Range(saved') : e = entry \/ (e \in Range(saved) /\ e.id # entry.id)
        /\ \A k \in 1..Len(saved) : saved[k].id # entry.id =>
               saved[k] \in Range(saved') \/ (k = MaxSaved /\ entry.id \notin Ids(saved))
        /\ entry \in Range(saved')
    <3>1. saved \in Seq(Entry) /\ WellFormed(saved)
      BY DEF HistoryInv
    <3>2. saved' = Updated(saved, entry)
      BY <2>2 DEF Updated
    <3> QED BY <2>1, <3>1, <3>2, UpdatedList
  <2> QED BY <1>1, <2>1, <2>2, <2>3
<1> QED BY <1>2, <1>3

\* The panel stays open only while the conversation on the screen is the same.
LEMMA ShowKeepsHistory ==
    ASSUME HistoryInv, NEW id \in Conv, NEW msgs \in Seq(Message), Show(id, msgs),
           ClosePanel \/ (id = conversationId /\ UNCHANGED history)
    PROVE  /\ HistoryInv'
           /\ Stores' \subseteq Stores \cup {[id |-> id, messages |-> msgs]}
<1>1. /\ conversationId' = id /\ messages' = msgs
      /\ saved' \in Seq(Entry) /\ WellFormed(saved')
      /\ activeId' \in Conv \cup {"none"}
      /\ \A e \in Range(saved') :
             \/ e = [id |-> id, messages |-> msgs]
             \/ e \in Range(saved) /\ (e.id = id => msgs = <<>>)
  BY ShowSaves
<1>2. CASE ClosePanel
  <2>1. panel' = <<>> /\ panelOpen' = FALSE
    BY <1>2 DEF ClosePanel
  <2>2. <<>> \in Seq(Entry) /\ WellFormed(<<>>) /\ Range(<<>>) = {}
    BY ChatAssumption DEF WellFormed, IdsDistinct, Range
  <2>3. HistoryInv'
    BY <1>1, <2>1, <2>2 DEF HistoryInv, PanelFits
  <2>4. Stores' \subseteq Stores \cup {[id |-> id, messages |-> msgs]}
    BY <1>1, <2>1, <2>2 DEF Stores, OnScreen
  <2> QED BY <2>3, <2>4
<1>3. CASE id = conversationId /\ UNCHANGED history
  <2>1. panel' = panel /\ panelOpen' = panelOpen
    BY <1>3 DEF history
  <2>2. PanelFits'
    <3> SUFFICES ASSUME panelOpen PROVE PanelFits'
      BY <2>1 DEF PanelFits
    <3>1. \A e \in Range(saved') : e.id = conversationId \/ e \in Range(saved)
      BY <1>1, <1>3
    <3>2. Ids(saved') \subseteq Ids(panel) \cup {conversationId}
      BY <3>1, IdsOfRange DEF HistoryInv, PanelFits
    <3> QED BY <1>1, <1>3, <2>1, <3>1, <3>2 DEF HistoryInv, PanelFits
  <2>3. HistoryInv'
    BY <1>1, <2>1, <2>2 DEF HistoryInv
  <2>4. Stores' \subseteq Stores \cup {[id |-> id, messages |-> msgs]}
    BY <1>1, <2>1 DEF Stores, OnScreen
  <2> QED BY <2>3, <2>4
<1> QED BY <1>2, <1>3

LEMMA DeleteKeepsHistory ==
    ASSUME HistoryInv, NEW id \in Conv, Delete(id)
    PROVE  /\ HistoryInv'
           /\ \A e \in Stores' : e \in Entry /\ (e \in Stores \/ e.messages = <<>>)
           /\ \A f \in Range(panel) : f.id # id => f \in Range(saved')
<1> DEFINE rest == Without(panel, id)
<1>1. /\ panelOpen /\ saved' = Trimmed(rest) /\ activeId' = activeId
      /\ \/ /\ id = conversationId /\ conversationId' \in Conv /\ messages' = <<>>
            /\ ClosePanel
         \/ /\ id # conversationId /\ panel' = rest
            /\ UNCHANGED <<messages, conversationId, panelOpen>>
  BY DEF Delete, screen
<1>2. /\ rest \in Seq(Entry) /\ IdsDistinct(rest) /\ Len(rest) <= Len(panel)
      /\ Range(rest) = {e \in Range(panel) : e.id # id}
  BY WithoutFacts DEF HistoryInv, WellFormed
<1> HIDE DEF rest
<1>3. Len(rest) <= MaxSaved
  BY <1>2, ChatAssumption DEF HistoryInv, WellFormed
<1>4. saved' = rest
  BY <1>1, <1>2, <1>3, TrimmedFacts
<1>5. WellFormed(rest)
  BY <1>2, <1>3 DEF HistoryInv, WellFormed
<1>6. CASE id = conversationId
  <2>1. panel' = <<>> /\ panelOpen' = FALSE /\ conversationId' \in Conv /\ messages' = <<>>
    BY <1>1, <1>6 DEF ClosePanel
  <2>2. <<>> \in Seq(Entry) /\ WellFormed(<<>>) /\ Range(<<>>) = {} /\ <<>> \in Seq(Message)
    BY ChatAssumption DEF WellFormed, IdsDistinct, Range
  <2>3. HistoryInv'
    BY <1>1, <1>2, <1>4, <1>5, <2>1, <2>2 DEF HistoryInv, PanelFits
  <2>4. \A e \in Stores' : e \in Entry /\ (e \in Stores \/ e.messages = <<>>)
    <3>1. \A e \in Stores' : e \in Range(panel) \/ e = [id |-> conversationId', messages |-> <<>>]
      BY <1>2, <1>4, <2>1, <2>2 DEF Stores, OnScreen
    <3>2. [id |-> conversationId', messages |-> <<>>] \in Entry
      BY <2>1, <2>2 DEF Entry
    <3> QED BY <3>1, <3>2, StoresAreEntries DEF Stores
  <2> QED BY <1>2, <1>4, <2>3, <2>4
<1>7. CASE id # conversationId
  <2>1. panel' = rest /\ UNCHANGED <<messages, conversationId, panelOpen>>
    BY <1>1, <1>7
  <2>2. PanelFits'
    <3>1. \A e \in Range(rest), f \in Range(rest) : e.id = f.id => e = f
      BY <1>2, LenProperties DEF IdsDistinct, Range
    <3> QED BY <1>4, <2>1, <3>1 DEF PanelFits
  <2>3. HistoryInv'
    BY <1>1, <1>2, <1>4, <1>5, <2>1, <2>2 DEF HistoryInv
  <2>4. \A e \in Stores' : e \in Entry /\ e \in Stores
    BY <1>2, <1>4, <2>1, StoresAreEntries DEF Stores, OnScreen
  <2> QED BY <1>2, <1>4, <2>3, <2>4
<1> QED BY <1>6, <1>7

LEMMA ToggleKeepsHistory ==
    ASSUME HistoryInv, TogglePanel
    PROVE  HistoryInv' /\ Stores' \subseteq Stores
<1>1. UNCHANGED <<messages, conversationId, saved, activeId>> /\ panelOpen' = ~panelOpen
  BY DEF TogglePanel, screen, storage
<1>2. CASE panelOpen
  <2>1. panel' = <<>>
    BY <1>2 DEF TogglePanel
  <2>2. <<>> \in Seq(Entry) /\ WellFormed(<<>>) /\ Range(<<>>) = {}
    BY ChatAssumption DEF WellFormed, IdsDistinct, Range
  <2> QED BY <1>1, <1>2, <2>1, <2>2 DEF HistoryInv, PanelFits, Stores, OnScreen
<1>3. CASE ~panelOpen
  <2>1. panel' = saved /\ panelOpen' = TRUE
    BY <1>1, <1>3 DEF TogglePanel
  <2>2. \A e \in Range(saved), f \in Range(saved) : e.id = f.id => e = f
    BY LenProperties DEF HistoryInv, WellFormed, IdsDistinct, Range
  <2>3. PanelFits'
    BY <1>1, <2>1, <2>2 DEF PanelFits
  <2>4. HistoryInv'
    BY <1>1, <2>1, <2>3 DEF HistoryInv
  <2> QED BY <1>1, <2>1, <2>4 DEF Stores, OnScreen
<1> QED BY <1>2, <1>3 DEF HistoryInv

-----------------------------------------------------------------------------
(* Messages.                                                               *)

LEMMA PlainIsMessage ==
    ASSUME NEW kind \in Kind, NEW turn \in 1..MaxTurns, NEW about \in SUBSET Question
    PROVE  /\ Plain(kind, turn, about) \in Message
           /\ Plain(kind, turn, about).kind = kind
           /\ Plain(kind, turn, about).turn = turn
           /\ Plain(kind, turn, about).about = about
BY ChatAssumption DEF Plain, Message

\* What an answer is about, from the messages it was made from.
LEMMA ReplyFacts ==
    ASSUME NEW p \in [turn : 1..MaxTurns, messages : Seq(Message)], NEW reply \in Replies(p)
    PROVE  /\ reply \in Message /\ reply.kind # "user" /\ reply.turn = p.turn
           /\ reply.kind = "question" =>
                  \A j \in Active(p.messages) :
                      p.messages[j].kind \in {"question", "restart"} =>
                          p.messages[j].about # reply.about
           /\ reply.kind = "results" =>
                  \A q \in Question \ reply.about : WasAsked(p.messages, q)
<1>1. p.turn \in 1..MaxTurns
  OBVIOUS
<1>2. DOMAIN Questions = 1..Len(Questions) /\ Len(Questions) >= 1
  BY ChatAssumption
<1>3. CASE reply = Plain("note", p.turn, {})
  BY <1>1, <1>3, PlainIsMessage DEF Kind
<1>4. ASSUME NEW known \in SUBSET Question, NEW n \in Open(p.messages, known),
             reply = Plain("question", p.turn, {Questions[n]})
      PROVE  /\ reply \in Message /\ reply.kind = "question" /\ reply.turn = p.turn
             /\ \A j \in Active(p.messages) :
                    p.messages[j].kind \in {"question", "restart"} =>
                        p.messages[j].about # reply.about
  <2>1. n \in 1..Len(Questions) /\ ~WasAsked(p.messages, Questions[n])
    BY <1>4 DEF Open
  <2>2. {Questions[n]} \in SUBSET Question
    BY <1>2, <2>1 DEF Question, Range
  <2>3. /\ reply \in Message /\ reply.kind = "question" /\ reply.turn = p.turn
        /\ reply.about = {Questions[n]}
    BY <1>1, <1>4, <2>2, PlainIsMessage DEF Kind
  <2> QED BY <2>1, <2>3 DEF WasAsked
<1>5. CASE reply = Plain("restart", p.turn, {Questions[1]})
  <2>1. {Questions[1]} \in SUBSET Question
    BY <1>2 DEF Question, Range
  <2> QED BY <1>1, <1>5, <2>1, PlainIsMessage DEF Kind
<1>6. ASSUME NEW known \in SUBSET Question, Open(p.messages, known) = {},
             reply = [Plain("results", p.turn, known) EXCEPT !.pages = 1]
      PROVE  /\ reply \in Message /\ reply.kind = "results" /\ reply.turn = p.turn
             /\ \A q \in Question \ reply.about : WasAsked(p.messages, q)
  <2>1. 1 \in 0..MaxPages
    BY ChatAssumption
  <2>2. reply \in Message /\ reply.kind = "results" /\ reply.turn = p.turn /\ reply.about = known
    BY <1>1, <1>6, <2>1 DEF Plain, Message, Kind
  <2>3. ASSUME NEW q \in Question \ known PROVE WasAsked(p.messages, q)
    <3>1. PICK n \in 1..Len(Questions) : q = Questions[n]
      BY <1>2 DEF Question, Range
    <3> QED BY <1>6, <2>3, <3>1 DEF Open
  <2> QED BY <2>2, <2>3
<1>7. \/ reply = Plain("note", p.turn, {})
      \/ \E known \in SUBSET Question, n \in 1..Len(Questions) :
             n \in Open(p.messages, known) /\ reply = Plain("question", p.turn, {Questions[n]})
      \/ reply = Plain("restart", p.turn, {Questions[1]})
      \/ \E known \in SUBSET Question :
             /\ Open(p.messages, known) = {}
             /\ reply = [Plain("results", p.turn, known) EXCEPT !.pages = 1]
  <2> SUFFICES ASSUME reply # Plain("note", p.turn, {}),
                      reply # Plain("restart", p.turn, {Questions[1]})
               PROVE  \/ \E known \in SUBSET Question, n \in 1..Len(Questions) :
                             /\ n \in Open(p.messages, known)
                             /\ reply = Plain("question", p.turn, {Questions[n]})
                      \/ \E known \in SUBSET Question :
                             /\ Open(p.messages, known) = {}
                             /\ reply = [Plain("results", p.turn, known) EXCEPT !.pages = 1]
    OBVIOUS
  <2>1. PICK known \in SUBSET Question :
            reply \in (LET open == Open(p.messages, known)
                       IN  IF open # {}
                           THEN {Plain("question", p.turn, {Questions[n]}) :
                                    n \in {first \in open : \A k \in open : first <= k}}
                           ELSE {Plain("restart", p.turn, {Questions[1]}),
                                 [Plain("results", p.turn, known) EXCEPT !.pages = 1]})
    BY DEF Replies
  <2>2. Open(p.messages, known) \subseteq 1..Len(Questions)
    BY DEF Open
  <2>3. CASE Open(p.messages, known) # {}
    BY <2>1, <2>2, <2>3
  <2>4. CASE Open(p.messages, known) = {}
    BY <2>1, <2>4
  <2> QED BY <2>3, <2>4
<1> QED BY <1>3, <1>4, <1>5, <1>6, <1>7

-----------------------------------------------------------------------------
(* The order of the messages of one conversation.                          *)

\* Active(Before(msgs, i)), by the positions in msgs.
ActiveAt(msgs, i) ==
    {j \in 1..(i - 1) : \A k \in (j + 1)..(i - 1) : msgs[k].kind # "restart"}

LEMMA ActiveBefore ==
    ASSUME NEW msgs \in Seq(Message), NEW i \in 1..(Len(msgs) + 1)
    PROVE  Active(Before(msgs, i)) = ActiveAt(msgs, i)
<1> DEFINE front == Before(msgs, i)
<1>1. Len(msgs) \in Nat /\ i \in Nat /\ i >= 1 /\ i - 1 <= Len(msgs)
  OBVIOUS
<1>2. \A j \in 1..(i - 1) : msgs[j] \in Message
  BY <1>1
<1>3. Len(front) = i - 1 /\ \A j \in 1..(i - 1) : front[j] = msgs[j]
  BY <1>1, <1>2, SubSeqProperties DEF Before
<1> HIDE DEF front
<1>4. \A j \in 1..(i - 1) : \A k \in (j + 1)..(i - 1) : front[k] = msgs[k]
  BY <1>1, <1>3
<1> QED BY <1>1, <1>3, <1>4 DEF Active, ActiveAt, front

LEMMA ActiveAll ==
    ASSUME NEW msgs \in Seq(Message)
    PROVE  Active(msgs) = ActiveAt(msgs, Len(msgs) + 1)
BY DEF Active, ActiveAt

\* The dialog of one conversation is in order.
Ordered(msgs) == Clean(msgs) => AskedOnce(msgs) /\ NothingSkipped(msgs)

\* The same in terms of ActiveAt.
LEMMA OrderedAt ==
    ASSUME NEW msgs \in Seq(Message)
    PROVE  /\ AskedOnce(msgs) <=>
                  \A i \in 1..Len(msgs) : msgs[i].kind = "question" =>
                      \A j \in ActiveAt(msgs, i) :
                          msgs[j].kind \in {"question", "restart"} => msgs[j].about # msgs[i].about
           /\ NothingSkipped(msgs) <=>
                  \A i \in 1..Len(msgs) : msgs[i].kind = "results" =>
                      \A q \in Question \ msgs[i].about :
                          \E j \in ActiveAt(msgs, i) :
                              msgs[j].kind \in {"question", "restart"} /\ q \in msgs[j].about
<1>1. \A i \in 1..Len(msgs) : Active(Before(msgs, i)) = ActiveAt(msgs, i)
  BY ActiveBefore
<1> QED BY <1>1 DEF AskedOnce, NothingSkipped

LEMMA AlikeActive ==
    ASSUME NEW msgs \in Seq(Message), NEW others \in Seq(Message), Alike(msgs, others),
           NEW i \in 1..(Len(msgs) + 1)
    PROVE  /\ ActiveAt(msgs, i) = ActiveAt(others, i)
           /\ \A j \in ActiveAt(msgs, i) :
                  msgs[j].kind = others[j].kind /\ msgs[j].about = others[j].about
<1>1. \A k \in 1..(i - 1) : k \in 1..Len(msgs)
  OBVIOUS
<1>2. \A j \in 1..(i - 1) : \A k \in (j + 1)..(i - 1) : k \in 1..(i - 1)
  OBVIOUS
<1> QED BY <1>1, <1>2 DEF Alike, ActiveAt

LEMMA AlikeIsOrdered ==
    ASSUME NEW msgs \in Seq(Message), NEW others \in Seq(Message), Alike(msgs, others),
           Ordered(others)
    PROVE  Ordered(msgs)
<1> SUFFICES ASSUME Clean(msgs) PROVE AskedOnce(msgs) /\ NothingSkipped(msgs)
  BY DEF Ordered
<1>1. Len(msgs) \in Nat /\ Len(others) = Len(msgs)
  BY DEF Alike
<1>2. Clean(others)
  BY <1>1 DEF Clean, Alike
<1>3. AskedOnce(others) /\ NothingSkipped(others)
  BY <1>2 DEF Ordered
<1>4. \A i \in 1..Len(msgs) :
          /\ ActiveAt(msgs, i) = ActiveAt(others, i)
          /\ \A j \in ActiveAt(msgs, i) :
                 msgs[j].kind = others[j].kind /\ msgs[j].about = others[j].about
  BY <1>1, AlikeActive
<1>5. \A i \in 1..Len(msgs) : msgs[i].kind = others[i].kind /\ msgs[i].about = others[i].about
  BY DEF Alike
<1>6. AskedOnce(msgs)
  BY <1>1, <1>3, <1>4, <1>5, OrderedAt
<1>7. NothingSkipped(msgs)
  <2> SUFFICES ASSUME NEW i \in 1..Len(msgs), msgs[i].kind = "results",
                      NEW q \in Question \ msgs[i].about
               PROVE  \E j \in ActiveAt(msgs, i) :
                          msgs[j].kind \in {"question", "restart"} /\ q \in msgs[j].about
    BY OrderedAt
  <2>1. i \in 1..Len(others) /\ others[i].kind = "results" /\ q \in Question \ others[i].about
    BY <1>1, <1>5
  <2>2. PICK j \in ActiveAt(others, i) :
            others[j].kind \in {"question", "restart"} /\ q \in others[j].about
    BY <1>3, <2>1, OrderedAt
  <2> QED BY <1>4, <2>2
<1> QED BY <1>6, <1>7

LEMMA AppendedMessages ==
    ASSUME NEW msgs \in Seq(Message), NEW m \in Message
    PROVE  /\ Append(msgs, m) \in Seq(Message) /\ Len(Append(msgs, m)) = Len(msgs) + 1
           /\ \A i \in 1..Len(msgs) : Append(msgs, m)[i] = msgs[i]
           /\ Append(msgs, m)[Len(msgs) + 1] = m
           /\ \A i \in 1..(Len(msgs) + 1) :
                  ActiveAt(Append(msgs, m), i) = ActiveAt(msgs, i)
<1> DEFINE new == Append(msgs, m)
<1>1. /\ new \in Seq(Message) /\ Len(new) = Len(msgs) + 1
      /\ \A i \in 1..Len(msgs) : new[i] = msgs[i]
      /\ new[Len(msgs) + 1] = m
  BY AppendProperties
<1> HIDE DEF new
<1>2. ASSUME NEW i \in 1..(Len(msgs) + 1) PROVE ActiveAt(new, i) = ActiveAt(msgs, i)
  <2>1. \A j \in 1..(i - 1) : \A k \in (j + 1)..(i - 1) : new[k] = msgs[k]
    BY <1>1
  <2> QED BY <2>1 DEF ActiveAt
<1> QED BY <1>1, <1>2 DEF new

\* A message of the user leaves the dialog in order.
LEMMA AskIsOrdered ==
    ASSUME NEW msgs \in Seq(Message), NEW m \in Message, m.kind = "user", Ordered(msgs)
    PROVE  Ordered(Append(msgs, m))
<1> DEFINE new == Append(msgs, m)
<1>1. /\ new \in Seq(Message) /\ Len(new) = Len(msgs) + 1
      /\ \A i \in 1..Len(msgs) : new[i] = msgs[i]
      /\ new[Len(msgs) + 1] = m
      /\ \A i \in 1..(Len(msgs) + 1) : ActiveAt(new, i) = ActiveAt(msgs, i)
  BY AppendedMessages
<1> HIDE DEF new
<1> SUFFICES ASSUME Clean(new) PROVE AskedOnce(new) /\ NothingSkipped(new)
  BY DEF Ordered, new
<1>2. Clean(msgs)
  BY <1>1 DEF Clean
<1>3. AskedOnce(msgs) /\ NothingSkipped(msgs)
  BY <1>2 DEF Ordered
<1>4. \A i \in 1..Len(new) : new[i].kind # "user" => i \in 1..Len(msgs)
  BY <1>1
<1>5. \A i \in 1..Len(msgs) : \A j \in ActiveAt(msgs, i) : new[j] = msgs[j]
  BY <1>1 DEF ActiveAt
<1>6. AskedOnce(new)
  <2> SUFFICES ASSUME NEW i \in 1..Len(new), new[i].kind = "question",
                      NEW j \in ActiveAt(new, i), new[j].kind \in {"question", "restart"}
               PROVE  new[j].about # new[i].about
    BY <1>1, OrderedAt
  <2>1. i \in 1..Len(msgs)
    BY <1>4
  <2> QED BY <1>1, <1>3, <1>5, <2>1, OrderedAt
<1>7. NothingSkipped(new)
  <2> SUFFICES ASSUME NEW i \in 1..Len(new), new[i].kind = "results",
                      NEW q \in Question \ new[i].about
               PROVE  \E j \in ActiveAt(new, i) :
                          new[j].kind \in {"question", "restart"} /\ q \in new[j].about
    BY <1>1, OrderedAt
  <2>1. i \in 1..Len(msgs) /\ new[i] = msgs[i]
    BY <1>1, <1>4
  <2> QED BY <1>1, <1>3, <1>5, <2>1, OrderedAt
<1> QED BY <1>6, <1>7

\* So does an answer, if what it was made from is what it follows: where it is
\* not, an answer does not follow its message, and the dialog is not clean.
LEMMA ReplyIsOrdered ==
    ASSUME NEW p \in [turn : 1..MaxTurns, messages : Seq(Message)], NEW reply \in Replies(p),
           NEW msgs \in Seq(Message), Ordered(msgs),
           Len(msgs) > 0 /\ msgs[Len(msgs)].turn = p.turn /\ msgs[Len(msgs)].kind = "user"
               => Alike(msgs, p.messages)
    PROVE  Ordered(Append(msgs, reply))
<1> DEFINE new == Append(msgs, reply)
           last == Len(msgs)
<1>1. /\ reply \in Message /\ reply.kind # "user" /\ reply.turn = p.turn
      /\ reply.kind = "question" =>
             \A j \in Active(p.messages) :
                 p.messages[j].kind \in {"question", "restart"} =>
                     p.messages[j].about # reply.about
      /\ reply.kind = "results" =>
             \A q \in Question \ reply.about : WasAsked(p.messages, q)
  BY ReplyFacts
<1>2. /\ new \in Seq(Message) /\ Len(new) = last + 1 /\ last \in Nat
      /\ \A i \in 1..last : new[i] = msgs[i]
      /\ new[last + 1] = reply
      /\ \A i \in 1..(last + 1) : ActiveAt(new, i) = ActiveAt(msgs, i)
  BY <1>1, AppendedMessages
<1> HIDE DEF new
<1> SUFFICES ASSUME Clean(new) PROVE AskedOnce(new) /\ NothingSkipped(new)
  BY DEF Ordered, new
<1>3. Clean(msgs)
  <2> SUFFICES ASSUME NEW i \in 1..last, msgs[i].kind # "user"
               PROVE  i > 1 /\ msgs[i - 1].kind = "user" /\ msgs[i - 1].turn = msgs[i].turn
    BY DEF Clean
  <2>1. i \in 1..(last + 1) /\ new[i] = msgs[i]
    BY <1>2
  <2>2. i > 1 /\ new[i - 1].kind = "user" /\ new[i - 1].turn = new[i].turn
    BY <1>2, <2>1 DEF Clean
  <2>3. i - 1 \in 1..last
    BY <1>2, <2>2
  <2> QED BY <1>2, <2>1, <2>2, <2>3
<1>4. AskedOnce(msgs) /\ NothingSkipped(msgs)
  BY <1>3 DEF Ordered
<1>5. last > 0 /\ msgs[last].turn = p.turn /\ msgs[last].kind = "user"
  <2>1. last + 1 > 1 /\ new[(last + 1) - 1].kind = "user" /\ new[(last + 1) - 1].turn = reply.turn
    BY <1>1, <1>2 DEF Clean
  <2>2. (last + 1) - 1 = last /\ last \in 1..last
    BY <1>2, <2>1
  <2> QED BY <1>1, <1>2, <2>1, <2>2
<1>6. Alike(msgs, p.messages) /\ p.messages \in Seq(Message) /\ Len(p.messages) = last
  BY <1>5 DEF Alike
<1>7. /\ ActiveAt(new, last + 1) = Active(p.messages)
      /\ \A j \in Active(p.messages) :
             new[j].kind = p.messages[j].kind /\ new[j].about = p.messages[j].about
  <2>1. Active(p.messages) = ActiveAt(p.messages, last + 1)
    BY <1>6, ActiveAll
  <2>2. /\ ActiveAt(msgs, last + 1) = ActiveAt(p.messages, last + 1)
        /\ \A j \in ActiveAt(msgs, last + 1) :
               msgs[j].kind = p.messages[j].kind /\ msgs[j].about = p.messages[j].about
    BY <1>2, <1>6, AlikeActive
  <2>3. ActiveAt(new, last + 1) = ActiveAt(msgs, last + 1)
    BY <1>2
  <2>4. \A j \in ActiveAt(msgs, last + 1) : new[j] = msgs[j]
    BY <1>2 DEF ActiveAt
  <2> QED BY <2>1, <2>2, <2>3, <2>4
<1>8. \A i \in 1..last : \A j \in ActiveAt(msgs, i) : new[j] = msgs[j]
  BY <1>2 DEF ActiveAt
<1>9. AskedOnce(new)
  <2> SUFFICES ASSUME NEW i \in 1..Len(new), new[i].kind = "question",
                      NEW j \in ActiveAt(new, i), new[j].kind \in {"question", "restart"}
               PROVE  new[j].about # new[i].about
    BY <1>2, OrderedAt
  <2>1. CASE i \in 1..last
    BY <1>2, <1>4, <1>8, <2>1, OrderedAt
  <2>2. CASE i = last + 1
    BY <1>1, <1>2, <1>7, <2>2
  <2> QED BY <1>2, <2>1, <2>2
<1>10. NothingSkipped(new)
  <2> SUFFICES ASSUME NEW i \in 1..Len(new), new[i].kind = "results",
                      NEW q \in Question \ new[i].about
               PROVE  \E j \in ActiveAt(new, i) :
                          new[j].kind \in {"question", "restart"} /\ q \in new[j].about
    BY <1>2, OrderedAt
  <2>1. CASE i \in 1..last
    <3>1. new[i] = msgs[i] /\ ActiveAt(new, i) = ActiveAt(msgs, i)
      BY <1>2, <2>1
    <3>2. PICK j \in ActiveAt(msgs, i) :
              msgs[j].kind \in {"question", "restart"} /\ q \in msgs[j].about
      BY <1>4, <2>1, <3>1, OrderedAt
    <3> QED BY <1>8, <2>1, <3>1, <3>2
  <2>2. CASE i = last + 1
    <3>1. WasAsked(p.messages, q)
      BY <1>1, <1>2, <2>2
    <3> QED BY <1>7, <2>2, <3>1 DEF WasAsked
  <2> QED BY <1>2, <2>1, <2>2
<1> QED BY <1>9, <1>10

-----------------------------------------------------------------------------
(* All copies of all conversations.                                        *)

Shares(msgs, others) ==
    \E i \in 1..Len(msgs), j \in 1..Len(others) :
        msgs[i].turn = others[j].turn /\ (msgs[i].kind = "user" <=> others[j].kind = "user")

Awaits(msgs, turn) ==
    Len(msgs) > 0 /\ msgs[Len(msgs)].turn = turn /\ msgs[Len(msgs)].kind = "user"

\* Of the conversations S, with t turns so far and p pending.
StoreInv(S, t, p) ==
    /\ \A e, f \in S : e.id # f.id => ~Shares(e.messages, f.messages)
    /\ \A e \in S : Ordered(e.messages)
    /\ \A e \in S : \A i \in 1..Len(e.messages) : e.messages[i].turn <= t
    /\ p # <<>> => \A e \in S : \A i \in 1..Len(e.messages) :
           e.messages[i].turn = p[1].turn => e.messages[i].kind = "user"
    /\ p # <<>> => \A e \in S :
           Awaits(e.messages, p[1].turn) => Alike(e.messages, p[1].messages)

PartsInv == HistoryInv /\ AwaitTypes /\ StoreInv(Stores, turns, pending)

LEMMA DialogInvParts == DialogInv <=> PartsInv
<1>1. MessageOnce <=>
          \A e, f \in Stores : e.id # f.id => ~Shares(e.messages, f.messages)
  BY DEF MessageOnce, IsMessageOf, Shares
<1>2. DialogInOrder <=> \A e \in Stores : Ordered(e.messages)
  BY DEF DialogInOrder, Ordered
<1>3. TurnsCounted <=>
          /\ \A e \in Stores : \A i \in 1..Len(e.messages) : e.messages[i].turn <= turns
          /\ pending # <<>> => \A e \in Stores : \A i \in 1..Len(e.messages) :
                 e.messages[i].turn = pending[1].turn => e.messages[i].kind = "user"
  BY DEF TurnsCounted, IsLoading
<1>4. SnapshotHolds <=>
          (pending # <<>> => \A e \in Stores :
              Awaits(e.messages, pending[1].turn) => Alike(e.messages, pending[1].messages))
  BY DEF SnapshotHolds, IsLoading, Awaits
<1> QED BY <1>1, <1>2, <1>3, <1>4, ChatInvParts DEF DialogInv, StoreInv, PartsInv

LEMMA EmptyConversation ==
    /\ Ordered(<<>>)
    /\ \A others : ~Shares(<<>>, others) /\ ~Shares(others, <<>>)
    /\ \A turn : ~Awaits(<<>>, turn)
    /\ Len(<<>>) = 0
BY DEF Ordered, AskedOnce, NothingSkipped, Shares, Awaits

LEMMA AlikeShares ==
    ASSUME NEW msgs, NEW others, Alike(msgs, others), NEW x, NEW y, Alike(x, y)
    PROVE  Shares(msgs, x) <=> Shares(others, y)
<1>1. /\ Len(msgs) = Len(others) /\ Len(x) = Len(y)
      /\ \A i \in 1..Len(msgs) : msgs[i].turn = others[i].turn /\ msgs[i].kind = others[i].kind
      /\ \A i \in 1..Len(x) : x[i].turn = y[i].turn /\ x[i].kind = y[i].kind
  BY DEF Alike
<1>2. Shares(msgs, x) => Shares(others, y)
  <2> SUFFICES ASSUME NEW i \in 1..Len(msgs), NEW j \in 1..Len(x), msgs[i].turn = x[j].turn,
                      msgs[i].kind = "user" <=> x[j].kind = "user"
               PROVE  Shares(others, y)
    BY DEF Shares
  <2>1. i \in 1..Len(others) /\ j \in 1..Len(y)
    BY <1>1
  <2>2. others[i].turn = y[j].turn /\ (others[i].kind = "user" <=> y[j].kind = "user")
    BY <1>1
  <2> QED BY <2>1, <2>2 DEF Shares
<1>3. Shares(others, y) => Shares(msgs, x)
  <2> SUFFICES ASSUME NEW i \in 1..Len(others), NEW j \in 1..Len(y), others[i].turn = y[j].turn,
                      others[i].kind = "user" <=> y[j].kind = "user"
               PROVE  Shares(msgs, x)
    BY DEF Shares
  <2>1. i \in 1..Len(msgs) /\ j \in 1..Len(x)
    BY <1>1
  <2>2. msgs[i].turn = x[j].turn /\ (msgs[i].kind = "user" <=> x[j].kind = "user")
    BY <1>1, <2>1
  <2> QED BY <2>1, <2>2 DEF Shares
<1> QED BY <1>2, <1>3

\* Nothing new is said: conversations change as Show More changes them, or are
\* shown, put away, begun or deleted.
LEMMA SameContent ==
    ASSUME NEW S \in SUBSET Entry, NEW T \in SUBSET Entry, NEW t, NEW p, StoreInv(S, t, p),
           \A n \in T : \/ n.messages = <<>>
                        \/ \E e \in S : e.id = n.id /\ Alike(n.messages, e.messages)
    PROVE  StoreInv(T, t, p)
<1>1. \A e \in S \cup T : e.messages \in Seq(Message)
  BY DEF Entry
<1>2. ASSUME NEW e \in T, NEW f \in T, e.id # f.id PROVE ~Shares(e.messages, f.messages)
  <2>1. CASE e.messages = <<>> \/ f.messages = <<>>
    BY <2>1, EmptyConversation
  <2>2. CASE e.messages # <<>> /\ f.messages # <<>>
    <3>1. PICK x \in S : x.id = e.id /\ Alike(e.messages, x.messages)
      BY <2>2
    <3>2. PICK y \in S : y.id = f.id /\ Alike(f.messages, y.messages)
      BY <2>2
    <3>3. ~Shares(x.messages, y.messages)
      BY <1>2, <3>1, <3>2 DEF StoreInv
    <3> QED BY <3>1, <3>2, <3>3, AlikeShares
  <2> QED BY <2>1, <2>2
<1>3. ASSUME NEW n \in T
      PROVE  /\ Ordered(n.messages)
             /\ \A i \in 1..Len(n.messages) : n.messages[i].turn <= t
             /\ p # <<>> => \A i \in 1..Len(n.messages) :
                    n.messages[i].turn = p[1].turn => n.messages[i].kind = "user"
             /\ p # <<>> => (Awaits(n.messages, p[1].turn) => Alike(n.messages, p[1].messages))
  <2>1. CASE n.messages = <<>>
    BY <2>1, EmptyConversation
  <2>2. CASE n.messages # <<>>
    <3>1. PICK e \in S : e.id = n.id /\ Alike(n.messages, e.messages)
      BY <2>2
    <3>2. Ordered(n.messages)
      BY <1>1, <3>1, AlikeIsOrdered DEF StoreInv
    <3>3. \A i \in 1..Len(n.messages) : n.messages[i].turn <= t
      BY <3>1 DEF StoreInv, Alike
    <3>4. p # <<>> => \A i \in 1..Len(n.messages) :
              n.messages[i].turn = p[1].turn => n.messages[i].kind = "user"
      BY <3>1 DEF StoreInv, Alike
    <3>5. ASSUME p # <<>>, Awaits(n.messages, p[1].turn) PROVE Alike(n.messages, p[1].messages)
      <4>1. Len(e.messages) = Len(n.messages) /\ Len(n.messages) \in Nat
        BY <1>1, <3>1 DEF Alike
      <4>2. Awaits(e.messages, p[1].turn)
        BY <3>1, <3>5, <4>1 DEF Awaits, Alike
      <4>3. Alike(e.messages, p[1].messages)
        BY <3>5, <4>2 DEF StoreInv
      <4> QED BY <3>1, <4>3 DEF Alike
    <3> QED BY <3>2, <3>3, <3>4, <3>5
  <2> QED BY <2>1, <2>2
<1> QED BY <1>2, <1>3 DEF StoreInv

LEMMA NothingPending ==
    ASSUME NEW S, NEW t, NEW p, StoreInv(S, t, p)
    PROVE  StoreInv(S, t, <<>>)
BY DEF StoreInv

LEMMA AlikeItself == \A msgs : Alike(msgs, msgs)
BY DEF Alike

\* The user says something, in a conversation of S or in a new one.
LEMMA AskedContent ==
    ASSUME NEW S \in SUBSET Entry, NEW t \in 0..(MaxTurns - 1), NEW p, StoreInv(S, t, p),
           NEW id \in Conv, NEW msgs \in Seq(Message),
           msgs = <<>> \/ [id |-> id, messages |-> msgs] \in S,
           NEW new, new = Append(msgs, Plain("user", t + 1, {})),
           NEW T, T \subseteq S \cup {[id |-> id, messages |-> new]}
    PROVE  StoreInv(T, t + 1, <<[turn |-> t + 1, messages |-> new]>>)
<1> DEFINE m == Plain("user", t + 1, {})
           N == [id |-> id, messages |-> new]
           q == <<[turn |-> t + 1, messages |-> new]>>
<1>1. t + 1 \in 1..MaxTurns /\ t \in Nat
  BY ChatAssumption
<1>2. m \in Message /\ m.kind = "user" /\ m.turn = t + 1
  BY <1>1, PlainIsMessage DEF Kind
<1>3. /\ new \in Seq(Message) /\ Len(new) = Len(msgs) + 1 /\ Len(msgs) \in Nat
      /\ \A i \in 1..Len(msgs) : new[i] = msgs[i]
      /\ new[Len(msgs) + 1] = m
  BY <1>2, AppendedMessages
<1>4. Ordered(new)
  BY <1>2, AskIsOrdered, EmptyConversation DEF StoreInv
<1>5. \A e \in S : /\ e.messages \in Seq(Message)
                   /\ \A i \in 1..Len(e.messages) :
                          e.messages[i].turn \in Nat /\ e.messages[i].turn <= t
  <2> SUFFICES ASSUME NEW e \in S
               PROVE  /\ e.messages \in Seq(Message)
                      /\ \A i \in 1..Len(e.messages) :
                             e.messages[i].turn \in Nat /\ e.messages[i].turn <= t
    OBVIOUS
  <2>1. e.messages \in Seq(Message)
    BY DEF Entry
  <2>2. \A i \in 1..Len(e.messages) : e.messages[i] \in Message
    BY <2>1, ElementOfSeq
  <2>3. \A i \in 1..Len(e.messages) : e.messages[i].turn \in Nat
    BY <2>2, ChatAssumption DEF Message
  <2> QED BY <2>1, <2>3 DEF StoreInv
<1>6. \A i \in 1..Len(msgs) : msgs[i].turn \in Nat /\ msgs[i].turn <= t
  BY <1>5, EmptyConversation
<1> HIDE DEF m
<1>7. ASSUME NEW e \in S, e.id # id PROVE ~Shares(e.messages, new) /\ ~Shares(new, e.messages)
  <2>1. ~Shares(e.messages, msgs) /\ ~Shares(msgs, e.messages)
    BY <1>7, EmptyConversation DEF StoreInv
  <2>2. \A i \in 1..Len(new) : (i \in 1..Len(msgs) /\ new[i] = msgs[i]) \/ new[i] = m
    BY <1>3
  <2>3. \A i \in 1..Len(e.messages) : e.messages[i].turn # m.turn
    BY <1>1, <1>2, <1>5
  <2> QED BY <2>1, <2>2, <2>3 DEF Shares
<1>8. \A i \in 1..Len(new) : /\ new[i].turn \in Nat /\ new[i].turn <= t + 1
                             /\ new[i].turn = t + 1 => new[i].kind = "user"
  BY <1>1, <1>2, <1>3, <1>6
<1>9. q # <<>> /\ q[1].turn = t + 1 /\ q[1].messages = new
  OBVIOUS
<1> HIDE DEF q
<1>14. N.id = id /\ N.messages = new /\ T \subseteq S \cup {N}
  OBVIOUS
<1> HIDE DEF N
<1>10. \A e, f \in T : e.id # f.id => ~Shares(e.messages, f.messages)
  BY <1>7, <1>14 DEF StoreInv
<1>11. \A e \in T : Ordered(e.messages)
  BY <1>4, <1>14 DEF StoreInv
<1>12. ASSUME NEW e \in S
       PROVE  /\ \A i \in 1..Len(e.messages) :
                     e.messages[i].turn <= t + 1 /\ e.messages[i].turn # t + 1
              /\ ~Awaits(e.messages, t + 1)
  <2>1. \A i \in 1..Len(e.messages) :
            e.messages[i].turn <= t + 1 /\ e.messages[i].turn # t + 1
    BY <1>1, <1>5
  <2> QED BY <1>5, <2>1 DEF Awaits
<1>13. Alike(new, new)
  BY AlikeItself
<1>15. \A e \in T : \A i \in 1..Len(e.messages) :
           /\ e.messages[i].turn <= t + 1
           /\ e.messages[i].turn = t + 1 => e.messages[i].kind = "user"
  BY <1>8, <1>12, <1>14
<1>16. \A e \in T : Awaits(e.messages, t + 1) => Alike(e.messages, new)
  BY <1>12, <1>13, <1>14
<1>17. StoreInv(T, t + 1, q)
  BY <1>9, <1>10, <1>11, <1>15, <1>16 DEF StoreInv
<1> QED BY <1>17 DEF q

\* The answer comes in, in whatever conversation of S.
LEMMA RepliedContent ==
    ASSUME NEW S \in SUBSET Entry, NEW t, NEW p, StoreInv(S, t, p), p # <<>>,
           p[1] \in [turn : 1..MaxTurns, messages : Seq(Message)], p[1].turn <= t,
           NEW reply \in Replies(p[1]),
           NEW id \in Conv, NEW msgs \in Seq(Message), [id |-> id, messages |-> msgs] \in S,
           NEW T, T \subseteq S \cup {[id |-> id, messages |-> Append(msgs, reply)]}
    PROVE  StoreInv(T, t, <<>>)
<1> DEFINE new == Append(msgs, reply)
<1>1. reply \in Message /\ reply.kind # "user" /\ reply.turn = p[1].turn
  BY ReplyFacts
<1>2. /\ new \in Seq(Message) /\ Len(new) = Len(msgs) + 1 /\ Len(msgs) \in Nat
      /\ \A i \in 1..Len(msgs) : new[i] = msgs[i]
      /\ new[Len(msgs) + 1] = reply
  BY <1>1, AppendedMessages
<1>3. Ordered(new)
  BY ReplyIsOrdered DEF StoreInv, Awaits
<1> HIDE DEF new
<1>4. \A i \in 1..Len(new) : (i \in 1..Len(msgs) /\ new[i] = msgs[i]) \/ new[i] = reply
  BY <1>2
<1>5. ASSUME NEW e \in S, e.id # id PROVE ~Shares(e.messages, new) /\ ~Shares(new, e.messages)
  <2>1. ~Shares(e.messages, msgs) /\ ~Shares(msgs, e.messages)
    BY <1>5 DEF StoreInv
  <2>2. \A i \in 1..Len(e.messages) :
            e.messages[i].turn = reply.turn => e.messages[i].kind = "user"
    BY <1>1 DEF StoreInv
  <2>3. ASSUME NEW i \in 1..Len(e.messages), NEW j \in 1..Len(new),
               e.messages[i].turn = new[j].turn,
               e.messages[i].kind = "user" <=> new[j].kind = "user"
        PROVE  FALSE
    <3>1. CASE new[j] = reply
      BY <1>1, <2>2, <2>3, <3>1
    <3>2. CASE j \in 1..Len(msgs) /\ new[j] = msgs[j]
      BY <2>1, <2>3, <3>2 DEF Shares
    <3> QED BY <1>4, <3>1, <3>2
  <2> QED BY <2>3 DEF Shares
<1>6. \A i \in 1..Len(new) : new[i].turn <= t
  BY <1>1, <1>4 DEF StoreInv
<1> DEFINE N == [id |-> id, messages |-> new]
<1>10. N.id = id /\ N.messages = new /\ T \subseteq S \cup {N}
  BY DEF new
<1> HIDE DEF N
<1>7. \A e, f \in T : e.id # f.id => ~Shares(e.messages, f.messages)
  BY <1>5, <1>10 DEF StoreInv
<1>8. \A e \in T : Ordered(e.messages)
  BY <1>3, <1>10 DEF StoreInv
<1>9. \A e \in T : \A i \in 1..Len(e.messages) : e.messages[i].turn <= t
  BY <1>6, <1>10 DEF StoreInv
<1> QED BY <1>7, <1>8, <1>9 DEF StoreInv

-----------------------------------------------------------------------------
(* The steps.                                                              *)

LEMMA EmptyHistory ==
    <<>> \in Seq(Entry) /\ <<>> \in Seq(Message) /\ WellFormed(<<>>) /\ Range(<<>>) = {}
BY ChatAssumption DEF WellFormed, IdsDistinct, Range

LEMMA InitPartsInv == Init => PartsInv
<1> SUFFICES ASSUME Init PROVE PartsInv
  OBVIOUS
<1>1. HistoryInv
  BY EmptyHistory DEF Init, HistoryInv, PanelFits
<1>2. AwaitTypes
  BY ChatAssumption DEF Init, AwaitTypes, IsLoading
<1>3. StoreInv(Stores, turns, pending)
  <2>1. \A e \in Stores : e.messages = <<>> /\ e.id = conversationId
    BY EmptyHistory DEF Init, Stores, OnScreen
  <2> QED BY <2>1, EmptyConversation DEF Init, StoreInv
<1> QED BY <1>1, <1>2, <1>3 DEF PartsInv

LEMMA PendingType ==
    ASSUME AwaitTypes, IsLoading
    PROVE  /\ pending[1] \in [turn : 1..MaxTurns, messages : Seq(Message)]
           /\ pending[1].turn <= turns
<1>1. pending \in Seq([turn : 1..MaxTurns, messages : Seq(Message)])
  BY DEF AwaitTypes
<1>2. Len(pending) \in Nat /\ Len(pending) # 0
  BY <1>1 DEF IsLoading
<1>3. 1 \in 1..Len(pending)
  BY <1>2
<1>4. pending[1] \in [turn : 1..MaxTurns, messages : Seq(Message)]
  BY <1>1, <1>3, ElementOfSeq
<1> QED BY <1>4 DEF AwaitTypes

\* A conversation shown as it was in some copy, or changed as Show More does.
LEMMA ShownAgain ==
    ASSUME PartsInv, NEW id \in Conv, NEW msgs \in Seq(Message), Show(id, msgs),
           ClosePanel \/ (id = conversationId /\ UNCHANGED history),
           msgs = <<>> \/ (\E e \in Stores : e.id = id /\ Alike(msgs, e.messages)),
           UNCHANGED turns, pending' \in {pending, <<>>}
    PROVE  HistoryInv' /\ StoreInv(Stores, turns, pending)'
<1>1. HistoryInv /\ StoreInv(Stores, turns, pending)
  BY DEF PartsInv
<1>2. HistoryInv' /\ Stores' \subseteq Stores \cup {[id |-> id, messages |-> msgs]}
  BY <1>1, ShowKeepsHistory
<1>3. Stores \in SUBSET Entry
  BY <1>1, StoresAreEntries
<1>4. PICK T : T = Stores'
  OBVIOUS
<1> DEFINE N == [id |-> id, messages |-> msgs]
<1>5. N \in Entry /\ N.id = id /\ N.messages = msgs
  BY DEF Entry
<1> HIDE DEF N
<1>6. T \in SUBSET Entry /\ T \subseteq Stores \cup {N}
  BY <1>2, <1>3, <1>4, <1>5 DEF N
<1>7. \A n \in T : n.messages = <<>> \/ \E e \in Stores : e.id = n.id /\ Alike(n.messages, e.messages)
  BY <1>5, <1>6, AlikeItself
<1>8. StoreInv(T, turns, pending)
  BY <1>1, <1>3, <1>6, <1>7, SameContent
<1>9. StoreInv(T, turns, <<>>)
  BY <1>8, NothingPending
<1> QED BY <1>2, <1>4, <1>8, <1>9

\* SendMessage and LoadPrefilled.
LEMMA AskKeepsInv ==
    ASSUME PartsInv, NEW id \in Conv, NEW msgs \in Seq(Message), Ask(id, msgs),
           ClosePanel \/ (id = conversationId /\ UNCHANGED history),
           msgs = <<>> \/ [id |-> id, messages |-> msgs] \in Stores,
           moreRequests' \in {moreRequests, {}}
    PROVE  PartsInv'
<1>1. HistoryInv /\ AwaitTypes /\ StoreInv(Stores, turns, pending)
  BY DEF PartsInv
<1> DEFINE new == Append(msgs, Plain("user", turns + 1, {}))
<1>2. turns \in 0..(MaxTurns - 1) /\ turns' = turns + 1 /\ turns + 1 \in 1..MaxTurns
  BY <1>1, ChatAssumption DEF Ask, AwaitTypes
<1>3. Show(id, new) /\ pending' = <<[turn |-> turns + 1, messages |-> new]>>
  BY <1>2 DEF Ask
<1>4. new \in Seq(Message)
  BY <1>2, PlainIsMessage, AppendedMessages DEF Kind
<1> HIDE DEF new
<1>5. HistoryInv' /\ Stores' \subseteq Stores \cup {[id |-> id, messages |-> new]}
  BY <1>1, <1>3, <1>4, ShowKeepsHistory
<1>6. Stores \in SUBSET Entry
  BY <1>1, StoresAreEntries
<1>7. StoreInv(Stores, turns, pending)'
  <2>1. PICK T : T = Stores'
    OBVIOUS
  <2>2. StoreInv(T, turns + 1, <<[turn |-> turns + 1, messages |-> new]>>)
    BY <1>1, <1>2, <1>5, <1>6, <2>1, AskedContent DEF new
  <2> QED BY <1>2, <1>3, <2>1, <2>2
<1>8. AwaitTypes'
  <2>1. pending' \in Seq([turn : 1..MaxTurns, messages : Seq(Message)]) /\ Len(pending') = 1
    BY <1>2, <1>3, <1>4
  <2>2. pending'[1].turn = turns'
    BY <1>2, <1>3
  <2>3. turns' \in 0..MaxTurns /\ turns' <= turns'
    BY <1>2
  <2> QED BY <1>1, <2>1, <2>2, <2>3 DEF AwaitTypes
<1> QED BY <1>5, <1>7, <1>8 DEF PartsInv

LEMMA SendMessageKeepsInv ==
    ASSUME PartsInv, SendMessage
    PROVE  PartsInv'
<1>1. conversationId \in Conv /\ messages \in Seq(Message)
  BY DEF PartsInv, HistoryInv
<1>2. [id |-> conversationId, messages |-> messages] \in Stores
  BY DEF Stores, OnScreen
<1> QED BY <1>1, <1>2, AskKeepsInv DEF SendMessage

LEMMA LoadPrefilledKeepsInv ==
    ASSUME PartsInv, LoadPrefilled
    PROVE  PartsInv'
<1>1. PICK id \in Conv : Ask(id, <<>>)
  BY DEF LoadPrefilled
<1> QED BY <1>1, EmptyHistory, AskKeepsInv DEF LoadPrefilled

LEMMA ReplyKeepsInv ==
    ASSUME PartsInv, Reply
    PROVE  PartsInv'
<1>1. HistoryInv /\ AwaitTypes /\ StoreInv(Stores, turns, pending)
  BY DEF PartsInv
<1>2. PICK reply \in Replies(pending[1]) : Show(conversationId, Append(messages, reply))
  BY DEF Reply
<1>3. IsLoading /\ pending' = <<>> /\ UNCHANGED <<history, moreRequests, turns>>
  BY DEF Reply
<1>4. /\ pending[1] \in [turn : 1..MaxTurns, messages : Seq(Message)]
      /\ pending[1].turn <= turns /\ pending # <<>>
  BY <1>1, <1>3, PendingType DEF IsLoading
<1>5. reply \in Message
  BY <1>4, ReplyFacts
<1>6. conversationId \in Conv /\ messages \in Seq(Message) /\ Append(messages, reply) \in Seq(Message)
  BY <1>1, <1>5, AppendedMessages DEF HistoryInv
<1>7. /\ HistoryInv'
      /\ Stores' \subseteq Stores \cup {[id |-> conversationId, messages |-> Append(messages, reply)]}
  BY <1>1, <1>2, <1>3, <1>6, ShowKeepsHistory
<1>8. Stores \in SUBSET Entry /\ [id |-> conversationId, messages |-> messages] \in Stores
  BY <1>1, StoresAreEntries DEF Stores, OnScreen
<1>9. StoreInv(Stores, turns, pending)'
  <2>1. PICK T : T = Stores'
    OBVIOUS
  <2>2. StoreInv(T, turns, <<>>)
    BY <1>1, <1>4, <1>6, <1>7, <1>8, <2>1, RepliedContent
  <2> QED BY <1>3, <2>1, <2>2
<1>10. AwaitTypes'
  BY <1>1, <1>3 DEF AwaitTypes, IsLoading
<1> QED BY <1>7, <1>9, <1>10 DEF PartsInv

LEMMA LoadingIsAlike ==
    ASSUME NEW msgs \in Seq(Message), NEW i \in 1..Len(msgs)
    PROVE  /\ [msgs EXCEPT ![i].loadingMore = TRUE] \in Seq(Message)
           /\ Alike([msgs EXCEPT ![i].loadingMore = TRUE], msgs)
<1> DEFINE new == [msgs EXCEPT ![i].loadingMore = TRUE]
           m == [msgs[i] EXCEPT !.loadingMore = TRUE]
<1>1. msgs[i] \in Message
  BY ElementOfSeq
<1>2. m \in Message /\ m.kind = msgs[i].kind /\ m.turn = msgs[i].turn /\ m.about = msgs[i].about
  BY <1>1 DEF Message
<1>3. new \in Seq(Message) /\ Len(new) = Len(msgs)
  BY <1>2, ExceptSeq
<1>4. \A k \in 1..Len(msgs) : new[k] = IF k = i THEN m ELSE msgs[k]
  OBVIOUS
<1> HIDE DEF new, m
<1>5. new \in Seq(Message) /\ Alike(new, msgs)
  BY <1>2, <1>3, <1>4 DEF Alike
<1> QED BY <1>5 DEF new

LEMMA ResolvedIsAlike ==
    ASSUME NEW t, NEW arrived \in BOOLEAN, NEW pages \in 0..MaxPages, messages \in Seq(Message)
    PROVE  /\ Resolved(t, arrived, pages) \in Seq(Message)
           /\ Alike(Resolved(t, arrived, pages), messages)
<1> DEFINE new == Resolved(t, arrived, pages)
<1>1. \A i \in 1..Len(messages) : messages[i] \in Message
  BY ElementOfSeq
<1>2. \A i \in 1..Len(messages) :
          /\ new[i] \in Message
          /\ new[i].kind = messages[i].kind /\ new[i].turn = messages[i].turn
          /\ new[i].about = messages[i].about
  BY <1>1 DEF Resolved, Message
<1>3. new = [i \in 1..Len(messages) |-> new[i]] /\ Len(messages) \in Nat
  BY DEF Resolved
<1> HIDE DEF new
<1>4. new \in Seq(Message) /\ Len(new) = Len(messages)
  BY <1>2, <1>3
<1>5. Alike(new, messages)
  BY <1>2, <1>4 DEF Alike
<1> QED BY <1>4, <1>5 DEF new

LEMMA ShowMoreKeepsInv ==
    ASSUME PartsInv, ShowMore
    PROVE  PartsInv'
<1>1. HistoryInv /\ AwaitTypes
  BY DEF PartsInv
<1>2. PICK i \in 1..Len(messages) :
          /\ messages[i].pages < MaxPages
          /\ Show(conversationId, [messages EXCEPT ![i].loadingMore = TRUE])
          /\ moreRequests' = moreRequests \cup
                 {[turn |-> messages[i].turn, pages |-> messages[i].pages + 1]}
          /\ UNCHANGED <<history, pending, turns>>
  BY DEF ShowMore
<1> DEFINE new == [messages EXCEPT ![i].loadingMore = TRUE]
<1>3. messages \in Seq(Message) /\ conversationId \in Conv /\ messages[i] \in Message
  BY <1>1, ElementOfSeq DEF HistoryInv
<1>4. new \in Seq(Message) /\ Alike(new, messages)
  BY <1>3, LoadingIsAlike
<1> HIDE DEF new
<1>5. OnScreen \in Stores /\ OnScreen.id = conversationId /\ OnScreen.messages = messages
  BY DEF Stores, OnScreen
<1>6. HistoryInv' /\ StoreInv(Stores, turns, pending)'
  BY <1>2, <1>3, <1>4, <1>5, ShownAgain DEF new
<1>7. AwaitTypes'
  <2>1. /\ messages[i].turn \in 1..MaxTurns /\ messages[i].pages \in 0..MaxPages
        /\ MaxPages \in Nat
    BY <1>3, ChatAssumption DEF Message
  <2>2. messages[i].pages + 1 \in 0..MaxPages
    BY <1>2, <2>1
  <2> QED BY <1>1, <1>2, <2>1, <2>2 DEF AwaitTypes, IsLoading
<1> QED BY <1>6, <1>7 DEF PartsInv

LEMMA MoreDoneKeepsInv ==
    ASSUME PartsInv, MoreDone
    PROVE  PartsInv'
<1>1. HistoryInv /\ AwaitTypes
  BY DEF PartsInv
<1>2. PICK r \in moreRequests, arrived \in BOOLEAN :
          /\ Show(conversationId, Resolved(r.turn, arrived, r.pages))
          /\ moreRequests' = moreRequests \ {r}
          /\ UNCHANGED <<history, pending, turns>>
  BY DEF MoreDone
<1> DEFINE new == Resolved(r.turn, arrived, r.pages)
<1>3. /\ messages \in Seq(Message) /\ conversationId \in Conv /\ r.pages \in 0..MaxPages
      /\ \A i \in 1..Len(messages) : messages[i] \in Message
  BY <1>1, ElementOfSeq DEF HistoryInv, AwaitTypes
<1>4. new \in Seq(Message) /\ Alike(new, messages)
  BY <1>3, ResolvedIsAlike
<1> HIDE DEF new
<1>5. OnScreen \in Stores /\ OnScreen.id = conversationId /\ OnScreen.messages = messages
  BY DEF Stores, OnScreen
<1>6. HistoryInv' /\ StoreInv(Stores, turns, pending)'
  BY <1>2, <1>3, <1>4, <1>5, ShownAgain DEF new
<1>7. AwaitTypes'
  BY <1>1, <1>2 DEF AwaitTypes, IsLoading
<1> QED BY <1>6, <1>7 DEF PartsInv

LEMMA NewChatKeepsInv ==
    ASSUME PartsInv, NewChat
    PROVE  PartsInv'
<1>1. PICK id \in Conv : Show(id, <<>>)
  BY DEF NewChat
<1>2. ClosePanel /\ UNCHANGED <<pending, moreRequests, turns>>
  BY DEF NewChat
<1>3. HistoryInv' /\ StoreInv(Stores, turns, pending)'
  BY <1>1, <1>2, EmptyHistory, ShownAgain
<1>4. AwaitTypes'
  BY <1>2 DEF PartsInv, AwaitTypes, IsLoading
<1> QED BY <1>3, <1>4 DEF PartsInv

LEMMA OpenConversationKeepsInv ==
    ASSUME PartsInv, OpenConversation
    PROVE  PartsInv'
<1>1. HistoryInv /\ AwaitTypes
  BY DEF PartsInv
<1>2. PICK e \in Range(panel) : Show(e.id, e.messages)
  BY DEF OpenConversation
<1>3. ClosePanel /\ UNCHANGED <<pending, moreRequests, turns>>
  BY DEF OpenConversation
<1>4. e \in Stores /\ e.id \in Conv /\ e.messages \in Seq(Message) /\ Alike(e.messages, e.messages)
  BY <1>1, StoresAreEntries, AlikeItself DEF Stores, Entry
<1>5. HistoryInv' /\ StoreInv(Stores, turns, pending)'
  BY <1>2, <1>3, <1>4, ShownAgain
<1>6. AwaitTypes'
  BY <1>1, <1>3 DEF AwaitTypes, IsLoading
<1> QED BY <1>5, <1>6 DEF PartsInv

LEMMA LoadKeepsInv ==
    ASSUME PartsInv, Load
    PROVE  PartsInv'
<1>1. HistoryInv /\ AwaitTypes
  BY DEF PartsInv
<1>2. ClosePanel /\ pending' = <<>> /\ moreRequests' = {} /\ UNCHANGED turns
  BY DEF Load
<1>3. ASSUME saved = <<>> PROVE HistoryInv' /\ StoreInv(Stores, turns, pending)'
  <2>1. PICK id \in Conv : Show(id, <<>>)
    BY <1>3 DEF Load
  <2> QED BY <1>2, <2>1, EmptyHistory, ShownAgain
<1>4. ASSUME saved # <<>> PROVE HistoryInv' /\ StoreInv(Stores, turns, pending)'
  <2>1. PICK i \in 1..Len(saved) : Show(saved[i].id, saved[i].messages)
    BY <1>4 DEF Load
  <2>2. saved[i] \in Stores
    BY <1>1, LenProperties DEF HistoryInv, Stores, Range
  <2>3. /\ saved[i].id \in Conv /\ saved[i].messages \in Seq(Message)
        /\ Alike(saved[i].messages, saved[i].messages)
    BY <1>1, <2>2, StoresAreEntries, AlikeItself DEF Entry
  <2> QED BY <1>2, <2>1, <2>2, <2>3, ShownAgain
<1>5. AwaitTypes'
  BY <1>1, <1>2 DEF AwaitTypes, IsLoading
<1> QED BY <1>3, <1>4, <1>5 DEF PartsInv

LEMMA PanelStepsKeepInv ==
    ASSUME PartsInv, TogglePanel \/ DeleteConversation
    PROVE  PartsInv'
<1>1. HistoryInv /\ AwaitTypes /\ StoreInv(Stores, turns, pending)
  BY DEF PartsInv
<1>2. UNCHANGED <<pending, moreRequests, turns>>
  BY DEF TogglePanel, DeleteConversation, Delete
<1>3. HistoryInv' /\ \A e \in Stores' : e \in Entry /\ (e \in Stores \/ e.messages = <<>>)
  <2>1. CASE TogglePanel
    BY <1>1, <2>1, ToggleKeepsHistory, StoresAreEntries
  <2>2. CASE DeleteConversation
    <3>1. PICK id \in Conv : Delete(id)
      BY <2>2 DEF DeleteConversation
    <3> QED BY <1>1, <3>1, DeleteKeepsHistory
  <2> QED BY <2>1, <2>2
<1>4. Stores \in SUBSET Entry
  BY <1>1, StoresAreEntries
<1>6. PICK T : T = Stores'
  OBVIOUS
<1>7. T \in SUBSET Entry
  BY <1>3, <1>6
<1>5. \A n \in T : n.messages = <<>> \/ \E e \in Stores : e.id = n.id /\ Alike(n.messages, e.messages)
  BY <1>3, <1>6, AlikeItself
<1>8. StoreInv(T, turns, pending)
  BY <1>1, <1>4, <1>5, <1>7, SameContent
<1>9. AwaitTypes'
  BY <1>1, <1>2 DEF AwaitTypes, IsLoading
<1> QED BY <1>2, <1>3, <1>6, <1>8, <1>9 DEF PartsInv

LEMMA NextKeepsInv == PartsInv /\ [Next]_vars => PartsInv'
<1> SUFFICES ASSUME PartsInv, [Next]_vars PROVE PartsInv'
  OBVIOUS
<1>1. CASE UNCHANGED vars
  <2>1. /\ UNCHANGED <<messages, conversationId, panel, panelOpen, saved, activeId>>
        /\ UNCHANGED <<pending, moreRequests, turns>>
    BY <1>1 DEF vars, screen, history, storage
  <2>2. HistoryInv' /\ Stores' = Stores
    BY <2>1 DEF PartsInv, HistoryInv, PanelFits, Stores, OnScreen
  <2>3. AwaitTypes'
    BY <2>1 DEF PartsInv, AwaitTypes, IsLoading
  <2> QED BY <2>1, <2>2, <2>3 DEF PartsInv
<1> QED
  BY <1>1, SendMessageKeepsInv, ReplyKeepsInv, ShowMoreKeepsInv, MoreDoneKeepsInv,
     NewChatKeepsInv, PanelStepsKeepInv, OpenConversationKeepsInv, LoadKeepsInv,
     LoadPrefilledKeepsInv
     DEF Next

\* History, panel, screen and the request in flight, and where each message is: the
\* inductive invariant of the page.
THEOREM PartsInvariant == Spec => []PartsInv
BY InitPartsInv, NextKeepsInv, PTL DEF Spec

\* The lists of the history and of the panel are well formed, and the open panel
\* lists every conversation there is: up to date, but for the one on the screen.
THEOREM ChatInvariant == Spec => []ChatInv
<1>1. PartsInv => ChatInv
  BY ChatInvParts DEF PartsInv
<1> QED BY <1>1, PartsInvariant, PTL

\* No message is ever part of two conversations.
THEOREM MessageIsOnce == Spec => []MessageOnce
<1>1. PartsInv => MessageOnce
  BY DialogInvParts DEF DialogInv
<1> QED BY <1>1, PartsInvariant, PTL

\* Between two restarts no question is asked twice, and none is skipped before
\* results are shown.
THEOREM DialogIsInOrder == Spec => []DialogInOrder
<1>1. PartsInv => DialogInOrder
  BY DialogInvParts DEF DialogInv
<1> QED BY <1>1, PartsInvariant, PTL

-----------------------------------------------------------------------------
(* Conversations in the background.                                        *)

\* What is shown is the conversation that was on the screen, one that the
\* history has as it is, or one that is not in the history.
LEMMA ShownKeepsOthers ==
    ASSUME HistoryInv, NEW id \in Conv, NEW msgs \in Seq(Message), Show(id, msgs),
           \A e \in Range(saved) :
               e.id = id => id = conversationId \/ msgs = <<>> \/ e.messages = msgs
    PROVE  Background
<1>1. /\ conversationId' = id
      /\ \A k \in 1..Len(saved) : saved[k].id # id =>
             saved[k] \in Range(saved') \/ (k = MaxSaved /\ id \notin Ids(saved))
      /\ msgs # <<>> => [id |-> id, messages |-> msgs] \in Range(saved')
  BY ShowSaves
<1>2. saved \in Seq(Entry) /\ \A k \in 1..Len(saved) : saved[k] \in Range(saved)
  BY LenProperties DEF HistoryInv, Range
<1>3. ASSUME NEW k \in 1..Len(saved), saved[k].id # conversationId, saved[k].id = id
      PROVE  saved[k] \in Range(saved')
  <2>1. CASE msgs = <<>>
    BY <1>2, <2>1 DEF Show, storage
  <2>2. CASE msgs # <<>>
    <3>1. saved[k] \in Entry /\ saved[k].messages = msgs
      BY <1>2, <1>3, <2>2, ElementOfSeq
    <3>2. saved[k] = [id |-> id, messages |-> msgs]
      BY <1>3, <3>1 DEF Entry
    <3> QED BY <1>1, <2>2, <3>2
  <2> QED BY <2>1, <2>2
<1> QED BY <1>1, <1>3 DEF Background

LEMMA StepKeepsOthers == PartsInv /\ Next => Background
<1> SUFFICES ASSUME PartsInv, Next PROVE Background
  OBVIOUS
<1>1. /\ HistoryInv /\ AwaitTypes /\ saved \in Seq(Entry)
      /\ conversationId \in Conv /\ messages \in Seq(Message)
      /\ \A k \in 1..Len(saved) : saved[k] \in Range(saved)
  BY LenProperties DEF PartsInv, HistoryInv, Range
<1>2. ASSUME UNCHANGED saved PROVE Background
  BY <1>1, <1>2 DEF Background
<1>3. ASSUME NEW msgs \in Seq(Message), Show(conversationId, msgs) PROVE Background
  BY <1>1, <1>3, ShownKeepsOthers
<1>4. ASSUME NEW id \in Conv, FreshId(id), NEW msgs \in Seq(Message), Show(id, msgs)
      PROVE  Background
  <2>1. \A e \in Range(saved) : e.id # id
    BY <1>1, <1>4, IdsOfRange DEF FreshId
  <2> QED BY <1>1, <1>4, <2>1, ShownKeepsOthers
<1>5. ASSUME NEW id \in Conv, FreshId(id) \/ id = conversationId,
             NEW msgs \in Seq(Message), Ask(id, msgs)
      PROVE  Background
  <2>1. turns' = turns + 1 /\ turns + 1 \in 1..MaxTurns
    BY <1>1, <1>5, ChatAssumption DEF Ask, AwaitTypes
  <2>2. /\ Show(id, Append(msgs, Plain("user", turns', {})))
        /\ Append(msgs, Plain("user", turns', {})) \in Seq(Message)
    BY <1>5, <2>1, PlainIsMessage, AppendedMessages DEF Ask, Kind
  <2> QED BY <1>3, <1>4, <1>5, <2>2
<1>6. CASE SendMessage
  BY <1>1, <1>5, <1>6 DEF SendMessage
<1>7. CASE Reply
  <2>1. PICK reply \in Replies(pending[1]) : Show(conversationId, Append(messages, reply))
    BY <1>7 DEF Reply
  <2>2. reply \in Message
    BY <1>1, <1>7, PendingType, ReplyFacts DEF Reply
  <2> QED BY <1>1, <1>3, <2>1, <2>2, AppendedMessages
<1>8. CASE ShowMore
  <2>1. PICK i \in 1..Len(messages) :
            Show(conversationId, [messages EXCEPT ![i].loadingMore = TRUE])
    BY <1>8 DEF ShowMore
  <2>2. [messages EXCEPT ![i].loadingMore = TRUE] \in Seq(Message)
    BY <1>1, LoadingIsAlike
  <2> QED BY <1>3, <2>1, <2>2
<1>9. CASE MoreDone
  <2>1. PICK r \in moreRequests, arrived \in BOOLEAN :
            Show(conversationId, Resolved(r.turn, arrived, r.pages))
    BY <1>9 DEF MoreDone
  <2>2. Resolved(r.turn, arrived, r.pages) \in Seq(Message)
    BY <1>1, ResolvedIsAlike DEF AwaitTypes
  <2> QED BY <1>3, <2>1, <2>2
<1>10. CASE NewChat
  BY <1>4, <1>10, EmptyHistory DEF NewChat
<1>11. CASE TogglePanel
  BY <1>2, <1>11 DEF TogglePanel, storage
<1>12. CASE OpenConversation
  <2>1. PICK f \in Range(panel) : Show(f.id, f.messages)
    BY <1>12 DEF OpenConversation
  <2>2. f \in Entry
    BY <1>1, StoresAreEntries DEF Stores
  <2>3. \A e \in Range(saved) : e.id = f.id => f.id = conversationId \/ e = f
    BY <1>1, <1>12 DEF OpenConversation, HistoryInv, PanelFits
  <2>4. f.id \in Conv /\ f.messages \in Seq(Message)
    BY <2>2 DEF Entry
  <2> QED BY <1>1, <2>1, <2>3, <2>4, ShownKeepsOthers
<1>13. CASE DeleteConversation
  <2>1. PICK id \in Conv : Delete(id)
    BY <1>13 DEF DeleteConversation
  <2>2. panelOpen /\ \A f \in Range(panel) : f.id # id => f \in Range(saved')
    BY <1>1, <2>1, DeleteKeepsHistory DEF Delete
  <2>3. ASSUME NEW k \in 1..Len(saved), saved[k].id # conversationId
        PROVE  saved[k] \in Range(saved') \/ Delete(saved[k].id)
    <3>1. saved[k].id \in Ids(panel)
      BY <1>1, <2>2, <2>3, IdsOfRange DEF HistoryInv, PanelFits
    <3>2. PICK f \in Range(panel) : f.id = saved[k].id
      BY <1>1, <3>1, IdsOfRange DEF HistoryInv
    <3>3. saved[k] = f
      BY <1>1, <2>2, <2>3, <3>2 DEF HistoryInv, PanelFits
    <3> QED BY <2>1, <2>2, <3>3
  <2> QED BY <2>3 DEF Background
<1>14. CASE Load
  <2>1. CASE saved = <<>>
    BY <1>4, <1>14, <2>1, EmptyHistory DEF Load
  <2>2. CASE saved # <<>>
    <3>1. PICK i \in 1..Len(saved) : Show(saved[i].id, saved[i].messages)
      BY <1>14, <2>2 DEF Load
    <3>2. saved[i].id \in Conv /\ saved[i].messages \in Seq(Message)
      <4>1. saved[i] \in Entry
        BY <1>1, ElementOfSeq
      <4> QED BY <4>1 DEF Entry
    <3>3. \A e \in Range(saved) : e.id = saved[i].id => e = saved[i]
      BY <1>1, LenProperties DEF HistoryInv, WellFormed, IdsDistinct, Range
    <3> QED BY <1>1, <3>1, <3>2, <3>3, ShownKeepsOthers
  <2> QED BY <2>1, <2>2
<1>15. CASE LoadPrefilled
  BY <1>5, <1>15, EmptyHistory DEF LoadPrefilled
<1> QED
  BY <1>6, <1>7, <1>8, <1>9, <1>10, <1>11, <1>12, <1>13, <1>14, <1>15 DEF Next

\* A conversation that is not on the screen stays in the history as it is until
\* the user deletes it or newer ones push it out.
THEOREM BackgroundIsKept == Spec => BackgroundKept
<1>1. PartsInv /\ [Next]_vars => [Background]_vars
  BY StepKeepsOthers
<1> QED BY <1>1, PartsInvariant, PTL DEF Spec, BackgroundKept
================================================================================
