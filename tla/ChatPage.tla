------------------------------ MODULE ChatPage ------------------------------
(***************************************************************************)
(* The search page of frontend/src/app/search/page.tsx: one conversation   *)
(* on the screen, a history of conversations in localStorage, a panel that *)
(* lists a copy of the history, and searches whose answers come in while   *)
(* the user goes on.                                                       *)
(*                                                                         *)
(* An event handler, or what runs when an awaited answer comes in, is one  *)
(* step together with the render and the effect that saves the             *)
(* conversation.  A message is what kind it is, its turn (the number of    *)
(* the user message it is or answers), what it is about, and for results   *)
(* how many pages they show and whether more are being loaded.             *)
(***************************************************************************)
EXTENDS Integers, Sequences, SequencesExt

CONSTANTS
    Conv,        \* conversation ids
    Questions,   \* the question types, in the order they are asked in
    MaxSaved,    \* MAX_SAVED_CONVERSATIONS
    MaxPages,    \* BACKEND_MAX_LIMIT, in pages of SHOW_MORE_INCREMENT
    MaxTurns     \* bound: user messages

ASSUME ChatAssumption ==
    /\ Questions \in Seq(STRING) /\ Len(Questions) > 0
    /\ {MaxSaved, MaxPages, MaxTurns} \subseteq Nat \ {0}

VARIABLES
    messages,        \* messages
    conversationId,  \* conversationId
    panel,           \* conversations: the list as the panel was opened with it
                     \* (empty while the panel is closed, when nothing reads it)
    panelOpen,       \* historyOpen
    saved,           \* CONVERSATIONS_KEY in localStorage, last updated first
    activeId,        \* ACTIVE_ID_KEY in localStorage
    pending,         \* the sendMessage that awaits an answer, if any (loading)
    moreRequests,    \* the handleShowMore that await an answer
    turns            \* user messages so far

screen == <<messages, conversationId>>
history == <<panel, panelOpen>>
storage == <<saved, activeId>>
vars == <<screen, history, storage, pending, moreRequests, turns>>

Question == Range(Questions)
Kind == {"user", "note", "question", "restart", "results"}
Message == [kind : Kind, turn : 1..MaxTurns, about : SUBSET Question,
            pages : 0..MaxPages, loadingMore : BOOLEAN]
Entry == [id : Conv, messages : Seq(Message)]

Plain(kind, turn, about) ==
    [kind |-> kind, turn |-> turn, about |-> about, pages |-> 0, loadingMore |-> FALSE]
Ids(list) == {list[i].id : i \in DOMAIN list}
Without(list, id) ==   \* an id is in a list once, see ChatInv
    IF id \in Ids(list) THEN RemoveAt(list, CHOOSE i \in DOMAIN list : list[i].id = id) ELSE list
IsLoading == pending # <<>>

\* saveConversations() sorts by the time of the last update and trims.
Trimmed(list) == SubSeq(list, 1, IF Len(list) > MaxSaved THEN MaxSaved ELSE Len(list))

\* The effect that saves the conversation after each change of it.
Show(id, msgs) ==
    /\ conversationId' = id
    /\ messages' = msgs
    /\ IF msgs = <<>>
       THEN UNCHANGED storage
       ELSE /\ saved' = Trimmed(<<[id |-> id, messages |-> msgs]>> \o Without(saved, id))
            /\ activeId' = id

FreshId(id) == id \notin Ids(saved) \cup Ids(panel) \cup {conversationId}

Init ==
    /\ messages = <<>>
    /\ conversationId \in Conv
    /\ panel = <<>> /\ panelOpen = FALSE
    /\ saved = <<>> /\ activeId = "none"
    /\ pending = <<>> /\ moreRequests = {}
    /\ turns = 0

-----------------------------------------------------------------------------
(* The dialog: sendMessage().                                              *)

\* getActiveMessages(): from the last restart on.
Active(msgs) ==
    {i \in 1..Len(msgs) : \A k \in (i + 1)..Len(msgs) : msgs[k].kind # "restart"}

\* Variant: a question asked before a restart still counts as asked.
WasAskedEver(msgs, q) ==
    \E i \in 1..Len(msgs) : msgs[i].kind \in {"question", "restart"} /\ q \in msgs[i].about

WasAsked(msgs, q) ==
    \E i \in Active(msgs) : msgs[i].kind \in {"question", "restart"} /\ q \in msgs[i].about

\* The questions that buildClarifyingQuestion() finds neither answered nor asked.
Open(msgs, known) ==
    {n \in 1..Len(Questions) : Questions[n] \notin known /\ ~WasAsked(msgs, Questions[n])}

\* What sendMessage() can add when its answer comes in: a note (the message is
\* off topic, or the search failed), the next question, a restart when nothing
\* is found, or results.  known is what extractPreferences() made of the
\* messages: nothing if it failed, and everything for a dupe search.
Replies(p) ==
    {Plain("note", p.turn, {})} \cup
    UNION {LET open == Open(p.messages, known)
           IN  IF open # {}
               THEN {Plain("question", p.turn, {Questions[n]}) :
                        n \in {first \in open : \A k \in open : first <= k}}
               ELSE {Plain("restart", p.turn, {Questions[1]}),
                     [Plain("results", p.turn, known) EXCEPT !.pages = 1]}
           : known \in SUBSET Question}

Ask(id, msgs) ==
    /\ turns < MaxTurns
    /\ turns' = turns + 1
    /\ LET asked == Append(msgs, Plain("user", turns', {}))
       IN  /\ Show(id, asked)
           /\ pending' = <<[turn |-> turns', messages |-> asked]>>

SendMessage ==
    /\ ~IsLoading
    /\ Ask(conversationId, messages)
    /\ UNCHANGED <<history, moreRequests>>

\* Variant: the answer is appended to the messages as they were when it was asked for.
ReplyToSnapshot ==
    /\ IsLoading
    /\ \E reply \in Replies(pending[1]) :
           Show(conversationId, Append(pending[1].messages, reply))
    /\ pending' = <<>>
    /\ UNCHANGED <<history, moreRequests, turns>>

\* The answer is appended to whatever conversation is on the screen by now.
Reply ==
    /\ IsLoading
    /\ \E reply \in Replies(pending[1]) : Show(conversationId, Append(messages, reply))
    /\ pending' = <<>>
    /\ UNCHANGED <<history, moreRequests, turns>>

-----------------------------------------------------------------------------
(* "Show More": handleShowMore().                                          *)

ShowMore ==
    \E i \in 1..Len(messages) :
        /\ messages[i].kind = "results" /\ ~messages[i].loadingMore
        /\ messages[i].pages < MaxPages
        /\ Show(conversationId, [messages EXCEPT ![i].loadingMore = TRUE])
        /\ moreRequests' = moreRequests \cup
               {[turn |-> messages[i].turn, pages |-> messages[i].pages + 1]}
        /\ UNCHANGED <<history, pending, turns>>

\* The messages once an answer for the results of turn t has come in: more of
\* them or, after an error, the same.
Resolved(t, arrived, pages) ==
    [i \in 1..Len(messages) |->
        IF messages[i].kind = "results" /\ messages[i].turn = t
        THEN [messages[i] EXCEPT !.loadingMore = FALSE,
                                 !.pages = IF arrived THEN pages ELSE messages[i].pages]
        ELSE messages[i]]

\* The message may be on the screen or not.
MoreDone ==
    \E r \in moreRequests :
        /\ \E arrived \in BOOLEAN : Show(conversationId, Resolved(r.turn, arrived, r.pages))
        /\ moreRequests' = moreRequests \ {r}
        /\ UNCHANGED <<history, pending, turns>>

-----------------------------------------------------------------------------
(* The history.                                                            *)

ClosePanel == panelOpen' = FALSE /\ panel' = <<>>

NewChat ==
    /\ \E id \in Conv : FreshId(id) /\ Show(id, <<>>)
    /\ ClosePanel
    /\ UNCHANGED <<pending, moreRequests, turns>>

TogglePanel ==
    /\ panelOpen' = ~panelOpen
    /\ panel' = IF panelOpen THEN <<>> ELSE saved
    /\ UNCHANGED <<screen, storage, pending, moreRequests, turns>>

\* Variant: the panel stays open.
OpenConversationKeepsPanel ==
    /\ panelOpen
    /\ \E e \in Range(panel) : Show(e.id, e.messages)
    /\ UNCHANGED <<history, pending, moreRequests, turns>>

OpenConversation ==
    /\ panelOpen
    /\ \E e \in Range(panel) : Show(e.id, e.messages)
    /\ ClosePanel
    /\ UNCHANGED <<pending, moreRequests, turns>>

\* deleteConversation() saves the panel's list without id.
Delete(id) ==
    /\ panelOpen /\ id \in Ids(panel)
    /\ saved' = Trimmed(Without(panel, id))
    /\ IF id = conversationId
       THEN \E new \in Conv : /\ FreshId(new)
                              /\ conversationId' = new
                              /\ messages' = <<>>
                              /\ ClosePanel
       ELSE panel' = Without(panel, id) /\ UNCHANGED <<screen, panelOpen>>
    /\ UNCHANGED <<activeId, pending, moreRequests, turns>>

DeleteConversation == \E id \in Conv : Delete(id)

\* The page is loaded again: what was awaited is lost, and the conversation
\* that was on the screen, or else the last one updated, is restored.
Load ==
    /\ ClosePanel
    /\ pending' = <<>> /\ moreRequests' = {}
    /\ IF saved = <<>>
       THEN \E id \in Conv : FreshId(id) /\ Show(id, <<>>)
       ELSE \E i \in 1..Len(saved) :
                /\ saved[i].id = activeId \/ (i = 1 /\ activeId \notin Ids(saved))
                /\ Show(saved[i].id, saved[i].messages)
    /\ UNCHANGED turns

\* The same with ?prefill=: a conversation of its own, and a message in it.
LoadPrefilled ==
    /\ ClosePanel
    /\ moreRequests' = {}
    /\ \E id \in Conv : FreshId(id) /\ Ask(id, <<>>)

Next ==
    \/ SendMessage \/ Reply \/ ShowMore \/ MoreDone
    \/ NewChat \/ TogglePanel \/ OpenConversation \/ DeleteConversation
    \/ Load \/ LoadPrefilled

Spec == Init /\ [][Next]_vars

-----------------------------------------------------------------------------
TypeOK ==
    /\ messages \in Seq(Message)
    /\ conversationId \in Conv
    /\ panel \in Seq(Entry) /\ saved \in Seq(Entry)
    /\ panelOpen \in BOOLEAN
    /\ activeId \in Conv \cup {"none"}
    /\ pending \in Seq([turn : 1..MaxTurns, messages : Seq(Message)]) /\ Len(pending) <= 1
    /\ IsLoading => pending[1].turn <= turns
    /\ moreRequests \subseteq [turn : 1..MaxTurns, pages : 0..MaxPages]
    /\ turns \in 0..MaxTurns

IdsDistinct(list) == \A i, j \in 1..Len(list) : list[i].id = list[j].id => i = j

\* A list names a conversation once, no more of them than it may and no empty one.
WellFormed(list) ==
    /\ IdsDistinct(list) /\ Len(list) <= MaxSaved
    /\ \A e \in Range(list) : e.messages # <<>>

\* The history is well formed; and while the panel is open, its copy lists every
\* conversation of the history and can only be out of date about the one on the screen.
ChatInv ==
    /\ TypeOK
    /\ WellFormed(saved) /\ WellFormed(panel)
    /\ panelOpen =>
          /\ Ids(saved) \subseteq Ids(panel) \cup {conversationId}
          /\ \A e \in Range(saved), f \in Range(panel) :
                 e.id = f.id /\ e.id # conversationId => e = f

\* A conversation as it is on the screen, in the history or in the panel.
OnScreen == [id |-> conversationId, messages |-> messages]
Stores == Range(saved) \cup Range(panel) \cup {OnScreen}
IsMessageOf(m, msgs) ==
    \E i \in 1..Len(msgs) : msgs[i].turn = m.turn /\ (msgs[i].kind = "user" <=> m.kind = "user")

\* No message is ever part of two conversations, however late an answer comes in
\* and whichever conversation is on the screen by then (the functional updates
\* of setMessages).
MessageOnce ==
    \A e, f \in Stores : e.id # f.id =>
        \A i \in 1..Len(e.messages) : ~IsMessageOf(e.messages[i], f.messages)

\* A conversation that is not on the screen stays in the history as it is until
\* the user deletes it or newer ones push it out: "switching conversationId just
\* starts writing to a different entry".
Background ==
    \A i \in 1..Len(saved) :
        saved[i].id # conversationId =>
            \/ saved[i] \in Range(saved')
            \/ Delete(saved[i].id)
            \/ i = MaxSaved /\ conversationId' \notin Ids(saved)

BackgroundKept == [][Background]_vars

\* "starting a new chat never discards an old one": the messages of a
\* conversation that leaves the screen are in the history, unless it is deleted.
NewChatKeepsOld ==
    [][NewChat /\ messages # <<>> => OnScreen \in Range(saved')]_vars

\* A conversation in which every answer follows its own message.
Clean(msgs) ==
    \A i \in 1..Len(msgs) : msgs[i].kind # "user" =>
        i > 1 /\ msgs[i - 1].kind = "user" /\ msgs[i - 1].turn = msgs[i].turn

Before(msgs, i) == SubSeq(msgs, 1, i - 1)

\* Between two restarts, the dialog asks no question twice, whether or not the
\* answers to it were understood, across reloads and switches.
AskedOnce(msgs) ==
    \A i \in 1..Len(msgs) : msgs[i].kind = "question" =>
        \A j \in Active(Before(msgs, i)) :
            msgs[j].kind \in {"question", "restart"} => msgs[j].about # msgs[i].about

\* Results are only ever shown once each question has been answered or asked
\* since the last restart ("a question asked before a restart ... was silently
\* never re-asked").
NothingSkipped(msgs) ==
    \A i \in 1..Len(msgs) : msgs[i].kind = "results" =>
        \A q \in Question \ msgs[i].about :
            \E j \in Active(Before(msgs, i)) :
                msgs[j].kind \in {"question", "restart"} /\ q \in msgs[j].about

\* Between two restarts no question is asked twice, and none is skipped before
\* results are shown: two properties that pull WasAsked in opposite directions.
DialogInOrder ==
    \A e \in Stores : Clean(e.messages) => AskedOnce(e.messages) /\ NothingSkipped(e.messages)

-----------------------------------------------------------------------------
(* What makes these inductive: where the message that awaits its answer is, *)
(* and what the answer is made from.                                        *)

Alike(msgs, others) ==
    /\ Len(msgs) = Len(others)
    /\ \A i \in 1..Len(msgs) : /\ msgs[i].kind = others[i].kind
                               /\ msgs[i].turn = others[i].turn
                               /\ msgs[i].about = others[i].about

\* No message is of a turn that is still to come, and the turn that awaits its
\* answer has none.
TurnsCounted ==
    \A e \in Stores : \A i \in 1..Len(e.messages) :
        /\ e.messages[i].turn <= turns
        /\ IsLoading /\ e.messages[i].turn = pending[1].turn => e.messages[i].kind = "user"

\* Where the message that awaits its answer is the last one, nothing that decides
\* on the answer has changed since it was sent.
SnapshotHolds ==
    IsLoading => \A e \in Stores :
        LET last == Len(e.messages) IN
        last > 0 /\ e.messages[last].turn = pending[1].turn /\ e.messages[last].kind = "user"
            => Alike(e.messages, pending[1].messages)

DialogInv == ChatInv /\ MessageOnce /\ DialogInOrder /\ TurnsCounted /\ SnapshotHolds
=============================================================================
