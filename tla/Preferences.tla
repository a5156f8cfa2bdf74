---------------------------- MODULE Preferences ----------------------------
(***************************************************************************)
(* /classify-intent and /extract-preferences (routes_classify.py): the     *)
(* rate limit per client, the local layers of preference_extractor.py and  *)
(* intent_detector.py, the classifier of off_topic_classifier.py, and Groq *)
(* behind a circuit breaker for each of the two.                           *)
(*                                                                         *)
(* The embeddings of the scenarios and of the classifier's anchors are     *)
(* computed at start-up, or by the requests that miss them, one await per  *)
(* embedding, in module variables that every request reads.                *)
(***************************************************************************)
EXTENDS RateLimiter, FiniteSets

CONSTANTS
    Classify, Extract,  \* requests to the two endpoints, from one client
    Boot,               \* the task of lifespan()
    RequestsPerMinute,  \* of each endpoint
    Scenarios,          \* entries of SCENARIO_MAP
    Field,              \* what can be extracted, "scenarios" among it
    Core,               \* the fields whose absence is worth a call to Groq
    TripAfter           \* failure_threshold of both breakers

Request == Classify \cup Extract
Task == Request \cup {Boot}

ASSUME PreferencesAssumption ==
    /\ Classify \cap Extract = {} /\ Boot \notin Request
    /\ {"classify", "extract_prefs"} \subseteq Bucket /\ RequestsPerMinute \in Limit
    /\ Scenarios \in Nat \ {0} /\ TripAfter \in Nat \ {0}
    /\ "scenarios" \in Field /\ Core \subseteq Field

VARIABLES
    pc,
    at,        \* how many scenarios a task in "scenarios" has embedded so far
    filled,    \* how many SCENARIO_EMBEDDINGS has
    anchors,   \* which of _fragrance_embeddings, _off_topic_embeddings are set
    breakers,  \* _groq_breaker and _extractor_breaker, see Breaker
    draft,     \* what a request has found, been given by Groq, and been judged
    hasKey,    \* is settings.groq_api_key set?
    cause,     \* history: why a request has failed
    bootOk     \* history: has no embedding failed at start-up?

tables == <<filled, anchors>>
prefVars == <<pc, at, filled, anchors, breakers, draft, hasKey, cause, bootOk>>
allVars == <<created, capacity, tokens, sinceRefill, winAge, winGrants,
             pc, at, filled, anchors, breakers, draft, hasKey, cause, bootOk>>

Classifier == INSTANCE Breaker WITH Threshold <- TripAfter, breaker <- breakers.classifier
Extractor == INSTANCE Breaker WITH Threshold <- TripAfter, breaker <- breakers.extractor

Blank == [found |-> {}, given |-> {}, onTopic |-> TRUE]
Whole == {"fragrance", "offTopic"}

PrefInit ==
    /\ Init
    /\ pc = [t \in Task |-> IF t = Boot THEN "scenarios" ELSE "idle"]
    /\ at = [t \in Task |-> 0]
    /\ filled = 0 /\ anchors = {}
    /\ breakers = [classifier |-> Classifier!Fresh, extractor |-> Extractor!Fresh]
    /\ draft = [r \in Request |-> Blank]
    /\ hasKey \in BOOLEAN
    /\ cause = [r \in Request |-> "none"]
    /\ bootOk = TRUE

Go(t, s) == pc' = [pc EXCEPT ![t] = s]
BootFails(t) == bootOk' = (bootOk /\ t # Boot)

\* classify() is called: are the anchors there?
AtClassifier == IF anchors = Whole THEN "judge" ELSE "fragrance"

-----------------------------------------------------------------------------
\* Up to its first await a request is rate limited, and searched for fields by
\* regexes and keywords.
Serve(r) ==
    LET b == IF r \in Classify THEN "classify" ELSE "extract_prefs" IN
    /\ Check(b, RequestsPerMinute)
    /\ IF ~Allows(b, RequestsPerMinute) THEN Go(r, "refused") /\ UNCHANGED draft
       ELSE /\ Go(r, IF r \in Classify THEN AtClassifier
                     ELSE IF filled = 0 THEN "scenarios" ELSE "match")
            /\ \E f \in IF r \in Extract THEN SUBSET Field ELSE {{}} :
                  draft' = [draft EXCEPT ![r].found = f]
    /\ UNCHANGED <<at, tables, breakers, hasKey, cause, bootOk>>

\* Variant: the server takes requests while it still computes embeddings.
AcceptEarly(r) == pc[r] = "idle" /\ Serve(r)

\* A request comes in once lifespan() has yielded.
Accept(r) == pc[r] = "idle" /\ pc[Boot] = "done" /\ Serve(r)

\* _init_scenario_embeddings() is over with n entries in the table, for a request
\* or for the start-up, which goes on with eager_init().
LeaveScenarios(t, n) ==
    Go(t, IF t = Boot THEN "fragrance" ELSE IF n > 0 THEN "match" ELSE AtClassifier)

\* One more entry.  Whoever finds the table not empty does not wait for the rest.
EmbedScenario(t) ==
    LET n == at[t] + 1 IN
    /\ pc[t] = "scenarios"
    /\ filled' = IF n <= filled THEN filled ELSE n
    /\ IF n < Scenarios THEN at' = [at EXCEPT ![t] = n] /\ UNCHANGED pc
       ELSE at' = [at EXCEPT ![t] = 0] /\ LeaveScenarios(t, filled')
    /\ UNCHANGED <<limiterVars, anchors, breakers, draft, hasKey, cause, bootOk>>

\* A warning, and the table stays as it is, for good if it has an entry.
ScenarioFails(t) ==
    /\ pc[t] = "scenarios"
    /\ at' = [at EXCEPT ![t] = 0]
    /\ LeaveScenarios(t, filled)
    /\ BootFails(t)
    /\ UNCHANGED <<limiterVars, tables, breakers, draft, hasKey, cause>>

\* The query is compared with what the table now has.  Without an embedding of the
\* query no scenario is added to those of the keywords.
Match(r) ==
    /\ pc[r] = "match"
    /\ \E f \in {{}, {"scenarios"}} : draft' = [draft EXCEPT ![r].found = @ \cup f]
    /\ Go(r, AtClassifier)
    /\ UNCHANGED <<limiterVars, at, tables, breakers, hasKey, cause, bootOk>>

-----------------------------------------------------------------------------
\* After classify(): Groq is asked for what is missing, unless a core field is not
\* missing, or the query is off topic.  An open breaker costs the answer nothing.
Conclude(r, verdict, classifier) ==
    LET wanted == r \in Extract /\ hasKey /\ verdict /\ ~(Core \subseteq draft[r].found) IN
    /\ draft' = [draft EXCEPT ![r].onTopic = verdict]
    /\ \/ /\ ~wanted \/ Extractor!Rejects(breakers.extractor)
          /\ breakers' = [breakers EXCEPT !.classifier = classifier]
          /\ Go(r, "answered")
       \/ /\ wanted
          /\ \E b \in Extractor!Admitted(breakers.extractor) :
                breakers' = [classifier |-> classifier, extractor |-> b]
          /\ Go(r, "asksExtractor")

\* The embeddings leave it open: _groq_breaker.call(_classify_llm, text).  Nothing
\* in classify() catches what call() raises.
AskClassifier(r, verdict) ==
    /\ draft' = [draft EXCEPT ![r].onTopic = verdict]
    /\ \/ /\ Classifier!Rejects(breakers.classifier)
          /\ Go(r, "failed")
          /\ cause' = [cause EXCEPT ![r] = "breaker"]
          /\ UNCHANGED breakers
       \/ /\ \E b \in Classifier!Admitted(breakers.classifier) :
                breakers' = [breakers EXCEPT !.classifier = b]
          /\ Go(r, "asksClassifier")
          /\ UNCHANGED cause

\* eager_init() is over.  Without both sets of anchors the query counts as one
\* about fragrances, with no confidence.
LeaveAnchors(t) ==
    IF t = Boot THEN Go(t, "done") /\ UNCHANGED <<breakers, draft, cause>>
    ELSE IF anchors' = Whole THEN Go(t, "judge") /\ UNCHANGED <<breakers, draft, cause>>
    ELSE AskClassifier(t, TRUE)

\* A variable is set when its whole list has been embedded.
FragranceAnchors(t) ==
    /\ pc[t] = "fragrance"
    /\ anchors' = anchors \cup {"fragrance"}
    /\ Go(t, "offTopic")
    /\ UNCHANGED <<limiterVars, at, filled, breakers, draft, hasKey, cause, bootOk>>

OffTopicAnchors(t) ==
    /\ pc[t] = "offTopic"
    /\ anchors' = anchors \cup {"offTopic"}
    /\ LeaveAnchors(t)
    /\ UNCHANGED <<limiterVars, at, filled, hasKey, bootOk>>

AnchorFails(t) ==
    /\ pc[t] \in {"fragrance", "offTopic"}
    /\ UNCHANGED anchors
    /\ LeaveAnchors(t)
    /\ BootFails(t)
    /\ UNCHANGED <<limiterVars, at, filled, hasKey>>

\* The embedding of the query is compared with all anchors.
Judge(r) ==
    /\ pc[r] = "judge"
    /\ \E verdict \in BOOLEAN :
          \/ Conclude(r, verdict, breakers.classifier) /\ UNCHANGED cause
          \/ AskClassifier(r, verdict)
    /\ UNCHANGED <<limiterVars, at, tables, hasKey, bootOk>>

\* The query cannot be embedded; nothing catches that.
JudgeFails(r) ==
    /\ pc[r] = "judge"
    /\ Go(r, "failed")
    /\ cause' = [cause EXCEPT ![r] = "embedding"]
    /\ UNCHANGED <<limiterVars, at, tables, breakers, draft, hasKey, bootOk>>

-----------------------------------------------------------------------------
\* Variant: what the breaker wraps reports its failure.
ClassifierSilentCounted(r) ==
    /\ pc[r] = "asksClassifier"
    /\ Conclude(r, draft[r].onTopic, Classifier!Failed(breakers.classifier))
    /\ UNCHANGED <<limiterVars, at, tables, hasKey, cause, bootOk>>

\* _classify_llm() returns None: no key, or whatever went wrong.  The breaker
\* takes it for a success.
ClassifierSilent(r) ==
    /\ pc[r] = "asksClassifier"
    /\ Conclude(r, draft[r].onTopic, Classifier!Fresh)
    /\ UNCHANGED <<limiterVars, at, tables, hasKey, cause, bootOk>>

ClassifierReplies(r) ==
    /\ pc[r] = "asksClassifier" /\ hasKey
    /\ \E verdict \in BOOLEAN : Conclude(r, verdict, Classifier!Fresh)
    /\ UNCHANGED <<limiterVars, at, tables, hasKey, cause, bootOk>>

\* Variant: what Groq says goes before what the query says.
MergeOverwrites(r, reply) == draft' = [draft EXCEPT ![r].given = reply]

\* "Never overwrite confident local extractions."
Merge(r, reply) == draft' = [draft EXCEPT ![r].given = reply \ draft[r].found]

\* _extract_llm() returns an object, with a usable value for the fields in reply;
\* or {} for whatever went wrong.
ExtractorReplies(r) ==
    /\ pc[r] = "asksExtractor"
    /\ \E reply \in SUBSET Field : Merge(r, reply)
    /\ breakers' = [breakers EXCEPT !.extractor = Extractor!Fresh]
    /\ Go(r, "answered")
    /\ UNCHANGED <<limiterVars, at, tables, hasKey, cause, bootOk>>

\* What it returns is no object, or has a list that cannot be iterated: the merge
\* is outside the try, and raises.
ExtractorMisleads(r) ==
    /\ pc[r] = "asksExtractor"
    /\ breakers' = [breakers EXCEPT !.extractor = Extractor!Fresh]
    /\ Go(r, "failed")
    /\ cause' = [cause EXCEPT ![r] = "malformed"]
    /\ UNCHANGED <<limiterVars, at, tables, draft, hasKey, bootOk>>

\* The response is sent.
Leave(r) ==
    /\ pc[r] \in {"answered", "refused", "failed"}
    /\ Go(r, "idle")
    /\ draft' = [draft EXCEPT ![r] = Blank]
    /\ cause' = [cause EXCEPT ![r] = "none"]
    /\ UNCHANGED <<limiterVars, at, tables, breakers, hasKey, bootOk>>

Embedding(t) ==
    \/ EmbedScenario(t) \/ ScenarioFails(t)
    \/ FragranceAnchors(t) \/ OffTopicAnchors(t) \/ AnchorFails(t)
Answering(r) ==
    \/ Match(r) \/ Judge(r) \/ JudgeFails(r)
    \/ ClassifierSilent(r) \/ ClassifierReplies(r) \/ ExtractorReplies(r) \/ ExtractorMisleads(r)

PrefNext ==
    \/ \E t \in Task : Embedding(t)
    \/ \E r \in Request : Accept(r) \/ Answering(r) \/ Leave(r)
    \/ (Tick \/ Observe) /\ UNCHANGED prefVars

PrefSpec == PrefInit /\ [][PrefNext]_allVars

-----------------------------------------------------------------------------
\* classify() does not catch CircuitBreakerOpenError, and no query ever fails for
\* it: what its breaker wraps never raises, so that the breaker never opens.
GroqFailsNoQuery == \A r \in Request : cause[r] # "breaker"

\* What Groq extracts adds to what the query says ("never overwrite confident local
\* extractions"), for a query that is on topic and has left a core field open.
LocalKept ==
    \A r \in Request : draft[r].given # {} =>
        /\ draft[r].given \cap draft[r].found = {}
        /\ draft[r].onTopic /\ ~(Core \subseteq draft[r].found)

\* No query is compared with half of the anchors; and unless an embedding failed at
\* start-up, none with half of the scenarios, and none pays for embeddings that are
\* not its own ("so the first real user query doesn't pay for them").
TablesWhole ==
    \A r \in Request :
        /\ pc[r] = "judge" => anchors = Whole
        /\ bootOk => pc[r] \notin {"scenarios", "fragrance", "offTopic"}
        /\ bootOk /\ pc[r] = "match" => filled = Scenarios

\* The inductive invariant: the types, and why the three hold.
PrefTypeOK ==
    /\ pc \in [Task -> {"idle", "refused", "scenarios", "match", "fragrance", "offTopic", "judge",
                        "asksClassifier", "asksExtractor", "answered", "failed", "done"}]
    /\ at \in [Task -> 0..(Scenarios - 1)]
    /\ filled \in 0..Scenarios
    /\ anchors \subseteq Whole
    /\ draft \in [Request -> [found : SUBSET Field, given : SUBSET Field, onTopic : BOOLEAN]]
    /\ hasKey \in BOOLEAN /\ bootOk \in BOOLEAN
    /\ cause \in [Request -> {"none", "embedding", "malformed"}]

BreakersFresh == breakers = [classifier |-> Classifier!Fresh, extractor |-> Extractor!Fresh]

\* How far the start-up has come, and that nothing comes before its end.
BootFirst ==
    /\ pc[Boot] \in {"scenarios", "fragrance", "offTopic", "done"}
    /\ pc[Boot] # "done" => \A r \in Request : pc[r] = "idle"
    /\ bootOk => /\ filled = IF pc[Boot] = "scenarios" THEN at[Boot] ELSE Scenarios
                 /\ pc[Boot] \in {"offTopic", "done"} => "fragrance" \in anchors
                 /\ pc[Boot] = "done" => anchors = Whole

Asking ==
    \A r \in Request :
        /\ pc[r] = "asksExtractor" => draft[r].onTopic /\ ~(Core \subseteq draft[r].found)
        /\ draft[r].given # {} => pc[r] = "answered"

PrefInv == PrefTypeOK /\ BreakersFresh /\ BootFirst /\ Asking /\ LocalKept /\ TablesWhole
=============================================================================
