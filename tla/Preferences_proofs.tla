------------------------- MODULE Preferences_proofs -------------------------
(***************************************************************************)
(* The two preference endpoints, for any number of requests, scenarios and *)
(* fields, any thresholds and limits: PrefInv is inductive, and the        *)
(* requests draw on the token buckets as RateLimiter says they may.  Then  *)
(* the circuit breaker of the two, which Preferences has without its clock *)
(* (Breaker): with the clock it implements that.                           *)
(***************************************************************************)
EXTENDS Preferences, CircuitBreaker, RateLimiter_proofs

\* An untripped breaker lets every call through and changes nothing by it.
LEMMA FreshAdmits ==
    /\ ~Classifier!Rejects(Classifier!Fresh)
    /\ ~Extractor!Rejects(Extractor!Fresh)
    /\ Classifier!Admitted(Classifier!Fresh) = {Classifier!Fresh}
    /\ Extractor!Admitted(Extractor!Fresh) = {Extractor!Fresh}
BY DEF Classifier!Rejects, Classifier!Fresh, Extractor!Rejects, Extractor!Fresh,
       Classifier!Admitted, Extractor!Admitted

-----------------------------------------------------------------------------
\* What the endpoints do to the buckets is what RateLimiter lets its callers do.
LEMMA StepsRefineLimiter == [PrefNext]_allVars => [Next]_limiterVars
<1> SUFFICES ASSUME [PrefNext]_allVars PROVE [Next]_limiterVars
  OBVIOUS
<1>1. ASSUME NEW t \in Task, Embedding(t) PROVE UNCHANGED limiterVars
  BY <1>1 DEF Embedding, EmbedScenario, ScenarioFails, FragranceAnchors, OffTopicAnchors,
              AnchorFails, limiterVars
<1>2. ASSUME NEW r \in Request, Answering(r) \/ Leave(r) PROVE UNCHANGED limiterVars
  BY <1>2 DEF Answering, Match, Judge, JudgeFails, ClassifierSilent, ClassifierReplies,
              ExtractorReplies, ExtractorMisleads, Leave, limiterVars
<1>3. ASSUME NEW r \in Request, Accept(r) PROVE Next
  BY <1>3, PreferencesAssumption DEF Accept, Serve, Next
<1>4. CASE UNCHANGED allVars
  BY <1>4 DEF allVars, limiterVars
<1>5. CASE Tick \/ Observe
  BY <1>5 DEF Next
<1> QED BY <1>1, <1>2, <1>3, <1>4, <1>5 DEF PrefNext

\* The two endpoints implement the token buckets ...
THEOREM EndpointsImplementLimiter == PrefSpec => Spec
BY StepsRefineLimiter, PTL DEF PrefSpec, PrefInit, Spec

\* ... so that no window sees more queries let through than the burst bound allows.
THEOREM QueriesAreBounded == PrefSpec => []BurstBound
BY EndpointsImplementLimiter, BurstsAreBounded, PTL

-----------------------------------------------------------------------------
LEMMA InitPrefInv == PrefInit => PrefInv
BY PreferencesAssumption
   DEF PrefInit, PrefInv, PrefTypeOK, BreakersFresh, BootFirst, Asking, LocalKept, TablesWhole,
       Request, Task, Blank, Whole

\* The requests keep out of the start-up, which keeps out of them.
LEMMA TaskFacts == Request \subseteq Task /\ Boot \in Task /\ Boot \notin Request
BY PreferencesAssumption DEF Task, Request

\* classify() has a verdict, and Groq is asked for the rest, or not.
LEMMA ConcludeKeepsInv ==
    ASSUME PrefInv, NEW r \in Request, NEW verdict \in BOOLEAN,
           pc[r] \in {"judge", "asksClassifier"},
           Conclude(r, verdict, Classifier!Fresh),
           UNCHANGED <<at, filled, anchors, hasKey, cause, bootOk>>
    PROVE  PrefInv'
<1> USE TaskFacts DEF PrefInv
<1>1. /\ draft' = [draft EXCEPT ![r].onTopic = verdict]
      /\ breakers' = breakers
      /\ \/ Go(r, "answered")
         \/ /\ Go(r, "asksExtractor")
            /\ r \in Extract /\ verdict /\ ~(Core \subseteq draft[r].found)
  BY FreshAdmits DEF Conclude, BreakersFresh
<1>2. PrefTypeOK'
  BY <1>1 DEF PrefTypeOK, Go
<1>3. BreakersFresh' /\ BootFirst'
  BY <1>1 DEF BreakersFresh, BootFirst, Go, PrefTypeOK
<1>4. Asking' /\ LocalKept' /\ TablesWhole'
  BY <1>1 DEF Asking, LocalKept, TablesWhole, Go, PrefTypeOK
<1> QED BY <1>2, <1>3, <1>4

\* The breaker of classify() lets the call through.
LEMMA AskKeepsInv ==
    ASSUME PrefInv, NEW r \in Request, NEW verdict \in BOOLEAN,
           pc[r] \in {"judge", "fragrance", "offTopic"},
           AskClassifier(r, verdict),
           filled' = filled, hasKey' = hasKey, at' = at,
           bootOk' = bootOk, anchors \subseteq anchors', anchors' \subseteq Whole
    PROVE  PrefInv'
<1> USE TaskFacts DEF PrefInv
<1>1. /\ draft' = [draft EXCEPT ![r].onTopic = verdict]
      /\ breakers' = breakers
      /\ cause' = cause
      /\ Go(r, "asksClassifier")
  BY FreshAdmits DEF AskClassifier, BreakersFresh
<1>2. PrefTypeOK'
  BY <1>1 DEF PrefTypeOK, Go
<1>3. BreakersFresh' /\ BootFirst'
  BY <1>1 DEF BreakersFresh, BootFirst, Go, PrefTypeOK
<1>4. Asking' /\ LocalKept' /\ TablesWhole'
  BY <1>1 DEF Asking, LocalKept, TablesWhole, Go, PrefTypeOK, Whole
<1> QED BY <1>2, <1>3, <1>4

\* A request is let in, when the start-up is over.
LEMMA AcceptKeepsInv ==
    ASSUME PrefInv, NEW r \in Request, Accept(r)
    PROVE  PrefInv'
<1> USE TaskFacts, PreferencesAssumption DEF PrefInv, Accept, Serve, tables
<1>1. PICK s \in {"refused", "scenarios", "match", "fragrance", "judge"}, f \in SUBSET Field :
        /\ Go(r, s)
        /\ \/ draft' = draft
           \/ draft' = [draft EXCEPT ![r].found = f]
        /\ s = "scenarios" => filled = 0
        /\ s = "judge" => anchors = Whole
        /\ s = "fragrance" => anchors # Whole
  <2>1. CASE ~Allows(IF r \in Classify THEN "classify" ELSE "extract_prefs", RequestsPerMinute)
    BY <2>1, {} \in SUBSET Field
  <2>2. CASE Allows(IF r \in Classify THEN "classify" ELSE "extract_prefs", RequestsPerMinute)
    <3>1. PICK f \in SUBSET Field : draft' = [draft EXCEPT ![r].found = f]
      BY <2>2
    <3> QED BY <2>2, <3>1 DEF AtClassifier
  <2> QED BY <2>1, <2>2
<1>2. PrefTypeOK'
  BY <1>1 DEF PrefTypeOK, Go
<1>3. BreakersFresh' /\ BootFirst'
  BY <1>1 DEF BreakersFresh, BootFirst, Go, PrefTypeOK
<1>4. draft[r].given = {}
  BY DEF Asking
<1>5. Asking' /\ LocalKept'
  BY <1>1, <1>4 DEF Asking, LocalKept, Go, PrefTypeOK
<1>6. TablesWhole'
  BY <1>1 DEF TablesWhole, Go, PrefTypeOK, BootFirst
<1> QED BY <1>2, <1>3, <1>5, <1>6

\* One more scenario is embedded, or none: the start-up goes on in order, and a
\* request only gets here after a start-up that failed.
LEMMA ScenariosKeepInv ==
    ASSUME PrefInv, NEW t \in Task, EmbedScenario(t) \/ ScenarioFails(t)
    PROVE  PrefInv'
<1> USE TaskFacts, PreferencesAssumption DEF PrefInv
<1>1. /\ pc[t] = "scenarios"
      /\ \E s \in {"scenarios", "fragrance", "match", "judge"} :
            /\ pc' = [pc EXCEPT ![t] = s]
            /\ t = Boot => s \in {"scenarios", "fragrance"}
            /\ s = "judge" => anchors = Whole
      /\ UNCHANGED <<anchors, breakers, draft, hasKey, cause>>
  <2>1. /\ pc[t] = "scenarios" /\ pc = [x \in Task |-> pc[x]]
        /\ UNCHANGED <<anchors, breakers, draft, hasKey, cause>>
    BY DEF EmbedScenario, ScenarioFails, PrefTypeOK, tables
  <2>2. UNCHANGED pc \/ \E n : LeaveScenarios(t, n)
    BY DEF EmbedScenario, ScenarioFails
  <2>3. CASE UNCHANGED pc
    <3>1. pc' = [pc EXCEPT ![t] = "scenarios"]
      BY <2>1, <2>3
    <3> QED BY <2>1, <3>1
  <2>4. ASSUME NEW n, LeaveScenarios(t, n)
        PROVE  \E s \in {"fragrance", "match", "judge"} :
                  /\ pc' = [pc EXCEPT ![t] = s]
                  /\ t = Boot => s = "fragrance"
                  /\ s = "judge" => anchors = Whole
    BY <2>4 DEF LeaveScenarios, Go, AtClassifier
  <2> QED BY <2>1, <2>2, <2>3, <2>4
<1>2. PrefTypeOK'
  <2>1. at' \in [Task -> 0..(Scenarios - 1)] /\ filled' \in 0..Scenarios /\ bootOk' \in BOOLEAN
    <3>1. at[t] \in Nat /\ at[t] < Scenarios /\ filled \in 0..Scenarios
      BY DEF PrefTypeOK
    <3>2. CASE EmbedScenario(t)
      <4>1. at' \in [Task -> 0..(Scenarios - 1)]
        BY <3>1, <3>2 DEF EmbedScenario, PrefTypeOK
      <4>2. filled' \in 0..Scenarios
        BY <3>1, <3>2 DEF EmbedScenario
      <4> QED BY <3>2, <4>1, <4>2 DEF EmbedScenario, PrefTypeOK
    <3>3. CASE ScenarioFails(t)
      BY <3>1, <3>3 DEF ScenarioFails, PrefTypeOK, tables, BootFails
    <3> QED BY <3>2, <3>3
  <2> QED BY <1>1, <2>1 DEF PrefTypeOK
<1>3. BootFirst'
  <2>1. CASE t = Boot /\ EmbedScenario(t)
    BY <1>1, <2>1 DEF EmbedScenario, LeaveScenarios, Go, BootFirst, PrefTypeOK
  <2>2. CASE t = Boot /\ ScenarioFails(t)
    BY <1>1, <2>2 DEF ScenarioFails, BootFails, LeaveScenarios, Go, BootFirst, PrefTypeOK
  <2>3. CASE t # Boot
    <3>1. pc[Boot] = "done" /\ ~bootOk
      BY <1>1, <2>3 DEF BootFirst, TablesWhole, Task
    <3>2. pc'[Boot] = "done" /\ ~bootOk'
      BY <1>1, <2>3, <3>1 DEF EmbedScenario, ScenarioFails, BootFails, PrefTypeOK
    <3> QED BY <3>2 DEF BootFirst
  <2> QED BY <2>1, <2>2, <2>3
<1>4. BreakersFresh' /\ Asking' /\ LocalKept'
  BY <1>1 DEF BreakersFresh, Asking, LocalKept, PrefTypeOK
<1>5. TablesWhole'
  <2>1. CASE t = Boot
    <3>1. \A r \in Request : pc'[r] = pc[r] /\ pc[r] = "idle"
      BY <1>1, <2>1 DEF BootFirst, PrefTypeOK
    <3> QED BY <3>1 DEF TablesWhole
  <2>2. CASE t # Boot
    <3>1. ~bootOk /\ ~bootOk'
      BY <1>1, <2>2 DEF TablesWhole, Task, EmbedScenario, ScenarioFails, BootFails, PrefTypeOK
    <3> QED BY <1>1, <3>1 DEF TablesWhole, PrefTypeOK
  <2> QED BY <2>1, <2>2
<1> QED BY <1>2, <1>3, <1>4, <1>5

\* The anchors are set one list after the other, or one is not set.
LEMMA AnchorsKeepInv ==
    ASSUME PrefInv, NEW t \in Task, FragranceAnchors(t) \/ OffTopicAnchors(t) \/ AnchorFails(t)
    PROVE  PrefInv'
<1> USE TaskFacts DEF PrefInv
<1>1. /\ pc[t] \in {"fragrance", "offTopic"}
      /\ UNCHANGED <<at, filled, hasKey>>
      /\ anchors \subseteq anchors' /\ anchors' \subseteq Whole
      /\ bootOk' = bootOk \/ BootFails(t)
  BY DEF FragranceAnchors, OffTopicAnchors, AnchorFails, PrefTypeOK, Whole
<1>2. CASE FragranceAnchors(t)
  <2>1. PrefTypeOK'
    BY <1>1, <1>2 DEF FragranceAnchors, PrefTypeOK, Go
  <2>2. BreakersFresh' /\ BootFirst'
    BY <1>1, <1>2 DEF FragranceAnchors, BreakersFresh, BootFirst, TablesWhole, Task, PrefTypeOK, Go, Whole
  <2>3. Asking' /\ LocalKept' /\ TablesWhole'
    BY <1>1, <1>2 DEF FragranceAnchors, Asking, LocalKept, TablesWhole, Task, BootFirst, PrefTypeOK, Go, Whole
  <2> QED BY <2>1, <2>2, <2>3
<1>3. CASE t = Boot /\ (OffTopicAnchors(t) \/ AnchorFails(t))
  <2>1. Go(t, "done") /\ UNCHANGED <<breakers, draft, cause>>
    BY <1>3 DEF OffTopicAnchors, AnchorFails, LeaveAnchors
  <2>2. PrefTypeOK'
    BY <1>1, <2>1 DEF PrefTypeOK, Go, BootFails
  <2>3. BreakersFresh' /\ Asking' /\ LocalKept'
    BY <1>1, <2>1 DEF BreakersFresh, Asking, LocalKept, PrefTypeOK, Go
  <2>4. /\ pc'[Boot] = "done" /\ pc[Boot] \in {"fragrance", "offTopic"}
        /\ \A r \in Request : pc'[r] = "idle"
    BY <1>1, <1>3, <2>1 DEF BootFirst, PrefTypeOK, Go
  <2>5. CASE OffTopicAnchors(t)
    <3>1. bootOk' = bootOk /\ anchors' = anchors \cup {"offTopic"} /\ pc[Boot] = "offTopic"
      BY <1>3, <2>5 DEF OffTopicAnchors
    <3> QED BY <1>1, <2>2, <2>3, <2>4, <3>1 DEF BootFirst, TablesWhole, Whole
  <2>6. CASE AnchorFails(t)
    <3>1. ~bootOk'
      BY <1>3, <2>6 DEF AnchorFails, BootFails
    <3> QED BY <2>2, <2>3, <2>4, <3>1 DEF BootFirst, TablesWhole
  <2> QED BY <1>3, <2>5, <2>6
<1>4. CASE t # Boot /\ (OffTopicAnchors(t) \/ AnchorFails(t))
  <2>1. t \in Request /\ bootOk' = bootOk
    BY <1>1, <1>4 DEF Task, OffTopicAnchors, AnchorFails, BootFails, PrefTypeOK
  <2>2. CASE anchors' = Whole
    <3>1. Go(t, "judge") /\ UNCHANGED <<breakers, draft, cause>>
      BY <1>4, <2>2 DEF OffTopicAnchors, AnchorFails, LeaveAnchors
    <3>2. PrefTypeOK' /\ BreakersFresh' /\ Asking' /\ LocalKept'
      BY <1>1, <2>1, <3>1 DEF PrefTypeOK, BreakersFresh, Asking, LocalKept, Go
    <3>3. BootFirst' /\ TablesWhole'
      BY <1>1, <2>1, <2>2, <3>1 DEF BootFirst, TablesWhole, PrefTypeOK, Go, Whole
    <3> QED BY <3>2, <3>3
  <2>3. CASE anchors' # Whole
    <3>1. AskClassifier(t, TRUE)
      BY <1>4, <2>3 DEF OffTopicAnchors, AnchorFails, LeaveAnchors
    <3> QED BY <1>1, <2>1, <3>1, AskKeepsInv
  <2> QED BY <2>2, <2>3
<1> QED BY <1>2, <1>3, <1>4

\* The query is matched, judged or not.
LEMMA JudgingKeepsInv ==
    ASSUME PrefInv, NEW r \in Request, Match(r) \/ Judge(r) \/ JudgeFails(r)
    PROVE  PrefInv'
<1> USE TaskFacts DEF PrefInv
<1>1. CASE Match(r)
  <2>1. PICK f \in {{}, {"scenarios"}} :
          /\ draft' = [draft EXCEPT ![r].found = @ \cup f]
          /\ f \in SUBSET Field
          /\ draft[r].given = {} /\ draft[r].found \cup f \in SUBSET Field
    BY <1>1, PreferencesAssumption DEF Match, Asking, PrefTypeOK
  <2>2. /\ pc[r] = "match" /\ Go(r, AtClassifier)
        /\ UNCHANGED <<at, filled, anchors, breakers, hasKey, cause, bootOk>>
    BY <1>1 DEF Match, tables
  <2>3. AtClassifier \in {"judge", "fragrance"} /\ (AtClassifier = "judge" => anchors = Whole)
    BY DEF AtClassifier
  <2>4. PrefTypeOK' /\ BreakersFresh' /\ BootFirst'
    BY <2>1, <2>2, <2>3 DEF PrefTypeOK, BreakersFresh, BootFirst, Go
  <2>5. Asking' /\ LocalKept'
    BY <2>1, <2>2, <2>3 DEF PrefTypeOK, Asking, LocalKept, Go
  <2>6. TablesWhole'
    BY <2>2, <2>3 DEF PrefTypeOK, TablesWhole, BootFirst, AtClassifier, Go
  <2> QED BY <2>4, <2>5, <2>6
<1>2. CASE Judge(r)
  <2>1. PICK verdict \in BOOLEAN :
          \/ Conclude(r, verdict, breakers.classifier) /\ UNCHANGED cause
          \/ AskClassifier(r, verdict)
    BY <1>2 DEF Judge
  <2>2. /\ pc[r] = "judge" /\ breakers.classifier = Classifier!Fresh
        /\ UNCHANGED <<at, filled, anchors, hasKey, bootOk>> /\ anchors \subseteq Whole
    BY <1>2 DEF Judge, BreakersFresh, tables, PrefTypeOK
  <2> QED BY <2>1, <2>2, ConcludeKeepsInv, AskKeepsInv
<1>3. CASE JudgeFails(r)
  BY <1>3 DEF JudgeFails, Go, PrefTypeOK, BreakersFresh, BootFirst, Asking, LocalKept, TablesWhole,
              tables
<1> QED BY <1>1, <1>2, <1>3

\* Groq has been asked.
LEMMA GroqKeepsInv ==
    ASSUME PrefInv, NEW r \in Request,
           \/ ClassifierSilent(r) \/ ClassifierReplies(r)
           \/ ExtractorReplies(r) \/ ExtractorMisleads(r)
    PROVE  PrefInv'
<1> USE TaskFacts DEF PrefInv
<1>1. CASE ClassifierSilent(r) \/ ClassifierReplies(r)
  <2>1. PICK verdict \in BOOLEAN : Conclude(r, verdict, Classifier!Fresh)
    BY <1>1 DEF ClassifierSilent, ClassifierReplies, PrefTypeOK
  <2>2. pc[r] = "asksClassifier" /\ UNCHANGED <<at, filled, anchors, hasKey, cause, bootOk>>
    BY <1>1 DEF ClassifierSilent, ClassifierReplies, tables
  <2> QED BY <2>1, <2>2, ConcludeKeepsInv
<1>2. CASE ExtractorReplies(r)
  <2>1. PICK reply \in SUBSET Field :
          draft' = [draft EXCEPT ![r].given = reply \ draft[r].found]
    BY <1>2 DEF ExtractorReplies, Merge
  <2>2. /\ pc[r] = "asksExtractor" /\ Go(r, "answered")
        /\ breakers' = [breakers EXCEPT !.extractor = Extractor!Fresh]
        /\ UNCHANGED <<at, filled, anchors, hasKey, cause, bootOk>>
    BY <1>2 DEF ExtractorReplies, tables
  <2>3. PrefTypeOK' /\ BreakersFresh'
    BY <2>1, <2>2 DEF PrefTypeOK, BreakersFresh, Go
  <2>4. BootFirst' /\ Asking' /\ LocalKept'
    BY <2>1, <2>2 DEF BootFirst, PrefTypeOK, Asking, LocalKept, Go
  <2>5. TablesWhole'
    BY <2>2 DEF PrefTypeOK, TablesWhole, Go
  <2> QED BY <2>3, <2>4, <2>5
<1>3. CASE ExtractorMisleads(r)
  BY <1>3 DEF ExtractorMisleads, Go, PrefTypeOK, BreakersFresh, BootFirst, Asking, LocalKept,
              TablesWhole, tables
<1> QED BY <1>1, <1>2, <1>3

LEMMA LeaveKeepsInv ==
    ASSUME PrefInv, NEW r \in Request, Leave(r)
    PROVE  PrefInv'
BY TaskFacts
   DEF Leave, Go, Blank, PrefInv, PrefTypeOK, BreakersFresh, BootFirst, Asking, LocalKept,
       TablesWhole, tables

LEMMA PrefNextKeepsInv == PrefInv /\ [PrefNext]_allVars => PrefInv'
<1> SUFFICES ASSUME PrefInv, [PrefNext]_allVars PROVE PrefInv'
  OBVIOUS
<1>1. ASSUME NEW t \in Task, Embedding(t) PROVE PrefInv'
  BY <1>1, ScenariosKeepInv, AnchorsKeepInv DEF Embedding
<1>2. ASSUME NEW r \in Request, Accept(r) \/ Answering(r) \/ Leave(r) PROVE PrefInv'
  BY <1>2, AcceptKeepsInv, JudgingKeepsInv, GroqKeepsInv, LeaveKeepsInv DEF Answering
<1>3. CASE UNCHANGED prefVars
  BY <1>3 DEF prefVars, PrefInv, PrefTypeOK, BreakersFresh, BootFirst, Asking, LocalKept, TablesWhole
<1>4. UNCHANGED allVars => UNCHANGED prefVars
  BY DEF allVars, prefVars
<1> QED BY <1>1, <1>2, <1>3, <1>4 DEF PrefNext

\* The types, the breakers that never trip, and the order of the start-up.
THEOREM PreferencesInvariant == PrefSpec => []PrefInv
BY InitPrefInv, PrefNextKeepsInv, PTL DEF PrefSpec

\* However many queries ask Groq at once and however often it fails them, none is
\* refused by the breaker that classify() does not look after.
THEOREM GroqIsHarmless == PrefSpec => []GroqFailsNoQuery
<1>1. PrefInv => GroqFailsNoQuery
  BY DEF PrefInv, PrefTypeOK, GroqFailsNoQuery
<1> QED BY <1>1, PreferencesInvariant, PTL

\* What Groq extracts never replaces what the query says.
THEOREM LocalIsKept == PrefSpec => []LocalKept
BY PreferencesInvariant, PTL DEF PrefInv

\* The tables of a start-up that has not failed are whole for every query, however
\* many there are.
THEOREM TablesAreWhole == PrefSpec => []TablesWhole
BY PreferencesInvariant, PTL DEF PrefInv
-----------------------------------------------------------------------------
(* The circuit breaker itself, for every set of callers, every threshold and *)
(* every timeout.  BreakerInv is inductive; the invariants and the action    *)
(* property follow from it.                                                  *)

\* A saturating counter stays within its range and does not go back.
LEMMA AdvanceInRange ==
    ASSUME NEW limit \in Nat, NEW n \in 0..limit
    PROVE  Advance(n, limit) \in 0..limit /\ Advance(n, limit) >= n
BY DEF Advance

LEMMA InitBreakerInv == BreakerInit => BreakerInv
BY BreakerAssumption
   DEF BreakerInit, BreakerInv, BreakerTypeOK, InFlightSinceStart, OpenAdmitsNone, HalfOpenIsOneTrial,
       ClosedBelowThreshold, CountsTheStreak

\* A call is let through.
LEMMA AcquireKeepsInv ==
    ASSUME BreakerInv, NEW c \in Caller, Acquire(c)
    PROVE  BreakerInv'
<1> USE BreakerAssumption DEF BreakerInv, Acquire, MayProceed, BreakerTypeOK
<1>1. BreakerTypeOK'
  OBVIOUS
<1>2. ASSUME CallsAreShort
      PROVE  InFlightSinceStart' /\ OpenAdmitsNone' /\ HalfOpenIsOneTrial'
  <2>1. InFlightSinceStart'
    BY <1>2 DEF InFlightSinceStart
  <2>2. OpenAdmitsNone'
    BY <1>2 DEF OpenAdmitsNone
  <2>3. ASSUME state = "open", openedFor >= RecoveryTimeout
        PROVE  inFlight = {}
    <3>1. sinceStart >= RecoveryTimeout
      BY <1>2, <2>3 DEF OpenAdmitsNone
    <3>2. \A d \in inFlight : age[d] >= RecoveryTimeout /\ age[d] <= CallBound
      BY <1>2, <3>1 DEF InFlightSinceStart
    <3> QED BY <1>2, <3>2 DEF CallsAreShort
  <2>4. HalfOpenIsOneTrial'
    BY <1>2, <2>3 DEF HalfOpenIsOneTrial
  <2> QED BY <2>1, <2>2, <2>4
<1>3. ClosedBelowThreshold' /\ CountsTheStreak'
  BY DEF ClosedBelowThreshold, CountsTheStreak
<1> QED BY <1>1, <1>2, <1>3 DEF CallsAreShort

\* A call ends well: the breaker closes, whatever its state was.
LEMMA AnswerKeepsInv ==
    ASSUME BreakerInv, NEW c \in Caller, Answer(c)
    PROVE  BreakerInv'
BY BreakerAssumption
   DEF BreakerInv, Answer, RecordSuccess, BreakerTypeOK, InFlightSinceStart, OpenAdmitsNone,
       HalfOpenIsOneTrial, ClosedBelowThreshold, CountsTheStreak, CallsAreShort

\* A call fails: it is the trial, or it is counted, or func() hid the failure.
LEMMA RemoteErrorKeepsInv ==
    ASSUME BreakerInv, NEW c \in Caller, RemoteError(c)
    PROVE  BreakerInv'
<1> USE BreakerAssumption DEF BreakerInv, RemoteError, BreakerTypeOK
<1>0. /\ Advance(failures, FailureThreshold) \in 0..FailureThreshold
      /\ Advance(streak, FailureThreshold) \in 0..FailureThreshold
  BY AdvanceInRange
<1>1. CASE ~RaisesOnError
  BY <1>0, <1>1
     DEF RecordSuccess, InFlightSinceStart, OpenAdmitsNone, HalfOpenIsOneTrial,
         ClosedBelowThreshold, CountsTheStreak, CallsAreShort
<1>2. CASE RaisesOnError /\ TrialFailure
  BY <1>0, <1>2
     DEF TrialFailure, InFlightSinceStart, OpenAdmitsNone, HalfOpenIsOneTrial,
         ClosedBelowThreshold, CountsTheStreak, CallsAreShort
<1>3. CASE RaisesOnError /\ CountedFailure
  <2>1. BreakerTypeOK'
    BY <1>0, <1>3 DEF CountedFailure
  <2>2. CallsAreShort => InFlightSinceStart' /\ OpenAdmitsNone' /\ HalfOpenIsOneTrial'
    BY <1>0, <1>3 DEF CountedFailure, InFlightSinceStart, OpenAdmitsNone, HalfOpenIsOneTrial
  <2>3. ClosedBelowThreshold' /\ CountsTheStreak'
    BY <1>0, <1>3 DEF CountedFailure, ClosedBelowThreshold, CountsTheStreak
  <2> QED BY <2>1, <2>2, <2>3 DEF CallsAreShort
<1> QED BY <1>1, <1>2, <1>3 DEF RecordFailure

\* Time passes.
LEMMA BreakerTickKeepsInv ==
    ASSUME BreakerInv, BreakerTick
    PROVE  BreakerInv'
<1> USE BreakerAssumption DEF BreakerInv, BreakerTick, BreakerTypeOK
<1>0. /\ Advance(openedFor, RecoveryTimeout) \in 0..RecoveryTimeout
      /\ Advance(sinceStart, RecoveryTimeout) \in 0..RecoveryTimeout
  BY AdvanceInRange
<1>1. BreakerTypeOK'
  BY <1>0
<1>2. CallsAreShort => InFlightSinceStart' /\ OpenAdmitsNone' /\ HalfOpenIsOneTrial'
  BY <1>0 DEF Advance, InFlightSinceStart, OpenAdmitsNone, HalfOpenIsOneTrial
<1>3. ClosedBelowThreshold' /\ CountsTheStreak'
  BY DEF ClosedBelowThreshold, CountsTheStreak
<1> QED BY <1>1, <1>2, <1>3 DEF CallsAreShort

LEMMA BreakerNextKeepsInv == BreakerInv /\ [BreakerNext]_vars => BreakerInv'
<1> SUFFICES ASSUME BreakerInv, [BreakerNext]_vars PROVE BreakerInv'
  OBVIOUS
<1>1. ASSUME NEW c \in Caller, Acquire(c) PROVE BreakerInv'
  BY <1>1, AcquireKeepsInv
<1>2. ASSUME NEW c \in Caller, Answer(c) PROVE BreakerInv'
  BY <1>2, AnswerKeepsInv
<1>3. ASSUME NEW c \in Caller, RemoteError(c) PROVE BreakerInv'
  BY <1>3, RemoteErrorKeepsInv
<1>4. CASE BreakerTick
  BY <1>4, BreakerTickKeepsInv
<1>5. CASE Outage \/ Restore \/ UNCHANGED vars
  BY <1>5 DEF Outage, Restore, vars, breakerVars, BreakerInv, BreakerTypeOK, InFlightSinceStart,
              OpenAdmitsNone, HalfOpenIsOneTrial, ClosedBelowThreshold, CountsTheStreak,
              CallsAreShort
<1> QED BY <1>1, <1>2, <1>3, <1>4, <1>5 DEF BreakerNext

\* The inductive invariant (type correctness included) holds in every
\* reachable state, for all constants.
THEOREM BreakerInvariant == BreakerSpec => []BreakerInv
BY InitBreakerInv, BreakerNextKeepsInv, PTL DEF BreakerSpec

\* If a call cannot outlive the recovery window, then whenever the breaker is
\* HALF_OPEN exactly one call is in flight.
THEOREM OneTrial == CallsAreShort => (BreakerSpec => []HalfOpenIsOneTrial)
<1> SUFFICES ASSUME CallsAreShort PROVE BreakerSpec => []HalfOpenIsOneTrial
  OBVIOUS
<1>1. BreakerInv => HalfOpenIsOneTrial
  BY DEF BreakerInv
<1> QED BY <1>1, BreakerInvariant, PTL

\* A wrapped function that raises on failure has its outages noticed: after
\* FailureThreshold remote errors in a row the breaker is not closed.
THEOREM OutageNoticed == RaisesOnError => (BreakerSpec => []OutageOpensBreaker)
<1> SUFFICES ASSUME RaisesOnError PROVE BreakerSpec => []OutageOpensBreaker
  OBVIOUS
<1>1. BreakerInv => OutageOpensBreaker
  BY BreakerAssumption
     DEF BreakerInv, BreakerTypeOK, ClosedBelowThreshold, CountsTheStreak, OutageOpensBreaker
<1> QED BY <1>1, BreakerInvariant, PTL

\* Trials are at least a recovery window away from the call before them.
THEOREM SpacedProbes == CallsAreShort => (BreakerSpec => ProbesAreSpaced)
<1> SUFFICES ASSUME CallsAreShort PROVE BreakerSpec => ProbesAreSpaced
  OBVIOUS
<1>1. BreakerInv /\ [BreakerNext]_vars
      => [state = "open" /\ state' = "half_open" => sinceStart >= RecoveryTimeout]_vars
  <2> SUFFICES ASSUME BreakerInv, BreakerNext, state = "open", state' = "half_open"
               PROVE  sinceStart >= RecoveryTimeout
    BY DEF vars
  <2>1. PICK c \in Caller : Acquire(c)
    BY DEF BreakerNext, Answer, RemoteError, RecordSuccess, RecordFailure, TrialFailure,
           CountedFailure, BreakerTick, Outage, Restore, breakerVars
  <2>2. openedFor >= RecoveryTimeout
    BY <2>1 DEF Acquire, MayProceed
  <2> QED BY <2>2, BreakerAssumption DEF BreakerInv, OpenAdmitsNone, BreakerTypeOK
<1> QED BY <1>1, BreakerInvariant, PTL DEF BreakerSpec, ProbesAreSpaced

\* A call that ends, well or not, is a step of the untimed breaker.
LEMMA OutcomesRefine ==
    ASSUME BreakerInv
    PROVE  /\ RecordSuccess => [state |-> state, failures |-> failures]' = Untimed!Fresh
           /\ RecordFailure => [state |-> state, failures |-> failures]'
                                 = Untimed!Failed([state |-> state, failures |-> failures])
<1> DEFINE b == [state |-> state, failures |-> failures]
<1> USE BreakerAssumption DEF BreakerInv, BreakerTypeOK
<1>1. RecordSuccess => b' = Untimed!Fresh
  BY DEF RecordSuccess, Untimed!Fresh
<1>2. TrialFailure => b' = Untimed!Failed(b)
  BY DEF TrialFailure, Untimed!Failed
<1>3. CountedFailure => b' = Untimed!Failed(b)
  BY DEF CountedFailure, Untimed!Failed, Advance
<1> QED BY <1>1, <1>2, <1>3 DEF RecordFailure

\* The breaker with its clock implements the one without: whatever is shown for a
\* caller of the latter (Preferences) holds for a caller of this one.
THEOREM Implements == BreakerSpec => ImplementsBreaker
<1> DEFINE b == [state |-> state, failures |-> failures]
<1>1. BreakerInit => b = Untimed!Fresh
  BY DEF BreakerInit, Untimed!Fresh
<1>2. ASSUME BreakerInv, [BreakerNext]_vars PROVE [Untimed!Next]_b
  <2>1. ASSUME NEW c \in Caller, Acquire(c) PROVE [Untimed!Next]_b
    BY <1>2, <2>1 DEF Acquire, MayProceed, Untimed!Next, Untimed!Admitted
  <2>2. ASSUME NEW c \in Caller, Answer(c) \/ RemoteError(c) PROVE [Untimed!Next]_b
    BY <1>2, <2>2, OutcomesRefine DEF Answer, RemoteError, Untimed!Next
  <2>3. CASE BreakerTick \/ Outage \/ Restore \/ UNCHANGED vars
    BY <2>3 DEF BreakerTick, Outage, Restore, breakerVars, vars
  <2> QED BY <1>2, <2>1, <2>2, <2>3 DEF BreakerNext
<1> QED BY <1>1, <1>2, BreakerInvariant, PTL DEF BreakerSpec, ImplementsBreaker, Untimed!Spec
=============================================================================
