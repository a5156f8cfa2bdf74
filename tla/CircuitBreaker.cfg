\* The breaker around _call_groq (llm_enrichment.py), which raises.
SPECIFICATION FairSpec
CONSTANTS
    Caller = {c1, c2, c3}
    FailureThreshold = 2
    RecoveryTimeout = 3
    CallBound = 2
    RaisesOnError = TRUE
INVARIANTS
    HalfOpenIsOneTrial
    OutageOpensBreaker
PROPERTIES
    ImplementsBreaker
    ProbesAreSpaced
    KeepsProbing
    RecoversWithService
