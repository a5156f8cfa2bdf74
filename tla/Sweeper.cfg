\* A logger and a driver that do what the sweeper expects, ingestion at any time,
\* batches of two, and none, one or two images that cannot be fetched.
SPECIFICATION FairSpec
CONSTANTS
    Row = {r1, r2, r3}
    BatchSize = 2
    BrokenSets = {{r3}, {r2, r3}}
    Busy = {r1}
    MaxEdits = 2
    LoggerTakesFields = TRUE
    VectorTakesLists = TRUE
INVARIANTS
    FreshIsCurrent
PROPERTIES
    TextCatchesUp
    ImagesCatchUp
