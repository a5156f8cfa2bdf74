\* The application as configured: a standard logger, which takes no fields,
\* connections without a codec for vectors, and images that can all be fetched.
SPECIFICATION FairSpec
CONSTANTS
    Row = {r1, r2}
    BatchSize = 2
    BrokenSets = {{}}
    Busy = {r1, r2}
    MaxEdits = 1
    LoggerTakesFields = FALSE
    VectorTakesLists = FALSE
PROPERTIES
    TextCatchesUp
