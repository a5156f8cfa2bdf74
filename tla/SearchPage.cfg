\* Pools of up to five perfumes, pages of up to four, LLM picks in any order, repeated
\* or not; and calls of the capping loop on lists of five.
SPECIFICATION MCSpec
CONSTANTS
    Key = {k1, k2}
    FirstKey = k1
    PoolSize = 5
    ListSize = 5
    Item <- MCItem
    Pools <- MCPools
    Limits = {1, 2, 3, 4}
    LlmPoolCap = 3
    MaxPerBrand = 2
    MaxPerAccord = 3
INVARIANTS
    FairSpread
    PageFits
    FullPage
PROPERTIES
    Served
CHECK_DEADLOCK FALSE
