\* Two runs over up to four rows, by one process, on any table of old rows.
SPECIFICATION IngestSpec
CONSTANTS
    Session = {s1}
    n1 = n1
    n2 = n2
    n3 = n3
    n4 = n4
    empty = empty
    Name <- MCName
    Key <- MCKey
    Nameless = {empty}
    MaxPriority = 5
    Rows <- MCRows
    MaxRows = 4
    Earlier = {"legacy_seed", "fra_cleaned"}
    None = None
    Blank = Blank
INVARIANTS
    IngestInv
    HighestWins
    BatchWins
    RerunSafe
PROPERTIES
    NoNewTwin
CHECK_DEADLOCK FALSE
