\* The shipped docker-compose: one pool for both dependencies, as many searches
\* at a time as the pool has connections.
SPECIFICATION Spec
CONSTANTS
    Search = {s1, s2}
    Single = {w1}
    ReaderConn = {a1}
    WriterConn = {b1, b2}
    Split = FALSE
    Nobody = Nobody
INVARIANTS
    NoGridlock
CHECK_DEADLOCK FALSE
