\* With a read replica, pools of one connection each: two searches, an events
\* request, two re-embeds and the sweeper.
SPECIFICATION FairLifeSpec
CONSTANTS
    Search = {s1, s2}
    Single = {w1, b1, b2, sweeper}
    Background = {b1, b2}
    Sweeper = sweeper
    ReaderConn = {a1}
    WriterConn = {k1}
    Split = TRUE
    Nobody = Nobody
INVARIANTS
    LifeInv
    OnePool
    PoolOutlivesUsers
    ClosedAtExit
PROPERTIES
    EveryRequestServed
    ShutdownEnds
CHECK_DEADLOCK FALSE
