------------------------------- MODULE DbPool -------------------------------
(***************************************************************************)
(* How requests share the asyncpg pools of backend/app/api/dependencies.py.*)
(*                                                                         *)
(* FastAPI resolves the dependencies of a route in the order of its        *)
(* parameters: a search route takes get_reader_db and then, inside         *)
(* require_api_key, get_db; every other user of the database (events,      *)
(* perfume detail, health, the sweeper, a background re-embed) takes one   *)
(* writer connection.  A connection is kept until the handler has finished *)
(* - the Groq call included - and pool.acquire() waits without a timeout.  *)
(* Without DATABASE_READER_URL both dependencies draw on the writer pool.  *)
(***************************************************************************)
EXTENDS FiniteSets

CONSTANTS
    Search,      \* requests to /search/context and /search/dupe
    Single,      \* requests and tasks that need one writer connection
    ReaderConn,  \* connections of the reader pool (max_size 20)
    WriterConn,  \* connections of the writer pool (max_size 10)
    Split,       \* is DATABASE_READER_URL set?
    Nobody       \* the owner of a connection that is in its pool

Request == Search \cup Single
Conn == ReaderConn \cup WriterConn

ASSUME PoolAssumption ==
    /\ Search \cap Single = {}
    /\ ReaderConn \cap WriterConn = {}
    /\ ReaderConn # {} /\ WriterConn # {}
    /\ Split \in BOOLEAN
    /\ Nobody \notin Request

VARIABLES
    stage,   \* where each request is
    owner    \* who holds each connection

vars == <<stage, owner>>

Stage == {"idle", "wantReader", "wantWriter", "running", "leaving"}

TypeOK ==
    /\ stage \in [Request -> Stage]
    /\ owner \in [Conn -> Request \cup {Nobody}]

Init ==
    /\ stage = [r \in Request |-> "idle"]
    /\ owner = [k \in Conn |-> Nobody]

Holds(r) == {k \in Conn : owner[k] = r}
Waiting(r) == stage[r] \in {"wantReader", "wantWriter"}

\* get_reader_pool() falls back to get_db_pool() on a single node.
ReaderPool == IF Split THEN ReaderConn ELSE WriterConn

PoolFor(r) == IF stage[r] = "wantReader" THEN ReaderPool ELSE WriterConn

Go(r, s) == stage' = [stage EXCEPT ![r] = s]

-----------------------------------------------------------------------------
\* A request arrives and asks for its first dependency.
Arrive(r) ==
    /\ stage[r] = "idle"
    /\ Go(r, IF r \in Search THEN "wantReader" ELSE "wantWriter")
    /\ UNCHANGED owner

\* pool.acquire() returns a free connection; the request goes on to its next
\* dependency, or to the key check and the handler.
Take(r, k) ==
    /\ Waiting(r)
    /\ k \in PoolFor(r) /\ owner[k] = Nobody
    /\ owner' = [owner EXCEPT ![k] = r]
    /\ Go(r, IF stage[r] = "wantReader" THEN "wantWriter" ELSE "running")

\* The wait ends without a connection: the pool could not be created, is being closed
\* or cannot connect, or the task is cancelled.  It is never given up for having
\* lasted long.
GiveUp(r) ==
    /\ Waiting(r)
    /\ Go(r, IF Holds(r) = {} THEN "idle" ELSE "leaving")
    /\ UNCHANGED owner

\* The handler returns or raises, or require_api_key rejects the key.
Finish(r) ==
    /\ stage[r] = "running"
    /\ Go(r, "leaving")
    /\ UNCHANGED owner

\* Variant: only the connection of get_db is given back.
ReleaseOne(r, k) ==
    /\ stage[r] = "leaving"
    /\ k \in Holds(r) \cap WriterConn
    /\ owner' = [owner EXCEPT ![k] = Nobody]
    /\ Go(r, "idle")

\* The exit stack closes the dependencies, one release() at a time, the writer
\* connection first.
Release(r, k) ==
    /\ stage[r] = "leaving"
    /\ k \in Holds(r)
    /\ Split /\ k \in ReaderConn => Holds(r) \cap WriterConn = {}
    /\ owner' = [owner EXCEPT ![k] = Nobody]
    /\ IF Holds(r) = {k} THEN Go(r, "idle") ELSE UNCHANGED stage

Next ==
    \E r \in Request :
        \/ Arrive(r) \/ GiveUp(r) \/ Finish(r)
        \/ \E k \in Conn : Take(r, k) \/ Release(r, k)

Spec == Init /\ [][Next]_vars

-----------------------------------------------------------------------------
\* Requests that wait for a connection never all wait for each other: while one
\* waits, some request can take a connection or is on its way to giving one
\* back.
NoGridlock ==
    (\E r \in Request : Waiting(r))
        => \E r \in Request : \/ stage[r] \in {"running", "leaving"}
                              \/ Waiting(r) /\ \E k \in PoolFor(r) : owner[k] = Nobody

\* A request that is neither running nor waiting holds nothing: no path through
\* the dependencies (rejected key, raised exception, two releases) leaks.
NoLeak == \A r \in Request : stage[r] = "idle" => Holds(r) = {}

\* What a request holds at each stage.  The writer connection is the last one it
\* asks for, so nobody waits with one that came from get_db.
HoldsByStage ==
    \A r \in Request :
        /\ stage[r] \in {"idle", "wantReader"} => Holds(r) = {}
        /\ stage[r] = "wantReader" => r \in Search
        /\ stage[r] = "wantWriter" =>
              Holds(r) = {} \/ (r \in Search /\ \E k \in ReaderPool : Holds(r) = {k})
        /\ stage[r] \in {"running", "leaving"} => Holds(r) # {}

PoolInv == TypeOK /\ HoldsByStage
=============================================================================
