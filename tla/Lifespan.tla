------------------------------ MODULE Lifespan ------------------------------
(***************************************************************************)
(* The life of the database pools: lifespan() of backend/app/main.py opens *)
(* the writer pool, starts the sweeper, serves, and closes what it opened; *)
(* dependencies.py opens the reader pool when a search first asks for it.  *)
(*                                                                         *)
(* The users of the pools are those of DbPool.  Two of them are no         *)
(* requests: the sweeper task, which lifespan() cancels and awaits, and    *)
(* the background re-embeds of routes_events.py, which nobody awaits.      *)
(* What uvicorn and asyncpg do is modelled from how the code uses them:    *)
(* uvicorn waits for the requests in flight before the code after the      *)
(* yield runs; Pool.close() turns new callers of acquire() away and waits  *)
(* for the connections that are out, and not for the tasks that are queued *)
(* for one: such a task has its connection closed under it, or is given a  *)
(* new one of a pool that nobody will close.                               *)
(***************************************************************************)
EXTENDS DbPool

CONSTANTS
    Background,  \* _reembed() tasks of POST /admin/re-embed
    Sweeper      \* the task of start_sweeper()

ASSUME LifespanAssumption ==
    /\ Background \subseteq Single
    /\ Sweeper \in Single \ Background

Served == Request \ (Background \cup {Sweeper})
Pool == {"reader", "writer"}
Starting == "lifespan"   \* creates the first pool, and is no request

VARIABLES
    phase,     \* where lifespan() is
    global,    \* the variables reader_pool and writer_pool
    live,      \* for each of them the creators of the pools that are still open
    lock,      \* who holds _reader_lock and _writer_lock
    asking,    \* how far a waiting request is with get_*_pool()
    spawned,   \* re-embeds that are computing their embedding
    sweepTask, \* the state of the sweeper task
    awaited    \* the connections that the Pool.close() under way waits for

lifeVars == <<phase, global, live, lock, asking, spawned, sweepTask, awaited>>
allVars == <<stage, owner, phase, global, live, lock, asking, spawned, sweepTask, awaited>>

Phase == {"boot", "serving", "draining", "stopping", "closeWriter", "closeReader",
          "down", "aborted"}

LifeInit ==
    /\ Init
    /\ phase = "boot"
    /\ global = [w \in Pool |-> "none"]
    /\ live = [w \in Pool |-> {}]
    /\ lock = [w \in Pool |-> Nobody]
    /\ asking = [r \in Request |-> "no"]
    /\ spawned = {}
    /\ sweepTask = "none"
    /\ awaited = {}

\* Which variable a request reads: get_reader_pool() calls get_db_pool() if
\* there is no replica.
PoolOf(r) == IF stage[r] = "wantReader" /\ Split THEN "reader" ELSE "writer"
ConnOf(w) == IF w = "reader" THEN ReaderConn ELSE WriterConn

\* The first, unlocked look at the variable.
FirstLook(w) == IF global[w] = "none" THEN "lock" ELSE "pool"

-----------------------------------------------------------------------------
(* lifespan(), up to the yield.                                            *)

\* get_db_pool(), with nobody else about.
OpenAtBoot ==
    /\ phase = "boot" /\ global["writer"] = "none"
    /\ global' = [global EXCEPT !["writer"] = "open"]
    /\ live' = [live EXCEPT !["writer"] = {Starting}]
    /\ UNCHANGED <<stage, owner, phase, lock, asking, spawned, sweepTask, awaited>>

\* The pool, the model or the calibration raises: the server does not start.
BootFails ==
    /\ phase = "boot"
    /\ phase' = "aborted"
    /\ UNCHANGED <<stage, owner, global, live, lock, asking, spawned, sweepTask, awaited>>

\* create_task(start_sweeper(pool)) and yield.  The task ends at its first line
\* if the logger refuses the field given to it.
BootEnds ==
    /\ phase = "boot" /\ global["writer"] = "open"
    /\ phase' = "serving"
    /\ sweepTask' \in {"running", "dead"}
    /\ UNCHANGED <<stage, owner, global, live, lock, asking, spawned, awaited>>

-----------------------------------------------------------------------------
(* The users of the pools.                                                 *)

\* A request comes in: its first dependency looks at the variable of its pool.
RequestArrives(r) ==
    /\ phase = "serving" /\ r \in Served
    /\ Arrive(r)
    /\ asking' = [asking EXCEPT ![r] =
                     FirstLook(IF r \in Search /\ Split THEN "reader" ELSE "writer")]
    /\ UNCHANGED <<phase, global, live, lock, spawned, sweepTask, awaited>>

\* The sweeper was given its pool; it looks at no variable.
SweepBegins ==
    /\ sweepTask = "running"
    /\ Arrive(Sweeper)
    /\ asking' = [asking EXCEPT ![Sweeper] = "pool"]
    /\ UNCHANGED <<phase, global, live, lock, spawned, sweepTask, awaited>>

\* The handler of POST /admin/re-embed: asyncio.create_task(_reembed()).
Spawn(b) ==
    /\ \E r \in Served \ Search : stage[r] = "running"
    /\ b \in Background \ spawned /\ stage[b] = "idle"
    /\ spawned' = spawned \cup {b}
    /\ UNCHANGED <<stage, owner, phase, global, live, lock, asking, sweepTask, awaited>>

\* The embedding is there: _reembed() goes on to the writer pool.  It ends if the
\* embedding failed, and if acquire() raises because the pool is closing.
Embedded(b) ==
    /\ b \in spawned
    /\ spawned' = spawned \ {b}
    /\ \/ /\ global["writer"] # "closing"
          /\ Arrive(b)
          /\ asking' = [asking EXCEPT ![b] = FirstLook("writer")]
       \/ UNCHANGED <<stage, owner, asking>>
    /\ UNCHANGED <<phase, global, live, lock, sweepTask, awaited>>

\* Variant: the variable is not looked at again under the lock.
EnterWithoutLook(r) ==
    /\ asking[r] = "lock" /\ lock[PoolOf(r)] = Nobody
    /\ lock' = [lock EXCEPT ![PoolOf(r)] = r]
    /\ asking' = [asking EXCEPT ![r] = "create"]
    /\ UNCHANGED <<stage, owner, phase, global, live, spawned, sweepTask, awaited>>

\* async with _lock, and the second look at the variable: another request may have
\* created the pool in the meantime.
Enter(r) ==
    /\ asking[r] = "lock" /\ lock[PoolOf(r)] = Nobody
    /\ IF global[PoolOf(r)] = "none"
       THEN /\ lock' = [lock EXCEPT ![PoolOf(r)] = r]
            /\ asking' = [asking EXCEPT ![r] = "create"]
       ELSE /\ asking' = [asking EXCEPT ![r] = "pool"]
            /\ UNCHANGED lock
    /\ UNCHANGED <<stage, owner, phase, global, live, spawned, sweepTask, awaited>>

\* create_pool() has returned.
Create(r) ==
    /\ asking[r] = "create"
    /\ global' = [global EXCEPT ![PoolOf(r)] = "open"]
    /\ live' = [live EXCEPT ![PoolOf(r)] = @ \cup {r}]
    /\ lock' = [lock EXCEPT ![PoolOf(r)] = Nobody]
    /\ asking' = [asking EXCEPT ![r] = "pool"]
    /\ UNCHANGED <<stage, owner, phase, spawned, sweepTask, awaited>>

\* Variant: the lock is kept when create_pool() raises.
CreateFailsLocked(r) ==
    /\ asking[r] = "create"
    /\ asking' = [asking EXCEPT ![r] = "no"]
    /\ GiveUp(r)
    /\ UNCHANGED <<lock, phase, global, live, spawned, sweepTask, awaited>>

\* create_pool() raises, for instance while the replica is away.
CreateFails(r) ==
    /\ asking[r] = "create"
    /\ lock' = [lock EXCEPT ![PoolOf(r)] = Nobody]
    /\ asking' = [asking EXCEPT ![r] = "no"]
    /\ GiveUp(r)
    /\ UNCHANGED <<phase, global, live, spawned, sweepTask, awaited>>

\* p.acquire() returns.  A search goes on with get_db(), which looks at the
\* variable of the writer pool.
Acquire(r, k) ==
    /\ asking[r] = "pool"
    /\ Take(r, k)
    /\ asking' = [asking EXCEPT ![r] =
                     IF stage[r] = "wantReader" THEN FirstLook("writer") ELSE "no"]
    /\ UNCHANGED <<phase, global, live, lock, spawned, sweepTask, awaited>>

\* p.acquire() raises: the connection it was to have is broken and cannot be made
\* again.
AcquireFails(r) ==
    /\ asking[r] = "pool"
    /\ \E k \in PoolFor(r) : owner[k] = Nobody
    /\ GiveUp(r)
    /\ asking' = [asking EXCEPT ![r] = "no"]
    /\ UNCHANGED <<phase, global, live, lock, spawned, sweepTask, awaited>>

HandlerEnds(r) == Finish(r) /\ UNCHANGED lifeVars

GiveBack(r) ==
    /\ \E k \in Conn : Release(r, k) /\ awaited' = awaited \ {k}
    /\ UNCHANGED <<phase, global, live, lock, asking, spawned, sweepTask>>

-----------------------------------------------------------------------------
(* lifespan(), after the yield, and close_db().                            *)

\* uvicorn accepts no more connections, and waits for the requests in flight.
Shutdown ==
    /\ phase = "serving"
    /\ phase' = "draining"
    /\ UNCHANGED <<stage, owner, global, live, lock, asking, spawned, sweepTask, awaited>>

\* stop_sweeper(); sweep_task.cancel()
Drained ==
    /\ phase = "draining"
    /\ \A r \in Served : stage[r] = "idle"
    /\ phase' = "stopping"
    /\ sweepTask' = IF sweepTask = "running" THEN "cancelled" ELSE sweepTask
    /\ UNCHANGED <<stage, owner, global, live, lock, asking, spawned, awaited>>

\* The CancelledError is raised where the sweeper waits: for a connection, or in
\* its sleep.  (An async with around it gives the connection back first.)
SweepCancelled ==
    /\ sweepTask = "cancelled"
    /\ \/ /\ GiveUp(Sweeper)
          /\ asking' = [asking EXCEPT ![Sweeper] = "no"]
          /\ UNCHANGED sweepTask
       \/ /\ stage[Sweeper] = "idle"
          /\ sweepTask' = "ended"
          /\ UNCHANGED <<stage, owner, asking>>
    /\ UNCHANGED <<phase, global, live, lock, spawned, awaited>>

ConnOut(w) == {k \in ConnOf(w) : owner[k] # Nobody}

\* Variant: the sweeper is not awaited before its pool is closed.
CloseBeginsAtOnce ==
    /\ phase = "stopping"
    /\ global' = [global EXCEPT !["writer"] = "closing"]
    /\ phase' = "closeWriter"
    /\ awaited' = ConnOut("writer")
    /\ UNCHANGED <<stage, owner, live, lock, asking, spawned, sweepTask>>

\* await sweep_task has raised CancelledError; close_db() begins.
CloseBegins ==
    /\ phase = "stopping" /\ sweepTask = "ended"
    /\ global' = [global EXCEPT !["writer"] = "closing"]
    /\ phase' = "closeWriter"
    /\ awaited' = ConnOut("writer")
    /\ UNCHANGED <<stage, owner, live, lock, asking, spawned, sweepTask>>

\* await sweep_task has raised what ended the task: nothing is closed.
ShutdownRaises ==
    /\ phase = "stopping" /\ sweepTask = "dead"
    /\ phase' = "aborted"
    /\ UNCHANGED <<stage, owner, global, live, lock, asking, spawned, sweepTask, awaited>>

\* Variant: close_db() returns after the writer pool.
WriterClosedOnly ==
    /\ phase = "closeWriter" /\ awaited = {}
    /\ live' = [live EXCEPT !["writer"] = {}]
    /\ global' = [global EXCEPT !["writer"] = "none"]
    /\ phase' = "down"
    /\ UNCHANGED <<stage, owner, lock, asking, spawned, sweepTask, awaited>>

\* writer_pool.close() has returned; the reader pool is next, if there is one.
WriterClosed ==
    /\ phase = "closeWriter" /\ awaited = {}
    /\ live' = [live EXCEPT !["writer"] = {}]
    /\ IF global["reader"] = "none"
       THEN /\ global' = [global EXCEPT !["writer"] = "none"]
            /\ phase' = "down"
       ELSE /\ global' = [global EXCEPT !["writer"] = "none", !["reader"] = "closing"]
            /\ phase' = "closeReader"
    /\ awaited' = ConnOut("reader")
    /\ UNCHANGED <<stage, owner, lock, asking, spawned, sweepTask>>

ReaderClosed ==
    /\ phase = "closeReader" /\ awaited = {}
    /\ live' = [live EXCEPT !["reader"] = {}]
    /\ global' = [global EXCEPT !["reader"] = "none"]
    /\ phase' = "down"
    /\ UNCHANGED <<stage, owner, lock, asking, spawned, sweepTask, awaited>>

LifeNext ==
    \/ OpenAtBoot \/ BootFails \/ BootEnds
    \/ SweepBegins \/ SweepCancelled
    \/ \E b \in Background : Spawn(b) \/ Embedded(b)
    \/ \E r \in Request :
          \/ RequestArrives(r) \/ Enter(r) \/ Create(r) \/ CreateFails(r)
          \/ \E k \in Conn : Acquire(r, k)
          \/ AcquireFails(r) \/ HandlerEnds(r) \/ GiveBack(r)
    \/ Shutdown \/ Drained \/ CloseBegins \/ ShutdownRaises \/ WriterClosed \/ ReaderClosed

LifeSpec == LifeInit /\ [][LifeNext]_allVars

\* asyncio.Lock and asyncpg wake their waiters in the order they came, so one that
\* can be served again and again is served.  create_pool() returns or raises,
\* handlers end (every await in them has a timeout or is a query), and lifespan()
\* goes on when what it awaits has happened.
LifeFairness ==
    /\ \A r \in Request :
          /\ SF_allVars(Enter(r) \/ \E k \in Conn : Acquire(r, k))
          /\ WF_allVars(Create(r) \/ CreateFails(r) \/ HandlerEnds(r) \/ GiveBack(r))
    /\ WF_allVars(\/ Drained \/ SweepCancelled \/ CloseBegins \/ ShutdownRaises
                  \/ WriterClosed \/ ReaderClosed)

FairLifeSpec == LifeSpec /\ LifeFairness

-----------------------------------------------------------------------------
\* However many requests find the variable of a pool empty at the same time, one
\* of them creates the pool and the others use it.
OnePool ==
    \A w \in Pool : IF global[w] = "none" THEN live[w] = {} ELSE \E x \in live[w] : live[w] = {x}

\* Nothing that lifespan() waits for - a request that came in before the shutdown,
\* the sweeper - is left with a pool that was closed under it: none of them waits
\* for a connection of a closed pool, or still has one, whatever tasks share the
\* pool with it.  A re-embed, which nobody awaits, may be: one that is queued for a
\* connection when the close begins is not waited for.
Uses(r, w) ==
    \/ asking[r] = "pool" /\ PoolOf(r) = w
    \/ Holds(r) \cap ConnOf(w) # {}

PoolOutlivesUsers ==
    \A w \in Pool : live[w] = {} => \A r \in Request \ Background : ~Uses(r, w)

\* After a shutdown that got to its end no pool is left open but the one that a
\* re-embed, which outlived the close, has opened for itself.
ClosedAtExit == phase = "down" => \A w \in Pool : live[w] \subseteq Background

\* A request that waits, for a lock, for a pool or for a connection, runs in the
\* end or, if its pool could not be created, fails.
EveryRequestServed ==
    \A r \in Served : Waiting(r) ~> stage[r] \in {"running", "idle"}

\* The shutdown ends.
ShutdownEnds == phase = "draining" ~> phase \in {"down", "aborted"}

\* Who has the locks, and what is over by which phase.
Locks ==
    /\ \A r \in Request :
          /\ asking[r] = "no" <=> ~Waiting(r)
          /\ \A w \in Pool : lock[w] = r <=> asking[r] = "create" /\ PoolOf(r) = w
          /\ asking[r] = "create" => global[PoolOf(r)] = "none"
    /\ asking[Sweeper] \in {"no", "pool"}

ByPhase ==
    /\ phase = "boot" =>
          /\ \A r \in Request : stage[r] = "idle"
          /\ spawned = {} /\ sweepTask = "none" /\ global["reader"] = "none"
    /\ phase \in {"serving", "draining", "stopping"} => global["writer"] = "open"
    /\ phase \notin {"serving", "draining"} => \A r \in Served : stage[r] = "idle"
    /\ sweepTask \in {"none", "dead", "ended"} => stage[Sweeper] = "idle"
    /\ phase \in {"closeWriter", "closeReader", "down"} => sweepTask = "ended"
    /\ phase = "aborted" => sweepTask \in {"none", "dead"}
    /\ \A w \in Pool : global[w] = "closing" <=>
           phase = IF w = "writer" THEN "closeWriter" ELSE "closeReader"
    /\ phase = "closeReader" => live["writer"] \subseteq Background
    /\ phase = "down" => global["reader"] = "none"

LifeTypeOK ==
    /\ phase \in Phase
    /\ global \in [Pool -> {"none", "open", "closing"}]
    /\ live \in [Pool -> SUBSET (Request \cup {Starting})]
    /\ lock \in [Pool -> Request \cup {Nobody}]
    /\ asking \in [Request -> {"no", "lock", "create", "pool"}]
    /\ spawned \subseteq Background
    /\ sweepTask \in {"none", "running", "dead", "cancelled", "ended"}
    /\ awaited \subseteq Conn

LifeInv == PoolInv /\ LifeTypeOK /\ Locks /\ ByPhase
=============================================================================
