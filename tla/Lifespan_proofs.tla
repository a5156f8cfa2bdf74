-------------------------- MODULE Lifespan_proofs --------------------------
(***************************************************************************)
(* No gridlock on the connection pools of DbPool: for any number of        *)
(* requests and connections when the pools are separate, and for fewer     *)
(* searches than connections when one pool serves both dependencies.       *)
(* Then that Lifespan uses the pools as DbPool says, and never has two     *)
(* pools where the code means one, nor closes one that is in use.          *)
(* Last, the task that lifespan() starts, the sweeper: a row it takes for  *)
(* up to date is, unless an edit overtook its embedding, for every set of  *)
(* rows, batch size and number of edits.                                   *)
(***************************************************************************)
EXTENDS Lifespan, EmbeddingSweeper, FiniteSetTheorems, TLAPS

LEMMA InitPoolInv == Init => PoolInv
BY PoolAssumption DEF Init, PoolInv, TypeOK, Stage, HoldsByStage, Holds, Request

\* A stage change that touches no connection.
LEMMA StageChangeKeepsInv ==
    ASSUME PoolInv, NEW r \in Request, Arrive(r) \/ GiveUp(r) \/ Finish(r)
    PROVE  PoolInv'
BY DEF PoolInv, TypeOK, HoldsByStage, Stage, Arrive, GiveUp, Finish, Go, Holds, ReaderPool

\* A request takes a free connection: what the others hold is not touched.
LEMMA TakeKeepsInv ==
    ASSUME PoolInv, NEW r \in Request, NEW k \in Conn, Take(r, k)
    PROVE  PoolInv'
<1> USE PoolAssumption DEF PoolInv, Take, Go
<1>1. TypeOK'
  BY DEF TypeOK, Stage
<1>2. ASSUME NEW q \in Request, q # r
      PROVE  Holds(q)' = Holds(q) /\ stage'[q] = stage[q]
  BY <1>2 DEF TypeOK, Holds
<1>3. Holds(r)' = Holds(r) \cup {k}
  BY DEF TypeOK, Holds
<1>4. CASE stage[r] = "wantReader"
  <2>1. r \in Search => \E j \in ReaderPool : Holds(r)' = {j}
    BY <1>3, <1>4 DEF HoldsByStage, PoolFor, TypeOK
  <2>2. stage'[r] = "wantWriter"
    BY <1>4 DEF TypeOK
  <2> QED BY <1>1, <1>2, <1>3, <1>4, <2>1, <2>2 DEF HoldsByStage, PoolFor, ReaderPool
<1>5. CASE stage[r] = "wantWriter"
  <2>1. stage'[r] = "running" /\ Holds(r)' # {}
    BY <1>3, <1>5 DEF TypeOK
  <2> QED BY <1>1, <1>2, <2>1 DEF HoldsByStage, ReaderPool
<1> QED BY <1>4, <1>5 DEF Waiting

\* A request gives a connection back.
LEMMA ReleaseKeepsInv ==
    ASSUME PoolInv, NEW r \in Request, NEW k \in Conn, Release(r, k)
    PROVE  PoolInv'
<1> USE PoolAssumption DEF PoolInv, Release, Go
<1>1. TypeOK'
  BY DEF TypeOK, Stage
<1>2. ASSUME NEW q \in Request, q # r
      PROVE  Holds(q)' = Holds(q) /\ stage'[q] = stage[q]
  BY <1>2 DEF TypeOK, Holds
<1>3. Holds(r)' = Holds(r) \ {k}
  BY DEF TypeOK, Holds
<1> QED BY <1>1, <1>2, <1>3 DEF HoldsByStage, TypeOK, ReaderPool

LEMMA NextKeepsInv == PoolInv /\ [Next]_vars => PoolInv'
<1> SUFFICES ASSUME PoolInv, [Next]_vars PROVE PoolInv'
  OBVIOUS
<1>1. CASE UNCHANGED vars
  BY <1>1 DEF vars, PoolInv, TypeOK, HoldsByStage, Holds, ReaderPool
<1> QED
  BY <1>1, StageChangeKeepsInv, TakeKeepsInv, ReleaseKeepsInv DEF Next

\* Type correctness and what a request holds at each stage, for any pools.
THEOREM PoolInvariant == Spec => []PoolInv
BY InitPoolInv, NextKeepsInv, PTL DEF Spec

\* No path through the dependencies leaks a connection.
THEOREM NothingLeaks == Spec => []NoLeak
<1>1. PoolInv => NoLeak
  BY DEF PoolInv, HoldsByStage, NoLeak
<1> QED BY <1>1, PoolInvariant, PTL

\* An owned connection that came from get_db belongs to a request that serves.
LEMMA WriterOwnersServe ==
    ASSUME PoolInv, NEW k \in Conn, owner[k] # Nobody
    PROVE  /\ owner[k] \in Request
           /\ \/ stage[owner[k]] \in {"running", "leaving"}
              \/ /\ stage[owner[k]] = "wantWriter"
                 /\ owner[k] \in Search
                 /\ Holds(owner[k]) = {k}
                 /\ k \in ReaderPool
<1>1. owner[k] \in Request /\ k \in Holds(owner[k])
  BY DEF PoolInv, TypeOK, Holds
<1> QED BY <1>1 DEF PoolInv, TypeOK, Stage, HoldsByStage

\* With a pool for each dependency, requests cannot all wait for each other,
\* however many there are and however small the pools.
THEOREM SplitPoolsProgress == Split => (Spec => []NoGridlock)
<1> SUFFICES ASSUME Split PROVE Spec => []NoGridlock
  OBVIOUS
<1>1. PoolInv => NoGridlock
  <2> SUFFICES ASSUME PoolInv, NEW r \in Request, Waiting(r),
                      \A q \in Request : stage[q] \notin {"running", "leaving"}
               PROVE  \E q \in Request :
                          Waiting(q) /\ \E k \in PoolFor(q) : owner[k] = Nobody
    BY DEF NoGridlock
  <2>1. \A k \in WriterConn : owner[k] = Nobody
    BY WriterOwnersServe, PoolAssumption DEF Conn, ReaderPool
  <2>2. CASE stage[r] = "wantWriter"
    BY <2>1, <2>2, PoolAssumption DEF PoolFor
  <2>3. CASE stage[r] = "wantReader" /\ \E k \in ReaderConn : owner[k] = Nobody
    BY <2>3 DEF PoolFor, ReaderPool
  <2>4. CASE \A k \in ReaderConn : owner[k] # Nobody
    <3>1. PICK k \in ReaderConn : owner[k] # Nobody
      BY <2>4, PoolAssumption
    <3>2. owner[k] \in Request /\ stage[owner[k]] = "wantWriter"
      BY <3>1, WriterOwnersServe DEF Conn
    <3> QED BY <2>1, <3>2, PoolAssumption DEF PoolFor, Waiting
  <2> QED BY <2>2, <2>3, <2>4 DEF Waiting
<1> QED BY <1>1, PoolInvariant, PTL

\* With one pool for both dependencies, gridlock needs as many concurrent
\* searches as the pool has connections: with fewer it cannot happen.
THEOREM BelowLimitProgress ==
    ASSUME IsFiniteSet(Search), IsFiniteSet(WriterConn),
           Cardinality(Search) < Cardinality(WriterConn), ~Split
    PROVE  Spec => []NoGridlock
<1>1. PoolInv => NoGridlock
  <2> SUFFICES ASSUME PoolInv, NEW r \in Request, Waiting(r),
                      \A q \in Request : stage[q] \notin {"running", "leaving"},
                      \A k \in WriterConn : owner[k] # Nobody
               PROVE  FALSE
    BY DEF NoGridlock, PoolFor, ReaderPool
  <2> DEFINE f == [k \in WriterConn |-> owner[k]]
  <2>1. \A k \in WriterConn : owner[k] \in Search /\ Holds(owner[k]) = {k}
    BY WriterOwnersServe DEF Conn
  <2>2. f \in Injection(WriterConn, Search)
    BY <2>1 DEF Injection, IsInjective
  <2>3. Cardinality(WriterConn) <= Cardinality(Search)
    BY <2>2, FS_Injection
  <2> QED BY <2>3, FS_CardinalityType
<1> QED BY <1>1, PoolInvariant, PTL

-----------------------------------------------------------------------------
\* Every step of the composed system is one of DbPool's or none of its business.
LEMMA LifeStepsArePoolSteps == [LifeNext]_allVars => [Next]_vars
<1> SUFFICES ASSUME [LifeNext]_allVars PROVE [Next]_vars
  OBVIOUS
<1> USE LifespanAssumption DEF vars, Request
<1>1. CASE \E b \in Background : Spawn(b) \/ Embedded(b)
  BY <1>1 DEF Spawn, Embedded, Next
<1>2. CASE SweepBegins \/ SweepCancelled
  BY <1>2 DEF SweepBegins, SweepCancelled, Next
<1>3. ASSUME NEW r \in Request,
             \/ RequestArrives(r) \/ Enter(r) \/ Create(r) \/ CreateFails(r)
             \/ \E k \in Conn : Acquire(r, k)
             \/ AcquireFails(r) \/ HandlerEnds(r) \/ GiveBack(r)
      PROVE  [Next]_vars
  BY <1>3 DEF RequestArrives, Enter, Create, CreateFails, Acquire, AcquireFails,
             HandlerEnds, GiveBack, Next
<1>4. CASE \/ OpenAtBoot \/ BootFails \/ BootEnds \/ Shutdown \/ Drained \/ CloseBegins
           \/ ShutdownRaises \/ WriterClosed \/ ReaderClosed
  BY <1>4 DEF OpenAtBoot, BootFails, BootEnds, Shutdown, Drained, CloseBegins,
              ShutdownRaises, WriterClosed, ReaderClosed
<1>5. CASE UNCHANGED allVars
  BY <1>5 DEF allVars
<1> QED BY <1>1, <1>2, <1>3, <1>4, <1>5 DEF LifeNext

\* With start-up, pool creation, the sweeper and shutdown, the pools are still used
\* the way DbPool says, so that its theorems hold of them.
THEOREM ImplementsDbPool == LifeSpec => Spec
<1>1. LifeInit => Init
  BY DEF LifeInit
<1> QED BY <1>1, LifeStepsArePoolSteps, PTL DEF LifeSpec, Spec

THEOREM LifePoolInvariant == LifeSpec => []PoolInv
BY ImplementsDbPool, PoolInvariant, PTL

-----------------------------------------------------------------------------
Safe == OnePool /\ PoolOutlivesUsers /\ ClosedAtExit

LEMMA InitLifeInv == LifeInit => LifeInv /\ Safe
<1> SUFFICES ASSUME LifeInit PROVE LifeInv /\ Safe
  OBVIOUS
<1> USE PoolAssumption, LifespanAssumption DEF LifeInit
<1>1. PoolInv
  BY InitPoolInv
<1>2. LifeTypeOK
  BY DEF LifeTypeOK, Phase, Pool, Conn
<1>3. Locks /\ ByPhase
  BY DEF Locks, ByPhase, Pool, Init, Waiting, Request, Served
<1>4. Safe
  BY DEF Safe, OnePool, PoolOutlivesUsers, ClosedAtExit, Uses, Holds, Pool, ConnOf, Init, Conn
<1> QED BY <1>1, <1>2, <1>3, <1>4 DEF LifeInv

\* The steps of lifespan() that concern no connection.
LEMMA LifespanStepsKeepInv ==
    ASSUME LifeInv, Safe,
           \/ OpenAtBoot \/ BootFails \/ BootEnds \/ Shutdown \/ Drained
           \/ CloseBegins \/ ShutdownRaises
    PROVE  LifeInv' /\ Safe'
<1> USE LifespanAssumption DEF LifeInv, Safe
<1>0. UNCHANGED <<stage, owner, lock, asking, spawned>>
  BY DEF OpenAtBoot, BootFails, BootEnds, Shutdown, Drained, CloseBegins, ShutdownRaises
<1>1. PoolInv'
  BY <1>0, NextKeepsInv DEF vars
<1>2. /\ \A r \in Request : Waiting(r)' = Waiting(r) /\ PoolOf(r)' = PoolOf(r)
      /\ \A r \in Request, w \in Pool : Uses(r, w)' = Uses(r, w)
  BY <1>0 DEF Waiting, PoolOf, Uses, Holds, ConnOf
<1>3. CASE OpenAtBoot
  <2>1. LifeTypeOK' /\ ByPhase'
    BY <1>0, <1>3 DEF OpenAtBoot, LifeTypeOK, ByPhase, Pool, Phase
  <2>2. Locks'
    BY <1>0, <1>2, <1>3 DEF OpenAtBoot, Locks, ByPhase, Waiting, Pool, LifeTypeOK
  <2>3. Safe'
    BY <1>2, <1>3 DEF OpenAtBoot, OnePool, PoolOutlivesUsers, ClosedAtExit, Pool, LifeTypeOK
  <2> QED BY <1>1, <2>1, <2>2, <2>3
<1>4. CASE BootFails \/ BootEnds \/ Shutdown \/ Drained \/ ShutdownRaises
  <2>0. UNCHANGED <<global, live>>
    BY <1>4 DEF BootFails, BootEnds, Shutdown, Drained, ShutdownRaises
  <2>1. LifeTypeOK'
    BY <1>0, <1>4, <2>0 DEF BootFails, BootEnds, Shutdown, Drained, ShutdownRaises, LifeTypeOK,
                            Phase
  <2>2. ByPhase'
    BY <1>0, <1>4, <2>0 DEF BootFails, BootEnds, Shutdown, Drained, ShutdownRaises, LifeTypeOK,
                            ByPhase, Pool, Served
  <2>3. Locks'
    BY <1>0, <1>2, <2>0 DEF Locks
  <2>4. Safe'
    BY <1>2, <1>4, <2>0 DEF BootFails, BootEnds, Shutdown, Drained, ShutdownRaises,
                            OnePool, PoolOutlivesUsers, ClosedAtExit
  <2> QED BY <1>1, <2>1, <2>2, <2>3, <2>4
<1>5. CASE CloseBegins
  <2>0. global["writer"] = "open" /\ UNCHANGED live /\ "writer" \in Pool
    BY <1>5 DEF CloseBegins, ByPhase, Pool
  <2>1. LifeTypeOK'
    BY <1>0, <1>5 DEF CloseBegins, LifeTypeOK, Phase, ConnOut, ConnOf, Conn
  <2>2. ByPhase'
    BY <1>0, <1>5, <2>0 DEF CloseBegins, LifeTypeOK, ByPhase, Pool
  <2>3. Locks'
    BY <1>0, <1>2, <1>5, <2>0 DEF CloseBegins, Locks, LifeTypeOK
  <2>4. Safe'
    BY <1>2, <1>5, <2>0 DEF CloseBegins, OnePool, PoolOutlivesUsers, ClosedAtExit, LifeTypeOK
  <2> QED BY <1>1, <2>1, <2>2, <2>3, <2>4
<1> QED BY <1>3, <1>4, <1>5

\* close_db(): the pool that goes has no user but a late re-embed, and nobody is
\* creating one.
LEMMA CloseKeepsInv ==
    ASSUME LifeInv, Safe, WriterClosed \/ ReaderClosed
    PROVE  LifeInv' /\ Safe'
<1> USE LifespanAssumption DEF LifeInv, Safe
<1>0. UNCHANGED <<stage, owner, lock, asking, spawned, sweepTask>>
  BY DEF WriterClosed, ReaderClosed
<1>1. PoolInv'
  BY <1>0, NextKeepsInv DEF vars
<1>2. /\ \A r \in Request : Waiting(r)' = Waiting(r) /\ PoolOf(r)' = PoolOf(r)
      /\ \A r \in Request, w \in Pool : Uses(r, w)' = Uses(r, w)
  BY <1>0 DEF Waiting, PoolOf, Uses, Holds, ConnOf
<1>3. LifeTypeOK'
  BY <1>0 DEF WriterClosed, ReaderClosed, LifeTypeOK, Phase, Pool, ConnOut, ConnOf, Conn
<1>4. ByPhase'
  BY <1>0 DEF WriterClosed, ReaderClosed, LifeTypeOK, ByPhase, Pool
<1>5. Locks'
  <2>1. \A r \in Request : asking[r] = "create" => global'[PoolOf(r)] = "none"
    BY DEF WriterClosed, ReaderClosed, LifeTypeOK, Locks, Pool, PoolOf
  <2> QED BY <1>0, <1>2, <2>1 DEF Locks
<1>6. Safe'
  <2>1. OnePool'
    BY DEF WriterClosed, ReaderClosed, LifeTypeOK, OnePool, Pool
  <2>2. PoolOutlivesUsers'
    <3>1. \A r \in Request \ Background, w \in Pool : ~Uses(r, w)
      BY DEF WriterClosed, ReaderClosed, ByPhase, Served, Uses, Holds, ConnOf, Conn, Locks, Waiting,
             PoolInv, HoldsByStage
    <3> QED BY <1>2, <3>1 DEF PoolOutlivesUsers
  <2>3. ClosedAtExit'
    BY <2>1 DEF WriterClosed, ReaderClosed, LifeTypeOK, ByPhase, OnePool, ClosedAtExit, Pool
  <2> QED BY <2>1, <2>2, <2>3
<1> QED BY <1>1, <1>3, <1>4, <1>5, <1>6

\* Steps of one task r before it has a connection, or without one.  What is true of
\* the other tasks is not touched.
LEMMA AskStepsKeepInv ==
    ASSUME LifeInv, Safe, NEW r \in Request,
           RequestArrives(r) \/ Enter(r) \/ Create(r) \/ CreateFails(r)
    PROVE  LifeInv' /\ Safe'
<1> USE LifespanAssumption, PoolAssumption DEF LifeInv, Safe
<1>0. UNCHANGED <<owner, phase, spawned, sweepTask>>
  BY DEF RequestArrives, Enter, Create, CreateFails, Arrive, GiveUp
<1>1. PoolInv'
  BY NextKeepsInv, LifeStepsArePoolSteps DEF LifeNext
<1>2. LifeTypeOK'
  BY DEF RequestArrives, Enter, Create, CreateFails, FirstLook, LifeTypeOK, PoolOf, Pool
<1>3. ASSUME NEW q \in Request, q # r
      PROVE  /\ stage'[q] = stage[q] /\ asking'[q] = asking[q]
             /\ Waiting(q)' = Waiting(q) /\ PoolOf(q)' = PoolOf(q)
  BY <1>3 DEF RequestArrives, Enter, Create, CreateFails, Arrive, GiveUp, Go, Waiting, PoolOf,
              PoolInv, TypeOK, LifeTypeOK
<1>4. CASE RequestArrives(r)
  <2>0. /\ UNCHANGED <<global, live, lock>> /\ phase = "serving"
        /\ stage[r] = "idle" /\ asking[r] = "no" /\ ~Waiting(r) /\ Waiting(r)'
        /\ asking'[r] = FirstLook(PoolOf(r)') /\ PoolOf(r)' \in Pool
    BY <1>4 DEF RequestArrives, Arrive, Go, Waiting, PoolOf, Pool, Locks, PoolInv, TypeOK,
                LifeTypeOK
  <2>1. Locks'
    BY <1>3, <1>4, <2>0 DEF Locks, FirstLook, RequestArrives, Served, Request
  <2>2. ByPhase'
    BY <1>0, <1>3, <1>4, <2>0 DEF ByPhase, RequestArrives, Served, Request
  <2>3. PoolOutlivesUsers'
    BY <1>0, <1>3, <2>0 DEF PoolOutlivesUsers, Uses, Holds, FirstLook, OnePool, ConnOf
  <2> QED BY <1>0, <1>1, <1>2, <2>0, <2>1, <2>2, <2>3 DEF OnePool, ClosedAtExit
<1>5. CASE Enter(r)
  <2>0. /\ UNCHANGED <<global, live, stage>>
        /\ asking[r] = "lock" /\ Waiting(r) /\ Waiting(r)' /\ PoolOf(r)' = PoolOf(r)
        /\ PoolOf(r) \in Pool /\ lock[PoolOf(r)] = Nobody
    BY <1>5 DEF Enter, Waiting, PoolOf, Pool, Locks
  <2>1. Locks'
    BY <1>3, <1>5, <2>0 DEF Enter, Locks, LifeTypeOK, Request
  <2>2. ByPhase'
    BY <1>0, <2>0, <1>5 DEF ByPhase, Enter
  <2>3. PoolOutlivesUsers'
    BY <1>0, <1>3, <1>5, <2>0 DEF Enter, PoolOutlivesUsers, Uses, Holds, OnePool, ConnOf, LifeTypeOK
  <2> QED BY <1>0, <1>1, <1>2, <2>0, <2>1, <2>2, <2>3 DEF OnePool, ClosedAtExit
<1>6. CASE Create(r)
  <2>0. /\ UNCHANGED stage
        /\ asking[r] = "create" /\ Waiting(r) /\ Waiting(r)' /\ PoolOf(r)' = PoolOf(r)
        /\ PoolOf(r) \in Pool /\ lock[PoolOf(r)] = r /\ global[PoolOf(r)] = "none"
        /\ asking'[r] = "pool"
    BY <1>6 DEF Create, Waiting, PoolOf, Pool, Locks, LifeTypeOK
  <2>1. Locks'
    BY <1>3, <1>6, <2>0 DEF Create, Locks, LifeTypeOK
  <2>2. OnePool'
    BY <1>6, <2>0 DEF Create, OnePool, LifeTypeOK
  <2>3. PoolOutlivesUsers'
    BY <1>0, <1>3, <1>6, <2>0 DEF Create, PoolOutlivesUsers, Uses, Holds, ConnOf, LifeTypeOK
  <2>4. r \in Served => phase \in {"serving", "draining"}
    BY <2>0 DEF ByPhase, Waiting
  <2>5. r = Sweeper => sweepTask # "ended"
    BY <2>0 DEF ByPhase, Waiting
  <2>6. phase # "boot"
    BY <2>0 DEF ByPhase, Waiting
  <2>7. ByPhase' /\ ClosedAtExit'
    <3>1. phase \in {"closeReader", "down"} => r \in Background
      BY <2>4, <2>5 DEF ByPhase, Served
    <3>2. phase = "down" => PoolOf(r) # "reader"
      BY <2>0, <3>1 DEF PoolOf, PoolInv, HoldsByStage
    <3>3. phase \notin {"serving", "draining", "stopping"} \/ PoolOf(r) = "reader"
      BY <2>0 DEF ByPhase, Pool, PoolOf
    <3>4. ByPhase'
      BY <1>0, <1>6, <2>0, <2>6, <3>1, <3>2, <3>3 DEF Create, ByPhase, Pool, LifeTypeOK
    <3>5. ClosedAtExit'
      BY <1>0, <1>6, <2>0, <3>1 DEF Create, ClosedAtExit, LifeTypeOK
    <3> QED BY <3>4, <3>5
  <2> QED BY <1>1, <1>2, <2>1, <2>2, <2>3, <2>7
<1>7. CASE CreateFails(r)
  <2>0. /\ UNCHANGED <<global, live>>
        /\ asking[r] = "create" /\ Waiting(r) /\ ~(Waiting(r)')
        /\ PoolOf(r) \in Pool /\ lock[PoolOf(r)] = r
        /\ asking'[r] = "no" /\ stage'[r] \in {"idle", "leaving"}
    BY <1>7 DEF CreateFails, GiveUp, Go, Waiting, PoolOf, Pool, Locks, LifeTypeOK, PoolInv, TypeOK
  <2>1. Locks'
    BY <1>3, <1>7, <2>0 DEF CreateFails, Locks, LifeTypeOK
  <2>2. ByPhase'
    BY <1>0, <1>3, <2>0 DEF ByPhase, Waiting, Served, Request
  <2>3. PoolOutlivesUsers'
    BY <1>0, <1>3, <2>0 DEF PoolOutlivesUsers, Uses, Holds, ConnOf
  <2> QED BY <1>0, <1>1, <1>2, <2>0, <2>1, <2>2, <2>3 DEF OnePool, ClosedAtExit
<1> QED BY <1>4, <1>5, <1>6, <1>7

\* A task takes a connection, ends its work or gives the connection back.
LEMMA ConnectionStepsKeepInv ==
    ASSUME LifeInv, Safe, NEW r \in Request,
           (\E k \in Conn : Acquire(r, k)) \/ AcquireFails(r) \/ HandlerEnds(r) \/ GiveBack(r)
    PROVE  LifeInv' /\ Safe'
<1> USE LifespanAssumption, PoolAssumption DEF LifeInv, Safe
<1>0. UNCHANGED <<phase, global, live, lock, spawned, sweepTask>>
  BY DEF Acquire, AcquireFails, HandlerEnds, GiveBack, lifeVars
<1>1. PoolInv'
  BY NextKeepsInv, LifeStepsArePoolSteps DEF LifeNext
<1>2. CASE \E k \in Conn : Acquire(r, k)
  <2> PICK k \in Conn : Acquire(r, k)
    BY <1>2
  <2>0. /\ asking[r] = "pool" /\ Waiting(r)
        /\ k \in ConnOf(PoolOf(r)) /\ PoolOf(r) \in Pool /\ PoolOf(r)' = "writer"
        /\ asking'[r] # "create" /\ (asking'[r] = "no" <=> ~(Waiting(r)'))
        /\ asking'[r] \in {"no", FirstLook("writer")}
        /\ owner' = [owner EXCEPT ![k] = r]
    BY DEF Acquire, Take, Go, Waiting, PoolFor, ReaderPool, ConnOf, PoolOf, Pool, FirstLook,
           PoolInv,
           TypeOK, LifeTypeOK
  <2>1. LifeTypeOK'
    BY <1>0 DEF Acquire, FirstLook, LifeTypeOK
  <2>2. ASSUME NEW q \in Request, q # r
        PROVE  /\ stage'[q] = stage[q] /\ asking'[q] = asking[q]
               /\ Waiting(q)' = Waiting(q) /\ PoolOf(q)' = PoolOf(q)
    BY <2>2 DEF Acquire, Take, Go, Waiting, PoolOf, PoolInv, TypeOK, LifeTypeOK
  <2>3. Locks'
    <3>1. r = Sweeper => asking'[r] = "no"
      BY <2>0 DEF Acquire, PoolInv, HoldsByStage, LifeTypeOK
    <3> QED BY <1>0, <2>0, <2>2, <3>1 DEF Locks, Request
  <2>4. ByPhase'
    BY <1>0, <2>0, <2>2 DEF ByPhase, Waiting, Served, Request
  <2>5. PoolOutlivesUsers'
    <3>1. FirstLook("writer") = "pool" => live["writer"] # {}
      BY DEF FirstLook, OnePool, Pool
    <3>2. ASSUME NEW w \in Pool, live[w] = {}, NEW q \in Request \ Background, q # r
          PROVE  ~(Uses(q, w)')
      <4>1. ~Uses(q, w)
        BY <3>2 DEF PoolOutlivesUsers
      <4>2. \A j \in ConnOf(w) : owner'[j] # q
        BY <2>0, <3>2, <4>1 DEF Uses, Holds, ConnOf, Conn, PoolInv, TypeOK
      <4> QED BY <2>2, <3>2, <4>1, <4>2 DEF Uses, Holds, ConnOf
    <3>3. ASSUME NEW w \in Pool, live[w] = {}, r \notin Background
          PROVE  ~(Uses(r, w)')
      <4>1. w # PoolOf(r) /\ k \notin ConnOf(w)
        BY <2>0, <3>3, PoolAssumption DEF PoolOutlivesUsers, Uses, ConnOf, Pool
      <4>2. \A j \in ConnOf(w) : owner'[j] # r
        BY <2>0, <3>3, <4>1 DEF PoolOutlivesUsers, Uses, Holds, ConnOf, Conn, PoolInv, TypeOK
      <4>3. ~(asking'[r] = "pool" /\ PoolOf(r)' = w)
        BY <2>0, <3>1, <3>3
      <4> QED BY <4>2, <4>3 DEF Uses, Holds, ConnOf
    <3> QED BY <1>0, <3>2, <3>3 DEF PoolOutlivesUsers
  <2> QED BY <1>0, <1>1, <2>1, <2>3, <2>4, <2>5 DEF OnePool, ClosedAtExit
<1>3. CASE HandlerEnds(r) \/ GiveBack(r)
  <2>0. /\ UNCHANGED <<asking, phase>> /\ ~Waiting(r) /\ ~(Waiting(r)') /\ stage[r] # "idle"
        /\ \A k \in Conn : owner'[k] \in {owner[k], Nobody}
    BY <1>3 DEF HandlerEnds, GiveBack, lifeVars, Finish, Release, Go, Waiting, PoolInv, TypeOK
  <2>1. ASSUME NEW q \in Request, q # r
        PROVE  stage'[q] = stage[q] /\ Waiting(q)' = Waiting(q) /\ PoolOf(q)' = PoolOf(q)
    BY <1>3, <2>1 DEF HandlerEnds, GiveBack, Finish, Release, Go, Waiting, PoolOf, PoolInv, TypeOK
  <2>2. LifeTypeOK'
    BY <1>0, <1>3, <2>0 DEF HandlerEnds, GiveBack, lifeVars, LifeTypeOK
  <2>3. Locks'
    BY <1>0, <2>0, <2>1 DEF Locks
  <2>4. ByPhase'
    BY <1>0, <2>0, <2>1 DEF ByPhase, Served, Request
  <2>5. PoolOutlivesUsers'
    <3>1. asking[r] = "no"
      BY <2>0 DEF Locks
    <3> QED BY <1>0, <2>0, <2>1, <3>1 DEF PoolOutlivesUsers, Uses, Holds, ConnOf, Conn
  <2> QED BY <1>0, <1>1, <2>2, <2>3, <2>4, <2>5 DEF OnePool, ClosedAtExit
<1>4. CASE AcquireFails(r)
  <2>0. /\ asking[r] = "pool" /\ Waiting(r) /\ ~(Waiting(r)') /\ UNCHANGED owner
        /\ asking'[r] = "no" /\ stage'[r] \in {"idle", "leaving"}
        /\ \A w \in Pool : lock[w] # r
    BY <1>4 DEF AcquireFails, GiveUp, Go, Waiting, Locks, LifeTypeOK, PoolInv, TypeOK
  <2>1. ASSUME NEW q \in Request, q # r
        PROVE  /\ stage'[q] = stage[q] /\ asking'[q] = asking[q]
               /\ Waiting(q)' = Waiting(q) /\ PoolOf(q)' = PoolOf(q)
    BY <1>4, <2>1 DEF AcquireFails, GiveUp, Go, Waiting, PoolOf, PoolInv, TypeOK, LifeTypeOK
  <2>2. LifeTypeOK'
    BY <1>0, <1>4 DEF AcquireFails, LifeTypeOK
  <2>3. Locks'
    BY <1>0, <2>0, <2>1 DEF Locks, Request
  <2>4. ByPhase'
    BY <1>0, <2>0, <2>1 DEF ByPhase, Waiting, Served, Request
  <2>5. PoolOutlivesUsers'
    BY <1>0, <2>0, <2>1 DEF PoolOutlivesUsers, Uses, Holds, ConnOf
  <2> QED BY <1>0, <1>1, <2>2, <2>3, <2>4, <2>5 DEF OnePool, ClosedAtExit
<1> QED BY <1>2, <1>3, <1>4

\* The tasks that are no requests come and go.
LEMMA TaskStepsKeepInv ==
    ASSUME LifeInv, Safe,
           \/ SweepBegins \/ SweepCancelled
           \/ \E b \in Background : Spawn(b) \/ Embedded(b)
    PROVE  LifeInv' /\ Safe'
<1> USE LifespanAssumption, PoolAssumption DEF LifeInv, Safe
<1>0. UNCHANGED <<owner, phase, global, live, lock>>
  BY DEF SweepBegins, SweepCancelled, Spawn, Embedded, Arrive, GiveUp
<1>1. PoolInv'
  BY NextKeepsInv, LifeStepsArePoolSteps DEF LifeNext
<1>2. LifeTypeOK'
  BY <1>0 DEF SweepBegins, SweepCancelled, Spawn, Embedded, FirstLook, LifeTypeOK
<1>3. CASE UNCHANGED <<stage, asking>>
  <2>1. Locks' /\ PoolOutlivesUsers'
    BY <1>0, <1>3 DEF Locks, PoolOutlivesUsers, Uses, Holds, Waiting, PoolOf, ConnOf
  <2>2. ByPhase'
    BY <1>0, <1>3 DEF SweepBegins, SweepCancelled, Spawn, Embedded, Arrive, Go, ByPhase, Served,
                      Request, PoolInv, TypeOK
  <2> QED BY <1>0, <1>1, <1>2, <2>1, <2>2 DEF OnePool, ClosedAtExit
<1>4. ASSUME NEW r \in {Sweeper} \cup Background, Arrive(r), phase # "boot",
             asking' = [asking EXCEPT ![r] = FirstLook("writer")],
             r = Sweeper => sweepTask = "running",
             UNCHANGED sweepTask
      PROVE  LifeInv' /\ Safe'
  <2>0. /\ r \in Single /\ r \notin Served /\ stage[r] = "idle" /\ ~Waiting(r) /\ Waiting(r)'
        /\ PoolOf(r)' = "writer" /\ asking'[r] = FirstLook("writer") /\ asking[r] = "no"
    BY <1>4 DEF Arrive, Go, Waiting, PoolOf, Request, Served, PoolInv, TypeOK, LifeTypeOK, Locks
  <2>1. ASSUME NEW q \in Request, q # r
        PROVE  /\ stage'[q] = stage[q] /\ asking'[q] = asking[q]
               /\ Waiting(q)' = Waiting(q) /\ PoolOf(q)' = PoolOf(q)
    BY <1>4, <2>1 DEF Arrive, Go, Waiting, PoolOf, PoolInv, TypeOK, LifeTypeOK
  <2>2. Locks'
    <3>1. r = Sweeper => FirstLook("writer") = "pool"
      BY <1>4 DEF FirstLook, ByPhase, LifeTypeOK, Phase
    <3> QED BY <1>0, <2>0, <2>1, <3>1 DEF Locks, FirstLook, Request
  <2>3. ByPhase'
    BY <1>0, <1>4, <2>0, <2>1 DEF ByPhase, Served, Request
  <2>4. PoolOutlivesUsers'
    BY <1>0, <2>0, <2>1 DEF PoolOutlivesUsers, Uses, Holds, FirstLook, OnePool, ConnOf, Pool
  <2> QED BY <1>0, <1>1, <1>2, <2>2, <2>3, <2>4 DEF OnePool, ClosedAtExit
<1>5. CASE SweepCancelled /\ GiveUp(Sweeper) /\ UNCHANGED sweepTask
  <2>0. /\ stage'[Sweeper] \in {"idle", "leaving"} /\ Waiting(Sweeper) /\ ~(Waiting(Sweeper)')
        /\ asking'[Sweeper] = "no" /\ sweepTask = "cancelled"
    BY <1>5 DEF SweepCancelled, GiveUp, Go, Waiting, Request, PoolInv, TypeOK, LifeTypeOK
  <2>1. ASSUME NEW q \in Request, q # Sweeper
        PROVE  /\ stage'[q] = stage[q] /\ asking'[q] = asking[q]
               /\ Waiting(q)' = Waiting(q) /\ PoolOf(q)' = PoolOf(q)
    BY <1>5, <2>1 DEF SweepCancelled, GiveUp, Go, Waiting, PoolOf, PoolInv, TypeOK, LifeTypeOK
  <2>2. Locks'
    BY <1>0, <2>0, <2>1 DEF Locks, Request
  <2>3. ByPhase'
    BY <1>0, <1>5, <2>0, <2>1 DEF SweepCancelled, ByPhase, Served, Request, Waiting
  <2>4. PoolOutlivesUsers'
    BY <1>0, <2>0, <2>1 DEF PoolOutlivesUsers, Uses, Holds, ConnOf
  <2> QED BY <1>0, <1>1, <1>2, <2>2, <2>3, <2>4 DEF OnePool, ClosedAtExit
<1>6. CASE \E b \in Background : Spawn(b)
  BY <1>3, <1>6 DEF Spawn
<1>7. CASE SweepBegins
  <2>1. phase # "boot" /\ FirstLook("writer") = "pool"
    BY <1>7 DEF SweepBegins, FirstLook, ByPhase, LifeTypeOK, Phase
  <2> QED BY <1>4, <1>7, <2>1 DEF SweepBegins
<1>8. CASE SweepCancelled
  BY <1>3, <1>5, <1>8 DEF SweepCancelled
<1>9. CASE \E b \in Background : Embedded(b)
  BY <1>3, <1>4, <1>9 DEF Embedded, ByPhase
<1> QED BY <1>6, <1>7, <1>8, <1>9

LEMMA LifeNextKeepsInv == LifeInv /\ Safe /\ [LifeNext]_allVars => LifeInv' /\ Safe'
<1> SUFFICES ASSUME LifeInv, Safe, [LifeNext]_allVars PROVE LifeInv' /\ Safe'
  OBVIOUS
<1>1. CASE UNCHANGED allVars
  BY <1>1, LifeStepsArePoolSteps, NextKeepsInv
     DEF allVars, LifeInv, Safe, LifeTypeOK, Locks, ByPhase, OnePool, PoolOutlivesUsers,
         ClosedAtExit,
         Uses, Holds, ConnOf, Waiting, PoolOf
<1> QED
  BY <1>1, LifespanStepsKeepInv, CloseKeepsInv, AskStepsKeepInv, ConnectionStepsKeepInv,
     TaskStepsKeepInv DEF LifeNext

\* Start-up and shutdown, locks and pools agree in every state.
THEOREM LifespanInvariant == LifeSpec => [](LifeInv /\ Safe)
BY InitLifeInv, LifeNextKeepsInv, PTL DEF LifeSpec

\* However many requests race to create a pool, there is one.
THEOREM PoolsAreCreatedOnce == LifeSpec => []OnePool
BY LifespanInvariant, PTL DEF Safe

\* No pool is closed under a request or the sweeper, whatever number of requests and
\* re-embeds share it.
THEOREM PoolsOutliveUsers == LifeSpec => []PoolOutlivesUsers
BY LifespanInvariant, PTL DEF Safe

\* Only a re-embed that nobody awaited leaves a pool open.
THEOREM PoolsAreClosed == LifeSpec => []ClosedAtExit
BY LifespanInvariant, PTL DEF Safe

-----------------------------------------------------------------------------
(* The sweeper.                                                            *)

LEMMA InitSweeperInv == SweeperInit => SweeperInv
BY SweeperAssumption DEF SweeperInit, SweeperInv, SweeperTypeOK, Version, None, ReadIsCurrent,
                         FreshIsCurrent, Current

\* A SELECT copies the text it reads; image batches are not about texts.
LEMMA SelectKeepsInv ==
    ASSUME SweeperInv, SelectText \/ SelectImage
    PROVE  SweeperInv'
<1>1. CASE SelectText
  <2>1. batch' \subseteq Row
    BY <1>1 DEF SelectText, Select, Batches, TextToDo
  <2>2. SweeperTypeOK'
    <3>1. read' = [r \in Row |-> IF r \in batch' THEN text[r] ELSE 0]
      BY <1>1 DEF SelectText, Select
    <3>2. read' \in [Row -> Version]
      BY <3>1, SweeperAssumption DEF SweeperInv, SweeperTypeOK, Version
    <3> QED
      BY <1>1, <2>1, <3>2 DEF SweeperInv, SelectText, Select, table, ghosts, SweeperTypeOK
  <2>3. ReadIsCurrent' /\ FreshIsCurrent'
    BY <1>1, <2>1 DEF SweeperInv, SelectText, Select, table, ghosts, Current, SweeperTypeOK,
                      ReadIsCurrent, FreshIsCurrent
  <2> QED BY <2>2, <2>3 DEF SweeperInv
<1>2. CASE SelectImage
  <2>1. batch' \subseteq Row
    BY <1>2 DEF SelectImage, Select, Batches
  <2>2. SweeperTypeOK'
    <3>1. read' = [r \in Row |-> IF r \in batch' THEN image[r] ELSE 0]
      BY <1>2 DEF SelectImage, Select
    <3>2. read' \in [Row -> Version]
      BY <3>1, SweeperAssumption DEF SweeperInv, SweeperTypeOK, Version
    <3> QED
      BY <1>2, <2>1, <3>2 DEF SweeperInv, SelectImage, Select, table, ghosts, SweeperTypeOK
  <2>3. ReadIsCurrent' /\ FreshIsCurrent'
    BY <1>2, <2>1 DEF SweeperInv, SelectImage, Select, table, ghosts, Current, SweeperTypeOK,
                      ReadIsCurrent, FreshIsCurrent
  <2> QED BY <2>2, <2>3 DEF SweeperInv
<1> QED BY <1>1, <1>2

\* Finishing a row shortens the batch and changes nobody else's reading.
LEMMA ConsumeKeeps ==
    ASSUME SweeperTypeOK, NEW r \in Row, NEW next \in {"selectImage", "sleep"},
           Consume(r, next)
    PROVE  /\ batch' \subseteq batch
           /\ read' \in [Row -> Version]
           /\ \A q \in batch' : read'[q] = read[q]
           /\ step' \in {step, next}
BY SweeperAssumption DEF SweeperTypeOK, Consume, Version

LEMMA TextStepKeepsInv ==
    ASSUME SweeperInv, NEW r \in Row, SweepText(r) \/ SweepTextFails(r)
    PROVE  SweeperInv'
<1> USE DEF SweeperInv
<1>0. SweeperTypeOK
  OBVIOUS
<1>1. Consume(r, "selectImage") /\ step = "text" /\ r \in batch
  BY DEF SweepText, SweepTextFails, Consume
<1>2. /\ batch' \subseteq batch
      /\ read' \in [Row -> Version]
      /\ \A q \in batch' : read'[q] = read[q]
      /\ step' \in {step, "selectImage"}
  BY <1>0, <1>1, ConsumeKeeps
<1>3. CASE SweepText(r)
  <2>1. SweeperTypeOK'
    BY <1>0, <1>2, <1>3 DEF SweepText, StoreText, ghosts, SweeperTypeOK
  <2>2. ReadIsCurrent'
    BY <1>0, <1>2, <1>3 DEF SweepText, StoreText, ghosts, ReadIsCurrent, SweeperTypeOK
  <2>3. FreshIsCurrent'
    BY <1>0, <1>1, <1>3 DEF SweepText, StoreText, ghosts, Current, ReadIsCurrent, FreshIsCurrent,
                            SweeperTypeOK
  <2> QED BY <2>1, <2>2, <2>3
<1>4. CASE SweepTextFails(r)
  <2>1. SweeperTypeOK'
    BY <1>0, <1>2, <1>4 DEF SweepTextFails, table, ghosts, SweeperTypeOK
  <2>2. ReadIsCurrent' /\ FreshIsCurrent'
    BY <1>0, <1>2, <1>4 DEF ghosts, Current, SweepTextFails, table, ReadIsCurrent, FreshIsCurrent,
                            SweeperTypeOK
  <2> QED BY <2>1, <2>2
<1> QED BY <1>3, <1>4

LEMMA ImageStepKeepsInv ==
    ASSUME SweeperInv, NEW r \in Row, SweepImage(r) \/ SweepImageFails(r)
    PROVE  SweeperInv'
<1> USE DEF SweeperInv
<1>0. SweeperTypeOK
  OBVIOUS
<1>1. Consume(r, "sleep") /\ step = "image"
  BY DEF SweepImage, SweepImageFails
<1>2. /\ batch' \subseteq batch
      /\ read' \in [Row -> Version]
      /\ step' \in {"image", "sleep"}
  BY <1>0, <1>1, ConsumeKeeps
<1>3. CASE SweepImage(r)
  <2>1. SweeperTypeOK'
    BY <1>0, <1>2, <1>3 DEF SweepImage, ghosts, SweeperTypeOK
  <2>2. ReadIsCurrent' /\ FreshIsCurrent'
    BY <1>0, <1>2, <1>3 DEF ghosts, Current, SweepImage, ReadIsCurrent, FreshIsCurrent,
                            SweeperTypeOK
  <2> QED BY <2>1, <2>2
<1>4. CASE SweepImageFails(r)
  <2>1. SweeperTypeOK'
    BY <1>0, <1>2, <1>4 DEF SweepImageFails, table, ghosts, SweeperTypeOK
  <2>2. ReadIsCurrent' /\ FreshIsCurrent'
    BY <1>0, <1>2, <1>4 DEF ghosts, Current, SweepImageFails, table, ReadIsCurrent,
                            FreshIsCurrent, SweeperTypeOK
  <2> QED BY <2>1, <2>2
<1> QED BY <1>3, <1>4

\* Start, SelectFails, Wake and Stop only move the sweeper, never into a text batch.
LEMMA ControlKeepsInv ==
    ASSUME SweeperInv, Start \/ SelectFails \/ Wake \/ Stop
    PROVE  SweeperInv'
<1>1. step' # "text"
  BY DEF Start, SelectFails, Wake, Stop
<1>2. SweeperTypeOK'
  BY SweeperAssumption DEF SweeperInv, Start, Wake, SelectFails, Stop, table, ghosts,
                           SweeperTypeOK, Version
<1>3. ReadIsCurrent' /\ FreshIsCurrent'
  BY <1>1 DEF ghosts, Current, SweeperInv, Start, SelectFails, Wake, Stop, table, ReadIsCurrent,
              FreshIsCurrent
<1> QED BY <1>2, <1>3 DEF SweeperInv

LEMMA UpsertKeepsInv ==
    ASSUME SweeperInv, NEW r \in Row, Upsert(r)
    PROVE  SweeperInv'
<1> USE DEF SweeperInv
<1>0. text[r] + 1 \in Version
  BY SweeperAssumption DEF SweeperTypeOK, Version, Upsert
<1>1. SweeperTypeOK'
  BY <1>0 DEF SweeperTypeOK, Upsert, Overtake
<1>2. ASSUME NEW q \in Row, q # r
      PROVE  /\ text'[q] = text[q] /\ embedded'[q] = embedded[q] /\ fresh'[q] = fresh[q]
             /\ q \in overtaken' <=> q \in overtaken
  BY <1>2 DEF SweeperTypeOK, Upsert, Overtake
<1>3. ~InWork(r) \/ r \in overtaken'
  BY DEF Upsert, Overtake
<1>4. ReadIsCurrent'
  BY <1>2, <1>3 DEF Upsert, InWork, ReadIsCurrent
<1>5. FreshIsCurrent'
  BY <1>2 DEF SweeperTypeOK, Upsert, FreshIsCurrent, Current
<1> QED BY <1>1, <1>4, <1>5

LEMMA ReembedKeepsInv ==
    ASSUME SweeperInv, NEW r \in Row, Reembed(r) \/ ReembedDone(r)
    PROVE  SweeperInv'
<1> USE DEF SweeperInv
<1>1. CASE Reembed(r)
  <2>1. SweeperTypeOK'
    BY <1>1 DEF SweeperTypeOK, Reembed, table, ghosts
  <2>2. ReadIsCurrent' /\ FreshIsCurrent'
    BY <1>1 DEF ghosts, Current, SweeperTypeOK, Reembed, table, ReadIsCurrent, FreshIsCurrent
  <2> QED BY <2>1, <2>2
<1>2. CASE ReembedDone(r)
  <2>1. SweeperTypeOK'
    BY <1>2 DEF SweeperTypeOK, ReembedDone, StoreText, table, ghosts
  <2>2. ReadIsCurrent' /\ FreshIsCurrent'
    BY <1>2 DEF ghosts, Current, SweeperTypeOK, ReembedDone, StoreText, table, ReadIsCurrent,
                FreshIsCurrent
  <2> QED BY <2>1, <2>2
<1> QED BY <1>1, <1>2

\* SweeperInv is inductive, with ingestion at any time: every embedding about to be
\* written is that of the current text, or an edit has overtaken it.
THEOREM SweeperInvariant == SweeperSpec => []SweeperInv
<1>1. SweeperInv /\ [SweeperNext]_sweeperVars => SweeperInv'
  <2> SUFFICES ASSUME SweeperInv, [SweeperNext]_sweeperVars PROVE SweeperInv'
    OBVIOUS
  <2>1. CASE Sweep
    BY <2>1, ControlKeepsInv, SelectKeepsInv, TextStepKeepsInv, ImageStepKeepsInv DEF Sweep
  <2>2. CASE Stop
    BY <2>2, ControlKeepsInv
  <2>3. CASE \E r \in Row : Upsert(r) \/ Reembed(r) \/ ReembedDone(r)
    BY <2>3, UpsertKeepsInv, ReembedKeepsInv
  <2>4. CASE UNCHANGED sweeperVars
    BY <2>4 DEF sweeperVars, SweeperInv, SweeperTypeOK, ReadIsCurrent, FreshIsCurrent, Current
  <2> QED BY <2>1, <2>2, <2>3, <2>4 DEF SweeperNext
<1> QED BY InitSweeperInv, <1>1, PTL DEF SweeperSpec

\* The sweep, the background re-embed (embedding_sweeper.py, routes_events.py) and
\* ingestion need no lock between them but for one race: only an edit that comes while
\* an embedding of its row is under way leaves a wrong embedding marked as right.
THEOREM FreshRowsAreCurrent == SweeperSpec => []FreshIsCurrent
<1>1. SweeperInv => FreshIsCurrent
  BY DEF SweeperInv
<1> QED BY <1>1, SweeperInvariant, PTL
=============================================================================
