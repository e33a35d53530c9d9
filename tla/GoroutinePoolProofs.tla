------------------------- MODULE GoroutinePoolProofs -------------------------
(***************************************************************************)
(* Theorems about GoroutinePool, for every pool size, every divisor and    *)
(* every set of connections, finite or not.                                *)
(***************************************************************************)
EXTENDS GoroutinePool, FunctionTheorems, FiniteSetTheorems, TLAPS

INSTANCE SequenceLemmas WITH Op <- Append

Opened == {c \in Conns : conn[c] # "outside"}

\* Finitely many connections are open, though clients may open any number.
OpenedFinite == IsFiniteSet(Opened)

\* Between the look at the figures and the scaling the channel does not grow: the
\* loop that scales is the only one that sends, and it has not sent meanwhile.
SeenFresh == /\ seen.queue \in Nat /\ seen.active \in Nat
             /\ Len(taskChan) <= maxWorkers
             /\ acc \in {"up", "down"} => Len(taskChan) <= seen.queue

CountWithinLimits == workerCount \in minWorkers .. maxWorkers

Queued(c) == Cardinality(PlacesOf(taskChan, c))

\* ConnectionsAccounted and WorkersAccounted, with the places counted by Queued.
ConnectionsCounted ==
    /\ active = Cardinality(Opened)
    /\ \A c \in Conns : Queued(c) = IF conn[c] = "queued" THEN 1 ELSE 0

WorkersCounted ==
    ~stopped => starting + idle + Cardinality(Served) = workerCount + Queued(NoConn)

\* The strengthening of the four invariants that steps preserve.
PoolInv == /\ TypeOK /\ SeenFresh /\ CountWithinLimits /\ OpenedFinite
           /\ ConnectionsCounted /\ WorkersCounted

----------------------------------------------------------------------------
(* Arithmetic of the pool.                                                  *)

LEMMA DivRange ==
    ASSUME NEW a \in Nat, NEW d \in Nat \ {0}
    PROVE  a \div d \in 0 .. a
OBVIOUS

LEMMA Limits == /\ minWorkers \in Nat \ {0} /\ maxWorkers \in Nat
                /\ PoolSize \in minWorkers .. maxWorkers
<1>1. PoolSize \div LeastDivisor \in 0 .. PoolSize
  BY PoolAssumption, DivisorsAssumption, DivRange
<1>. QED  BY <1>1, PoolAssumption DEF minWorkers, maxWorkers, MaxOf

----------------------------------------------------------------------------
(* Connections that move.                                                   *)

Task == Conns \cup {NoConn}

LEMMA ServedFinite ==
    ASSUME OpenedFinite
    PROVE  /\ IsFiniteSet(Served) /\ Cardinality(Served) \in Nat
           /\ Cardinality(Opened) \in Nat
<1>1. Served \in SUBSET Opened
  BY DEF Served, Opened
<1>. QED  BY <1>1, FS_Subset, FS_CardinalityType DEF OpenedFinite

\* Only the connection c moves.
Moved(c) == conn' = [conn EXCEPT ![c] = conn'[c]]

\* What the move of one connection does to the sets that are counted.
LEMMA ConnMoves ==
    ASSUME TypeOK, OpenedFinite, NEW c \in Conns, Moved(c)
    PROVE  /\ OpenedFinite'
           /\ Cardinality(Opened) \in Nat /\ Cardinality(Served) \in Nat
           /\ Cardinality(Opened') = Cardinality(Opened)
                                     + (IF conn'[c] # "outside" THEN 1 ELSE 0)
                                     - (IF conn[c] # "outside" THEN 1 ELSE 0)
           /\ Cardinality(Served') = Cardinality(Served)
                                     + (IF conn'[c] = "served" THEN 1 ELSE 0)
                                     - (IF conn[c] = "served" THEN 1 ELSE 0)
           /\ \A d \in Conns : d # c => conn'[d] = conn[d]
<1>1. \A d \in Conns : d # c => conn'[d] = conn[d]
  BY DEF TypeOK, Moved
<1>2. /\ IsFiniteSet(Served) /\ Cardinality(Served) \in Nat
      /\ IsFiniteSet(Opened) /\ Cardinality(Opened) \in Nat
  BY ServedFinite DEF OpenedFinite
<1>3. IF conn'[c] # "outside" THEN Opened' = Opened \cup {c} ELSE Opened' = Opened \ {c}
  BY <1>1 DEF Opened
<1>4. IF conn'[c] = "served" THEN Served' = Served \cup {c} ELSE Served' = Served \ {c}
  BY <1>1 DEF Served
<1>5. /\ c \in Opened <=> conn[c] # "outside"
      /\ c \in Served <=> conn[c] = "served"
  BY DEF Opened, Served
<1>6. IsFiniteSet(Opened') /\ Cardinality(Opened') = Cardinality(Opened)
                                     + (IF conn'[c] # "outside" THEN 1 ELSE 0)
                                     - (IF conn[c] # "outside" THEN 1 ELSE 0)
  BY <1>2, <1>3, <1>5, FS_AddElement, FS_RemoveElement
<1>7. Cardinality(Served') = Cardinality(Served)
                                     + (IF conn'[c] = "served" THEN 1 ELSE 0)
                                     - (IF conn[c] = "served" THEN 1 ELSE 0)
  BY <1>2, <1>4, <1>5, FS_AddElement, FS_RemoveElement
<1>. QED  BY <1>1, <1>2, <1>6, <1>7 DEF OpenedFinite

LEMMA QueuedInNat ==
    ASSUME TypeOK, NEW x
    PROVE  Queued(x) \in Nat
BY PlacesFinite DEF TypeOK, Queued

----------------------------------------------------------------------------
(* The accept loop preserves the invariant.                                 *)

LEMMA PoolInit == Init => PoolInv
<1>. SUFFICES ASSUME Init PROVE PoolInv
  OBVIOUS
<1>1. TypeOK
  <2>1. taskChan \in Seq(Conns \cup {NoConn}) /\ Len(taskChan) = 0
    BY DEF Init
  <2>2. Len(taskChan) <= maxWorkers
    BY <2>1, Limits
  <2>. QED  BY <2>1, <2>2, PoolAssumption DEF Init, TypeOK
<1>2. Opened = {} /\ Served = {}
  BY DEF Init, Opened, Served
<1>3. IsFiniteSet({}) /\ Cardinality({}) = 0
  BY FS_EmptySet
<1>4. \A x : PlacesOf(taskChan, x) = {}
  BY DEF Init, PlacesOf
<1>5. SeenFresh /\ CountWithinLimits
  BY Limits DEF Init, SeenFresh, CountWithinLimits, NothingSeen
<1>6. OpenedFinite /\ ConnectionsCounted
  BY <1>2, <1>3, <1>4 DEF Init, OpenedFinite, ConnectionsCounted, Queued
<1>7. WorkersCounted
  BY <1>2, <1>3, <1>4, PoolAssumption DEF Init, WorkersCounted, Queued
<1>. QED  BY <1>1, <1>5, <1>6, <1>7 DEF PoolInv

\* Steps that count and move nothing: of the accept loop between its checks, of Stop.
LEMMA QuietKeeps ==
    ASSUME PoolInv, UNCHANGED <<workerCount, starting, idle, taskChan, conn, active>>,
           TypeOK', SeenFresh', stopped => stopped'
    PROVE  PoolInv'
<1>1. Served' = Served /\ Opened' = Opened /\ \A x : Queued(x)' = Queued(x)
  BY DEF Served, Opened, Queued
<1>. QED  BY <1>1 DEF PoolInv, CountWithinLimits, OpenedFinite, ConnectionsCounted, WorkersCounted

LEMMA AcceptKeeps ==
    ASSUME PoolInv, NEW c \in Conns, Accept(c)
    PROVE  PoolInv'
<1>1. TypeOK' /\ SeenFresh' /\ CountWithinLimits'
  BY DEF PoolInv, TypeOK, SeenFresh, CountWithinLimits, Accept
<1>2. /\ OpenedFinite' /\ Cardinality(Opened') = Cardinality(Opened) + 1
      /\ Cardinality(Served') = Cardinality(Served)
      /\ \A d \in Conns : conn'[d] = "queued" <=> conn[d] = "queued"
  <2>1. Moved(c) /\ conn[c] = "outside" /\ conn'[c] = "submitting"
    BY DEF PoolInv, TypeOK, Accept, Moved
  <2>. QED  BY <2>1, ConnMoves DEF PoolInv
<1>3. \A x : Queued(x)' = Queued(x)
  BY DEF Accept, Queued
<1>. QED  BY <1>1, <1>2, <1>3
          DEF PoolInv, ConnectionsCounted, WorkersCounted, Accept

LEMMA RejectKeeps ==
    ASSUME PoolInv, NEW c \in Conns, Reject(c)
    PROVE  PoolInv'
<1>1. /\ OpenedFinite' /\ Cardinality(Opened') = Cardinality(Opened) - 1
      /\ Cardinality(Served') = Cardinality(Served)
      /\ \A d \in Conns : conn'[d] = "queued" <=> conn[d] = "queued"
  <2>1. Moved(c) /\ conn[c] = "submitting" /\ conn'[c] = "outside"
    BY DEF PoolInv, TypeOK, Reject, Moved
  <2>. QED  BY <2>1, ConnMoves DEF PoolInv
<1>2. \A x : Queued(x)' = Queued(x)
  BY DEF Reject, Queued
<1>3. ConnectionsCounted'
  BY <1>1, <1>2 DEF PoolInv, ConnectionsCounted, Reject
<1>4. Cardinality(Opened') \in Nat
  BY <1>1, FS_CardinalityType DEF OpenedFinite
<1>5. TypeOK' /\ SeenFresh' /\ CountWithinLimits'
  BY <1>3, <1>4 DEF PoolInv, TypeOK, SeenFresh, CountWithinLimits, Reject, ConnectionsCounted
<1>. QED  BY <1>1, <1>2, <1>3, <1>5 DEF PoolInv, WorkersCounted, Reject

LEMMA EnqueueKeeps ==
    ASSUME PoolInv, NEW c \in Conns, Enqueue(c)
    PROVE  PoolInv'
<1>1. /\ taskChan \in Seq(Task) /\ c \in Task /\ c # NoConn
      /\ taskChan' = Append(taskChan, c)
  BY NoConnAssumption DEF PoolInv, TypeOK, Enqueue, Task
<1>2. TypeOK' /\ SeenFresh' /\ CountWithinLimits'
  <2>1. taskChan' \in Seq(Task) /\ Len(taskChan') = Len(taskChan) + 1
    BY <1>1
  <2>. QED  BY <2>1, Limits
            DEF PoolInv, TypeOK, SeenFresh, CountWithinLimits, Enqueue, Full, Task
<1>3. /\ OpenedFinite' /\ Cardinality(Opened') = Cardinality(Opened)
      /\ Cardinality(Served') = Cardinality(Served)
      /\ conn[c] = "submitting" /\ conn'[c] = "queued"
      /\ \A d \in Conns : d # c => conn'[d] = conn[d]
  <2>1. Moved(c) /\ conn[c] = "submitting" /\ conn'[c] = "queued"
    BY DEF PoolInv, TypeOK, Enqueue, Moved
  <2>. QED  BY <2>1, ConnMoves DEF PoolInv
<1>4. \A x : Queued(x)' = Queued(x) + (IF c = x THEN 1 ELSE 0)
  BY <1>1, CountAppend DEF Queued
<1>5. ConnectionsCounted'
  BY <1>3, <1>4 DEF PoolInv, ConnectionsCounted, Enqueue
<1>6. WorkersCounted'
  <2>1. Queued(NoConn)' = Queued(NoConn)
    BY <1>1, <1>4, QueuedInNat DEF PoolInv
  <2>. QED  BY <1>3, <2>1 DEF PoolInv, WorkersCounted, Enqueue
<1>. QED  BY <1>2, <1>3, <1>5, <1>6 DEF PoolInv

LEMMA ScaleUpKeeps ==
    ASSUME PoolInv, ScaleUp
    PROVE  PoolInv'
<1>. DEFINE n == IF WantsMore THEN MinOf(workerCount \div GrowDivisor, maxWorkers - workerCount)
                 ELSE 0
<1>1. /\ starting' = starting + n /\ workerCount' = workerCount + n
      /\ UNCHANGED <<idle, taskChan, conn, seen, measured, active, running, stopped>>
      /\ acc = "up" /\ acc' = "down"
  BY DEF ScaleUp
<1>2. n \in Nat /\ workerCount + n <= maxWorkers
  <2>1. workerCount \in Nat /\ workerCount <= maxWorkers
    BY Limits DEF PoolInv, CountWithinLimits
  <2>2. workerCount \div GrowDivisor \in 0 .. workerCount
    BY <2>1, DivisorsAssumption, DivRange
  <2>. QED  BY <2>1, <2>2, Limits DEF MinOf
<1>. HIDE DEF n
<1>3. TypeOK' /\ SeenFresh'
  BY <1>1, <1>2 DEF PoolInv, TypeOK, SeenFresh
<1>4. CountWithinLimits'
  BY <1>1, <1>2, Limits DEF PoolInv, CountWithinLimits
<1>5. Served' = Served /\ Opened' = Opened /\ \A x : Queued(x)' = Queued(x)
  BY <1>1 DEF Served, Opened, Queued
<1>6. OpenedFinite' /\ ConnectionsCounted'
  BY <1>1, <1>5 DEF PoolInv, OpenedFinite, ConnectionsCounted
<1>7. WorkersCounted'
  <2>1. /\ starting \in Nat /\ idle \in Nat /\ workerCount \in Nat
        /\ Cardinality(Served) \in Nat /\ Queued(NoConn) \in Nat
    BY ServedFinite, QueuedInNat DEF PoolInv, TypeOK
  <2>. QED  BY <1>1, <1>2, <1>5, <2>1 DEF PoolInv, WorkersCounted
<1>. QED  BY <1>3, <1>4, <1>6, <1>7 DEF PoolInv

\* The count goes down by all the nil tasks that are wanted, and all of them are
\* sent: the pool shrinks only when it saw an empty channel, and the channel, which
\* has not grown since, has room for the whole pool.
LEMMA ScaleDownKeeps ==
    ASSUME PoolInv, ScaleDown
    PROVE  PoolInv'
<1>. DEFINE n == IF WantsFewer THEN MinOf(workerCount \div ShrinkDivisor,
                                          workerCount - minWorkers) ELSE 0
            sent == MinOf(n, maxWorkers - Len(taskChan))
<1>1. /\ taskChan' = taskChan \o [i \in 1 .. sent |-> NoConn]
      /\ workerCount' = workerCount - n
      /\ UNCHANGED <<starting, idle, conn, measured, active, running, stopped>>
      /\ seen' = NothingSeen /\ acc = "down" /\ acc' = "accept"
  BY DEF ScaleDown
<1>2. /\ workerCount \in Nat /\ workerCount \in minWorkers .. maxWorkers
      /\ taskChan \in Seq(Task) /\ Len(taskChan) \in Nat /\ Len(taskChan) <= maxWorkers
  BY Limits DEF PoolInv, CountWithinLimits, TypeOK, SeenFresh, Task
<1>3. /\ n \in Nat /\ workerCount - n \in minWorkers .. maxWorkers /\ n <= maxWorkers
      /\ n # 0 => Len(taskChan) = 0
  <2>1. workerCount \div ShrinkDivisor \in 0 .. workerCount
    BY <1>2, DivisorsAssumption, DivRange
  <2>2. WantsFewer => Len(taskChan) = 0
    BY <1>1, <1>2 DEF PoolInv, SeenFresh, WantsFewer
  <2>. QED  BY <1>2, <2>1, <2>2, Limits DEF MinOf, WantsFewer
<1>. HIDE DEF n
<1>4. sent = n /\ sent \in Nat
  BY <1>2, <1>3, Limits DEF MinOf
<1>. HIDE DEF sent
<1>5. /\ taskChan' \in Seq(Task)
      /\ Len(taskChan') = Len(taskChan) + n
  BY <1>1, <1>2, <1>4 DEF Task
<1>6. TypeOK' /\ SeenFresh' /\ CountWithinLimits'
  <2>1. Len(taskChan') <= maxWorkers
    BY <1>2, <1>3, <1>5
  <2>2. workerCount' \in Nat
    BY <1>1, <1>3, Limits
  <2>3. TypeOK'
    BY <1>1, <1>5, <2>1, <2>2 DEF PoolInv, TypeOK, Task
  <2>. QED  BY <1>1, <1>3, <2>1, <2>3 DEF SeenFresh, CountWithinLimits, NothingSeen
<1>7. Served' = Served /\ Opened' = Opened
  BY <1>1 DEF Served, Opened
<1>8. \A x : Queued(x)' = Queued(x) + (IF NoConn = x THEN n ELSE 0)
  <2>1. NoConn \in Task
    BY DEF Task
  <2>2. taskChan' = taskChan \o [i \in 1 .. n |-> NoConn]
    BY <1>1, <1>4
  <2>. QED  BY <1>2, <1>3, <2>1, <2>2, CountConcatEqual DEF Queued
<1>9. OpenedFinite' /\ ConnectionsCounted'
  <2>1. \A c \in Conns : Queued(c)' = Queued(c)
    BY <1>8, QueuedInNat, NoConnAssumption DEF PoolInv
  <2>. QED  BY <1>1, <1>7, <2>1 DEF PoolInv, OpenedFinite, ConnectionsCounted
<1>10. WorkersCounted'
  <2>1. /\ starting \in Nat /\ idle \in Nat
        /\ Cardinality(Served) \in Nat /\ Queued(NoConn) \in Nat
        /\ Queued(NoConn)' = Queued(NoConn) + n
    BY <1>8, ServedFinite, QueuedInNat DEF PoolInv, TypeOK
  <2>. QED  BY <1>1, <1>2, <1>3, <1>7, <2>1 DEF PoolInv, WorkersCounted
<1>. QED  BY <1>6, <1>9, <1>10 DEF PoolInv

----------------------------------------------------------------------------
(* The workers preserve the invariant.                                      *)

LEMMA BeginKeeps ==
    ASSUME PoolInv, Begin
    PROVE  PoolInv'
<1>1. TypeOK' /\ SeenFresh' /\ CountWithinLimits'
  BY DEF PoolInv, TypeOK, SeenFresh, CountWithinLimits, Begin, scaling
<1>2. Served' = Served /\ Opened' = Opened /\ \A x : Queued(x)' = Queued(x)
  BY DEF Served, Opened, Queued, Begin
<1>3. OpenedFinite' /\ ConnectionsCounted'
  BY <1>2 DEF PoolInv, OpenedFinite, ConnectionsCounted, Begin
<1>4. WorkersCounted'
  BY <1>2, ServedFinite DEF PoolInv, TypeOK, WorkersCounted, Begin, scaling
<1>. QED  BY <1>1, <1>3, <1>4 DEF PoolInv

LEMMA LeaveOnStopKeeps ==
    ASSUME PoolInv, LeaveOnStop
    PROVE  PoolInv'
<1>1. TypeOK' /\ SeenFresh' /\ CountWithinLimits'
  BY DEF PoolInv, TypeOK, SeenFresh, CountWithinLimits, LeaveOnStop, scaling
<1>2. Opened' = Opened /\ \A x : Queued(x)' = Queued(x)
  BY DEF Opened, Queued, LeaveOnStop
<1>3. OpenedFinite' /\ ConnectionsCounted' /\ WorkersCounted'
  BY <1>2 DEF PoolInv, OpenedFinite, ConnectionsCounted, WorkersCounted, LeaveOnStop
<1>. QED  BY <1>1, <1>3 DEF PoolInv

\* What a worker takes off the channel.
LEMMA HeadTaken ==
    ASSUME PoolInv, taskChan # <<>>, taskChan' = Tail(taskChan)
    PROVE  /\ Head(taskChan) \in Task
           /\ taskChan' \in Seq(Task)
           /\ Len(taskChan') = Len(taskChan) - 1 /\ Len(taskChan) \in Nat
           /\ \A x : Queued(x)' = Queued(x) - (IF Head(taskChan) = x THEN 1 ELSE 0)
           /\ Queued(Head(taskChan)) # 0
<1>1. taskChan \in Seq(Task)
  BY DEF PoolInv, TypeOK, Task
<1>2. \A x : Queued(x)' = Queued(x) - (IF Head(taskChan) = x THEN 1 ELSE 0)
  BY <1>1, CountTail DEF Queued
<1>3. /\ Head(taskChan) \in Task /\ taskChan' \in Seq(Task)
      /\ Len(taskChan') = Len(taskChan) - 1 /\ Len(taskChan) \in Nat
      /\ 1 \in 1 .. Len(taskChan) /\ taskChan[1] = Head(taskChan)
  BY <1>1
<1>. QED  BY <1>1, <1>2, <1>3, PlacesExist DEF Queued

LEMMA TakeNilKeeps ==
    ASSUME PoolInv, TakeNil
    PROVE  PoolInv'
<1>1. /\ Head(taskChan) = NoConn /\ idle' = idle - 1 /\ idle > 0
      /\ taskChan # <<>> /\ taskChan' = Tail(taskChan)
      /\ UNCHANGED <<scaling, starting, conn, measured, active, running, stopped>>
  BY DEF TakeNil
<1>2. /\ taskChan' \in Seq(Task)
      /\ Len(taskChan) \in Nat /\ Len(taskChan') = Len(taskChan) - 1
      /\ \A x : Queued(x)' = Queued(x) - (IF NoConn = x THEN 1 ELSE 0)
  BY <1>1, HeadTaken
<1>3. TypeOK' /\ SeenFresh' /\ CountWithinLimits'
  <2>1. TypeOK'
    <3>1. Len(taskChan') <= maxWorkers
      BY <1>2, Limits DEF PoolInv, SeenFresh
    <3>. QED  BY <1>1, <1>2, <3>1 DEF PoolInv, TypeOK, scaling, Task
  <2>. QED  BY <1>1, <1>2, <2>1, Limits DEF PoolInv, SeenFresh, CountWithinLimits, scaling
<1>4. Served' = Served /\ Opened' = Opened
  BY <1>1 DEF Served, Opened
<1>5. OpenedFinite' /\ ConnectionsCounted'
  <2>1. \A c \in Conns : Queued(c)' = Queued(c)
    BY <1>2, QueuedInNat, NoConnAssumption DEF PoolInv
  <2>. QED  BY <1>1, <1>4, <2>1 DEF PoolInv, OpenedFinite, ConnectionsCounted
<1>6. WorkersCounted'
  <2>1. /\ starting \in Nat /\ idle \in Nat /\ workerCount \in Nat
        /\ Cardinality(Served) \in Nat /\ Queued(NoConn) \in Nat
        /\ Queued(NoConn)' = Queued(NoConn) - 1
    BY <1>2, ServedFinite, QueuedInNat DEF PoolInv, TypeOK
  <2>. QED  BY <1>1, <1>4, <2>1 DEF PoolInv, WorkersCounted, scaling
<1>. QED  BY <1>3, <1>5, <1>6 DEF PoolInv

LEMMA TakeConnKeeps ==
    ASSUME PoolInv, TakeConn
    PROVE  PoolInv'
<1>. DEFINE c == Head(taskChan)
<1>1. /\ c # NoConn /\ idle' = idle - 1 /\ idle > 0
      /\ taskChan # <<>> /\ taskChan' = Tail(taskChan)
      /\ conn' = [conn EXCEPT ![c] = "served"]
      /\ UNCHANGED <<scaling, starting, measured, active, running, stopped>>
  BY DEF TakeConn
<1>2. /\ c \in Conns
      /\ taskChan' \in Seq(Task)
      /\ Len(taskChan) \in Nat /\ Len(taskChan') = Len(taskChan) - 1
      /\ \A x : Queued(x)' = Queued(x) - (IF c = x THEN 1 ELSE 0)
      /\ Queued(c) # 0
  BY <1>1, HeadTaken DEF Task
<1>. HIDE DEF c
<1>3. Moved(c) /\ conn[c] = "queued" /\ conn'[c] = "served"
  BY <1>1, <1>2 DEF PoolInv, TypeOK, ConnectionsCounted, Moved
<1>4. /\ OpenedFinite' /\ Cardinality(Opened') = Cardinality(Opened)
      /\ Cardinality(Served) \in Nat
      /\ Cardinality(Served') = Cardinality(Served) + 1
      /\ \A d \in Conns : d # c => conn'[d] = conn[d]
  BY <1>2, <1>3, ConnMoves DEF PoolInv
<1>5. TypeOK' /\ SeenFresh' /\ CountWithinLimits'
  <2>1. TypeOK'
    <3>1. Len(taskChan') <= maxWorkers
      BY <1>2, Limits DEF PoolInv, SeenFresh
    <3>. QED  BY <1>1, <1>2, <3>1 DEF PoolInv, TypeOK, scaling, Task
  <2>. QED  BY <1>1, <1>2, <2>1, Limits DEF PoolInv, SeenFresh, CountWithinLimits, scaling
<1>6. ConnectionsCounted'
  <2>1. \A d \in Conns : Queued(d)' = IF d = c THEN 0 ELSE Queued(d)
    BY <1>2, <1>3, QueuedInNat DEF PoolInv, ConnectionsCounted
  <2>. QED  BY <1>1, <1>3, <1>4, <2>1 DEF PoolInv, ConnectionsCounted
<1>7. WorkersCounted'
  <2>1. /\ starting \in Nat /\ idle \in Nat /\ workerCount \in Nat
        /\ Queued(NoConn)' = Queued(NoConn)
    BY <1>1, <1>2, QueuedInNat DEF PoolInv, TypeOK
  <2>. QED  BY <1>1, <1>4, <2>1 DEF PoolInv, WorkersCounted, scaling
<1>. QED  BY <1>4, <1>5, <1>6, <1>7 DEF PoolInv

LEMMA FinishKeeps ==
    ASSUME PoolInv, NEW c \in Conns, Finish(c)
    PROVE  PoolInv'
<1>1. Moved(c) /\ conn[c] = "served" /\ conn'[c] = "outside"
  BY DEF PoolInv, TypeOK, Finish, Moved
<1>2. /\ OpenedFinite' /\ Cardinality(Opened') = Cardinality(Opened) - 1
      /\ Cardinality(Served) \in Nat
      /\ Cardinality(Served') = Cardinality(Served) - 1
      /\ \A d \in Conns : conn'[d] = "queued" <=> conn[d] = "queued"
  BY <1>1, ConnMoves DEF PoolInv
<1>3. \A x : Queued(x)' = Queued(x)
  BY DEF Finish, Queued
<1>4. ConnectionsCounted'
  BY <1>2, <1>3 DEF PoolInv, ConnectionsCounted, Finish
<1>5. Cardinality(Opened') \in Nat
  BY <1>2, FS_CardinalityType DEF OpenedFinite
<1>6. TypeOK' /\ SeenFresh' /\ CountWithinLimits'
  BY <1>4, <1>5
     DEF PoolInv, TypeOK, SeenFresh, CountWithinLimits, Finish, ConnectionsCounted, scaling
<1>7. WorkersCounted'
  BY <1>2, <1>3 DEF PoolInv, TypeOK, WorkersCounted, Finish, scaling
<1>. QED  BY <1>2, <1>4, <1>6, <1>7 DEF PoolInv

----------------------------------------------------------------------------

LEMMA PoolNext == PoolInv /\ [Next]_vars => PoolInv'
<1>. SUFFICES ASSUME PoolInv, [Next]_vars
              PROVE  PoolInv'
  OBVIOUS
<1>1. CASE \E c \in Conns : Accept(c) \/ Enqueue(c) \/ Reject(c)
  BY <1>1, AcceptKeeps, EnqueueKeeps, RejectKeeps
<1>2. CASE Block \/ TooSoon
  BY <1>2, QuietKeeps DEF Block, TooSoon, PoolInv, TypeOK, SeenFresh
<1>3. CASE Observe
  <2>1. /\ UNCHANGED <<workerCount, starting, idle, taskChan, conn, measured, active,
                       running, stopped>>
        /\ acc' = "up"
        /\ seen'.queue = Len(taskChan)
        /\ seen'.active = idle + Cardinality(Served)
    BY <1>3 DEF Observe
  <2>2. SeenFresh'
    BY <2>1, ServedFinite DEF PoolInv, TypeOK, SeenFresh
  <2>. QED  BY <2>1, <2>2, QuietKeeps DEF PoolInv, TypeOK
<1>4. CASE ScaleUp \/ ScaleDown
  BY <1>4, ScaleUpKeeps, ScaleDownKeeps
<1>5. CASE Worker
  BY <1>5, BeginKeeps, TakeNilKeeps, TakeConnKeeps, LeaveOnStopKeeps DEF Worker
<1>6. CASE \E c \in Conns : Finish(c)
  BY <1>6, FinishKeeps
<1>7. CASE Stop \/ StopPool
  BY <1>7, QuietKeeps DEF Stop, StopPool, scaling, PoolInv, TypeOK, SeenFresh
<1>8. CASE UNCHANGED vars
  BY <1>8, QuietKeeps DEF vars, PoolInv, TypeOK, SeenFresh
<1>. QED  BY <1>1, <1>2, <1>3, <1>4, <1>5, <1>6, <1>7, <1>8 DEF Next, AcceptLoop

\* What the invariant says in the words of the properties.
LEMMA PoolInvMeans ==
    ASSUME PoolInv
    PROVE  TypeOK /\ WorkersAccounted /\ PoolWithinLimits /\ ConnectionsAccounted
<1>1. taskChan \in Seq(Task)
  BY DEF PoolInv, TypeOK, Task
<1>2. \A x : {i \in DOMAIN taskChan : taskChan[i] = x} = PlacesOf(taskChan, x)
  BY <1>1, PlacesInDomain
<1>3. Nils = Queued(NoConn)
  BY <1>2 DEF Nils, Queued
<1>4. WorkersAccounted
  BY <1>3 DEF PoolInv, WorkersCounted, WorkersAccounted, Live
<1>5. PoolWithinLimits
  <2>1. workerCount \in Nat \ {0} /\ Nils \in Nat
    BY <1>3, QueuedInNat, Limits DEF PoolInv, TypeOK, CountWithinLimits
  <2>. QED  BY <1>4, <2>1 DEF PoolInv, CountWithinLimits, PoolWithinLimits, WorkersAccounted
<1>6. ConnectionsAccounted
  BY <1>2 DEF PoolInv, ConnectionsCounted, ConnectionsAccounted, Queued, Opened
<1>. QED  BY <1>4, <1>5, <1>6 DEF PoolInv

LEMMA PoolSafety == Spec => []PoolInv
BY PoolInit, PoolNext, PTL DEF Spec

\* The counters and the channel of the pool keep their types: the channel never holds
\* more than maxWorkers tasks, nil tasks among them, which scaleDown sends without
\* waiting, and no counter falls below 0.
THEOREM PoolTypeCorrect == Spec => []TypeOK
BY PoolSafety, PoolInvMeans, PTL

\* Until it is stopped, the pool has the workers that workerCount says, but for those
\* whose nil task is queued (scaleUp, scaleDown, worker).
THEOREM WorkersAlwaysAccounted == Spec => []WorkersAccounted
BY PoolSafety, PoolInvMeans, PTL

\* However it grows and shrinks, the pool keeps between minWorkers and maxWorkers, and
\* a worker for the connections queued behind its nil tasks (checkAndScale).
THEOREM PoolStaysWithinLimits == Spec => []PoolWithinLimits
BY PoolSafety, PoolInvMeans, PTL

\* No connection is queued twice, forgotten by the channel or served while it is still
\* queued, and activeConnections is the number of open ones (Start, SubmitTask, worker).
THEOREM ConnectionsAlwaysAccounted == Spec => []ConnectionsAccounted
BY PoolSafety, PoolInvMeans, PTL
=============================================================================
