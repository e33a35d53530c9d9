---------------------------- MODULE GoroutinePool ----------------------------
(***************************************************************************)
(* The accept loop and the worker pool of                                  *)
(* src/tcpserver/pooled_goroutine_server.go: connections are queued on a   *)
(* channel, a worker owns a connection until it ends, and the loop grows   *)
(* and shrinks the pool, shrinking it by nil tasks that make the worker    *)
(* which takes one return.                                                 *)
(*                                                                         *)
(* Workers are interchangeable and are counted.  What a connection says is *)
(* left out; how long things take is a choice of the step that asks.       *)
(***************************************************************************)
EXTENDS Integers, FiniteSets, Sequences

CONSTANTS Conns,          \* the connections clients may open
          NoConn,         \* a nil task
          PoolSize,       \* the argument of NewGoroutinePool
          LeastDivisor,   \* the pool keeps PoolSize / 4 workers in the code,
          GrowDivisor,    \* grows by a quarter (4)
          ShrinkDivisor   \* and shrinks by an eighth (8)

ASSUME PoolAssumption == PoolSize \in Nat \ {0}
ASSUME DivisorsAssumption == {LeastDivisor, GrowDivisor, ShrinkDivisor} \subseteq Nat \ {0}
ASSUME NoConnAssumption == NoConn \notin Conns

MaxOf(a, b) == IF a > b THEN a ELSE b
MinOf(a, b) == IF a < b THEN a ELSE b

minWorkers == MaxOf(1, PoolSize \div LeastDivisor)
maxWorkers == PoolSize * 2

VARIABLES workerCount,  \* what the pool believes it has
          starting,     \* goroutines created and not yet running
          idle,         \* workers waiting in their select
          taskChan,     \* queued connections and nil tasks
          conn,         \* where each connection is
          acc,          \* where the accept loop stands
          seen,         \* what checkAndScale read before it acted
          measured,     \* avgTaskTime has been set
          active,       \* s.activeConnections
          running,      \* s.running
          stopped       \* pool.stopChan is closed

scaling == <<workerCount, acc, seen>>
vars == <<workerCount, starting, idle, taskChan, conn, acc, seen, measured, active,
          running, stopped>>

Served == {c \in Conns : conn[c] = "served"}
Nils == Cardinality({i \in DOMAIN taskChan : taskChan[i] = NoConn})

\* Goroutines of the pool that have not returned: what the WaitGroup counts.
Live == starting + idle + Cardinality(Served)

NothingSeen == [queue |-> 0, active |-> 0, fast |-> FALSE]

Init == /\ workerCount = PoolSize
        /\ starting = PoolSize /\ idle = 0
        /\ taskChan = <<>>
        /\ conn = [c \in Conns |-> "outside"]
        /\ acc = "accept" /\ seen = NothingSeen
        /\ measured = FALSE
        /\ active = 0
        /\ running = TRUE /\ stopped = FALSE

----------------------------------------------------------------------------
(* The accept loop: Start and SubmitTask.                                   *)

\* A plausible slip of the accept loop: the connection is not counted.
AcceptUncounted(c) == /\ acc = "accept" /\ running
                      /\ conn[c] = "outside"
                      /\ conn' = [conn EXCEPT ![c] = "submitting"]
                      /\ acc' = "submit"
                      /\ UNCHANGED <<workerCount, starting, idle, taskChan, seen, measured,
                                     active, running, stopped>>

Accept(c) == /\ acc = "accept" /\ running
             /\ conn[c] = "outside"
             /\ conn' = [conn EXCEPT ![c] = "submitting"]
             /\ active' = active + 1
             /\ acc' = "submit"
             /\ UNCHANGED <<workerCount, starting, idle, taskChan, seen, measured,
                            running, stopped>>

Full == Len(taskChan) >= maxWorkers

\* The send of SubmitTask goes through, at once or after a wait.
Enqueue(c) == /\ acc \in {"submit", "blocked"}
              /\ conn[c] = "submitting"
              /\ ~Full
              /\ taskChan' = Append(taskChan, c)
              /\ conn' = [conn EXCEPT ![c] = "queued"]
              /\ acc' = "check"
              /\ UNCHANGED <<workerCount, starting, idle, seen, measured, active,
                             running, stopped>>

Block == /\ acc = "submit" /\ Full
         /\ acc' = "blocked"
         /\ UNCHANGED <<workerCount, starting, idle, taskChan, conn, seen, measured,
                        active, running, stopped>>

\* A plausible slip of the rejection: the connection stays counted.
RejectCounted(c) == /\ acc = "blocked"
                    /\ conn[c] = "submitting"
                    /\ conn' = [conn EXCEPT ![c] = "outside"]
                    /\ acc' = "accept"
                    /\ UNCHANGED <<workerCount, starting, idle, taskChan, seen, measured,
                                   active, running, stopped>>

\* The timer fires after a wait, even if a place has just become free.
Reject(c) == /\ acc = "blocked"
             /\ conn[c] = "submitting"
             /\ conn' = [conn EXCEPT ![c] = "outside"]
             /\ active' = active - 1
             /\ acc' = "accept"
             /\ UNCHANGED <<workerCount, starting, idle, taskChan, seen, measured,
                            running, stopped>>

----------------------------------------------------------------------------
(* checkAndScale, run by the accept loop after each successful send.        *)

\* Fewer than five seconds since the last time: nothing to do.
TooSoon == /\ acc = "check"
           /\ acc' = "accept"
           /\ UNCHANGED <<workerCount, starting, idle, taskChan, conn, seen, measured,
                          active, running, stopped>>

\* The three figures are read once; the average is 0 until a task has ended.
Observe == /\ acc = "check"
           /\ \E fast \in BOOLEAN :
                 /\ ~measured => fast
                 /\ seen' = [queue |-> Len(taskChan),
                             active |-> idle + Cardinality(Served),
                             fast |-> fast]
           /\ acc' = "up"
           /\ UNCHANGED <<workerCount, starting, idle, taskChan, conn, measured, active,
                          running, stopped>>

SeenBusy == \/ seen.queue > workerCount \div 2
            \/ seen.active >= (workerCount * 9) \div 10

WantsMore == SeenBusy /\ workerCount < maxWorkers

\* A plausible slip of scaleUp: a busy pool grows by at least one, at its limit too.
ScaleUpUncapped ==
    LET n == IF SeenBusy THEN MaxOf(1, workerCount \div GrowDivisor) ELSE 0
    IN /\ acc = "up"
       /\ starting' = starting + n
       /\ workerCount' = workerCount + n
       /\ acc' = "down"
       /\ UNCHANGED <<idle, taskChan, conn, seen, measured, active, running, stopped>>

ScaleUp ==
    LET n == IF WantsMore THEN MinOf(workerCount \div GrowDivisor, maxWorkers - workerCount) ELSE 0
    IN /\ acc = "up"
       /\ starting' = starting + n
       /\ workerCount' = workerCount + n
       /\ acc' = "down"
       /\ UNCHANGED <<idle, taskChan, conn, seen, measured, active, running, stopped>>

WantsFewer == seen.queue = 0 /\ seen.fast /\ workerCount > minWorkers

\* scaleDown: nil tasks while the channel has room; the count goes down by all
\* that were wanted, sent or not.
ScaleDown ==
    LET n == IF WantsFewer THEN MinOf(workerCount \div ShrinkDivisor, workerCount - minWorkers) ELSE 0
        sent == MinOf(n, maxWorkers - Len(taskChan))
    IN /\ acc = "down"
       /\ taskChan' = taskChan \o [i \in 1 .. sent |-> NoConn]
       /\ workerCount' = workerCount - n
       /\ seen' = NothingSeen
       /\ acc' = "accept"
       /\ UNCHANGED <<starting, idle, conn, measured, active, running, stopped>>

----------------------------------------------------------------------------
(* The workers.                                                             *)

Begin == /\ starting > 0
         /\ starting' = starting - 1
         /\ idle' = idle + 1
         /\ UNCHANGED <<scaling, taskChan, conn, measured, active, running, stopped>>

\* A plausible slip of the worker: a nil task is skipped.
SkipNil == /\ idle > 0 /\ taskChan # <<>> /\ Head(taskChan) = NoConn
           /\ taskChan' = Tail(taskChan)
           /\ UNCHANGED <<scaling, starting, idle, conn, measured, active, running, stopped>>

TakeNil == /\ idle > 0 /\ taskChan # <<>> /\ Head(taskChan) = NoConn
           /\ taskChan' = Tail(taskChan)
           /\ idle' = idle - 1
           /\ UNCHANGED <<scaling, starting, conn, measured, active, running, stopped>>

TakeConn == /\ idle > 0 /\ taskChan # <<>> /\ Head(taskChan) # NoConn
            /\ taskChan' = Tail(taskChan)
            /\ idle' = idle - 1
            /\ conn' = [conn EXCEPT ![Head(taskChan)] = "served"]
            /\ UNCHANGED <<scaling, starting, measured, active, running, stopped>>

\* A plausible slip of the worker: it returns when its connection has failed.
FinishAndReturn(c) == /\ conn[c] = "served"
                      /\ conn' = [conn EXCEPT ![c] = "outside"]
                      /\ active' = active - 1
                      /\ measured' = TRUE
                      /\ UNCHANGED <<scaling, starting, idle, taskChan, running, stopped>>

\* The client is gone, or silent for 30 seconds, or its answer cannot be sent.
Finish(c) == /\ conn[c] = "served"
             /\ conn' = [conn EXCEPT ![c] = "outside"]
             /\ active' = active - 1
             /\ idle' = idle + 1
             /\ measured' = TRUE
             /\ UNCHANGED <<scaling, starting, taskChan, running, stopped>>

\* A plausible slip of the worker: its select has no case for stopChan.
StayOnStop == /\ stopped /\ idle > 0
              /\ UNCHANGED vars

\* A worker in its select sees the closed stopChan; it may as well take a task.
LeaveOnStop == /\ stopped /\ idle > 0
               /\ idle' = idle - 1
               /\ UNCHANGED <<scaling, starting, taskChan, conn, measured, active,
                              running, stopped>>

----------------------------------------------------------------------------
\* PooledGoroutineServer.Stop, up to the Wait in which it stays: the listener
\* is closed first.
Stop == /\ running
        /\ running' = FALSE
        /\ UNCHANGED <<scaling, starting, idle, taskChan, conn, measured, active, stopped>>

StopPool == /\ ~running /\ ~stopped
            /\ stopped' = TRUE
            /\ UNCHANGED <<scaling, starting, idle, taskChan, conn, measured, active, running>>

Worker == Begin \/ TakeNil \/ TakeConn \/ LeaveOnStop

AcceptLoop == \/ \E c \in Conns : Accept(c) \/ Enqueue(c) \/ Reject(c)
              \/ Block \/ TooSoon \/ Observe \/ ScaleUp \/ ScaleDown

Next == \/ AcceptLoop
        \/ Worker
        \/ \E c \in Conns : Finish(c)
        \/ Stop
        \/ StopPool

Spec == Init /\ [][Next]_vars

\* The scheduler runs every goroutine that can run, and a select with two ready
\* cases does not pick the same one for ever.  WF(Finish) is an assumption about
\* clients, which the code does not enforce: none talks for ever, and none stays
\* connected without reading its answers (see ConnectionsEnd of Session).
FairSpec == /\ Spec
            /\ WF_vars(Begin) /\ WF_vars(TakeNil) /\ WF_vars(TakeConn)
            /\ WF_vars(LeaveOnStop) /\ WF_vars(StopPool)
            /\ \A c \in Conns : WF_vars(Finish(c))

----------------------------------------------------------------------------
(* Properties *)

TypeOK == /\ workerCount \in Nat /\ starting \in Nat /\ idle \in Nat
          /\ taskChan \in Seq(Conns \cup {NoConn}) /\ Len(taskChan) <= maxWorkers
          /\ conn \in [Conns -> {"outside", "submitting", "queued", "served"}]
          /\ acc \in {"accept", "submit", "blocked", "check", "up", "down"}
          /\ active \in Nat
          /\ running \in BOOLEAN /\ stopped \in BOOLEAN /\ measured \in BOOLEAN

\* The pool has the workers it believes to have, but for those whose nil task
\* is still queued, although scaleDown counts nil tasks it could not send: what
\* it read before leaves room for all of them.
WorkersAccounted == ~stopped => Live = workerCount + Nils

\* The pool never shrinks below its minimum nor grows past its maximum, and
\* keeps a worker for whoever is queued behind the nil tasks.
PoolWithinLimits == /\ workerCount \in minWorkers .. maxWorkers
                    /\ ~stopped => Live > Nils

\* A queued connection is in the channel once, one that is served is not, and
\* activeConnections counts the connections that are neither closed nor refused.
ConnectionsAccounted ==
    /\ active = Cardinality({c \in Conns : conn[c] # "outside"})
    /\ \A c \in Conns : Cardinality({i \in DOMAIN taskChan : taskChan[i] = c})
                           = IF conn[c] = "queued" THEN 1 ELSE 0

\* A connection the pool accepted is served, however often the pool shrinks,
\* as long as other clients end theirs and the server is not stopped.
AcceptedIsServed ==
    \A c \in Conns : conn[c] = "queued" ~> conn[c] = "served" \/ stopped

\* Stop returns: the workers leave, those with a connection after its end.
StopReturns == stopped ~> Live = 0

\* "Scale up conditions: high queue length or all workers busy" (the comment in
\* checkAndScale): the pool grows only when one of the two was the case when it
\* looked, or is now.
GrowthStep == workerCount' > workerCount =>
                 seen.queue > workerCount \div 2 \/ idle = 0

GrowsOnlyWhenBusy == [][GrowthStep]_vars
=============================================================================
