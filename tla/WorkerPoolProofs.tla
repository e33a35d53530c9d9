-------------------------- MODULE WorkerPoolProofs --------------------------
(***************************************************************************)
(* Theorems about WorkerPool, for any tasks, callers of Stop and finite    *)
(* set of workers: each task is in one place, each worker makes one offer, *)
(* and every step of the pool is one that TaskService allows.              *)
(***************************************************************************)
EXTENDS WorkerPool, FunctionTheorems, FiniteSetTheorems, TLAPS

INSTANCE SequenceLemmas WITH Op <- Append

HandsOf(H, t) == {h \in H : h.task = t}
OffersIn(H, w) == {h \in H : h.worker = w}
RunnersOf(f, t) == {w \in Workers : f[w] = t}

\* A worker has a task exactly while it processes one.
BusyHasTask == \A w \in Workers : pc[w] = "busy" <=> current[w] # None

OneOffer == \A w \in Workers : Offers(w) = IF pc[w] \in {"select", "quit"} THEN 1 ELSE 0

\* The strengthening of the invariants that steps preserve.
TasksInv == TypeOK /\ IsFiniteSet(handing) /\ BusyHasTask /\ OnePlaceEach
WInv == TasksInv /\ OneOffer

----------------------------------------------------------------------------
(* Counting goroutines and workers.                                         *)

LEMMA HandsFinite ==
    ASSUME NEW H, IsFiniteSet(H), NEW t
    PROVE  /\ IsFiniteSet(HandsOf(H, t)) /\ Cardinality(HandsOf(H, t)) \in Nat
           /\ IsFiniteSet(OffersIn(H, t)) /\ Cardinality(OffersIn(H, t)) \in Nat
<1>1. HandsOf(H, t) \in SUBSET H /\ OffersIn(H, t) \in SUBSET H
  BY DEF HandsOf, OffersIn
<1>. QED  BY <1>1, FS_Subset, FS_CardinalityType

\* A goroutine the dispatcher starts.
LEMMA HandsAdd ==
    ASSUME NEW H, IsFiniteSet(H), NEW x, x \notin H, NEW t
    PROVE  /\ Cardinality(HandsOf(H \cup {x}, t))
                = Cardinality(HandsOf(H, t)) + (IF x.task = t THEN 1 ELSE 0)
           /\ Cardinality(OffersIn(H \cup {x}, t))
                = Cardinality(OffersIn(H, t)) + (IF x.worker = t THEN 1 ELSE 0)
<1>1. HandsOf(H \cup {x}, t) = IF x.task = t THEN HandsOf(H, t) \cup {x} ELSE HandsOf(H, t)
  BY DEF HandsOf
<1>2. OffersIn(H \cup {x}, t) = IF x.worker = t THEN OffersIn(H, t) \cup {x} ELSE OffersIn(H, t)
  BY DEF OffersIn
<1>3. x \notin HandsOf(H, t) /\ x \notin OffersIn(H, t)
  BY DEF HandsOf, OffersIn
<1>4. /\ IsFiniteSet(HandsOf(H, t)) /\ Cardinality(HandsOf(H, t)) \in Nat
      /\ IsFiniteSet(OffersIn(H, t)) /\ Cardinality(OffersIn(H, t)) \in Nat
  BY HandsFinite
<1>5. /\ Cardinality(HandsOf(H, t) \cup {x}) = Cardinality(HandsOf(H, t)) + 1
      /\ Cardinality(OffersIn(H, t) \cup {x}) = Cardinality(OffersIn(H, t)) + 1
  BY <1>3, <1>4, FS_AddElement
<1>6. /\ Cardinality(HandsOf(H \cup {x}, t))
           = Cardinality(HandsOf(H, t)) + (IF x.task = t THEN 1 ELSE 0)
      /\ Cardinality(OffersIn(H \cup {x}, t))
           = Cardinality(OffersIn(H, t)) + (IF x.worker = t THEN 1 ELSE 0)
  BY <1>1, <1>2, <1>4, <1>5
<1>. QED  BY <1>6

\* A goroutine that has done its work.
LEMMA HandsRemove ==
    ASSUME NEW H, IsFiniteSet(H), NEW x \in H, NEW t
    PROVE  /\ IsFiniteSet(H \ {x})
           /\ Cardinality(HandsOf(H \ {x}, t))
                = Cardinality(HandsOf(H, t)) - (IF x.task = t THEN 1 ELSE 0)
           /\ Cardinality(OffersIn(H \ {x}, t))
                = Cardinality(OffersIn(H, t)) - (IF x.worker = t THEN 1 ELSE 0)
<1>1. HandsOf(H \ {x}, t) = IF x.task = t THEN HandsOf(H, t) \ {x} ELSE HandsOf(H, t)
  BY DEF HandsOf
<1>2. OffersIn(H \ {x}, t) = IF x.worker = t THEN OffersIn(H, t) \ {x} ELSE OffersIn(H, t)
  BY DEF OffersIn
<1>3. /\ x.task = t => x \in HandsOf(H, t)
      /\ x.worker = t => x \in OffersIn(H, t)
  BY DEF HandsOf, OffersIn
<1>4. /\ IsFiniteSet(HandsOf(H, t)) /\ IsFiniteSet(OffersIn(H, t))
      /\ IsFiniteSet(H \ {x})
  BY HandsFinite, FS_RemoveElement
<1>5. Cardinality(HandsOf(H \ {x}, t))
        = Cardinality(HandsOf(H, t)) - (IF x.task = t THEN 1 ELSE 0)
  BY <1>1, <1>3, <1>4, HandsFinite, FS_RemoveElement
<1>6. Cardinality(OffersIn(H \ {x}, t))
        = Cardinality(OffersIn(H, t)) - (IF x.worker = t THEN 1 ELSE 0)
  BY <1>2, <1>3, <1>4, HandsFinite, FS_RemoveElement
<1>. QED  BY <1>4, <1>5, <1>6

LEMMA RunnersFinite ==
    ASSUME NEW f, NEW t
    PROVE  IsFiniteSet(RunnersOf(f, t)) /\ Cardinality(RunnersOf(f, t)) \in Nat
<1>1. RunnersOf(f, t) \in SUBSET Workers
  BY DEF RunnersOf
<1>. QED  BY <1>1, WorkersAssumption, FS_Subset, FS_CardinalityType

\* A worker that gets a task or has done it.
LEMMA RunnersMove ==
    ASSUME NEW f, NEW g, NEW w \in Workers, \A u \in Workers \ {w} : g[u] = f[u], NEW t
    PROVE  Cardinality(RunnersOf(g, t))
             = Cardinality(RunnersOf(f, t)) + (IF g[w] = t THEN 1 ELSE 0)
                                            - (IF f[w] = t THEN 1 ELSE 0)
<1>1. RunnersOf(g, t) = IF g[w] = t THEN RunnersOf(f, t) \cup {w} ELSE RunnersOf(f, t) \ {w}
  BY DEF RunnersOf
<1>2. w \in RunnersOf(f, t) <=> f[w] = t
  BY DEF RunnersOf
<1>3. /\ Cardinality(RunnersOf(f, t)) \in Nat
      /\ Cardinality(RunnersOf(f, t) \cup {w})
            = IF w \in RunnersOf(f, t) THEN Cardinality(RunnersOf(f, t))
                                       ELSE Cardinality(RunnersOf(f, t)) + 1
      /\ Cardinality(RunnersOf(f, t) \ {w})
            = IF w \in RunnersOf(f, t) THEN Cardinality(RunnersOf(f, t)) - 1
                                       ELSE Cardinality(RunnersOf(f, t))
  BY RunnersFinite, FS_AddElement, FS_RemoveElement
<1>. QED  BY <1>1, <1>2, <1>3

----------------------------------------------------------------------------
(* The places of a task and the offers of a worker, by name.                *)

AtCaller(t)   == IF submitter[t] # "returned" THEN 1 ELSE 0
InQueue(t)    == Cardinality(PlacesOf(taskQueue, t))
InHands(t)    == Cardinality(HandsOf(handing, t))
AtWorker(t)   == Cardinality(RunnersOf(current, t))
InResponse(t) == IF t \in response THEN 1 ELSE 0
InFailure(t)  == IF failure[t] # "none" THEN 1 ELSE 0
InOffers(w)   == Cardinality(PlacesOf(workerQueue, w))
Taken(w)      == Cardinality(OffersIn(handing, w))

LEMMA PlacesSum ==
    \A t : Places(t) = AtCaller(t) + InQueue(t) + InHands(t) + AtWorker(t)
                       + InResponse(t) + InFailure(t)
BY DEF Places, AtCaller, InQueue, InHands, AtWorker, InResponse, InFailure,
       PlacesOf, HandsOf, RunnersOf

LEMMA OffersSum == \A w : Offers(w) = InOffers(w) + Taken(w)
BY DEF Offers, InOffers, Taken, PlacesOf, OffersIn

LEMMA CountsInNat ==
    ASSUME TypeOK, IsFiniteSet(handing), NEW t
    PROVE  /\ AtCaller(t) \in 0 .. 1 /\ InQueue(t) \in Nat /\ InHands(t) \in Nat
           /\ AtWorker(t) \in Nat /\ InResponse(t) \in 0 .. 1 /\ InFailure(t) \in 0 .. 1
           /\ InOffers(t) \in Nat /\ Taken(t) \in Nat
BY PlacesFinite, HandsFinite, RunnersFinite
   DEF TypeOK, AtCaller, InQueue, InHands, AtWorker, InResponse, InFailure, InOffers, Taken

LEMMA SumsNext ==
    /\ \A t : Places(t)' = AtCaller(t)' + InQueue(t)' + InHands(t)' + AtWorker(t)'
                           + InResponse(t)' + InFailure(t)'
    /\ \A w : Offers(w)' = InOffers(w)' + Taken(w)'
BY DEF Places, AtCaller, InQueue, InHands, AtWorker, InResponse, InFailure,
       PlacesOf, HandsOf, RunnersOf, Offers, InOffers, Taken, OffersIn

\* A step preserves the invariant when it moves each task from at most one place to
\* another and each offer likewise.
LEMMA SumsKeep ==
    ASSUME WInv, TypeOK', IsFiniteSet(handing)', BusyHasTask',
           \A t \in Tasks :
              AtCaller(t)' + InQueue(t)' + InHands(t)' + AtWorker(t)'
                           + InResponse(t)' + InFailure(t)'
              = AtCaller(t) + InQueue(t) + InHands(t) + AtWorker(t)
                           + InResponse(t) + InFailure(t),
           \A w \in Workers :
              InOffers(w)' + Taken(w)' = IF pc'[w] \in {"select", "quit"} THEN 1 ELSE 0
    PROVE  WInv'
<1>1. \A t \in Tasks : Places(t)' = 1
  BY PlacesSum, SumsNext DEF WInv, TasksInv, OnePlaceEach
<1>2. OneOffer'
  BY SumsNext DEF OneOffer
<1>. QED  BY <1>1, <1>2 DEF WInv, TasksInv, OnePlaceEach

LEMMA OffersNow ==
    ASSUME WInv
    PROVE  \A w \in Workers :
              /\ InOffers(w) + Taken(w) = IF pc[w] \in {"select", "quit"} THEN 1 ELSE 0
              /\ InOffers(w) \in Nat /\ Taken(w) \in Nat
BY OffersSum, CountsInNat DEF WInv, TasksInv, OneOffer

LEMMA PlacesNow ==
    ASSUME WInv
    PROVE  \A t \in Tasks :
              /\ AtCaller(t) + InQueue(t) + InHands(t) + AtWorker(t)
                             + InResponse(t) + InFailure(t) = 1
              /\ AtCaller(t) \in Nat /\ InQueue(t) \in Nat /\ InHands(t) \in Nat
              /\ AtWorker(t) \in Nat /\ InResponse(t) \in Nat /\ InFailure(t) \in Nat
BY PlacesSum, CountsInNat DEF WInv, TasksInv, OnePlaceEach

----------------------------------------------------------------------------
(* The steps preserve the invariant.                                        *)

LEMMA WInit == Init => WInv
<1>. SUFFICES ASSUME Init PROVE WInv
  OBVIOUS
<1>1. TypeOK
  <2>1. taskQueue \in Seq(Tasks) /\ Len(taskQueue) = 0
        /\ workerQueue \in Seq(Workers) /\ Len(workerQueue) = 0
    BY DEF Init
  <2>2. maxWorkers \in Nat
    BY WorkersAssumption, FS_CardinalityType DEF maxWorkers
  <2>. QED  BY <2>1, <2>2, QueueCapAssumption DEF Init, TypeOK
<1>2. IsFiniteSet(handing) /\ BusyHasTask
  BY FS_EmptySet DEF Init, BusyHasTask
<1>3. \A t \in Tasks :
         /\ PlacesOf(taskQueue, t) = {} /\ HandsOf(handing, t) = {}
         /\ RunnersOf(current, t) = {}
  BY NoneAssumption DEF Init, PlacesOf, HandsOf, RunnersOf
<1>4. \A w \in Workers : PlacesOf(workerQueue, w) = {} /\ OffersIn(handing, w) = {}
  BY DEF Init, PlacesOf, OffersIn
<1>5. Cardinality({}) = 0
  BY FS_EmptySet
<1>6. OnePlaceEach
  <2>1. \A t \in Tasks :
           /\ InQueue(t) = 0 /\ InHands(t) = 0 /\ AtWorker(t) = 0
           /\ AtCaller(t) = 1 /\ InResponse(t) = 0 /\ InFailure(t) = 0
    BY <1>3, <1>5
       DEF Init, AtCaller, InQueue, InHands, AtWorker, InResponse, InFailure
  <2>. QED  BY <2>1, PlacesSum DEF OnePlaceEach
<1>7. OneOffer
  <2>1. \A w \in Workers : InOffers(w) = 0 /\ Taken(w) = 0 /\ pc[w] = "register"
    BY <1>4, <1>5 DEF Init, InOffers, Taken
  <2>. QED  BY <2>1, OffersSum DEF OneOffer
<1>. QED  BY <1>1, <1>2, <1>6, <1>7 DEF WInv, TasksInv

\* Callers that wait, Stop and the dispatcher's end: no task moves.
LEMMA CallersKeep ==
    ASSUME WInv, TypeOK', UNCHANGED <<taskQueue, workerQueue, handing, workers, answers>>,
           \A t \in Tasks : submitter'[t] = "returned" <=> submitter[t] = "returned"
    PROVE  WInv'
<1>1. \A t \in Tasks : /\ AtCaller(t)' = AtCaller(t) /\ InQueue(t)' = InQueue(t)
                       /\ InHands(t)' = InHands(t) /\ AtWorker(t)' = AtWorker(t)
                       /\ InResponse(t)' = InResponse(t) /\ InFailure(t)' = InFailure(t)
  BY DEF AtCaller, InQueue, InHands, AtWorker, InResponse, InFailure, workers, answers
<1>2. \A w \in Workers : InOffers(w)' = InOffers(w) /\ Taken(w)' = Taken(w)
  BY DEF InOffers, Taken
<1>3. IsFiniteSet(handing)' /\ BusyHasTask' /\ pc' = pc
  BY DEF WInv, TasksInv, BusyHasTask, workers
<1>. QED  BY <1>1, <1>2, <1>3, OffersNow, SumsKeep

LEMMA EnqueueKeeps ==
    ASSUME WInv, NEW t \in Tasks, Enqueue(t)
    PROVE  WInv'
<1>1. taskQueue \in Seq(Tasks) /\ Len(taskQueue) \in Nat
  BY DEF WInv, TasksInv, TypeOK
<1>2. /\ taskQueue' = Append(taskQueue, t) /\ Len(taskQueue) < QueueCap
      /\ UNCHANGED <<stopper, workerQueue, dispatcher, handing, workers, quitting, answers>>
      /\ submitter[t] # "returned"
      /\ submitter' = [submitter EXCEPT ![t] = "returned"]
  BY DEF Enqueue
<1>3. TypeOK'
  <2>1. taskQueue' \in Seq(Tasks) /\ Len(taskQueue') <= QueueCap
    BY <1>1, <1>2, QueueCapAssumption
  <2>. QED  BY <1>2, <2>1 DEF WInv, TasksInv, TypeOK, workers, answers
<1>4. \A s \in Tasks :
         /\ InQueue(s)' = InQueue(s) + (IF t = s THEN 1 ELSE 0)
         /\ AtCaller(s)' = AtCaller(s) - (IF t = s THEN 1 ELSE 0)
         /\ InHands(s)' = InHands(s) /\ AtWorker(s)' = AtWorker(s)
         /\ InResponse(s)' = InResponse(s) /\ InFailure(s)' = InFailure(s)
  <2>1. \A s \in Tasks : InQueue(s)' = InQueue(s) + (IF t = s THEN 1 ELSE 0)
    BY <1>1, <1>2, CountAppend DEF InQueue
  <2>2. \A s \in Tasks : AtCaller(s)' = AtCaller(s) - (IF t = s THEN 1 ELSE 0)
    BY <1>2 DEF AtCaller, WInv, TasksInv, TypeOK
  <2>. QED  BY <1>2, <2>1, <2>2 DEF InHands, AtWorker, InResponse, InFailure, workers, answers
<1>5. \A w \in Workers : InOffers(w)' = InOffers(w) /\ Taken(w)' = Taken(w)
  BY <1>2 DEF InOffers, Taken
<1>6. IsFiniteSet(handing)' /\ BusyHasTask' /\ pc' = pc
  BY <1>2 DEF WInv, TasksInv, BusyHasTask, workers
<1>. QED  BY <1>3, <1>4, <1>5, <1>6, OffersNow, PlacesNow, SumsKeep

LEMMA RefuseKeeps ==
    ASSUME WInv, NEW t \in Tasks, Refuse(t)
    PROVE  WInv'
<1>1. /\ UNCHANGED <<stopper, taskQueue, workerQueue, dispatcher, handing, workers,
                     quitting, response>>
      /\ submitter[t] # "returned" /\ submitter' = [submitter EXCEPT ![t] = "returned"]
      /\ failure[t] = "none" /\ failure' = [failure EXCEPT ![t] = "full"]
  BY DEF Refuse
<1>2. TypeOK'
  BY <1>1 DEF WInv, TasksInv, TypeOK, workers
<1>3. \A s \in Tasks :
         /\ AtCaller(s)' = AtCaller(s) - (IF t = s THEN 1 ELSE 0)
         /\ InFailure(s)' = InFailure(s) + (IF t = s THEN 1 ELSE 0)
         /\ InQueue(s)' = InQueue(s) /\ InHands(s)' = InHands(s)
         /\ AtWorker(s)' = AtWorker(s) /\ InResponse(s)' = InResponse(s)
  BY <1>1 DEF WInv, TasksInv, TypeOK, AtCaller, InFailure, InQueue, InHands, AtWorker,
              InResponse, workers
<1>4. \A w \in Workers : InOffers(w)' = InOffers(w) /\ Taken(w)' = Taken(w)
  BY <1>1 DEF InOffers, Taken
<1>5. IsFiniteSet(handing)' /\ BusyHasTask' /\ pc' = pc
  BY <1>1 DEF WInv, TasksInv, BusyHasTask, workers
<1>. QED  BY <1>2, <1>3, <1>4, <1>5, OffersNow, PlacesNow, SumsKeep

LEMMA DispatchKeeps ==
    ASSUME WInv, Dispatch
    PROVE  WInv'
<1>. DEFINE t == Head(taskQueue)
            h == [task |-> t, worker |-> None]
<1>1. /\ taskQueue # <<>> /\ taskQueue' = Tail(taskQueue)
      /\ handing' = handing \cup {h}
      /\ UNCHANGED <<clients, workerQueue, dispatcher, workers, quitting, answers>>
  BY DEF Dispatch
<1>2. /\ taskQueue \in Seq(Tasks) /\ t \in Tasks
      /\ taskQueue' \in Seq(Tasks) /\ Len(taskQueue') <= QueueCap
      /\ 1 \in 1 .. Len(taskQueue) /\ taskQueue[1] = t
  BY <1>1, QueueCapAssumption DEF WInv, TasksInv, TypeOK
<1>3. h.task = t /\ h.worker = None /\ h \in [task : Tasks, worker : Workers \cup {None}]
  BY <1>2
<1>. HIDE DEF h, t
<1>4. TypeOK'
  BY <1>1, <1>2, <1>3 DEF WInv, TasksInv, TypeOK, clients, workers, answers
<1>5. IsFiniteSet(handing)
  BY DEF WInv, TasksInv
\* The task is queued, so no goroutine has it yet.
<1>6. h \notin handing
  <2>1. InQueue(t) # 0
    BY <1>2, PlacesExist DEF InQueue
  <2>2. InHands(t) = 0
    <3>1. /\ AtCaller(t) + InQueue(t) + InHands(t) + AtWorker(t)
                         + InResponse(t) + InFailure(t) = 1
          /\ AtCaller(t) \in Nat /\ InQueue(t) \in Nat /\ InHands(t) \in Nat
          /\ AtWorker(t) \in Nat /\ InResponse(t) \in Nat /\ InFailure(t) \in Nat
      BY <1>2, PlacesNow
    <3>. QED  BY <2>1, <3>1
  <2>3. HandsOf(handing, t) = {}
    BY <1>5, <2>2, HandsFinite, FS_EmptySet DEF InHands
  <2>. QED  BY <1>3, <2>3 DEF HandsOf
<1>7. /\ \A s \in Tasks : InHands(s)' = InHands(s) + (IF t = s THEN 1 ELSE 0)
      /\ \A w \in Workers : Taken(w)' = Taken(w) + (IF None = w THEN 1 ELSE 0)
  <2>1. \A s : /\ Cardinality(HandsOf(handing \cup {h}, s))
                     = Cardinality(HandsOf(handing, s)) + (IF h.task = s THEN 1 ELSE 0)
               /\ Cardinality(OffersIn(handing \cup {h}, s))
                     = Cardinality(OffersIn(handing, s)) + (IF h.worker = s THEN 1 ELSE 0)
    BY <1>5, <1>6, HandsAdd
  <2>. QED  BY <1>1, <1>3, <2>1 DEF InHands, Taken
<1>8. \A s \in Tasks :
         /\ InQueue(s)' = InQueue(s) - (IF t = s THEN 1 ELSE 0)
         /\ AtCaller(s)' = AtCaller(s) /\ AtWorker(s)' = AtWorker(s)
         /\ InResponse(s)' = InResponse(s) /\ InFailure(s)' = InFailure(s)
  <2>1. \A s \in Tasks : InQueue(s)' = InQueue(s) - (IF t = s THEN 1 ELSE 0)
    BY <1>1, <1>2, CountTail DEF InQueue, t
  <2>. QED  BY <1>1, <2>1
            DEF AtCaller, AtWorker, InResponse, InFailure, clients, workers, answers
<1>9. \A w \in Workers : InOffers(w)' = InOffers(w) /\ Taken(w)' = Taken(w)
  BY <1>1, <1>7, NoneAssumption, OffersNow DEF InOffers
<1>10. IsFiniteSet(handing)' /\ BusyHasTask' /\ pc' = pc
  BY <1>1, <1>5, FS_AddElement DEF WInv, TasksInv, BusyHasTask, workers
<1>. QED  BY <1>4, <1>7, <1>8, <1>9, <1>10, OffersNow, PlacesNow, SumsKeep

LEMMA TakeOfferKeeps ==
    ASSUME WInv, NEW t \in Tasks, TakeOffer(t)
    PROVE  WInv'
<1>. DEFINE a == [task |-> t, worker |-> None]
            v == Head(workerQueue)
            b == [task |-> t, worker |-> v]
            H == handing \ {a}
<1>1. /\ a \in handing /\ workerQueue # <<>> /\ workerQueue' = Tail(workerQueue)
      /\ handing' = H \cup {b}
      /\ UNCHANGED <<clients, taskQueue, dispatcher, workers, quitting, answers>>
  BY DEF TakeOffer
<1>2. /\ workerQueue \in Seq(Workers) /\ v \in Workers
      /\ workerQueue' \in Seq(Workers) /\ Len(workerQueue') <= maxWorkers
  <2>1. maxWorkers \in Nat
    BY WorkersAssumption, FS_CardinalityType DEF maxWorkers
  <2>. QED  BY <1>1, <2>1 DEF WInv, TasksInv, TypeOK
<1>3. /\ a.task = t /\ a.worker = None /\ b.task = t /\ b.worker = v
      /\ b \in [task : Tasks, worker : Workers \cup {None}]
  BY <1>2
<1>4. IsFiniteSet(handing)
  BY DEF WInv, TasksInv
<1>. HIDE DEF a, b
<1>5. /\ IsFiniteSet(H)
      /\ \A s : /\ Cardinality(HandsOf(H, s)) = InHands(s) - (IF t = s THEN 1 ELSE 0)
                /\ Cardinality(OffersIn(H, s)) = Taken(s) - (IF None = s THEN 1 ELSE 0)
  <2>1. /\ IsFiniteSet(handing \ {a})
        /\ \A s : /\ Cardinality(HandsOf(handing \ {a}, s))
                        = Cardinality(HandsOf(handing, s)) - (IF a.task = s THEN 1 ELSE 0)
                  /\ Cardinality(OffersIn(handing \ {a}, s))
                        = Cardinality(OffersIn(handing, s)) - (IF a.worker = s THEN 1 ELSE 0)
    BY <1>1, <1>4, HandsRemove
  <2>. QED  BY <1>3, <2>1 DEF InHands, Taken
<1>. HIDE DEF H
\* The goroutine that takes the offer is the only one with this task.
<1>6. b \notin H
  <2>1. Cardinality(HandsOf(H, t)) \in Nat /\ IsFiniteSet(HandsOf(H, t))
    BY <1>5, HandsFinite
  <2>2. InHands(t) - 1 <= 0
    BY PlacesNow
  <2>3. HandsOf(H, t) = {}
    BY <1>5, <2>1, <2>2, FS_EmptySet
  <2>. QED  BY <1>3, <2>3 DEF HandsOf
<1>7. \A s : /\ InHands(s)' = Cardinality(HandsOf(H, s)) + (IF t = s THEN 1 ELSE 0)
             /\ Taken(s)' = Cardinality(OffersIn(H, s)) + (IF v = s THEN 1 ELSE 0)
  <2>1. \A s : /\ Cardinality(HandsOf(H \cup {b}, s))
                     = Cardinality(HandsOf(H, s)) + (IF b.task = s THEN 1 ELSE 0)
               /\ Cardinality(OffersIn(H \cup {b}, s))
                     = Cardinality(OffersIn(H, s)) + (IF b.worker = s THEN 1 ELSE 0)
    BY <1>5, <1>6, HandsAdd
  <2>. QED  BY <1>1, <1>3, <2>1 DEF InHands, Taken
<1>8. TypeOK'
  BY <1>1, <1>2, <1>3 DEF WInv, TasksInv, TypeOK, clients, workers, answers, H
<1>9. \A s \in Tasks : /\ InHands(s)' = InHands(s) /\ InQueue(s)' = InQueue(s)
                       /\ AtCaller(s)' = AtCaller(s) /\ AtWorker(s)' = AtWorker(s)
                       /\ InResponse(s)' = InResponse(s) /\ InFailure(s)' = InFailure(s)
  BY <1>1, <1>5, <1>7, PlacesNow
     DEF AtCaller, InQueue, AtWorker, InResponse, InFailure, clients, workers, answers
<1>10. \A w \in Workers : InOffers(w)' + Taken(w)' = InOffers(w) + Taken(w)
  <2>1. \A w \in Workers : InOffers(w)' = InOffers(w) - (IF v = w THEN 1 ELSE 0)
    BY <1>1, <1>2, CountTail DEF InOffers
  <2>2. \A w \in Workers : Taken(w)' = Taken(w) + (IF v = w THEN 1 ELSE 0)
    BY <1>5, <1>7, NoneAssumption, OffersNow
  <2>. QED  BY <2>1, <2>2, OffersNow
<1>11. IsFiniteSet(handing)' /\ BusyHasTask' /\ pc' = pc
  BY <1>1, <1>5, FS_AddElement DEF WInv, TasksInv, BusyHasTask, workers
<1>. QED  BY <1>8, <1>9, <1>10, <1>11, OffersNow, SumsKeep

LEMMA HandOverKeeps ==
    ASSUME WInv, NEW t \in Tasks, HandOver(t)
    PROVE  WInv'
<1>1. PICK h \in handing :
         /\ h.task = t /\ h.worker # None /\ pc[h.worker] = "select"
         /\ handing' = handing \ {h}
         /\ pc' = [pc EXCEPT ![h.worker] = "busy"]
         /\ current' = [current EXCEPT ![h.worker] = t]
         /\ UNCHANGED <<clients, taskQueue, workerQueue, dispatcher, quitting, answers>>
  BY DEF HandOver
<1>. DEFINE v == h.worker
<1>2. v \in Workers /\ IsFiniteSet(handing)
  BY <1>1 DEF WInv, TasksInv, TypeOK
<1>3. /\ IsFiniteSet(handing')
      /\ \A s : /\ InHands(s)' = InHands(s) - (IF t = s THEN 1 ELSE 0)
                /\ Taken(s)' = Taken(s) - (IF v = s THEN 1 ELSE 0)
  BY <1>1, <1>2, HandsRemove, ZenonT(60) DEF InHands, Taken
<1>4. current[v] = None /\ current \in [Workers -> Tasks \cup {None}]
  BY <1>1, <1>2 DEF WInv, TasksInv, TypeOK, BusyHasTask
<1>5. \A s \in Tasks : AtWorker(s)' = AtWorker(s) + (IF t = s THEN 1 ELSE 0)
  <2>1. \A s : AtWorker(s)' = AtWorker(s) + (IF t = s THEN 1 ELSE 0)
                                          - (IF None = s THEN 1 ELSE 0)
    <3>1. current'[v] = t /\ \A u \in Workers \ {v} : current'[u] = current[u]
      BY <1>1, <1>2, <1>4
    <3>2. \A s : Cardinality(RunnersOf(current', s))
                   = Cardinality(RunnersOf(current, s)) + (IF current'[v] = s THEN 1 ELSE 0)
                                                        - (IF current[v] = s THEN 1 ELSE 0)
      BY <1>2, <3>1, RunnersMove, ZenonT(60)
    <3>. QED  BY <1>4, <3>1, <3>2 DEF AtWorker
  <2>2. \A s \in Tasks : None # s
    BY NoneAssumption
  <2>3. \A s \in Tasks : AtWorker(s) \in Nat
    BY PlacesNow
  <2>. QED  BY <2>1, <2>2, <2>3
<1>6. TypeOK' /\ BusyHasTask'
  BY <1>1, <1>2, NoneAssumption
     DEF WInv, TasksInv, TypeOK, BusyHasTask, clients, answers
<1>7. \A s \in Tasks : /\ AtCaller(s)' = AtCaller(s) /\ InQueue(s)' = InQueue(s)
                       /\ InResponse(s)' = InResponse(s) /\ InFailure(s)' = InFailure(s)
  BY <1>1 DEF AtCaller, InQueue, InResponse, InFailure, clients, answers
<1>8. \A w \in Workers :
         InOffers(w)' + Taken(w)' = IF pc'[w] \in {"select", "quit"} THEN 1 ELSE 0
  <2>. TAKE w \in Workers
  <2>1. InOffers(w)' = InOffers(w)
    BY <1>1 DEF InOffers
  <2>2. pc'[w] = IF w = v THEN "busy" ELSE pc[w]
    BY <1>1, <1>2 DEF WInv, TasksInv, TypeOK
  <2>3. Taken(w)' = Taken(w) - (IF v = w THEN 1 ELSE 0)
    BY <1>3
  <2>4. /\ InOffers(w) + Taken(w) = IF pc[w] \in {"select", "quit"} THEN 1 ELSE 0
        /\ InOffers(w) \in Nat /\ Taken(w) \in Nat
    BY OffersNow
  <2>5. CASE w = v
    <3>1. InOffers(w) + Taken(w) = 1
      BY <1>1, <2>4, <2>5
    <3>2. Taken(w)' = Taken(w) - 1 /\ pc'[w] = "busy"
      BY <2>2, <2>3, <2>5
    <3>. QED  BY <2>1, <2>4, <3>1, <3>2
  <2>6. CASE w # v
    <3>1. Taken(w)' = Taken(w) /\ pc'[w] = pc[w]
      BY <2>2, <2>3, <2>4, <2>6
    <3>. QED  BY <2>1, <2>4, <3>1
  <2>. QED  BY <2>5, <2>6
<1>. QED  BY <1>3, <1>5, <1>6, <1>7, <1>8, PlacesNow, SumsKeep

LEMMA RegisterKeeps ==
    ASSUME WInv, NEW v \in Workers, Register(v)
    PROVE  WInv'
<1>1. /\ pc[v] = "register" /\ Len(workerQueue) < maxWorkers
      /\ workerQueue' = Append(workerQueue, v)
      /\ pc' = [pc EXCEPT ![v] = "select"]
      /\ UNCHANGED <<clients, taskQueue, dispatcher, handing, current, quitting, answers>>
  BY DEF Register
<1>2. workerQueue \in Seq(Workers) /\ Len(workerQueue) \in Nat
  BY DEF WInv, TasksInv, TypeOK
<1>3. TypeOK' /\ BusyHasTask'
  <2>1. workerQueue' \in Seq(Workers) /\ Len(workerQueue') <= maxWorkers
    BY <1>1, <1>2, WorkersAssumption, FS_CardinalityType DEF maxWorkers
  <2>. QED  BY <1>1, <2>1 DEF WInv, TasksInv, TypeOK, BusyHasTask, clients, answers
<1>4. \A s \in Tasks : /\ AtCaller(s)' = AtCaller(s) /\ InQueue(s)' = InQueue(s)
                       /\ InHands(s)' = InHands(s) /\ AtWorker(s)' = AtWorker(s)
                       /\ InResponse(s)' = InResponse(s) /\ InFailure(s)' = InFailure(s)
  BY <1>1 DEF AtCaller, InQueue, InHands, AtWorker, InResponse, InFailure, clients, answers
<1>5. \A w \in Workers :
         InOffers(w)' + Taken(w)' = IF pc'[w] \in {"select", "quit"} THEN 1 ELSE 0
  <2>. TAKE w \in Workers
  <2>1. InOffers(w)' = InOffers(w) + (IF v = w THEN 1 ELSE 0)
    BY <1>1, <1>2, CountAppend DEF InOffers
  <2>2. Taken(w)' = Taken(w)
    BY <1>1 DEF Taken
  <2>3. pc'[w] = IF w = v THEN "select" ELSE pc[w]
    BY <1>1 DEF WInv, TasksInv, TypeOK
  <2>. QED  BY <1>1, <2>1, <2>2, <2>3, OffersNow
<1>6. IsFiniteSet(handing)'
  BY <1>1 DEF WInv, TasksInv
<1>. QED  BY <1>3, <1>4, <1>5, <1>6, SumsKeep

LEMMA AnswerKeeps ==
    ASSUME WInv, NEW v \in Workers, Answer(v)
    PROVE  WInv'
<1>. DEFINE t == current[v]
<1>1. /\ pc[v] = "busy" /\ pc' = [pc EXCEPT ![v] = "register"]
      /\ current' = [current EXCEPT ![v] = None]
      /\ \/ response' = response \cup {t} /\ UNCHANGED failure
         \/ /\ failure' = [failure EXCEPT ![t] = IF @ = "none" THEN "error" ELSE @]
            /\ UNCHANGED response
      /\ UNCHANGED <<clients, taskQueue, workerQueue, dispatcher, handing, quitting>>
  BY DEF Answer
<1>2. t \in Tasks /\ t # None /\ current \in [Workers -> Tasks \cup {None}]
  BY <1>1, NoneAssumption DEF WInv, TasksInv, TypeOK, BusyHasTask
\* The worker is the place of its task, which has no answer yet.
<1>3. t \notin response /\ failure[t] = "none"
  <2>1. AtWorker(t) # 0
    <3>1. v \in RunnersOf(current, t)
      BY DEF RunnersOf
    <3>. QED  BY <3>1, RunnersFinite, FS_EmptySet DEF AtWorker
  <2>2. /\ AtCaller(t) + InQueue(t) + InHands(t) + AtWorker(t)
                       + InResponse(t) + InFailure(t) = 1
        /\ AtCaller(t) \in Nat /\ InQueue(t) \in Nat /\ InHands(t) \in Nat
        /\ AtWorker(t) \in Nat /\ InResponse(t) \in Nat /\ InFailure(t) \in Nat
    BY <1>2, PlacesNow
  <2>3. InResponse(t) = 0 /\ InFailure(t) = 0
    BY <2>1, <2>2
  <2>. QED  BY <2>3 DEF InResponse, InFailure
<1>4. \A s \in Tasks : AtWorker(s)' = AtWorker(s) - (IF t = s THEN 1 ELSE 0)
  <2>1. \A s : AtWorker(s)' = AtWorker(s) + (IF None = s THEN 1 ELSE 0)
                                          - (IF current[v] = s THEN 1 ELSE 0)
    <3>1. current'[v] = None /\ \A u \in Workers \ {v} : current'[u] = current[u]
      BY <1>1, <1>2
    <3>. QED  BY <3>1, RunnersMove DEF AtWorker
  <2>. QED  BY <2>1, NoneAssumption, PlacesNow
<1>. HIDE DEF t
<1>5. \A s \in Tasks : InResponse(s)' + InFailure(s)'
                         = InResponse(s) + InFailure(s) + (IF t = s THEN 1 ELSE 0)
  BY <1>1, <1>2, <1>3 DEF WInv, TasksInv, TypeOK, InResponse, InFailure
<1>6. TypeOK' /\ BusyHasTask'
  BY <1>1, <1>2, SMTT(40) DEF WInv, TasksInv, TypeOK, BusyHasTask, clients
<1>7. \A s \in Tasks : /\ AtCaller(s)' = AtCaller(s) /\ InQueue(s)' = InQueue(s)
                       /\ InHands(s)' = InHands(s)
  BY <1>1 DEF AtCaller, InQueue, InHands, clients
<1>8. \A s \in Tasks : InResponse(s)' \in Nat /\ InFailure(s)' \in Nat
  BY DEF InResponse, InFailure
<1>9. \A w \in Workers :
         InOffers(w)' + Taken(w)' = IF pc'[w] \in {"select", "quit"} THEN 1 ELSE 0
  <2>. TAKE w \in Workers
  <2>1. InOffers(w)' = InOffers(w) /\ Taken(w)' = Taken(w)
    BY <1>1 DEF InOffers, Taken
  <2>2. pc'[w] = IF w = v THEN "register" ELSE pc[w]
    BY <1>1 DEF WInv, TasksInv, TypeOK
  <2>. QED  BY <1>1, <2>1, <2>2, OffersNow
<1>10. IsFiniteSet(handing)'
  BY <1>1 DEF WInv, TasksInv
<1>. QED  BY <1>4, <1>5, <1>6, <1>7, <1>8, <1>9, <1>10, PlacesNow, SumsKeep

LEMMA QuitKeeps ==
    ASSUME WInv, NEW v \in Workers, Quit(v)
    PROVE  WInv'
<1>1. /\ pc[v] = "select" /\ pc' = [pc EXCEPT ![v] = "quit"]
      /\ quitting' = quitting \ {v}
      /\ UNCHANGED <<clients, taskQueue, workerQueue, dispatcher, handing, current, answers>>
  BY DEF Quit
<1>2. TypeOK' /\ BusyHasTask' /\ IsFiniteSet(handing)'
  BY <1>1 DEF WInv, TasksInv, TypeOK, BusyHasTask, clients, answers
<1>3. \A s \in Tasks : /\ AtCaller(s)' = AtCaller(s) /\ InQueue(s)' = InQueue(s)
                       /\ InHands(s)' = InHands(s) /\ AtWorker(s)' = AtWorker(s)
                       /\ InResponse(s)' = InResponse(s) /\ InFailure(s)' = InFailure(s)
  BY <1>1 DEF AtCaller, InQueue, InHands, AtWorker, InResponse, InFailure, clients, answers
<1>4. \A w \in Workers :
         InOffers(w)' + Taken(w)' = IF pc'[w] \in {"select", "quit"} THEN 1 ELSE 0
  <2>. TAKE w \in Workers
  <2>1. InOffers(w)' = InOffers(w) /\ Taken(w)' = Taken(w)
    BY <1>1 DEF InOffers, Taken
  <2>2. pc'[w] = IF w = v THEN "quit" ELSE pc[w]
    BY <1>1 DEF WInv, TasksInv, TypeOK
  <2>. QED  BY <1>1, <2>1, <2>2, OffersNow
<1>. QED  BY <1>2, <1>3, <1>4, SumsKeep

LEMMA WNext == WInv /\ [Next]_vars => WInv'
<1>. SUFFICES ASSUME WInv, [Next]_vars
              PROVE  WInv'
  OBVIOUS
<1>1. CASE \E t \in Tasks : Call(t) \/ Wait(t) \/ TimeOut(t)
  BY <1>1, CallersKeep DEF Call, Wait, TimeOut, WInv, TasksInv, TypeOK, workers, answers
<1>2. CASE \E t \in Tasks : Enqueue(t) \/ Refuse(t) \/ TakeOffer(t) \/ HandOver(t)
  BY <1>2, EnqueueKeeps, RefuseKeeps, TakeOfferKeeps, HandOverKeeps
<1>3. CASE Dispatch
  BY <1>3, DispatchKeeps
<1>4. CASE \E s \in Stoppers : CallStop(s) \/ StopAll(s)
  BY <1>4, CallersKeep DEF CallStop, StopAll, WInv, TasksInv, TypeOK, workers, answers
<1>5. CASE \E w \in Workers : Register(w) \/ Answer(w) \/ Quit(w)
  BY <1>5, RegisterKeeps, AnswerKeeps, QuitKeeps
<1>6. CASE UNCHANGED vars
  BY <1>6, CallersKeep DEF vars, clients, WInv, TasksInv, TypeOK, workers, answers
<1>. QED  BY <1>1, <1>2, <1>3, <1>4, <1>5, <1>6 DEF Next

\* WorkerQueue holds each worker at most once, and not one that is about to register.
LEMMA RoomToRegister ==
    ASSUME WInv, NEW w \in Workers, pc[w] = "register"
    PROVE  Len(workerQueue) < maxWorkers
<1>. DEFINE n == Len(workerQueue)
            f == [i \in 1 .. n |-> workerQueue[i]]
<1>1. workerQueue \in Seq(Workers) /\ n \in Nat
  BY DEF WInv, TasksInv, TypeOK
<1>2. \A v \in Workers : InOffers(v) \in Nat /\ InOffers(v) <= 1
  BY OffersNow
<1>3. InOffers(w) = 0
  BY OffersNow
<1>4. \A i \in 1 .. n : workerQueue[i] \in Workers \ {w}
  BY <1>1, <1>3, PlacesExist DEF InOffers
<1>5. \A i, j \in 1 .. n : workerQueue[i] = workerQueue[j] => i = j
  BY <1>1, <1>2, <1>4, PlacesUnique DEF InOffers
<1>6. f \in Injection(1 .. n, Workers \ {w})
  BY <1>4, <1>5, Fun_IsInj
<1>. HIDE DEF f, n
<1>7. /\ IsFiniteSet(Workers \ {w})
      /\ Cardinality(Workers \ {w}) = maxWorkers - 1 /\ maxWorkers \in Nat
  BY WorkersAssumption, FS_RemoveElement, FS_CardinalityType DEF maxWorkers
<1>8. Cardinality(1 .. n) = n
  BY <1>1, FS_Interval
<1>9. Cardinality(1 .. n) <= Cardinality(Workers \ {w})
  BY <1>6, <1>7, FS_Injection
<1>. QED  BY <1>1, <1>7, <1>8, <1>9 DEF n

LEMMA WSafety == Spec => []WInv
BY WInit, WNext, PTL DEF Spec

\* The channels keep within their capacities, the variables within their types.
THEOREM WorkerPoolTypeCorrect == Spec => []TypeOK
<1>1. WInv => TypeOK
  BY DEF WInv, TasksInv
<1>. QED  BY <1>1, WSafety, PTL

\* No task is lost or found twice, whatever timers, goroutines, workers and callers of
\* Stop do (SubmitTask, dispatch, Worker.Start, Stop).
THEOREM TasksInOnePlace == Spec => []OnePlaceEach
<1>1. WInv => OnePlaceEach
  BY DEF WInv, TasksInv
<1>. QED  BY <1>1, WSafety, PTL

\* A worker has one offer about or none, and never waits for room in WorkerQueue
\* (Worker.Start, dispatch).
THEOREM WorkersOfferOnce == Spec => []OneOfferEach
<1>1. WInv => OneOfferEach
  BY RoomToRegister DEF WInv, OneOffer, OneOfferEach
<1>. QED  BY <1>1, WSafety, PTL

----------------------------------------------------------------------------
(* The pool implements the safety part of TaskService.                      *)

IsRunning(t) == \E w \in Workers : current[w] = t

\* What Phase is, without the order of its cases.
PhaseFacts ==
    \A t \in Tasks :
        /\ submitter[t] = "new" => Phase[t] = "new"
        /\ IsRunning(t) => Phase[t] = "running"
        /\ t \in response \/ failure[t] = "error" => Phase[t] = "answered"
        /\ failure[t] = "full" => Phase[t] = "refused"
        /\ /\ submitter[t] # "new" /\ ~IsRunning(t)
           /\ t \notin response /\ failure[t] = "none"
           => Phase[t] = "accepted"

LEMMA OnlyPlace ==
    ASSUME WInv, NEW t \in Tasks
    PROVE  /\ submitter[t] # "returned" => ~IsRunning(t) /\ t \notin response /\ failure[t] = "none"
           /\ IsRunning(t) => submitter[t] = "returned" /\ t \notin response /\ failure[t] = "none"
           /\ t \in response => submitter[t] = "returned" /\ ~IsRunning(t) /\ failure[t] = "none"
           /\ failure[t] # "none" => submitter[t] = "returned" /\ ~IsRunning(t) /\ t \notin response
           /\ InQueue(t) # 0 \/ InHands(t) # 0 =>
                 submitter[t] = "returned" /\ ~IsRunning(t) /\ t \notin response /\ failure[t] = "none"
<1>1. /\ AtCaller(t) + InQueue(t) + InHands(t) + AtWorker(t) + InResponse(t) + InFailure(t) = 1
      /\ AtCaller(t) \in Nat /\ InQueue(t) \in Nat /\ InHands(t) \in Nat
      /\ AtWorker(t) \in Nat /\ InResponse(t) \in Nat /\ InFailure(t) \in Nat
  BY PlacesNow
<1>2. IsRunning(t) => AtWorker(t) # 0
  <2>1. IsRunning(t) => RunnersOf(current, t) # {}
    BY DEF IsRunning, RunnersOf
  <2>. QED  BY <2>1, RunnersFinite, FS_EmptySet DEF AtWorker
<1>3. /\ submitter[t] # "returned" <=> AtCaller(t) # 0
      /\ t \in response <=> InResponse(t) # 0
      /\ failure[t] # "none" <=> InFailure(t) # 0
  BY DEF AtCaller, InResponse, InFailure
<1>4. PICK a, b, c, d, e, f \in Nat :
         /\ a = AtCaller(t) /\ b = InQueue(t) /\ c = InHands(t)
         /\ d = AtWorker(t) /\ e = InResponse(t) /\ f = InFailure(t)
  BY <1>1
<1>5. a + b + c + d + e + f = 1
  BY <1>1, <1>4
<1>6. /\ a # 0 => d = 0 /\ e = 0 /\ f = 0
      /\ d # 0 => a = 0 /\ e = 0 /\ f = 0
      /\ e # 0 => a = 0 /\ d = 0 /\ f = 0
      /\ f # 0 => a = 0 /\ d = 0 /\ e = 0
      /\ b # 0 \/ c # 0 => a = 0 /\ d = 0 /\ e = 0 /\ f = 0
  BY <1>5
<1>. QED  BY <1>2, <1>3, <1>4, <1>6

LEMMA PhaseIs == WInv => PhaseFacts
<1>. SUFFICES ASSUME WInv, NEW t \in Tasks
              PROVE  PhaseFacts!(t)
  BY DEF PhaseFacts
<1>1. Phase[t] = CASE submitter[t] = "new" -> "new"
                   [] IsRunning(t) -> "running"
                   [] t \in response \/ failure[t] = "error" -> "answered"
                   [] failure[t] = "full" -> "refused"
                   [] OTHER -> "accepted"
  BY DEF Phase, IsRunning
<1>2. failure[t] \in {"none", "full", "error"}
  BY DEF WInv, TasksInv, TypeOK
<1>. QED  BY <1>1, <1>2, OnlyPlace

LEMMA PhaseThen == WInv /\ [Next]_vars => WInv' /\ PhaseFacts /\ PhaseFacts'
BY PhaseIs, WNext, PTL

\* A task nothing happens to.
LEMMA PhaseKept ==
    ASSUME WInv, [Next]_vars, NEW t \in Tasks,
           (submitter[t] = "new")' <=> submitter[t] = "new",
           IsRunning(t)' <=> IsRunning(t),
           (t \in response)' <=> t \in response,
           failure'[t] = failure[t]
    PROVE  Phase'[t] = Phase[t]
<1>1. PhaseFacts /\ PhaseFacts' /\ failure[t] \in {"none", "full", "error"}
  BY PhaseThen DEF WInv, TasksInv, TypeOK
<1>. QED  BY <1>1 DEF PhaseFacts

\* A step that concerns no task at all, as far as callers can tell.
LEMMA PhasesKept ==
    ASSUME WInv, [Next]_vars,
           \A t \in Tasks : (submitter[t] = "new")' <=> submitter[t] = "new",
           UNCHANGED <<current, answers>>
    PROVE  Phase' = Phase
<1>1. \A t \in Tasks : Phase'[t] = Phase[t]
  BY PhaseKept DEF answers, IsRunning
<1>. QED  BY <1>1 DEF Phase

LEMMA PhaseMoves ==
    ASSUME NEW t \in Tasks, NEW to, Phase'[t] = to,
           \A u \in Tasks \ {t} : Phase'[u] = Phase[u]
    PROVE  Phase' = [Phase EXCEPT ![t] = to]
<1>1. Phase = [u \in Tasks |-> Phase[u]] /\ Phase' = [u \in Tasks |-> Phase'[u]]
  BY DEF Phase
<1>. QED  BY <1>1

LEMMA CallSubmits ==
    ASSUME WInv, [Next]_vars, NEW t \in Tasks, Call(t)
    PROVE  Service!Submit(t)
<1>1. /\ submitter[t] = "new" /\ submitter'[t] = "sending"
      /\ \A u \in Tasks \ {t} : submitter'[u] = submitter[u]
      /\ UNCHANGED <<dispatcher, current, answers>>
  BY DEF Call, WInv, TasksInv, TypeOK, workers
<1>2. ~IsRunning(t) /\ t \notin response /\ failure[t] = "none"
  BY <1>1, OnlyPlace
<1>3. Phase[t] = "new" /\ Phase'[t] = "accepted"
  BY <1>1, <1>2, PhaseThen DEF PhaseFacts, IsRunning, answers
<1>4. \A u \in Tasks \ {t} : Phase'[u] = Phase[u]
  BY <1>1, PhaseKept DEF IsRunning, answers
<1>. QED  BY <1>1, <1>3, <1>4, PhaseMoves DEF Service!Submit, Service!Move

LEMMA RefuseRefuses ==
    ASSUME WInv, [Next]_vars, NEW t \in Tasks, Refuse(t)
    PROVE  Service!Refuse(t)
<1>1. /\ submitter[t] = "refusing" /\ submitter'[t] = "returned"
      /\ failure[t] = "none" /\ failure'[t] = "full"
      /\ \A u \in Tasks \ {t} : submitter'[u] = submitter[u] /\ failure'[u] = failure[u]
      /\ UNCHANGED <<dispatcher, current, response>>
  BY DEF Refuse, WInv, TasksInv, TypeOK, workers
<1>2. ~IsRunning(t) /\ t \notin response
  BY <1>1, OnlyPlace
<1>3. Phase[t] = "accepted" /\ Phase'[t] = "refused"
  BY <1>1, <1>2, PhaseThen DEF PhaseFacts
<1>4. \A u \in Tasks \ {t} : Phase'[u] = Phase[u]
  BY <1>1, PhaseKept DEF IsRunning
<1>. QED  BY <1>1, <1>3, <1>4, PhaseMoves DEF Service!Refuse, Service!Move

LEMMA HandOverRuns ==
    ASSUME WInv, [Next]_vars, NEW t \in Tasks, HandOver(t)
    PROVE  Service!Run(t)
<1>1. PICK h \in handing :
         /\ h.task = t /\ h.worker # None /\ pc[h.worker] = "select"
         /\ current' = [current EXCEPT ![h.worker] = t]
         /\ UNCHANGED <<submitter, dispatcher, answers>>
  BY DEF HandOver, clients
<1>2. h.worker \in Workers
  BY <1>1 DEF WInv, TasksInv, TypeOK
<1>3. current[h.worker] = None
  BY <1>1, <1>2 DEF WInv, TasksInv, TypeOK, BusyHasTask
<1>4. /\ current'[h.worker] = t
      /\ \A w \in Workers \ {h.worker} : current'[w] = current[w]
  BY <1>1, <1>2 DEF WInv, TasksInv, TypeOK
<1>5. InHands(t) # 0
  <2>1. h \in HandsOf(handing, t)
    BY <1>1 DEF HandsOf
  <2>2. IsFiniteSet(HandsOf(handing, t))
    BY HandsFinite DEF WInv, TasksInv
  <2>. QED  BY <2>1, <2>2, FS_EmptySet DEF InHands
<1>6. submitter[t] # "new" /\ ~IsRunning(t) /\ t \notin response /\ failure[t] = "none"
  BY <1>5, OnlyPlace
<1>7. IsRunning(t)'
  BY <1>2, <1>4 DEF IsRunning
<1>8. Phase[t] = "accepted" /\ Phase'[t] = "running"
  BY <1>6, <1>7, PhaseThen DEF PhaseFacts
<1>9. \A u \in Tasks \ {t} : IsRunning(u)' <=> IsRunning(u)
  BY <1>2, <1>3, <1>4, NoneAssumption DEF IsRunning
<1>10. \A u \in Tasks \ {t} : Phase'[u] = Phase[u]
  BY <1>1, <1>9, PhaseKept DEF answers
<1>. QED  BY <1>1, <1>8, <1>10, PhaseMoves DEF Service!Run, Service!Move

LEMMA AnswerReplies ==
    ASSUME WInv, [Next]_vars, NEW w \in Workers, Answer(w)
    PROVE  \E t \in Tasks : Service!Reply(t)
<1>. DEFINE t == current[w]
<1>1. /\ t \in Tasks /\ IsRunning(t)
      /\ UNCHANGED <<submitter, dispatcher>>
      /\ current' = [current EXCEPT ![w] = None]
  BY DEF Answer, WInv, TasksInv, TypeOK, BusyHasTask, IsRunning, clients
<1>2. failure[t] = "none"
  BY <1>1, OnlyPlace
<1>3. /\ t \in response' \/ failure'[t] = "error"
      /\ \A u \in Tasks \ {t} : /\ u \in response' <=> u \in response
                              /\ failure'[u] = failure[u]
  BY <1>1, <1>2 DEF Answer, WInv, TasksInv, TypeOK
<1>4. /\ current'[w] = None
      /\ \A v \in Workers \ {w} : current'[v] = current[v]
  BY <1>1 DEF WInv, TasksInv, TypeOK
<1>5. \A u \in Tasks \ {t} : IsRunning(u)' <=> IsRunning(u)
  BY <1>4, NoneAssumption DEF IsRunning
<1>. HIDE DEF t
<1>6. Phase[t] = "running" /\ Phase'[t] = "answered"
  BY <1>1, <1>3, PhaseThen DEF PhaseFacts
<1>7. \A u \in Tasks \ {t} : Phase'[u] = Phase[u]
  BY <1>1, <1>3, <1>5, PhaseKept
<1>8. Phase' = [Phase EXCEPT ![t] = "answered"]
  BY <1>1, <1>6, <1>7, PhaseMoves
<1>. QED  BY <1>1, <1>6, <1>8 DEF Service!Reply, Service!Move

LEMMA StepServes == WInv /\ [Next]_vars => [Service!Next]_(Service!vars)
<1>. SUFFICES ASSUME WInv, [Next]_vars
              PROVE  Service!Next \/ UNCHANGED <<Phase, dispatcher>>
  BY DEF Service!vars
<1>1. CASE \E t \in Tasks : Call(t)
  BY <1>1, CallSubmits DEF Service!Next
<1>2. CASE \E t \in Tasks : Refuse(t)
  BY <1>2, RefuseRefuses DEF Service!Next
<1>3. CASE \E t \in Tasks : HandOver(t)
  BY <1>3, HandOverRuns DEF Service!Next
<1>4. CASE \E w \in Workers : Answer(w)
  BY <1>4, AnswerReplies DEF Service!Next
<1>5. CASE \E s \in Stoppers : StopAll(s)
  <2>1. Phase' = Phase
    BY <1>5, PhasesKept DEF StopAll, workers
  <2>. QED  BY <1>5, <2>1 DEF StopAll, Service!Next, Service!Close
<1>6. CASE \E t \in Tasks : Enqueue(t) \/ Wait(t) \/ TimeOut(t) \/ TakeOffer(t)
  <2>1. /\ \A t \in Tasks : (submitter[t] = "new")' <=> submitter[t] = "new"
        /\ UNCHANGED <<current, answers, dispatcher>>
    BY <1>6 DEF Enqueue, Wait, TimeOut, TakeOffer, WInv, TasksInv, TypeOK, workers, clients
  <2>. QED  BY <2>1, PhasesKept
<1>7. CASE \/ Dispatch
           \/ \E s \in Stoppers : CallStop(s)
           \/ \E w \in Workers : Register(w) \/ Quit(w)
           \/ UNCHANGED vars
  <2>1. UNCHANGED <<submitter, current, answers, dispatcher>>
    BY <1>7 DEF Dispatch, CallStop, Register, Quit, vars, workers, clients
  <2>. QED  BY <2>1, PhasesKept
<1>. QED  BY <1>1, <1>2, <1>3, <1>4, <1>5, <1>6, <1>7 DEF Next

LEMMA InitServes == Init => Service!Init
<1>. SUFFICES ASSUME Init
              PROVE  Phase = [t \in Tasks |-> "new"] /\ dispatcher = TRUE
  BY DEF Service!Init
<1>1. \A t \in Tasks : submitter[t] = "new"
  BY DEF Init
<1>2. \A t \in Tasks : Phase[t] = "new"
  BY <1>1, WInit, PhaseIs DEF PhaseFacts
<1>3. Phase = [t \in Tasks |-> Phase[t]] /\ dispatcher = TRUE
  BY DEF Init, Phase
<1>. QED  BY <1>2, <1>3

\* Every step of the pool is one TaskService allows or one its clients cannot see: a task
\* is run once or refused, never both, it is answered only after it has run, and a pool
\* that has been stopped does not open again (worker_pool.go as a whole).
THEOREM PoolServesTasks == Spec => Service!Init /\ [][Service!Next]_(Service!vars)
BY InitServes, StepServes, WSafety, PTL DEF Spec
=============================================================================
