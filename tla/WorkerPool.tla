----------------------------- MODULE WorkerPool -----------------------------
(***************************************************************************)
(* The task pool of src/tcpserver/worker_pool.go.  A worker offers its own *)
(* channel on WorkerQueue; the dispatcher starts a goroutine for every     *)
(* task, which takes an offer and sends the task to the worker that made   *)
(* it; Stop makes the dispatcher start a goroutine per worker that tells   *)
(* it to quit.  Channels without a buffer are one step of both ends.       *)
(***************************************************************************)
EXTENDS Integers, Sequences, FiniteSets

CONSTANTS Tasks,     \* the tasks clients submit
          Workers,   \* wp.Workers
          Stoppers,  \* the callers of Stop
          None,      \* no task, no worker
          QueueCap   \* capacity of wp.TaskQueue (10 * maxWorkers in the code)

ASSUME NoneAssumption == None \notin Tasks \cup Workers
ASSUME QueueCapAssumption == QueueCap \in Nat \ {0}
ASSUME WorkersAssumption == IsFiniteSet(Workers)

maxWorkers == Cardinality(Workers)

VARIABLES submitter,    \* where the SubmitTask of each task stands
          taskQueue,    \* wp.TaskQueue
          workerQueue,  \* wp.WorkerQueue: the workers whose channels it holds
          dispatcher,   \* the dispatcher is running
          handing,      \* the dispatcher's goroutines: a task, and the worker whose
                        \* channel they took, or None
          pc,           \* where each worker stands
          current,      \* the task it processes, or None
          quitting,     \* workers whose Stop goroutine waits for them
          response,     \* tasks with a result in Response
          failure,      \* what is in the Error channel of each task
          stopper       \* where each caller of Stop stands

clients == <<submitter, stopper>>
workers == <<pc, current>>
answers == <<response, failure>>
vars == <<clients, taskQueue, workerQueue, dispatcher, handing, workers, quitting, answers>>

Init == /\ submitter = [t \in Tasks |-> "new"]
        /\ stopper = [s \in Stoppers |-> "new"]
        /\ taskQueue = <<>> /\ workerQueue = <<>>
        /\ dispatcher = TRUE
        /\ handing = {}
        /\ pc = [w \in Workers |-> "register"]
        /\ current = [w \in Workers |-> None]
        /\ quitting = {}
        /\ response = {}
        /\ failure = [t \in Tasks |-> "none"]

----------------------------------------------------------------------------
(* SubmitTask                                                               *)

Call(t) == /\ submitter[t] = "new"
           /\ submitter' = [submitter EXCEPT ![t] = "sending"]
           /\ UNCHANGED <<stopper, taskQueue, workerQueue, dispatcher, handing, workers,
                          quitting, answers>>

Enqueue(t) == /\ submitter[t] \in {"sending", "waiting"}
              /\ Len(taskQueue) < QueueCap
              /\ taskQueue' = Append(taskQueue, t)
              /\ submitter' = [submitter EXCEPT ![t] = "returned"]
              /\ UNCHANGED <<stopper, workerQueue, dispatcher, handing, workers, quitting,
                             answers>>

Wait(t) == /\ submitter[t] = "sending"
           /\ Len(taskQueue) >= QueueCap
           /\ submitter' = [submitter EXCEPT ![t] = "waiting"]
           /\ UNCHANGED <<stopper, taskQueue, workerQueue, dispatcher, handing, workers,
                          quitting, answers>>

\* A plausible slip of SubmitTask: the task is refused and queued all the same.
TimeOutQueued(t) == /\ submitter[t] = "waiting"
                    /\ submitter' = [submitter EXCEPT ![t] = "refusing"]
                    /\ taskQueue' = Append(taskQueue, t)
                    /\ UNCHANGED <<stopper, workerQueue, dispatcher, handing, workers,
                                   quitting, answers>>

\* The timer of a second fires after a wait; the caller gets its task at once and
\* a goroutine of its own, which Refuse is, sends the error.
TimeOut(t) == /\ submitter[t] = "waiting"
              /\ submitter' = [submitter EXCEPT ![t] = "refusing"]
              /\ UNCHANGED <<stopper, taskQueue, workerQueue, dispatcher, handing, workers,
                             quitting, answers>>

Refuse(t) == /\ submitter[t] = "refusing"
             /\ failure[t] = "none"
             /\ failure' = [failure EXCEPT ![t] = "full"]
             /\ submitter' = [submitter EXCEPT ![t] = "returned"]
             /\ UNCHANGED <<stopper, taskQueue, workerQueue, dispatcher, handing, workers,
                            quitting, response>>

----------------------------------------------------------------------------
(* dispatch and its goroutines                                              *)

Dispatch == /\ dispatcher
            /\ taskQueue # <<>>
            /\ handing' = handing \cup {[task |-> Head(taskQueue), worker |-> None]}
            /\ taskQueue' = Tail(taskQueue)
            /\ UNCHANGED <<clients, workerQueue, dispatcher, workers, quitting, answers>>

\* A plausible slip of the goroutine: the offer it takes stays in the queue.
TakeOfferKept(t) == /\ [task |-> t, worker |-> None] \in handing
                    /\ workerQueue # <<>>
                    /\ handing' = (handing \ {[task |-> t, worker |-> None]})
                                     \cup {[task |-> t, worker |-> Head(workerQueue)]}
                    /\ UNCHANGED <<clients, taskQueue, workerQueue, dispatcher, workers,
                                   quitting, answers>>

TakeOffer(t) == /\ [task |-> t, worker |-> None] \in handing
                /\ workerQueue # <<>>
                /\ handing' = (handing \ {[task |-> t, worker |-> None]})
                                 \cup {[task |-> t, worker |-> Head(workerQueue)]}
                /\ workerQueue' = Tail(workerQueue)
                /\ UNCHANGED <<clients, taskQueue, dispatcher, workers, quitting, answers>>

\* A plausible slip of the goroutine: it goes on offering a task it has handed over.
HandOverAgain(t) == \E h \in handing :
    /\ h.task = t /\ h.worker # None
    /\ pc[h.worker] = "select"
    /\ pc' = [pc EXCEPT ![h.worker] = "busy"]
    /\ current' = [current EXCEPT ![h.worker] = t]
    /\ handing' = (handing \ {h}) \cup {[h EXCEPT !.worker = None]}
    /\ UNCHANGED <<clients, taskQueue, workerQueue, dispatcher, quitting, answers>>

\* The worker is in its select: it receives what the goroutine sends.
HandOver(t) == \E h \in handing :
    /\ h.task = t /\ h.worker # None
    /\ pc[h.worker] = "select"
    /\ handing' = handing \ {h}
    /\ pc' = [pc EXCEPT ![h.worker] = "busy"]
    /\ current' = [current EXCEPT ![h.worker] = t]
    /\ UNCHANGED <<clients, taskQueue, workerQueue, dispatcher, quitting, answers>>

\* The dispatcher takes what a Stop sends, starts the goroutines that stop the
\* workers and returns; the tasks still queued stay there.
StopAll(s) == /\ dispatcher
              /\ stopper[s] = "sending"
              /\ dispatcher' = FALSE
              /\ quitting' = Workers
              /\ stopper' = [stopper EXCEPT ![s] = "returned"]
              /\ UNCHANGED <<submitter, taskQueue, workerQueue, handing, workers, answers>>

CallStop(s) == /\ stopper[s] = "new"
               /\ stopper' = [stopper EXCEPT ![s] = "sending"]
               /\ UNCHANGED <<submitter, taskQueue, workerQueue, dispatcher, handing,
                              workers, quitting, answers>>

----------------------------------------------------------------------------
(* The workers                                                              *)

\* A plausible slip of the worker: it makes two offers in a turn.
RegisterTwice(w) == /\ pc[w] = "register"
                    /\ Len(workerQueue) < maxWorkers
                    /\ workerQueue' = workerQueue \o <<w, w>>
                    /\ pc' = [pc EXCEPT ![w] = "select"]
                    /\ UNCHANGED <<clients, taskQueue, dispatcher, handing, current,
                                   quitting, answers>>

Register(w) == /\ pc[w] = "register"
               /\ Len(workerQueue) < maxWorkers
               /\ workerQueue' = Append(workerQueue, w)
               /\ pc' = [pc EXCEPT ![w] = "select"]
               /\ UNCHANGED <<clients, taskQueue, dispatcher, handing, current, quitting,
                              answers>>

\* ProcessTask ends with a result or an error, and the channel for it has room;
\* if it had none the worker would give up after a second.
Answer(w) == LET t == current[w] IN
    /\ pc[w] = "busy"
    /\ \/ response' = response \cup {t} /\ UNCHANGED failure
       \/ /\ failure' = [failure EXCEPT ![t] = IF @ = "none" THEN "error" ELSE @]
          /\ UNCHANGED response
    /\ pc' = [pc EXCEPT ![w] = "register"]
    /\ current' = [current EXCEPT ![w] = None]
    /\ UNCHANGED <<clients, taskQueue, workerQueue, dispatcher, handing, quitting>>

\* A plausible slip of the worker: it quits only once its offer has been taken.
QuitWhenIdle(w) == /\ pc[w] = "select" /\ w \in quitting
                   /\ \A i \in 1 .. Len(workerQueue) : workerQueue[i] # w
                   /\ pc' = [pc EXCEPT ![w] = "quit"]
                   /\ quitting' = quitting \ {w}
                   /\ UNCHANGED <<clients, taskQueue, workerQueue, dispatcher, handing,
                                  current, answers>>

\* Its offer stays where it is, and a goroutine that holds it waits for ever.
Quit(w) == /\ pc[w] = "select" /\ w \in quitting
           /\ pc' = [pc EXCEPT ![w] = "quit"]
           /\ quitting' = quitting \ {w}
           /\ UNCHANGED <<clients, taskQueue, workerQueue, dispatcher, handing, current,
                          answers>>

Next == \/ \E t \in Tasks : \/ Call(t) \/ Enqueue(t) \/ Wait(t) \/ TimeOut(t) \/ Refuse(t)
                            \/ TakeOffer(t) \/ HandOver(t)
        \/ Dispatch
        \/ \E s \in Stoppers : CallStop(s) \/ StopAll(s)
        \/ \E w \in Workers : Register(w) \/ Answer(w) \/ Quit(w)

Spec == Init /\ [][Next]_vars

\* The scheduler runs every goroutine that can run, a timer fires, ProcessTask
\* ends, and a select does not pick the same one of its ready cases for ever.
\* Clients need not call anything.
FairSpec ==
    /\ Spec
    /\ WF_vars(Dispatch)
    /\ \A t \in Tasks : /\ WF_vars(Enqueue(t) \/ Wait(t) \/ TimeOut(t))
                        /\ WF_vars(Refuse(t))
                        /\ WF_vars(TakeOffer(t)) /\ WF_vars(HandOver(t))
    /\ \A w \in Workers : WF_vars(Register(w)) /\ WF_vars(Answer(w)) /\ SF_vars(Quit(w))
    /\ \A s \in Stoppers : WF_vars(StopAll(s))

----------------------------------------------------------------------------
(* Properties *)

TypeOK == /\ submitter \in [Tasks -> {"new", "sending", "waiting", "refusing", "returned"}]
          /\ stopper \in [Stoppers -> {"new", "sending", "returned"}]
          /\ taskQueue \in Seq(Tasks) /\ Len(taskQueue) <= QueueCap
          /\ workerQueue \in Seq(Workers) /\ Len(workerQueue) <= maxWorkers
          /\ dispatcher \in BOOLEAN
          /\ handing \subseteq [task : Tasks, worker : Workers \cup {None}]
          /\ pc \in [Workers -> {"register", "select", "busy", "quit"}]
          /\ current \in [Workers -> Tasks \cup {None}]
          /\ quitting \subseteq Workers
          /\ response \subseteq Tasks
          /\ failure \in [Tasks -> {"none", "full", "error"}]

Offers(w) == Cardinality({i \in 1 .. Len(workerQueue) : workerQueue[i] = w})
             + Cardinality({h \in handing : h.worker = w})

\* A worker has at most one offer about, in WorkerQueue or in the hands of one
\* dispatched goroutine, and none while it works or is about to make one: two
\* tasks are never sent to the same worker, and the queue of offers, which has a
\* place for each worker, never makes a worker wait, not even when others have quit.
OneOfferEach ==
    \A w \in Workers :
        /\ Offers(w) = IF pc[w] \in {"select", "quit"} THEN 1 ELSE 0
        /\ pc[w] = "register" => Len(workerQueue) < maxWorkers

\* A task is in one place at a time: its caller, the queue, one goroutine, one
\* worker, or one of its two answer channels.
Places(t) ==
    (IF submitter[t] # "returned" THEN 1 ELSE 0)
    + Cardinality({i \in 1 .. Len(taskQueue) : taskQueue[i] = t})
    + Cardinality({h \in handing : h.task = t})
    + Cardinality({w \in Workers : current[w] = t})
    + (IF t \in response THEN 1 ELSE 0)
    + (IF failure[t] # "none" THEN 1 ELSE 0)

\* No task is lost on the way or found twice, whatever its timer, the dispatcher,
\* the goroutines and the workers do, stopped or not: what Stop leaves without an
\* answer is still queued or in the hands of a goroutine.
OnePlaceEach == \A t \in Tasks : Places(t) = 1

\* What a caller of the pool can tell of its task.
Phase == [t \in Tasks |->
            CASE submitter[t] = "new" -> "new"
              [] \E w \in Workers : current[w] = t -> "running"
              [] t \in response \/ failure[t] = "error" -> "answered"
              [] failure[t] = "full" -> "refused"
              [] OTHER -> "accepted"]

Service == INSTANCE TaskService WITH phase <- Phase, open <- dispatcher

\* The pool implements its promise: a task is run at most once, a refused one never,
\* and unless the pool is stopped each is answered or refused.
ImplementsService == Service!Spec

\* Once a Stop has been called every worker leaves, though tasks still queued or
\* in the hands of goroutines compete for it.
StopEndsWorkers == (\E s \in Stoppers : stopper[s] = "sending")
                      ~> (\A w \in Workers : pc[w] = "quit")
=============================================================================
