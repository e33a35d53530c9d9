---------------------------- MODULE TaskService ----------------------------
(***************************************************************************)
(* What the task pool of src/tcpserver/worker_pool.go promises: a task is  *)
(* refused, or it is run once and then answered; as long as nobody stops   *)
(* the pool, one of the two happens to every task.                         *)
(***************************************************************************)
CONSTANT Tasks

VARIABLES phase,  \* how far each task is
          open    \* the pool has not been stopped

vars == <<phase, open>>

Init == phase = [t \in Tasks |-> "new"] /\ open = TRUE

Move(t, from, to) == /\ phase[t] = from
                     /\ phase' = [phase EXCEPT ![t] = to]
                     /\ UNCHANGED open

Submit(t) == Move(t, "new", "accepted")
Refuse(t) == Move(t, "accepted", "refused")
Run(t)    == Move(t, "accepted", "running")
Reply(t)  == Move(t, "running", "answered")

Close == open /\ open' = FALSE /\ UNCHANGED phase

Next == \/ \E t \in Tasks : Submit(t) \/ Refuse(t) \/ Run(t) \/ Reply(t)
        \/ Close

\* While the pool is open every accepted task gets on; one that runs is answered
\* whether the pool is open or not.
Spec == /\ Init /\ [][Next]_vars
        /\ \A t \in Tasks : WF_vars(open /\ (Refuse(t) \/ Run(t))) /\ WF_vars(Reply(t))
=============================================================================
