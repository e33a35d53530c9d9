---------------------------- MODULE MCWorkerPool ----------------------------
(* WorkerPool for TLC: two workers, and tasks enough to fill the queue while    *)
(* both work.  Two callers of Stop, of whom one waits for ever.                 *)
EXTENDS WorkerPool

CONSTANTS t1, t2, t3, w1, w2, s1, s2

MCTasks == {t1, t2, t3}
MCWorkers == {w1, w2}
MCStoppers == {s1, s2}
=============================================================================
