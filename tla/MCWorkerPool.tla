---------------------------- MODULE MCWorkerPool ----------------------------
(* Instances of WorkerPool for TLC. *)
EXTENDS WorkerPool

CONSTANTS t1, t2

TwoTasks == {t1, t2}
TwoThenOne == <<2, 0>>   \* Start(0) makes one worker
=============================================================================
