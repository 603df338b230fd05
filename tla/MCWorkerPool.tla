---------------------------- MODULE MCWorkerPool ----------------------------
(***************************************************************************)
(* Model values for WorkerPool: one worker, whose channel holds two, and     *)
(* five tasks of two submitters, so that both can wait at a full channel.   *)
(***************************************************************************)
EXTENDS WorkerPool

CONSTANTS t1, t2, t3, t4, t5, w1, s1, s2

FiveTasks == {t1, t2, t3, t4, t5}
OneWorker == {w1}
TwoSubmitters == {s1, s2}
=============================================================================
