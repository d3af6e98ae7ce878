---------------------------- MODULE MCWorkerHealth ----------------------------
(* Model values for WorkerHealth: two worker processes and up to two saves.  *)
EXTENDS WorkerHealth
CONSTANTS w1, w2, c1, c2
=============================================================================
