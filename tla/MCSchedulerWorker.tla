-------------------------- MODULE MCSchedulerWorker --------------------------
(* Model values for SchedulerWorker.                                         *)
EXTENDS SchedulerWorker, TLC

MCRetryDelays == <<1, 2>>
MCOneDelay == <<1>>

WorkerSymmetry == Permutations(Ids) \cup Permutations(Claimants)
=============================================================================
