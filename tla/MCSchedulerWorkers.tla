------------------------- MODULE MCSchedulerWorkers -------------------------
EXTENDS SchedulerWorkers, TLC

WorkerSymmetry == Permutations(Workers)
=============================================================================
