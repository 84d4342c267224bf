-------------------------- MODULE MCSchedulerState --------------------------
EXTENDS SchedulerState, TLC

PodSymmetry == Permutations(Pods)
=============================================================================
