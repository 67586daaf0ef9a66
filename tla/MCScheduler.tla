----------------------------- MODULE MCScheduler -----------------------------
(***************************************************************************)
(* Scheduler with the random_diff manager, on a handful of processes.      *)
(***************************************************************************)
EXTENDS SchedulerRefinement, RandomDiffManager

CONSTANT InitialNumbers      \* sizes of the initial process set to start from

MCManagerState == {Stateless}
MCManagerInit == InitialOutcomes(InitialNumbers)
MCManagerRC(m, running) == RCOutcomes(running)

NoProposals == <<>>
=============================================================================
