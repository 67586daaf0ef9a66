------------------------------ MODULE MCIncDec ------------------------------
(***************************************************************************)
(* Scheduler with the inc_dec manager, on a handful of processes.          *)
(***************************************************************************)
EXTENDS Scheduler, IncDecManager

CONSTANT InitialNumbers      \* sizes of the initial process set to start from

MCManagerState == Counter
MCManagerInit == InitialOutcomes(InitialNumbers)
MCManagerRC(m, running) == RCOutcomes(m)

NoProposals == <<>>
=============================================================================
