---------------------------- MODULE MCSimulation ----------------------------
(***************************************************************************)
(* Simulation with the random_diff manager, on a handful of processes.     *)
(***************************************************************************)
EXTENDS SimulationInvariants, RandomDiffManager

CONSTANT InitialNumbers      \* sizes of the initial process set to start from

MCManagerState == {Stateless}
MCManagerInit == InitialOutcomes(InitialNumbers)
MCManagerRC(m, running) == RCOutcomes(running)

\* A name that has both reserved prefixes, but not at its start.
MCProposals == <<[mpi |-> "inside", mpidynres |-> "inside"]>>
\* A plain name, without any of the reserved prefixes.
PlainProposal == <<[mpi |-> "absent", mpidynres |-> "absent"]>>
NoProposals == <<>>
=============================================================================
