----------------------------- MODULE MCExample -----------------------------
(***************************************************************************)
(* The examples with the random_diff manager.  They start all CRs.         *)
(***************************************************************************)
EXTENDS ExampleInvariants, RandomDiffManager

MCManagerState == {Stateless}
MCManagerInit == InitialOutcomes({NumProcesses})
MCManagerRC(m, running) == RCOutcomes(running)
NoProposals == <<>>
=============================================================================
