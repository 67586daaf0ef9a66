-------------------------- MODULE RandomDiffManager --------------------------
(***************************************************************************)
(* The manager of managers/random_diff_manager.c: with some probability it *)
(* proposes a random number of free CRs to start or of running CRs to shut *)
(* down.  It looks at the scheduler's running_crs on every call and keeps  *)
(* no state of its own.                                                    *)
(***************************************************************************)
EXTENDS Integers, FiniteSets

CONSTANT
  NumProcesses      \* num_scheduling_processes

ASSUME NumProcessesAssumption == NumProcesses \in Nat \ {0}

Processes == 1 .. NumProcesses
Stateless == "stateless"

\* manager_initial_number or a random number, 1 without a configuration; the
\* permutation is one of 1 .. num_init, whatever the comment above it says
InitialOutcomes(initialNumbers) ==
  {[pset |-> 1 .. num_init, manager |-> Stateless] : num_init \in initialNumbers}

\* The normal deviate is rounded away from 0 and cut off so that one running CR is
\* left and no more CRs are started than are free: 0 is left when there are none.
RCOutcomes(running) ==
  LET free == Processes \ running
      Outcome(type, S) == [rc_type |-> type, pset |-> S, manager |-> Stateless]
  IN      {Outcome("none", {})}
     \cup {Outcome("add", S) : S \in (SUBSET free) \ {{}}}
     \cup {Outcome("sub", S) : S \in (SUBSET running) \ {{}, running}}
=============================================================================
