-------------------------- MODULE RandomDiffProofs ---------------------------
(***************************************************************************)
(* The random_diff manager is one the theorems about Scheduler apply to.   *)
(***************************************************************************)
EXTENDS RandomDiffManager, TLAPS

\* What SchedulerInvariants asks of a manager: whatever the deviate and the permutation,
\* handle_rc_msg starts CRs that exist and do not run, shuts down some that do, leaves one
\* running, and proposes no change of nothing (random_diff_manager.c:226-266).
THEOREM RandomDiffKeepsPromise ==
  ASSUME NEW running \in SUBSET Processes, NEW change \in RCOutcomes(running)
  PROVE  /\ change.rc_type # "none" => change.pset # {}
         /\ change.rc_type = "add" => change.pset \subseteq Processes \ running
         /\ change.rc_type = "sub" => change.pset \subseteq running /\ change.pset # running
<1>. DEFINE Outcome(type, S) == [rc_type |-> type, pset |-> S, manager |-> Stateless]
<1>1. \/ change = Outcome("none", {})
      \/ \E S \in (SUBSET (Processes \ running)) \ {{}} : change = Outcome("add", S)
      \/ \E S \in (SUBSET running) \ {{}, running} : change = Outcome("sub", S)
  BY DEF RCOutcomes
<1>. QED
  BY <1>1

\* The first process set is never empty and names existing CRs only, for every number
\* manager_get_initial_pset may settle on (random_diff_manager.c:159-205).
THEOREM RandomDiffStartsSome ==
  ASSUME NEW initialNumbers \in SUBSET Processes, NEW first \in InitialOutcomes(initialNumbers)
  PROVE  first.pset \in (SUBSET Processes) \ {{}}
<1>1. PICK num_init \in Processes : first.pset = 1 .. num_init
  BY DEF InitialOutcomes
<1>2. 1 \in 1 .. num_init /\ 1 .. num_init \subseteq Processes
  BY NumProcessesAssumption DEF Processes
<1>. QED
  BY <1>1, <1>2
=============================================================================
