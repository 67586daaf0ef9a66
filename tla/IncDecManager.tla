---------------------------- MODULE IncDecManager ----------------------------
(***************************************************************************)
(* The manager of managers/inc_dec_manager.c: every request is answered    *)
(* with a change of a single CR, counting up and down again.  It never     *)
(* looks at what the scheduler's running_crs are, nor at what became of    *)
(* the changes it has proposed.                                            *)
(***************************************************************************)
EXTENDS Integers

CONSTANTS
  NumProcesses,     \* num_scheduling_processes
  MaxRank           \* bound: the manager is not asked for a rank beyond this one

ASSUME NumProcessesAssumption == NumProcesses \in Nat \ {0} /\ MaxRank \in Nat

Processes == 1 .. NumProcesses
Ranks == 0 .. MaxRank

\* struct inc_dec_manager
Counter == [next : Ranks, increasing : BOOLEAN]

\* manager_initial_number or a random number, 1 without a configuration
InitialOutcomes(initialNumbers) ==
  {[pset |-> 1 .. num_init,
    manager |-> IF num_init = NumProcesses
                THEN [next |-> NumProcesses, increasing |-> FALSE]
                ELSE [next |-> NumProcesses + 1, increasing |-> TRUE]] :
     num_init \in initialNumbers}

Updated(mgr) ==
  CASE mgr.increasing /\ mgr.next = NumProcesses -> [mgr EXCEPT !.increasing = FALSE]
    [] ~mgr.increasing /\ mgr.next = 2 -> [mgr EXCEPT !.increasing = TRUE]
    [] OTHER -> [mgr EXCEPT !.next = IF mgr.increasing THEN @ + 1 ELSE @ - 1]

RCOutcomes(mgr) ==
  {change \in {[rc_type |-> IF mgr.increasing THEN "add" ELSE "sub",
                pset |-> {mgr.next}, manager |-> Updated(mgr)]} :
     change.manager \in Counter}
=============================================================================
