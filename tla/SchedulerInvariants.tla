------------------------ MODULE SchedulerInvariants ------------------------
(***************************************************************************)
(* What the safety of Scheduler rests on: the promise a resource manager   *)
(* makes, and the inductive invariant.                                     *)
(***************************************************************************)
EXTENDS Scheduler

\* A manager only starts CRs that do not run and only shuts CRs down that do.
\* random_diff keeps this promise; inc_dec, which never looks at running_crs,
\* does not.
ASSUME ManagerPromise ==
  \A m \in ManagerState, S \in SUBSET CR : \A change \in ManagerRC(m, S) :
    /\ change.rc_type # "none" => change.pset # {}
    /\ change.rc_type = "add" => change.pset \subseteq CR \ S
    /\ change.rc_type = "sub" => change.pset \subseteq S

\* A name the scheduler generates is not in the registry yet; the name of an offer
\* carries the tag before the offer's own.
NamesFresh ==
  /\ \A n \in Registered : n.kind = "op" => n.id < next_op
  /\ \A t \in DOMAIN rc_map : rc_map[t].new_pset_name = RcName(t - 1)

\* The inductive invariant, beyond the types: no step of any handler breaks it, so
\* that the registry, the offers and the process states always fit together.
IInv ==
  /\ RunningHaveState
  /\ BackrefsExact
  /\ PendingShutdownsAgree
  /\ NamesFresh
  /\ OffersAgree
  /\ UnstartedMembersOffered
  /\ NoCorruption
=============================================================================
