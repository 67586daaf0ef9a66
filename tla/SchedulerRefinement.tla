------------------------- MODULE SchedulerRefinement -------------------------
(***************************************************************************)
(* Scheduler implements SchedulerService: its records, put together, are   *)
(* the state of the service.                                               *)
(***************************************************************************)
EXTENDS SchedulerInvariants

Service == INSTANCE SchedulerService WITH
  Size     <- Cardinality,
  running  <- running_crs,
  leaving  <- pending_shutdowns,
  origin   <- [c \in running_crs |-> process_states[c].origin_rc_tag],
  psets    <- pset_name_map,
  offers   <- rc_map,
  freshTag <- next_rc_tag,
  freshId  <- next_session_id,
  serving  <- (phase = "scheduling" /\ fault = "none"),
  told     <- (IF fault = "none" THEN sent ELSE {})

\* Each handler does one step of the service the scheduler promises an application, or
\* aborts: answers tell the truth, an exit takes exactly the process sets of the process
\* with it, and an accept starts exactly those that were offered and do not run.
ImplementsService == Service!Spec
=============================================================================
