----------------------------- MODULE Simulation -----------------------------
(***************************************************************************)
(* A whole simulation: the scheduler on rank 0, the workers of             *)
(* mpidynres_sim.c on the other ranks, the client library of mpidynres.c   *)
(* the simulated processes call, and the MPI messages between them.        *)
(*                                                                         *)
(* A worker sends a request to the scheduler and, for all calls but        *)
(* pset_free and RC_accept, blocks in MPI_Recv until it has the answer.    *)
(* The scheduler has one receive posted for each request tag and lets      *)
(* MPI_Waitany pick among the completed ones: requests of one source are   *)
(* only handled in order if they have the same tag.                        *)
(*                                                                         *)
(* The parts of one request (header, name, info object) are one message:   *)
(* the handler of the header receives the others from the same source      *)
(* before it does anything else.  The session argument is left out of the  *)
(* requests, because every handler ignores it.                             *)
(***************************************************************************)
EXTENDS Integers, FiniteSets, SequencesExt

CONSTANTS
  CR, Rank, ManagerState, ManagerInit, ManagerRC(_, _), Proposals,
  MaxRcTag, MaxOps, MaxSessions,    \* see Scheduler
  Calls,         \* the calls of the library the application makes
  MaxCalls,      \* bound: how many calls all processes make together
  Synchronised,  \* whether the application waits for the effect of RC_accept
  TellSessions   \* whether the ids of sessions are told apart: the calls ignore them

APICalls == {"session_init", "session_finalize", "session_get_info", "session_get_psets",
             "session_get_pset_info", "group_from_session_pset", "pset_create_op",
             "pset_free", "add_scheduling_hints", "RC_get", "RC_accept"}
ASSUME CallsAssumption == Calls \subseteq APICalls \cup {"group_from_self"}
ASSUME CallBoundAssumption ==
  MaxCalls \in Nat /\ MaxOps >= MaxCalls /\ MaxSessions >= MaxCalls
ASSUME SynchronisedAssumption == Synchronised \in BOOLEAN /\ TellSessions \in BOOLEAN

VARIABLES
  running_crs, pending_shutdowns, pset_name_map, rc_map, process_states, next_session_id,
  next_rc_tag, pending_resource_change, manager, cr_state, next_op, phase, fault, sent,
  pc,         \* "main" in the simulated program, "quit" after the shutdown command, or
              \* the tag of the message the worker is blocked in MPI_Recv for
  requests,   \* requests[c]: what c has sent and the scheduler has not handled
  inbox,      \* inbox[c]: what the scheduler has sent and c has not received
  offered,    \* offered[c]: tags RC_get returned to c and c has not accepted
  sessions,   \* sessions[c]: ids of the MPI_Session objects c holds
  calls       \* how many library calls are still to be made

S == INSTANCE Scheduler

schedulerVars == <<running_crs, pending_shutdowns, pset_name_map, rc_map, process_states,
                   next_session_id, next_rc_tag, pending_resource_change, manager, cr_state,
                   next_op, phase, fault, sent>>
workerVars == <<pc, offered, sessions, calls>>
allVars == <<schedulerVars, requests, inbox, workerVars>>

Idle == "IDLE_COMMAND"
AnswerTag == {"SESSION_CREATE_ANSWER", "SESSION_INFO_ANSWER", "SESSION_FINALIZE_ANSWER",
              "GET_PSETS_ANSWER", "PSET_INFO_ANSWER", "PSET_LOOKUP_ANSWER_SIZE",
              "PSET_LOOKUP_ANSWER", "PSET_OP_ANSWER", "SCHED_HINTS_ANSWER", "RC_ANSWER"}

Init ==
  /\ S!Init
  /\ pc = [c \in CR |-> Idle]
  /\ requests = [c \in CR |-> <<>>]
  /\ inbox = [c \in CR |-> {m \in sent : m.to = c}]
  /\ offered = [c \in CR |-> {}]
  /\ sessions = [c \in CR |-> {}]
  /\ calls = MaxCalls

-----------------------------------------------------------------------------
(***************************************************************************)
(* The library calls.  An MPI_Send of the few bytes of a request returns   *)
(* at once; the caller then waits for a message with the tag "until".      *)
(***************************************************************************)
Send(c, request, until) ==
  /\ requests' = [requests EXCEPT ![c] = Append(@, request)]
  /\ pc' = [pc EXCEPT ![c] = until]
  /\ UNCHANGED <<schedulerVars, inbox>>

Request(c, request, until) ==
  /\ Send(c, request, until)
  /\ UNCHANGED <<offered, sessions>>

InFlight(tag) == \E c \in CR : \E i \in DOMAIN requests[c] : requests[c][i].tag = tag

\* An application that waits until its last change has taken effect, and in which no
\* one else holds an offer, before it asks for another one: what was offered to this
\* process before is declined.
Settled(c) ==
  /\ ~InFlight("RC") /\ ~InFlight("RC_ACCEPT")
  /\ \A d \in CR : /\ pc[d] # "RC_ANSWER"
                   /\ d # c => offered[d] = {}

SessionInit(c) == Request(c, [tag |-> "SESSION_CREATE"], "SESSION_CREATE_ANSWER")
SessionGetInfo(c) == Request(c, [tag |-> "SESSION_INFO"], "SESSION_INFO_ANSWER")
SessionGetPsets(c) == Request(c, [tag |-> "GET_PSETS"], "GET_PSETS_ANSWER")
SessionGetPsetInfo(c, n) == Request(c, [tag |-> "PSET_INFO", name |-> n], "PSET_INFO_ANSWER")
GroupFromSessionPset(c, n) ==
  Request(c, [tag |-> "PSET_LOOKUP", name |-> n], "PSET_LOOKUP_ANSWER_SIZE")
PsetCreateOp(c, op, n1, n2, p) ==
  Request(c, [tag |-> "PSET_OP", op |-> op, name1 |-> n1, name2 |-> n2, proposal |-> p],
          "PSET_OP_ANSWER")
PsetFree(c, n) == Request(c, [tag |-> "PSET_FREE", name |-> n], "main")
AddSchedulingHints(c) == Request(c, [tag |-> "SCHED_HINTS"], "SCHED_HINTS_ANSWER")

\* Only a session that was made can be finalized; its object is freed.
SessionFinalize(c) ==
  /\ \E id \in sessions[c] : sessions' = [sessions EXCEPT ![c] = @ \ {id}]
  /\ Send(c, [tag |-> "SESSION_FINALIZE"], "SESSION_FINALIZE_ANSWER")
  /\ UNCHANGED offered

RCGet(c) ==
  /\ Synchronised => Settled(c)
  /\ offered' = IF Synchronised THEN [offered EXCEPT ![c] = {}] ELSE offered
  /\ Send(c, [tag |-> "RC"], "RC_ANSWER")
  /\ UNCHANGED sessions

RCAccept(c, t) ==
  /\ t \in offered[c]
  /\ offered' = [offered EXCEPT ![c] = @ \ {t}]
  /\ Send(c, [tag |-> "RC_ACCEPT", rc_tag |-> t], "main")
  /\ UNCHANGED sessions

\* The lookup of mpi://SELF is a call of its own in Calls: it never returns.
LookupNames == {n \in S!Names : (IF n = S!Self THEN "group_from_self"
                                 ELSE "group_from_session_pset") \in Calls}

Call(c) ==
  /\ fault = "none" /\ pc[c] = "main" /\ calls > 0
  /\ calls' = calls - 1
  /\ \/ "session_init" \in Calls /\ SessionInit(c)
     \/ "session_finalize" \in Calls /\ SessionFinalize(c)
     \/ "session_get_info" \in Calls /\ SessionGetInfo(c)
     \/ "session_get_psets" \in Calls /\ SessionGetPsets(c)
     \/ "session_get_pset_info" \in Calls /\ \E n \in S!Names : SessionGetPsetInfo(c, n)
     \/ \E n \in LookupNames : GroupFromSessionPset(c, n)
     \/ "pset_create_op" \in Calls
          /\ \E op \in S!SetOps \ {"unsupported"}, n1, n2 \in S!Names,
                p \in {S!NoProposal} \cup DOMAIN Proposals : PsetCreateOp(c, op, n1, n2, p)
     \/ "pset_free" \in Calls /\ \E n \in S!Names : PsetFree(c, n)
     \/ "add_scheduling_hints" \in Calls /\ AddSchedulingHints(c)
     \/ "RC_get" \in Calls /\ RCGet(c)
     \/ "RC_accept" \in Calls /\ \E t \in offered[c] : RCAccept(c, t)

\* MPI_Recv of the message the worker is blocked for: an answer, or an idle command.
Take(c, m) ==
  /\ fault = "none"
  /\ m.tag = pc[c]
  /\ inbox' = [inbox EXCEPT ![c] = @ \ {m}]
  /\ pc' = [pc EXCEPT ![c] =
       CASE m.tag = Idle /\ m.command = "shutdown" -> "quit"
         [] m.tag = "PSET_LOOKUP_ANSWER_SIZE" /\ m.size > 0 -> "PSET_LOOKUP_ANSWER"
         [] OTHER -> "main"]
  /\ offered' = IF m.tag = "RC_ANSWER" /\ m.type # "none"
                THEN [offered EXCEPT ![c] = @ \cup {m.rc_tag}] ELSE offered
  /\ sessions' = IF m.tag = "SESSION_CREATE_ANSWER"
                 THEN [sessions EXCEPT ![c] = @ \cup {IF TellSessions THEN m.session_id ELSE 0}]
                 ELSE sessions
  /\ UNCHANGED <<schedulerVars, requests, calls>>

Receive(c) == \E m \in inbox[c] : Take(c, m)

\* Mutant: the worker runs on after it has reported the end of the program.
MutExit(c) ==
  /\ fault = "none" /\ pc[c] = "main" /\ calls > 0 /\ calls' = calls - 1
  /\ Send(c, [tag |-> "DONE_RUNNING"], "main")
  /\ UNCHANGED <<offered, sessions>>

\* The simulated program returns or calls MPIDYNRES_exit.  The MPI_Ssend of the worker
\* ends when the scheduler's receive has matched it, and the worker is idle again.
Exit(c) ==
  /\ fault = "none" /\ pc[c] = "main"
  /\ Send(c, [tag |-> "DONE_RUNNING"], Idle)
  /\ offered' = [offered EXCEPT ![c] = {}]
  /\ sessions' = [sessions EXCEPT ![c] = {}]
  /\ UNCHANGED calls

-----------------------------------------------------------------------------
(***************************************************************************)
(* The scheduler's loop.                                                   *)
(***************************************************************************)
Dispatch(c, r) ==
  \/ r.tag = "DONE_RUNNING" /\ S!HandleWorkerDone(c)
  \/ r.tag = "SESSION_CREATE" /\ S!HandleSessionCreate(c)
  \/ r.tag = "SESSION_INFO" /\ S!HandleSessionInfo(c)
  \/ r.tag = "SESSION_FINALIZE" /\ S!HandleSessionFinalize(c)
  \/ r.tag = "GET_PSETS" /\ S!HandleGetPsets(c)
  \/ r.tag = "PSET_INFO" /\ S!HandlePsetInfo(c, r.name)
  \/ r.tag = "PSET_LOOKUP" /\ S!HandlePsetLookup(c, r.name)
  \/ r.tag = "PSET_OP" /\ S!HandlePsetOp(c, r.op, r.name1, r.name2, r.proposal)
  \/ r.tag = "PSET_FREE" /\ S!HandlePsetFree(r.name)
  \/ r.tag = "SCHED_HINTS" /\ S!HandleSchedHints(c)
  \/ r.tag = "RC" /\ S!HandleRC(c)
  \/ r.tag = "RC_ACCEPT" /\ S!HandleRCAccept(r.rc_tag)

\* Mutant: every worker gets what is sent to any of them.
MutDeliver == inbox' = [c \in CR |-> inbox[c] \cup sent']

\* What the scheduler sends in a step is on its way to the workers.
Deliver == inbox' = [c \in CR |-> inbox[c] \cup {m \in sent' : m.to = c}]

\* MPI_Waitany completes with any request that is the first of its tag and source.
HandleRequest(c, i) ==
  /\ \A j \in 1 .. (i - 1) : requests[c][j].tag # requests[c][i].tag
  /\ Dispatch(c, requests[c][i])
  /\ requests' = [requests EXCEPT ![c] = RemoveAt(@, i)]
  /\ Deliver
  /\ UNCHANGED workerVars

Handle == \E c \in CR : \E i \in DOMAIN requests[c] : HandleRequest(c, i)

\* The loop has ended: the receives still posted are freed, and nothing that
\* arrives any more is handled.
Shutdown == S!ShutdownAll /\ Deliver /\ UNCHANGED <<requests, workerVars>>

Ended == (fault # "none" \/ \A c \in CR : pc[c] = "quit") /\ UNCHANGED allVars

Worker(c) == Call(c) \/ Receive(c) \/ Exit(c)
Next == (\E c \in CR : Worker(c)) \/ Handle \/ Shutdown \/ Ended

Spec == Init /\ [][Next]_allVars

\* The scheduler polls as long as requests come; the workers are processes of their
\* own, and a simulated program that has made its calls returns.
FairSpec ==
  /\ Spec
  /\ WF_allVars(Handle \/ Shutdown)
  /\ \A c \in CR : WF_allVars(Receive(c)) /\ WF_allVars(Exit(c))

-----------------------------------------------------------------------------
(***************************************************************************)
(* Properties.                                                             *)
(***************************************************************************)
\* Tags a request carries that its sender does not wait for an answer to.
Unanswered == {"DONE_RUNNING", "PSET_FREE", "RC_ACCEPT"}
Asks(c) == {i \in DOMAIN requests[c] : requests[c][i].tag \notin Unanswered}
Answers(c) == {m \in inbox[c] : m.tag \in AnswerTag}
Started(c) == \E m \in inbox[c] : m.tag = Idle /\ m.command = "start"
Done(c) == \E i \in DOMAIN requests[c] : requests[c][i].tag = "DONE_RUNNING"

\* What a request may be.
RequestMessage ==
     [tag : {"DONE_RUNNING", "SESSION_CREATE", "SESSION_INFO", "SESSION_FINALIZE", "GET_PSETS",
             "SCHED_HINTS", "RC"}]
  \cup [tag : {"PSET_INFO", "PSET_LOOKUP", "PSET_FREE"}, name : S!PsetName]
  \cup [tag : {"PSET_OP"}, op : {"union", "intersect", "difference"}, name1 : S!PsetName,
        name2 : S!PsetName, proposal : {S!NoProposal} \cup DOMAIN Proposals]
  \cup [tag : {"RC_ACCEPT"}, rc_tag : Nat]

\* The state of the workers, of their sessions and of the messages has its type.
TypeOK ==
  /\ pc \in [CR -> {"main", "quit", Idle} \cup AnswerTag]
  /\ requests \in [CR -> Seq(RequestMessage)]
  /\ inbox \in [CR -> SUBSET S!Message]
  /\ \A c \in CR : \A m \in inbox[c] : m.to = c
  /\ offered \in [CR -> SUBSET (0 .. MaxRcTag + 1)]
  /\ sessions \in [CR -> SUBSET (0 .. MaxSessions)]
  /\ calls \in 0 .. MaxCalls

\* The scheduler takes a CR for running exactly from the moment it has sent the start
\* command to the moment it handles the worker's done message; a start command only
\* ever reaches a worker in its idle loop, and it is the only message there.
RunningAgree ==
  \A c \in CR :
    /\ c \in running_crs <=> pc[c] \notin {Idle, "quit"} \/ Started(c) \/ Done(c)
    /\ Started(c) => pc[c] = Idle /\ ~Done(c) /\ Cardinality(inbox[c]) = 1

\* Every caller that waits has one request underway or its answer in its inbox, and
\* no answer comes to a process that does not wait: requests and answers of several
\* processes never get mixed up or lost.
AnswerAwaited ==
  \A c \in CR :
    IF pc[c] \in AnswerTag
    THEN \/ Cardinality(Asks(c)) = 1 /\ Answers(c) = {}
         \/ Asks(c) = {} /\ \E m \in Answers(c) : m.tag = pc[c]
         \/ fault # "none"
    ELSE Asks(c) = {} /\ Answers(c) = {}

\* An application that waits for the effect of each accept never makes the scheduler
\* abort: the assertions on accepts and starts hold, and no tag is refused.
FaultFree == fault = "none"

\* Whatever an application does that waits for the effect of its accepts, the scheduler
\* aborts for one request only: hints, whose answer it frees although it is
\* MPI_INFO_NULL.
OnlyHintsAbort == fault \in {"none", "free_null_info"}

\* No two processes have a session with the same id open at the same time: ids are not
\* handed out twice, whatever is finalized in between and whoever exits without it.
SessionsDistinct ==
  \A c, d \in CR : c # d => sessions[c] \cap sessions[d] = {}

\* What get_psets tells a running process is true, whatever names were proposed, taken or
\* freed by others in the meantime: no set made under a taken name replaces another.
PsetsTold == S!BackrefsExact

\* The simulation uses the scheduler as its module assumes: a CR sends requests only
\* while the scheduler takes it for running.
ImplementsScheduler == S!Spec

\* Every call of the library that waits for an answer returns, unless the job aborts.
CallsReturn ==
  \A c \in CR : (pc[c] \in AnswerTag) ~> (pc[c] = "main" \/ fault # "none")

\* When the application ends, the simulation ends: every worker quits.
Termination == <>(fault # "none" \/ \A c \in CR : pc[c] = "quit")

\* The assertion at the head of rc_accept (scheduler_handlers.c:824): some change is
\* pending when an accept is handled.
AcceptAssertion == fault # "no_pending_change"

\* A process set is deleted "if all processes in the pset have marked it as free or have
\* exited" (mpidynres.h:80), so not before each member still running has made a call.
FreedByAll ==
  [][running_crs' = running_crs =>
       \A n \in S!Registered \ S!Registered' :
         Cardinality(pset_name_map[n]) <= MaxCalls - calls]_allVars

\* A proposed name is only passed over if it is reserved, by one of the prefixes
\* "mpi://" and "mpidynres://" (scheduler.c:464-467), or taken: an answer that names a
\* new process set names the one proposed.
ProposalsHonoured ==
  [][\A c \in CR : \A i \in DOMAIN requests[c] :
       LET r == requests[c][i] IN
       (/\ r.tag = "PSET_OP" /\ requests'[c] = RemoveAt(requests[c], i)
        /\ r.proposal # S!NoProposal
        /\ Proposals[r.proposal] = [mpi |-> "absent", mpidynres |-> "absent"]
        /\ S!Proposed(r.proposal) \notin S!Registered)
       => \A m \in sent' : m.name \in {S!NoName, S!Proposed(r.proposal)}]_allVars
=============================================================================
