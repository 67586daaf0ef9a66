------------------------------ MODULE Scheduler ------------------------------
(***************************************************************************)
(* The MPIDYNRES scheduler: rank 0 of the base communicator.  It owns the  *)
(* registry of process sets, the running computing resources (CRs), the   *)
(* resource changes it has offered, and it answers the requests of the    *)
(* simulated processes one at a time (scheduler.c, scheduler_handlers.c).  *)
(*                                                                         *)
(* Every handler is one action: the loop of MPIDYNRES_scheduler_schedule   *)
(* runs one handler to its end before it looks at the next request.  In    *)
(* this module a request may come from any CR at any time; the module      *)
(* Simulation restricts the requests to those the client library sends.    *)
(***************************************************************************)
EXTENDS Integers, FiniteSets

CONSTANTS
  CR,               \* ranks 1 .. num_scheduling_processes of the communicator
  Rank,             \* every rank a manager may name, the impossible ones too
  ManagerState,     \* the private state of the resource manager
  ManagerInit,      \* outcomes of manager_init and manager_get_initial_pset
  ManagerRC(_, _),  \* outcomes of manager_handle_rc_msg(state, running_crs)
  Proposals,        \* what users may propose as a name, see IsReserved
  MaxRcTag,         \* bound: no resource change is offered beyond this tag
  MaxOps,           \* bound: number of process sets created by operations
  MaxSessions       \* bound: number of session ids handed out

(***************************************************************************)
(* Process set names.  Only their equality and their origin matter: a name *)
(* is the kind of string it is and a number that tells it from the others  *)
(* of its kind.                                                            *)
(***************************************************************************)
PsetName == [kind : {"empty", "self", "world", "rc", "op", "proposed"}, id : Nat]
NoName      == [kind |-> "empty", id |-> 0]      \* the empty string
Self        == [kind |-> "self",  id |-> 0]      \* "mpi://SELF"
World       == [kind |-> "world", id |-> 0]      \* "mpi://WORLD"
MutRcName(t) == [kind |-> "rc", id |-> 0]        \* mutant: the tag is not in the name
RcName(t)   == [kind |-> "rc", id |-> t]         \* "mpidynres://rc_<t>"
OpName(i)   == [kind |-> "op", id |-> i]         \* "mpidynres://op_<random>"
Proposed(p) == [kind |-> "proposed", id |-> p]   \* proposed by a user

RCType == {"none", "add", "sub"}
ChangeOf(S) == [rc_type : RCType, pset : SUBSET S, manager : ManagerState]

\* A proposal says where strstr() finds each reserved prefix in the name.
Occurrence == [mpi : {"absent", "start", "inside"},
               mpidynres : {"absent", "start", "inside"}]

ASSUME CRAssumption == IsFiniteSet(Rank) /\ CR \subseteq Rank
ASSUME BoundAssumption == MaxRcTag \in Nat /\ MaxOps \in Nat /\ MaxSessions \in Nat
ASSUME ProposalAssumption ==
  DOMAIN Proposals \subseteq Nat \ {0} /\ Proposals \in [DOMAIN Proposals -> Occurrence]
ASSUME ManagerAssumption ==
  /\ ManagerInit \subseteq [pset : (SUBSET CR) \ {{}}, manager : ManagerState]
  /\ \A m \in ManagerState, S \in SUBSET Rank : ManagerRC(m, S) \subseteq ChangeOf(Rank)

NoTag == -1
NoProposal == 0

(***************************************************************************)
(* struct process_state.  A rank without an entry in process_states has    *)
(* active = FALSE here.                                                    *)
(***************************************************************************)
Backref == [name : PsetName, pset_size : Nat]
ProcessState == [active : BOOLEAN, pending_shutdown : BOOLEAN, dynamic_start : BOOLEAN,
                 origin_rc_tag : Int, psets_containing : SUBSET Backref]
NoProcess == [active |-> FALSE, pending_shutdown |-> FALSE, dynamic_start |-> FALSE,
              origin_rc_tag |-> NoTag, psets_containing |-> {}]

CrState == {"idle", "running", "reserved", "proposed_shutdown", "accepted_shutdown"}

\* Where the scheduler, and with it the whole MPI job, aborts.
Fault == {"none",
          "done_not_running",      \* die: worker done from a CR that is not running
          "done_no_state",         \* assert: no process state for a running CR
          "done_backrefs",         \* assert: process sets left over at the exit
          "info_no_state",         \* assert: session info without process state
          "get_psets_no_state",    \* null dereference in get_psets
          "unsupported_op",        \* die: unknown set operation
          "free_null_info",        \* MPI_Info_free on MPI_INFO_NULL
          "sub_no_state",          \* assert: shutdown proposed for no process
          "no_pending_change",     \* assert: accept while none is pending
          "invalid_tag",           \* die: tag accepted twice or never offered
          "start_running",         \* assert: the CR to start is already running
          "start_no_rank"}         \* MPI_Send to a rank outside the communicator

VARIABLES
  running_crs, pending_shutdowns, pset_name_map, rc_map, process_states,
  next_session_id, next_rc_tag, pending_resource_change,   \* struct MPIDYNRES_scheduler
  manager,     \* what scheduler->manager points to
  cr_state,    \* g_states of logging.c
  next_op,     \* how many names gen_random_uri has drawn for new process sets
  phase,       \* "scheduling" until the main loop has ended and all were shut down
  fault,       \* where the program aborted
  sent         \* the messages the last action sent to the CRs

psetVars == <<pset_name_map, next_op>>
rcVars == <<rc_map, next_rc_tag, pending_resource_change, manager>>
crVars == <<running_crs, pending_shutdowns, cr_state>>
vars == <<crVars, psetVars, rcVars, process_states, next_session_id, phase, fault, sent>>

-----------------------------------------------------------------------------
(***************************************************************************)
(* The messages of the scheduler: the idle commands and the answers.       *)
(***************************************************************************)
Command(c, what) == [to |-> c, tag |-> "IDLE_COMMAND", command |-> what]
SessionCreateAnswer(c, i) == [to |-> c, tag |-> "SESSION_CREATE_ANSWER", session_id |-> i]
SessionInfoAnswer(c, ps) ==
  [to |-> c, tag |-> "SESSION_INFO_ANSWER", pending_shutdown |-> ps.pending_shutdown,
   dynamic_start |-> ps.dynamic_start, origin_rc_tag |-> ps.origin_rc_tag]
SessionFinalizeAnswer(c) == [to |-> c, tag |-> "SESSION_FINALIZE_ANSWER"]
GetPsetsAnswer(c, ns) == [to |-> c, tag |-> "GET_PSETS_ANSWER", psets |-> ns]
MutPsetInfoAnswer(c, k) == [to |-> c, tag |-> "PSET_INFO_ANSWER", mpi_size |-> k - 1]
PsetInfoAnswer(c, k) == [to |-> c, tag |-> "PSET_INFO_ANSWER", mpi_size |-> k]
LookupAnswerSize(c, k) == [to |-> c, tag |-> "PSET_LOOKUP_ANSWER_SIZE", size |-> k]
LookupAnswer(c, S) == [to |-> c, tag |-> "PSET_LOOKUP_ANSWER", pset |-> S]
PsetOpAnswer(c, n) == [to |-> c, tag |-> "PSET_OP_ANSWER", name |-> n]
SchedHintsAnswer(c) == [to |-> c, tag |-> "SCHED_HINTS_ANSWER"]
\* Mutant: the tag in the name is told instead of the tag of the change.
MutRcAnswer(c, t, ty, n) ==
  [to |-> c, tag |-> "RC_ANSWER", rc_tag |-> t - 1, type |-> ty, name |-> n]
RcAnswer(c, t, ty, n) == [to |-> c, tag |-> "RC_ANSWER", rc_tag |-> t, type |-> ty, name |-> n]

Message ==
     [to : CR, tag : {"IDLE_COMMAND"}, command : {"start", "shutdown"}]
  \cup [to : CR, tag : {"SESSION_CREATE_ANSWER"}, session_id : Nat]
  \cup [to : CR, tag : {"SESSION_INFO_ANSWER"}, pending_shutdown : BOOLEAN,
        dynamic_start : BOOLEAN, origin_rc_tag : Int]
  \cup [to : CR, tag : {"SESSION_FINALIZE_ANSWER", "SCHED_HINTS_ANSWER"}]
  \cup [to : CR, tag : {"GET_PSETS_ANSWER"}, psets : SUBSET Backref]
  \cup [to : CR, tag : {"PSET_INFO_ANSWER"}, mpi_size : Nat]
  \cup [to : CR, tag : {"PSET_LOOKUP_ANSWER_SIZE"}, size : Nat]
  \cup [to : CR, tag : {"PSET_LOOKUP_ANSWER"}, pset : SUBSET Rank]
  \cup [to : CR, tag : {"PSET_OP_ANSWER"}, name : PsetName]
  \cup [to : CR, tag : {"RC_ANSWER"}, rc_tag : Int, type : RCType, name : PsetName]

(***************************************************************************)
(* The registry of process sets and the back references to it.             *)
(***************************************************************************)
Registered == DOMAIN pset_name_map

\* set_pset_name_insert keeps the entry a set already has under the same name
InsertName(refs, ref) ==
  IF \E r \in refs : r.name = ref.name THEN refs ELSE refs \cup {ref}

\* Give every process among the members of n the back reference to n.
AddBackrefs(states, n, members) ==
  [c \in Rank |->
    IF c \in members /\ states[c].active
    THEN [states[c] EXCEPT !.psets_containing =
            InsertName(@, [name |-> n, pset_size |-> Cardinality(members)])]
    ELSE states[c]]

Register(map, n, members) ==
  [m \in DOMAIN map \cup {n} |-> IF m \in DOMAIN map THEN map[m] ELSE members]

\* Mutants: pset_free forgets the registry, or the back references.
MutUnregister(map, names) == map
MutDropBackrefs(states, names) == states

\* pset_free, for each of the names: a name that is not registered is left alone
Unregister(map, names) == [n \in DOMAIN map \ names |-> map[n]]
DropBackrefs(states, names) ==
  [c \in Rank |-> [states[c] EXCEPT !.psets_containing =
                     {r \in @ : r.name \notin names}]]

IsReserved(p) ==
  \/ Proposals[p].mpi \in {"absent", "start"}
  \/ Proposals[p].mpidynres \in {"absent", "start"}

(***************************************************************************)
(* MPIDYNRES_scheduler_start_cr, for every member of S.                    *)
(***************************************************************************)
\* Mutants: start_cr leaves out a part of its work.
MutPsetsContaining(c, map) == {}
MutStarted(states, S, map, dynamic, tag) == states
MutStartCommands(S) == {}
MutSetState(S, state) == cr_state' = cr_state

PsetsContaining(c, map) ==
  {[name |-> n, pset_size |-> Cardinality(map[n])] : n \in {m \in DOMAIN map : c \in map[m]}}

Started(states, S, map, dynamic, tag) ==
  [c \in Rank |->
    IF c \in S
    THEN [active |-> TRUE, pending_shutdown |-> FALSE, dynamic_start |-> dynamic,
          origin_rc_tag |-> tag, psets_containing |-> PsetsContaining(c, map)]
    ELSE states[c]]

StartCommands(S) == {Command(c, "start") : c \in S}

SetState(S, state) == cr_state' = [c \in CR |-> IF c \in S THEN state ELSE cr_state[c]]

-----------------------------------------------------------------------------
(***************************************************************************)
(* The state in which the main loop begins: the scheduler was created and  *)
(* MPIDYNRES_start_first_crs has started the initial process set.          *)
(***************************************************************************)
Init ==
  /\ \E first \in ManagerInit :
       /\ manager = first.manager
       /\ running_crs = first.pset
       /\ pset_name_map = [n \in {World} |-> first.pset]
       /\ process_states = Started([c \in Rank |-> NoProcess], first.pset,
                                   [n \in {World} |-> first.pset], FALSE, NoTag)
       /\ cr_state = [c \in CR |-> IF c \in first.pset THEN "running" ELSE "idle"]
       /\ sent = StartCommands(first.pset)
  /\ pending_shutdowns = {}
  /\ rc_map = [t \in {} |-> {}]
  /\ next_session_id = 0
  /\ next_rc_tag = 0
  /\ pending_resource_change = FALSE
  /\ next_op = 0
  /\ phase = "scheduling"
  /\ fault = "none"

\* MPIDYNRES_scheduler_schedule looks for a request while some CR is running.
Scheduling == phase = "scheduling" /\ fault = "none" /\ running_crs # {}

\* The program ends at this point; what it had changed before no longer matters.
Abort(f, messages) ==
  /\ fault' = f
  /\ sent' = messages
  /\ UNCHANGED <<crVars, psetVars, rcVars, process_states, next_session_id, phase>>

HandleWorkerDone(src) ==
  LET names == {r.name : r \in process_states[src].psets_containing}
      freed == names \cap Registered
  IN
  /\ Scheduling
  /\ \/ src \notin running_crs /\ Abort("done_not_running", {})
     \/ /\ src \in running_crs /\ ~process_states[src].active
        /\ Abort("done_no_state", {})
     \/ /\ src \in running_crs /\ process_states[src].active
        /\ names # freed /\ Abort("done_backrefs", {})
     \/ /\ src \in running_crs /\ process_states[src].active /\ names = freed
        /\ pending_shutdowns' = pending_shutdowns \ {src}
        /\ pset_name_map' = Unregister(pset_name_map, freed)
        /\ process_states' = [DropBackrefs(process_states, freed) EXCEPT ![src] = NoProcess]
        /\ running_crs' = running_crs \ {src}
        /\ SetState({src}, "idle")
        /\ sent' = {}
        /\ UNCHANGED <<rcVars, next_op, next_session_id, phase, fault>>

(***************************************************************************)
(* Requests that only read, or only count.                                 *)
(***************************************************************************)
\* Mutant: the id is not used up.
MutSessionCreate(src) ==
  /\ Scheduling
  /\ sent' = {SessionCreateAnswer(src, next_session_id)}
  /\ UNCHANGED <<crVars, psetVars, rcVars, process_states, next_session_id, phase, fault>>

HandleSessionCreate(src) ==
  /\ Scheduling
  /\ next_session_id < MaxSessions
  /\ sent' = {SessionCreateAnswer(src, next_session_id)}
  /\ next_session_id' = next_session_id + 1
  /\ UNCHANGED <<crVars, psetVars, rcVars, process_states, phase, fault>>

HandleSessionInfo(src) ==
  /\ Scheduling
  /\ \/ ~process_states[src].active /\ Abort("info_no_state", {})
     \/ /\ process_states[src].active
        /\ sent' = {SessionInfoAnswer(src, process_states[src])}
        /\ UNCHANGED <<crVars, psetVars, rcVars, process_states, next_session_id, phase, fault>>

HandleSessionFinalize(src) ==
  /\ Scheduling
  /\ sent' = {SessionFinalizeAnswer(src)}
  /\ UNCHANGED <<crVars, psetVars, rcVars, process_states, next_session_id, phase, fault>>

HandleGetPsets(src) ==
  /\ Scheduling
  /\ \/ ~process_states[src].active /\ Abort("get_psets_no_state", {})
     \/ /\ process_states[src].active
        /\ sent' = {GetPsetsAnswer(src, process_states[src].psets_containing
                                          \cup {[name |-> Self, pset_size |-> 1]})}
        /\ UNCHANGED <<crVars, psetVars, rcVars, process_states, next_session_id, phase, fault>>

\* mpi_size 0 stands for MPI_INFO_NULL, the answer for an unknown name
HandlePsetInfo(src, name) ==
  /\ Scheduling
  /\ sent' = {PsetInfoAnswer(src, IF name = Self THEN 1
                                  ELSE IF name \in Registered
                                       THEN Cardinality(pset_name_map[name]) ELSE 0)}
  /\ UNCHANGED <<crVars, psetVars, rcVars, process_states, next_session_id, phase, fault>>

\* Mutant: an unknown name is not answered.
MutPsetLookup(src, name) ==
  /\ Scheduling
  /\ sent' = IF name \in Registered
             THEN {LookupAnswerSize(src, Cardinality(pset_name_map[name])),
                   LookupAnswer(src, pset_name_map[name])}
             ELSE {}
  /\ UNCHANGED <<crVars, psetVars, rcVars, process_states, next_session_id, phase, fault>>

\* For mpi://SELF the handler returns before it has sent an answer size.
HandlePsetLookup(src, name) ==
  /\ Scheduling
  /\ sent' = IF name = Self THEN {LookupAnswer(src, {src})}
             ELSE IF name \in Registered
                  THEN {LookupAnswerSize(src, Cardinality(pset_name_map[name])),
                        LookupAnswer(src, pset_name_map[name])}
                  ELSE {LookupAnswerSize(src, 0)}
  /\ UNCHANGED <<crVars, psetVars, rcVars, process_states, next_session_id, phase, fault>>

\* The managers answer every hint with MPI_INFO_NULL, which is sent and then freed.
HandleSchedHints(src) ==
  /\ Scheduling
  /\ Abort("free_null_info", {SchedHintsAnswer(src)})

(***************************************************************************)
(* Requests that change the registry of process sets.                      *)
(***************************************************************************)
HandlePsetFree(name) ==
  LET freed == {name} \cap Registered
  IN
  /\ Scheduling
  /\ pset_name_map' = Unregister(pset_name_map, freed)
  /\ process_states' = DropBackrefs(process_states, freed)
  /\ sent' = {}
  /\ UNCHANGED <<crVars, rcVars, next_op, next_session_id, phase, fault>>

Operand(src, name) == IF name = Self THEN {src} ELSE pset_name_map[name]

\* Mutant: the operands of the difference are swapped.
MutResult(op, A, B) == CASE op = "union" -> A \cup B
                         [] op = "intersect" -> A \cap B
                         [] op = "difference" -> B \ A
                         [] OTHER -> {}

Result(op, A, B) == CASE op = "union" -> A \cup B
                      [] op = "intersect" -> A \cap B
                      [] op = "difference" -> A \ B
                      [] OTHER -> {}

\* Mutant: whether the name exists is not checked.
MutNewName(proposal) ==
  IF proposal # NoProposal /\ ~IsReserved(proposal) THEN Proposed(proposal) ELSE OpName(next_op)

NewName(proposal) ==
  IF proposal # NoProposal /\ Proposed(proposal) \notin Registered /\ ~IsReserved(proposal)
  THEN Proposed(proposal)
  ELSE OpName(next_op)

HandlePsetOp(src, op, name1, name2, proposal) ==
  LET known == {name1, name2} \subseteq Registered \cup {Self}
      members == Result(op, Operand(src, name1), Operand(src, name2))
      name == NewName(proposal)
  IN
  /\ Scheduling
  /\ \/ /\ known /\ op \notin {"union", "intersect", "difference"}
        /\ Abort("unsupported_op", {})
     \/ /\ \/ ~known
           \/ known /\ op \in {"union", "intersect", "difference"} /\ members = {}
        /\ sent' = {PsetOpAnswer(src, NoName)}
        /\ UNCHANGED <<crVars, psetVars, rcVars, process_states, next_session_id, phase, fault>>
     \/ /\ known /\ op \in {"union", "intersect", "difference"} /\ members # {}
        /\ next_op < MaxOps
        /\ process_states' = AddBackrefs(process_states, name, members)
        /\ pset_name_map' = Register(pset_name_map, name, members)
        /\ next_op' = next_op + 1
        /\ sent' = {PsetOpAnswer(src, name)}
        /\ UNCHANGED <<crVars, rcVars, next_session_id, phase, fault>>

(***************************************************************************)
(* Resource changes.                                                       *)
(***************************************************************************)
\* Mutant: the caller is not told that there is no change.
MutRefuseRC(src) ==
  /\ pending_shutdowns # {}
  /\ pending_resource_change' = TRUE
  /\ sent' = {}
  /\ UNCHANGED <<crVars, psetVars, rc_map, next_rc_tag, manager, process_states,
                 next_session_id, phase, fault>>

\* No change is proposed: shutdowns are pending, or the manager wants none.
RefuseRC(src) ==
  /\ \/ pending_shutdowns # {} /\ manager' = manager
     \/ /\ pending_shutdowns = {}
        /\ \E change \in ManagerRC(manager, running_crs) :
             change.rc_type = "none" /\ manager' = change.manager
  /\ pending_resource_change' = TRUE
  /\ sent' = {RcAnswer(src, NoTag, "none", NoName)}
  /\ UNCHANGED <<crVars, psetVars, rc_map, next_rc_tag, process_states, next_session_id,
                 phase, fault>>

\* The name carries the tag before the one the change is known by.
Offer(change) ==
  /\ manager' = change.manager
  /\ rc_map' = [t \in DOMAIN rc_map \cup {next_rc_tag + 1} |->
                  IF t = next_rc_tag + 1
                  THEN [rc_type |-> change.rc_type, new_pset_name |-> RcName(next_rc_tag),
                        pset |-> change.pset]
                  ELSE rc_map[t]]
  /\ next_rc_tag' = next_rc_tag + 2
  /\ pset_name_map' = Register(pset_name_map, RcName(next_rc_tag), change.pset)
  /\ pending_resource_change' = TRUE

OfferAdd(src, change) ==
  /\ change.rc_type = "add"
  /\ Offer(change)
  /\ process_states' = AddBackrefs(process_states, RcName(next_rc_tag), change.pset)
  /\ SetState(change.pset, "reserved")
  /\ sent' = {RcAnswer(src, next_rc_tag + 1, "add", RcName(next_rc_tag))}
  /\ UNCHANGED <<running_crs, pending_shutdowns, next_op, next_session_id, phase, fault>>

OfferSub(src, change) ==
  LET named == AddBackrefs(process_states, RcName(next_rc_tag), change.pset)
  IN
  /\ change.rc_type = "sub"
  /\ \/ /\ \E c \in change.pset : ~process_states[c].active
        /\ Abort("sub_no_state", {})
     \/ /\ \A c \in change.pset : process_states[c].active
        /\ Offer(change)
        /\ pending_shutdowns' = change.pset
        /\ process_states' = [c \in Rank |-> IF c \in change.pset
                                THEN [named[c] EXCEPT !.pending_shutdown = TRUE]
                                ELSE named[c]]
        /\ SetState(change.pset, "proposed_shutdown")
        /\ sent' = {RcAnswer(src, next_rc_tag + 1, "sub", RcName(next_rc_tag))}
        /\ UNCHANGED <<running_crs, next_op, next_session_id, phase, fault>>

\* Mutant: pending shutdowns do not keep a change from being proposed.
MutHandleRC(src) ==
  /\ Scheduling /\ next_rc_tag < MaxRcTag
  /\ \E change \in ManagerRC(manager, running_crs) :
       OfferAdd(src, change) \/ OfferSub(src, change)

HandleRC(src) ==
  /\ Scheduling
  /\ \/ RefuseRC(src)
     \/ /\ pending_shutdowns = {}
        /\ next_rc_tag < MaxRcTag
        /\ \E change \in ManagerRC(manager, running_crs) :
             OfferAdd(src, change) \/ OfferSub(src, change)

AcceptAdd(tag) ==
  LET starting == rc_map[tag].pset
  IN
  /\ rc_map[tag].rc_type = "add"
  /\ \/ /\ \E c \in starting : c \in running_crs \/ process_states[c].active
        /\ Abort("start_running", {})
     \/ starting \ CR # {} /\ Abort("start_no_rank", {})
     \/ /\ \A c \in starting : c \notin running_crs /\ ~process_states[c].active
        /\ starting \subseteq CR
        /\ process_states' = Started(process_states, starting, pset_name_map, TRUE, tag)
        /\ running_crs' = running_crs \cup starting
        /\ SetState(starting, "running")
        /\ sent' = StartCommands(starting)
        /\ pending_resource_change' = FALSE
        /\ rc_map' = [t \in DOMAIN rc_map \ {tag} |-> rc_map[t]]
        /\ UNCHANGED <<pending_shutdowns, psetVars, next_rc_tag, manager, next_session_id,
                       phase, fault>>

\* The shutdown was registered when it was proposed: accepting it only logs it.
AcceptSub(tag) ==
  /\ rc_map[tag].rc_type = "sub"
  /\ SetState(rc_map[tag].pset \cap running_crs, "accepted_shutdown")
  /\ sent' = {}
  /\ pending_resource_change' = FALSE
  /\ rc_map' = [t \in DOMAIN rc_map \ {tag} |-> rc_map[t]]
  /\ UNCHANGED <<running_crs, pending_shutdowns, psetVars, next_rc_tag, manager,
                 process_states, next_session_id, phase, fault>>

HandleRCAccept(tag) ==
  /\ Scheduling
  /\ \/ ~pending_resource_change /\ Abort("no_pending_change", {})
     \/ /\ pending_resource_change /\ tag \notin DOMAIN rc_map
        /\ Abort("invalid_tag", {})
     \/ /\ pending_resource_change /\ tag \in DOMAIN rc_map
        /\ AcceptAdd(tag) \/ AcceptSub(tag)

(***************************************************************************)
(* No CR is running any more: all of them are told to quit.                *)
(***************************************************************************)
ShutdownAll ==
  /\ phase = "scheduling" /\ fault = "none" /\ running_crs = {}
  /\ phase' = "finished"
  /\ sent' = {Command(c, "shutdown") : c \in CR}
  /\ UNCHANGED <<crVars, psetVars, rcVars, process_states, next_session_id, fault>>

Terminated == (phase = "finished" \/ fault # "none") /\ UNCHANGED vars

-----------------------------------------------------------------------------
\* The arguments requests may carry: what is known, and one unknown name or tag.
Unknown == OpName(MaxOps + 1)
Names == Registered \cup {Self, Unknown}
SetOps == {"union", "intersect", "difference", "unsupported"}

\* A CR sends requests while it runs.  Where the code checks for requests of others
\* they are let in; pset_free and rc_accept do not wait for an answer, so that their
\* sender may be gone when they are handled.
Checked(src) == HandleWorkerDone(src) \/ HandleSessionInfo(src) \/ HandleGetPsets(src)

Running(src) ==
  \/ HandleSessionCreate(src)
  \/ HandleSessionFinalize(src)
  \/ HandleSchedHints(src)
  \/ \E name \in Names : HandlePsetInfo(src, name) \/ HandlePsetLookup(src, name)
  \/ \E op \in SetOps, n1, n2 \in Names, p \in {NoProposal} \cup DOMAIN Proposals :
       HandlePsetOp(src, op, n1, n2, p)
  \/ HandleRC(src)

Anyone ==
  \/ \E name \in Names : HandlePsetFree(name)
  \/ \E tag \in {NoTag} \cup DOMAIN rc_map : HandleRCAccept(tag)

Next ==
  \/ \E src \in CR : Checked(src)
  \/ \E src \in running_crs : Running(src)
  \/ Anyone
  \/ ShutdownAll
  \/ Terminated

Spec == Init /\ [][Next]_vars

-----------------------------------------------------------------------------
(***************************************************************************)
(* Properties.                                                             *)
(***************************************************************************)
\* Every part of the scheduler's state, and every message it sends, has its type:
\* names, sizes, tags and session ids as in struct MPIDYNRES_scheduler.
TypeOK ==
  /\ running_crs \subseteq CR
  /\ pending_shutdowns \subseteq Rank
  /\ Registered \subseteq PsetName
  /\ \A n \in Registered : pset_name_map[n] \in SUBSET Rank
  /\ DOMAIN rc_map \subseteq Nat
  /\ \A t \in DOMAIN rc_map :
       rc_map[t] \in [rc_type : RCType \ {"none"}, new_pset_name : PsetName, pset : SUBSET Rank]
  /\ process_states \in [Rank -> ProcessState]
  /\ next_session_id \in Nat
  /\ next_rc_tag \in Nat
  /\ pending_resource_change \in BOOLEAN
  /\ manager \in ManagerState
  /\ cr_state \in [CR -> CrState]
  /\ next_op \in Nat
  /\ phase \in {"scheduling", "finished"}
  /\ fault \in Fault
  /\ sent \subseteq Message

\* The two records of what runs, running_crs and process_states (scheduler.h:28
\* wonders whether one would do), never disagree between two requests.
RunningHaveState == \A c \in Rank : process_states[c].active <=> c \in running_crs

\* Every running process knows exactly the registered process sets it belongs to,
\* with their sizes, whatever the order of starts, operations, frees and exits: what
\* get_psets answers is true, and an exit frees every set of the process.
BackrefsExact ==
  \A c \in running_crs :
    /\ \A n \in Registered : c \in pset_name_map[n] =>
         \E r \in process_states[c].psets_containing : r.name = n
    /\ \A r \in process_states[c].psets_containing :
         /\ r.name \in Registered
         /\ c \in pset_name_map[r.name]
         /\ r.pset_size = Cardinality(pset_name_map[r.name])

\* A process is told of its pending shutdown by its process state, and resource
\* changes are refused by pending_shutdowns: both name the same, running, processes.
PendingShutdownsAgree ==
  pending_shutdowns = {c \in running_crs : process_states[c].pending_shutdown}

\* No process set outlives a process that was in it: a member that does not run has
\* never run since the set was made, and is still to be started by an open offer.
UnstartedMembersOffered ==
  \A n \in Registered : \A c \in pset_name_map[n] \ running_crs :
    \E t \in DOMAIN rc_map : rc_map[t].rc_type = "add" /\ c \in rc_map[t].pset

\* An open offer and the process set the application was given for it agree for
\* as long as that set is registered, and no later change can get its tag or name.
OffersAgree ==
  /\ \A t \in DOMAIN rc_map :
       /\ t < next_rc_tag
       /\ rc_map[t].new_pset_name \in Registered =>
            pset_name_map[rc_map[t].new_pset_name] = rc_map[t].pset
  /\ \A n \in Registered : n.kind = "rc" => n.id < next_rc_tag

\* A process started by a resource change can trust the tag its session info gives as
\* its origin (scheduler_handlers.c:127): the change was offered and can not be accepted
\* again, and as long as its process set is registered the process is in it, together
\* with exactly those that were started with it.
OriginsAgree ==
  \A c \in {d \in running_crs : process_states[d].dynamic_start} :
    LET tag == process_states[c].origin_rc_tag
        origin == RcName(tag - 1)
    IN
    /\ tag \in 0 .. next_rc_tag /\ tag \notin DOMAIN rc_map
    /\ origin \in Registered =>
         pset_name_map[origin] =
           {d \in running_crs : /\ process_states[d].dynamic_start
                               /\ process_states[d].origin_rc_tag = tag}

\* Whatever is requested, by whom and in whatever order, these three assertions of
\* the handlers (worker_done, rc) never fail.
NoCorruption == fault \notin {"done_no_state", "done_backrefs", "sub_no_state"}

\* The state log shows a CR as running, or as asked to leave, exactly while it runs,
\* and shows every CR whose shutdown is pending as asked to leave.
LogAgrees ==
  \A c \in CR :
    /\ c \in running_crs <=> cr_state[c] \notin {"idle", "reserved"}
    /\ c \in pending_shutdowns => cr_state[c] \in {"proposed_shutdown", "accepted_shutdown"}
    /\ cr_state[c] = "proposed_shutdown" => c \in pending_shutdowns

\* A process set is never changed under its name, and a process that exits takes
\* every process set it was in with it.
PsetsStable ==
  [][/\ \A n \in Registered \cap Registered' : pset_name_map'[n] = pset_name_map[n]
     /\ \A c \in running_crs \ running_crs' : \A n \in Registered' :
          c \notin pset_name_map'[n]]_vars

\* While shutdowns are pending no further change is offered, and those pending were
\* proposed together: the set only shrinks, by the exit of its members.
OneShutdownAtATime ==
  [][pending_shutdowns # {} =>
       /\ DOMAIN rc_map' \subseteq DOMAIN rc_map
       /\ pending_shutdowns' = pending_shutdowns \cap running_crs']_vars

\* A manager only names CRs of the base communicator, which "contains all computing
\* resources available for the simulation" (mpidynres_sim.h:18): a start reaches one.
StartsExist == fault # "start_no_rank"
=============================================================================
