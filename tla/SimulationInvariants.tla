------------------------ MODULE SimulationInvariants ------------------------
(***************************************************************************)
(* What the safety of Simulation rests on: where each worker can be with   *)
(* its requests and messages, and which offers are open to whom.           *)
(***************************************************************************)
EXTENDS Simulation

\* The assumptions of Scheduler and of SchedulerInvariants on the constants.
ASSUME RankAssumption == IsFiniteSet(Rank) /\ CR \subseteq Rank
ASSUME BoundsAssumption == MaxRcTag \in Nat /\ MaxOps \in Nat /\ MaxSessions \in Nat
ASSUME ProposalsAssumption ==
  DOMAIN Proposals \subseteq Nat \ {0} /\ Proposals \in [DOMAIN Proposals -> S!Occurrence]
ASSUME ManagersAssumption ==
  /\ ManagerInit \subseteq [pset : (SUBSET CR) \ {{}}, manager : ManagerState]
  /\ \A m \in ManagerState, running \in SUBSET Rank :
       ManagerRC(m, running) \subseteq S!ChangeOf(Rank)
ASSUME ManagersPromise ==
  \A m \in ManagerState, running \in SUBSET CR : \A change \in ManagerRC(m, running) :
    /\ change.rc_type # "none" => change.pset # {}
    /\ change.rc_type = "add" => change.pset \subseteq CR \ running
    /\ change.rc_type = "sub" => change.pset \subseteq running

-----------------------------------------------------------------------------
\* The requests nobody waits for the handling of: their sender goes on, may exit and
\* may be started anew before they are handled.
Unwaited == {"PSET_FREE", "RC_ACCEPT"}
NoneOpen(queue) == \A i \in DOMAIN queue : queue[i].tag \in Unwaited
OnlyOpen(queue, tag) ==
  \E i \in DOMAIN queue : /\ queue[i].tag = tag
                          /\ \A j \in DOMAIN queue \ {i} : queue[j].tag \in Unwaited

\* The first message a caller waits for after a request.
Awaits ==
  [tag \in {"SESSION_CREATE", "SESSION_INFO", "SESSION_FINALIZE", "GET_PSETS", "PSET_INFO",
            "PSET_LOOKUP", "PSET_OP", "SCHED_HINTS", "RC"} |->
    CASE tag = "SESSION_CREATE"   -> "SESSION_CREATE_ANSWER"
      [] tag = "SESSION_INFO"     -> "SESSION_INFO_ANSWER"
      [] tag = "SESSION_FINALIZE" -> "SESSION_FINALIZE_ANSWER"
      [] tag = "GET_PSETS"        -> "GET_PSETS_ANSWER"
      [] tag = "PSET_INFO"        -> "PSET_INFO_ANSWER"
      [] tag = "PSET_LOOKUP"      -> "PSET_LOOKUP_ANSWER_SIZE"
      [] tag = "PSET_OP"          -> "PSET_OP_ANSWER"
      [] tag = "SCHED_HINTS"      -> "SCHED_HINTS_ANSWER"
      [] OTHER                    -> "RC_ANSWER"]

(***************************************************************************)
(* Where a worker can be.                                                  *)
(***************************************************************************)
AtRest(c) ==
  /\ pc[c] = Idle /\ inbox[c] = {} /\ NoneOpen(requests[c])
  /\ c \notin running_crs /\ phase = "scheduling"
ToStart(c) ==
  /\ pc[c] = Idle /\ inbox[c] = {S!Command(c, "start")} /\ NoneOpen(requests[c])
  /\ c \in running_crs
InProgram(c) ==
  pc[c] = "main" /\ inbox[c] = {} /\ NoneOpen(requests[c]) /\ c \in running_crs
Asking(c) ==
  /\ inbox[c] = {} /\ c \in running_crs
  /\ \E tag \in DOMAIN Awaits : pc[c] = Awaits[tag] /\ OnlyOpen(requests[c], tag)
Answered(c) ==
  /\ NoneOpen(requests[c]) /\ c \in running_crs
  /\ pc[c] \in AnswerTag
  /\ \E m \in inbox[c] : /\ m.tag = pc[c] /\ inbox[c] = {m}
                         /\ m.tag = "PSET_LOOKUP_ANSWER_SIZE" => m.size = 0
LookupAnswered(c) ==
  /\ NoneOpen(requests[c]) /\ c \in running_crs
  /\ pc[c] = "PSET_LOOKUP_ANSWER_SIZE"
  /\ \E m, n \in inbox[c] : /\ m.tag = "PSET_LOOKUP_ANSWER_SIZE" /\ m.size > 0
                            /\ n.tag = "PSET_LOOKUP_ANSWER" /\ inbox[c] = {m, n}
\* The lookup of mpi://SELF is answered with the second of two messages only.
SelfAnswered(c) ==
  /\ NoneOpen(requests[c]) /\ c \in running_crs /\ "group_from_self" \in Calls
  /\ pc[c] = "PSET_LOOKUP_ANSWER_SIZE"
  /\ \E m \in inbox[c] : m.tag = "PSET_LOOKUP_ANSWER" /\ inbox[c] = {m}
Unanswerable(c) ==
  /\ pc[c] \in AnswerTag /\ inbox[c] = {} /\ NoneOpen(requests[c])
  /\ c \in running_crs /\ fault # "none"
Leaving(c) ==
  /\ pc[c] = Idle /\ inbox[c] = {} /\ OnlyOpen(requests[c], "DONE_RUNNING")
  /\ c \in running_crs
ToQuit(c) ==
  /\ pc[c] = Idle /\ inbox[c] = {S!Command(c, "shutdown")} /\ NoneOpen(requests[c])
  /\ c \notin running_crs /\ phase = "finished"
HasQuit(c) ==
  /\ pc[c] = "quit" /\ inbox[c] = {} /\ NoneOpen(requests[c])
  /\ c \notin running_crs /\ phase = "finished"

Place(c) ==
  \/ AtRest(c) \/ ToStart(c) \/ InProgram(c) \/ Asking(c) \/ Answered(c) \/ LookupAnswered(c)
  \/ SelfAnswered(c) \/ Unanswerable(c) \/ Leaving(c) \/ ToQuit(c) \/ HasQuit(c)

\* The counters of the scheduler respect their bounds, and process sets have members.
Bounded ==
  /\ next_op <= MaxOps /\ next_session_id <= MaxSessions /\ next_rc_tag <= MaxRcTag + 1
  /\ \A n \in S!Registered : pset_name_map[n] # {}
  /\ \A t \in DOMAIN rc_map : rc_map[t].pset # {}

\* Ids and tags a process has or is told of are some the scheduler has used up.
Issued ==
  \A c \in CR :
    /\ \A id \in sessions[c] : id < next_session_id
    /\ \A t \in offered[c] : t < next_rc_tag
    /\ \A m \in inbox[c] :
         /\ m.tag = "SESSION_CREATE_ANSWER" => m.session_id < next_session_id
         /\ m.tag = "RC_ANSWER" /\ m.type # "none" => m.rc_tag \in 0 .. next_rc_tag - 1

\* Requests come from the calls the application makes.
Called(r) ==
  /\ r.tag = "SCHED_HINTS" => "add_scheduling_hints" \in Calls
  /\ r.tag = "PSET_LOOKUP" /\ r.name = S!Self => "group_from_self" \in Calls
CallsMade == \A c \in CR : \A i \in DOMAIN requests[c] : Called(requests[c][i])

\* The invariant of the simulation, beside the scheduler's own: every process is in one of
\* its places, and what is underway fits the scheduler's state.
SimInv ==
  /\ TypeOK
  /\ \A c \in CR : Place(c)
  /\ CallsMade
  /\ Bounded
  /\ Issued

\* The ids underway to a process and the ones it has are no one else's.
Ids(c) == sessions[c] \cup {m.session_id : m \in {n \in inbox[c] : n.tag = "SESSION_CREATE_ANSWER"}}
IdsDistinct == \A c, d \in CR : c # d => Ids(c) \cap Ids(d) = {}

(***************************************************************************)
(* The offers of an application that is Synchronised.                      *)
(***************************************************************************)
\* An accept of this tag would be carried out.
Acceptable(t) ==
  /\ pending_resource_change /\ t \in DOMAIN rc_map
  /\ rc_map[t].pset \subseteq CR
  /\ rc_map[t].rc_type = "add" => rc_map[t].pset \cap running_crs = {}

\* Nobody asks for a change while another does or someone may accept one, one process at
\* a time may, and one change, once.
Accepts(c) == {i \in DOMAIN requests[c] : requests[c][i].tag = "RC_ACCEPT"}
OneAsker ==
  \A c \in CR : pc[c] = "RC_ANSWER" =>
    \A d \in CR : Accepts(d) = {} /\ offered[d] = {} /\ (pc[d] = "RC_ANSWER" => c = d)
OneToAccept == \A c, d \in CR : \A s \in offered[c], t \in offered[d] : c = d /\ s = t
OfferOrAccept == \A c, d \in CR : offered[c] = {} \/ Accepts(d) = {}
OneAccept == \A c, d \in CR : \A i \in Accepts(c), j \in Accepts(d) : c = d /\ i = j

\* The change that is told, may be accepted or is accepted can be carried out.
OffersStand ==
  \A c \in CR :
    /\ \A t \in offered[c] : Acceptable(t)
    /\ \A m \in inbox[c] : m.tag = "RC_ANSWER" /\ m.type # "none" => Acceptable(m.rc_tag)
    /\ \A i \in Accepts(c) : Acceptable(requests[c][i].rc_tag)

HintsFault == fault = "none" \/ (fault = "free_null_info" /\ "add_scheduling_hints" \in Calls)

OffersInTurn ==
  OneAsker /\ OneToAccept /\ OfferOrAccept /\ OneAccept /\ OffersStand /\ HintsFault
=============================================================================
