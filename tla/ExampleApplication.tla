------------------------- MODULE ExampleApplication -------------------------
(***************************************************************************)
(* The applications examples/06_resource_changes.c and                     *)
(* 07_simple_changes.c, run in the simulation.  All processes work on one  *)
(* communicator, made from a process set; between two steps of work its    *)
(* root asks for a resource change, and all of them together move to the   *)
(* communicator of the process set that the change leads to.               *)
(*                                                                         *)
(* In 06 the processes work until they are asked to leave, in 07 for a     *)
(* number of iterations.                                                   *)
(***************************************************************************)
EXTENDS Simulation

CONSTANTS
  Programs,     \* which of the programs "06" and "07" to run
  MaxIter       \* 1000 in 07

ASSUME ProgramsAssumption == Programs \subseteq {"06", "07"} /\ MaxIter \in Nat
ASSUME RanksAssumption == CR \subseteq Nat

VARIABLES
  program,      \* the program that runs
  app,          \* app[c]: the variables of the process c
  bcasts,       \* bcasts[c]: what was broadcast to c and c has not received
  accept_info,  \* accept_info[t]: the info object the change t was accepted with
  overtaken     \* history: rank 0 has taken a request for a change before an accept that
                \* was underway

appVars == <<program, app, bcasts, accept_info>>
exampleVars == <<allVars, appVars, overtaken>>

(***************************************************************************)
(* The variables of one process, and where its program is: at the next     *)
(* call it makes, or waits in.                                             *)
(***************************************************************************)
NoChange == [type |-> "none", tag |-> S!NoTag, name |-> S!NoName]
Off == [at |-> "off", main |-> S!NoName, group |-> {}, comm |-> {}, iter |-> 0,
        rc |-> NoChange, leave |-> FALSE]

At(c, place) == fault = "none" /\ pc[c] = "main" /\ app[c].at = place

\* The lookup answers with the ids of a set in ascending order, which MPI_Group_incl
\* keeps: rank 0 of the communicator is the smallest.
Root(comm) == Min(comm)
IsRoot(c) == app[c].comm # {} /\ c = Root(app[c].comm)

-----------------------------------------------------------------------------
(***************************************************************************)
(* What a process does next.                                               *)
(***************************************************************************)
\* The head of the loop.
Loop(a) ==
  [a EXCEPT !.rc = NoChange,
            !.at = IF program = "07" /\ a.iter >= MaxIter THEN "finalize" ELSE "barrier"]

\* The end of the body of the loop.
Again(a) == Loop([a EXCEPT !.iter = IF program = "07" THEN @ + 1 ELSE @])

\* The first communicator leads into the loop, a later one to its next round.
Joined(a) ==
  LET in == [a EXCEPT !.comm = a.group, !.group = {}]
  IN  IF a.comm = {} THEN Loop(in) ELSE Again(in)

\* Everyone knows the change; the root makes the process set it leads to.
Told(a, rc, root) ==
  IF rc.type = "none" THEN Again(a)
  ELSE [a EXCEPT !.rc = rc, !.at = IF root THEN "create_op" ELSE "hear_pset"]

\* Mutant: only the root remembers the name of the new process set.
MutNamed(a, name, root) ==
  [a EXCEPT !.main = IF root THEN name ELSE @,
            !.at = IF a.rc.type = "sub" THEN "check" ELSE IF root THEN "accept" ELSE "lookup"]

\* Everyone knows the new process set; a SUB makes each look whether it is in.
Named(a, name, root) ==
  [a EXCEPT !.main = name,
            !.at = IF a.rc.type = "sub" THEN "check" ELSE IF root THEN "accept" ELSE "lookup"]

\* Mutant: the outcome of the check is ignored.
MutChecked(a, stays, root) == [a EXCEPT !.at = IF root THEN "accept" ELSE "lookup"]

\* In 06 a root that leaves returns without accepting the change.
Checked(a, stays, root) ==
  [a EXCEPT !.leave = ~stays,
            !.at = IF root /\ (stays \/ program = "07") THEN "accept"
                   ELSE IF stays THEN "lookup" ELSE "finalize"]

\* Mutant: the root goes on with the old communicator.
MutAccepted(a) == Again(a)

Accepted(a) == [a EXCEPT !.at = IF a.leave THEN "finalize" ELSE "lookup"]

\* Mutant: everyone takes the start for the initial one.
MutInformed(a, tag) == [a EXCEPT !.main = S!World, !.at = "lookup"]

\* A process started by a change finds its place in the info the change was accepted with.
Informed(a, tag) ==
  IF tag \in DOMAIN accept_info
  THEN [a EXCEPT !.main = accept_info[tag].main, !.iter = accept_info[tag].iter,
                 !.at = "lookup"]
  ELSE [a EXCEPT !.main = S!World, !.at = "lookup"]

\* What the process does with the answer m.
After(c, a, m) ==
  LET names == {r.name : r \in m.psets}
  IN  CASE m.tag = Idle -> IF m.command = "start" THEN [Off EXCEPT !.at = "session"] ELSE a
        [] m.tag = "SESSION_CREATE_ANSWER" ->
             [a EXCEPT !.at = IF program = "07" THEN "psets" ELSE "info"]
        [] m.tag = "GET_PSETS_ANSWER" /\ a.at = "psets" ->
             IF S!World \in names THEN [a EXCEPT !.main = S!World, !.at = "lookup"]
                                  ELSE [a EXCEPT !.at = "info"]
        [] m.tag = "SESSION_INFO_ANSWER" -> Informed(a, m.origin_rc_tag)
        [] m.tag = "PSET_LOOKUP_ANSWER_SIZE" -> IF m.size = 0 THEN [a EXCEPT !.at = "no_group"]
                                                              ELSE a
        [] m.tag = "PSET_LOOKUP_ANSWER" -> [a EXCEPT !.group = m.pset, !.at = "join"]
        [] m.tag = "RC_ANSWER" -> Told(a, [type |-> m.type, tag |-> m.rc_tag, name |-> m.name],
                                       TRUE)
        [] m.tag = "PSET_OP_ANSWER" -> Named(a, m.name, TRUE)
        [] m.tag = "GET_PSETS_ANSWER" /\ a.at = "check" ->
             Checked(a, a.main \in names, IsRoot(c))
        [] m.tag = "SESSION_FINALIZE_ANSWER" -> [a EXCEPT !.at = "exit"]

-----------------------------------------------------------------------------
(***************************************************************************)
(* The steps of a process.                                                 *)
(***************************************************************************)
Ask(c) ==
  /\ \/ At(c, "session") /\ SessionInit(c)
     \/ At(c, "psets") /\ SessionGetPsets(c)
     \/ At(c, "info") /\ SessionGetInfo(c)
     \/ At(c, "lookup") /\ GroupFromSessionPset(c, app[c].main)
     \/ At(c, "get_change") /\ RCGet(c)
     \/ /\ At(c, "create_op")
        /\ PsetCreateOp(c, IF app[c].rc.type = "add" THEN "union" ELSE "difference",
                        app[c].main, app[c].rc.name, S!NoProposal)
     \/ At(c, "check") /\ SessionGetPsets(c)
     \/ At(c, "finalize") /\ SessionFinalize(c)
  /\ UNCHANGED <<calls, appVars>>

\* The root broadcasts what it is answered about a change: MPI_Bcast does not wait for
\* the others.
Hear(c) ==
  \E m \in inbox[c] :
    /\ Take(c, m)
    /\ app' = [app EXCEPT ![c] = After(c, @, m)]
    /\ bcasts' = IF m.tag \in {"RC_ANSWER", "PSET_OP_ANSWER"}
                 THEN [d \in CR |-> IF d \in app[c].comm \ {c} THEN Append(bcasts[d], m)
                                                             ELSE bcasts[d]]
                 ELSE bcasts
    /\ UNCHANGED <<program, accept_info>>

HearBcast(c) ==
  /\ At(c, "hear_change") \/ At(c, "hear_pset")
  /\ bcasts[c] # <<>>
  /\ LET m == Head(bcasts[c]) IN
     app' = [app EXCEPT ![c] =
               IF app[c].at = "hear_change"
               THEN Told(@, [type |-> m.type, tag |-> m.rc_tag, name |-> m.name], FALSE)
               ELSE Named(@, m.name, FALSE)]
  /\ bcasts' = [bcasts EXCEPT ![c] = Tail(@)]
  /\ UNCHANGED <<allVars, program, accept_info>>

Accept(c) ==
  /\ At(c, "accept")
  /\ RCAccept(c, app[c].rc.tag)
  /\ accept_info' = [t \in DOMAIN accept_info \cup {app[c].rc.tag} |->
                       IF t = app[c].rc.tag THEN [main |-> app[c].main, iter |-> app[c].iter]
                       ELSE accept_info[t]]
  /\ app' = [app EXCEPT ![c] = Accepted(@)]
  /\ UNCHANGED <<calls, program, bcasts>>

Leave(c) ==
  /\ At(c, "exit")
  /\ Exit(c)
  /\ app' = [app EXCEPT ![c] = Off]
  /\ UNCHANGED <<program, bcasts, accept_info>>

(***************************************************************************)
(* The steps that need all members: making a communicator, and a barrier.  *)
(***************************************************************************)
CreateComm ==
  /\ \E c \in CR :
       LET G == app[c].group IN
       /\ At(c, "join")
       /\ \A d \in G : At(d, "join") /\ app[d].group = G
       /\ app' = [d \in CR |-> IF d \in G THEN Joined(app[d]) ELSE app[d]]
  /\ UNCHANGED <<allVars, program, bcasts, accept_info, overtaken>>

Barrier ==
  /\ \E c \in CR :
       LET G == app[c].comm IN
       /\ At(c, "barrier")
       /\ \A d \in G : At(d, "barrier") /\ app[d].comm = G
       /\ app' = [d \in CR |-> IF d \in G
                    THEN [app[d] EXCEPT !.at = IF d = Root(G) THEN "get_change" ELSE "hear_change"]
                    ELSE app[d]]
  /\ UNCHANGED <<allVars, program, bcasts, accept_info, overtaken>>

-----------------------------------------------------------------------------
ExampleInit ==
  /\ Init
  /\ program \in Programs
  /\ app = [c \in CR |-> Off]
  /\ bcasts = [c \in CR |-> <<>>]
  /\ accept_info = [t \in {} |-> {}]
  /\ overtaken = FALSE

Process(c) ==
  /\ Ask(c) \/ Hear(c) \/ HearBcast(c) \/ Accept(c) \/ Leave(c)
  /\ UNCHANGED overtaken

\* Rank 0 takes any request of a process that is the first of its tag.  An accept is not
\* answered, so that whatever its sender asks next, and even its done message, may be
\* handled before.
Serve(c) ==
  \E i \in DOMAIN requests[c] :
    /\ HandleRequest(c, i)
    /\ overtaken' = (overtaken \/ (requests[c][i].tag = "RC" /\ InFlight("RC_ACCEPT")))
    /\ UNCHANGED appVars

Finish == Shutdown /\ UNCHANGED <<appVars, overtaken>>

ExampleNext ==
  \/ \E c \in CR : Process(c) \/ Serve(c)
  \/ CreateComm \/ Barrier \/ Finish
  \/ Ended /\ UNCHANGED <<appVars, overtaken>>

ExampleSpec == ExampleInit /\ [][ExampleNext]_exampleVars

\* Every rank is a process of its own.  In every round of work the processes sleep for
\* 0.1 to 2 seconds, in which rank 0 comes to a request of each of them: to which is open.
FairExample ==
  /\ ExampleSpec
  /\ \A c \in CR : WF_exampleVars(Process(c)) /\ WF_exampleVars(Serve(c))
  /\ WF_exampleVars(CreateComm) /\ WF_exampleVars(Barrier)

-----------------------------------------------------------------------------
(***************************************************************************)
(* Properties.                                                             *)
(***************************************************************************)
\* The one abort the examples can meet is the assertion at the head of rc_accept
\* (scheduler_handlers.c:824), and only after an accept was overtaken by a request for a
\* change: never if the sleep between the two is long enough.
OvertakenAborts == fault # "none" => overtaken /\ fault = "no_pending_change"

\* The process set a process looks up is there, whoever left or is still to come.
GroupFound == \A c \in CR : app[c].at # "no_group"

\* Only one process at a time holds an offer it may accept, although the root changes and
\* a root that was asked to leave takes its offer along.
OneOffer == \A c, d \in CR : offered[c] # {} /\ offered[d] # {} => c = d

\* Nobody leaves who was not asked to, or is done with the iterations of 07.
OnlyAskedLeave ==
  \A c \in CR : app[c].at \in {"finalize", "exit"} =>
    c \in pending_shutdowns \/ (program = "07" /\ app[c].iter >= MaxIter)

\* In 06, processes that work together have the same idea of who they are: the members of
\* their communicator are those of the process set each of them knows it by, all run, and
\* whoever runs besides is on the way in or out.
CommsAgree ==
  program = "06" =>
    \A c \in CR : app[c].at = "barrier" =>
      /\ app[c].main \in S!Registered
      /\ pset_name_map[app[c].main] = app[c].comm
      /\ app[c].comm \subseteq running_crs
      /\ running_crs \ app[c].comm \subseteq pending_shutdowns

\* All that are asked to leave do, so that changes can be offered again, unless the job
\* aborts before.
AskedLeave == (pending_shutdowns # {}) ~> (pending_shutdowns = {} \/ fault # "none")

\* "a simple communication scheme to synchronize all running computing resources"
\* (07_simple_changes.c:2-3): a barrier that a process enters, it leaves, unless the job
\* aborts.
BarriersPass ==
  \A c \in CR : (app[c].at = "barrier") ~> (app[c].at # "barrier" \/ fault # "none")

\* In 06 the work goes on, whoever joins and leaves, unless the job aborts: again and again
\* some root comes through a barrier and asks for the next change.
WorkGoesOn ==
  program = "06" => []<>(fault # "none" \/ \E c \in CR : app[c].at = "get_change")
=============================================================================
