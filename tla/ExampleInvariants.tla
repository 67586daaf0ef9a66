------------------------- MODULE ExampleInvariants -------------------------
(***************************************************************************)
(* What the safety of ExampleApplication rests on: how far its processes   *)
(* have come together.  They work on one communicator, learn of a change   *)
(* and move, one by one, to the process set the change leads to.           *)
(***************************************************************************)
EXTENDS ExampleApplication, SimulationInvariants

-----------------------------------------------------------------------------
(***************************************************************************)
(* One process: its requests and messages belong to the place its program  *)
(* is at.                                                                  *)
(***************************************************************************)
Places == {"off", "session", "psets", "info", "lookup", "join", "barrier", "get_change",
           "hear_change", "create_op", "hear_pset", "check", "accept", "finalize", "exit"}

Change == [type : S!RCType, tag : Int, name : S!PsetName]
AppState == [at : Places, main : S!PsetName, group : SUBSET Rank, comm : SUBSET Rank,
             iter : Nat, rc : Change, leave : BOOLEAN]

AppTypeOK ==
  /\ program \in Programs
  /\ app \in [CR -> AppState]
  /\ bcasts \in [CR -> Seq(S!Message)]
  /\ \A t \in DOMAIN accept_info : accept_info[t] \in [main : S!PsetName, iter : Nat]

\* What a process at such a place asks for.
AskedAt ==
  [at \in {"session", "psets", "info", "lookup", "get_change", "create_op", "check",
           "finalize"} |->
     CASE at = "session"    -> "SESSION_CREATE"
       [] at = "info"       -> "SESSION_INFO"
       [] at = "lookup"     -> "PSET_LOOKUP"
       [] at = "get_change" -> "RC"
       [] at = "create_op"  -> "PSET_OP"
       [] at = "finalize"   -> "SESSION_FINALIZE"
       [] OTHER             -> "GET_PSETS"]

\* The changes c has accepted and is not served for.  The accept of a SUB has no effect any
\* more that a process waits for.
AcceptTags(c) == {requests[c][i].rc_tag : i \in Accepts(c)}
AddTags(c) == {t \in AcceptTags(c) : rc_map[t].rc_type = "add"}

RequestFits(a, r) ==
  /\ r.tag # "PSET_FREE"
  /\ r.tag = "PSET_LOOKUP" => r.name = a.main
  /\ r.tag = "PSET_OP" =>
       /\ r.op = IF a.rc.type = "add" THEN "union" ELSE "difference"
       /\ r.name1 = a.main /\ r.name2 = a.rc.name /\ r.proposal = S!NoProposal

InStep(c) ==
  LET a == app[c] IN
  /\ pc[c] \in {Idle, "quit"} <=> a.at = "off"
  /\ a.at = "off" => a = Off
  /\ pc[c] \in AnswerTag =>
       /\ a.at \in DOMAIN AskedAt
       /\ \/ pc[c] = Awaits[AskedAt[a.at]]
          \/ pc[c] = "PSET_LOOKUP_ANSWER" /\ a.at = "lookup"
  /\ \A i \in DOMAIN requests[c] : RequestFits(a, requests[c][i])
  /\ a.leave => a.at \in {"accept", "finalize", "exit"}
  /\ offered[c] # {} => a.at \in {"create_op", "check", "accept", "finalize", "exit"}
  /\ AddTags(c) # {} => a.at \in {"lookup", "join"}

-----------------------------------------------------------------------------
(***************************************************************************)
(* Who may still accept a change, or has and is not served yet.            *)
(***************************************************************************)
TagsHeld(c) == offered[c] \cup AddTags(c)
Holds(c) == TagsHeld(c) # {}

\* One process at a time holds an offer, and only one.
OneHolder ==
  \A c, d \in CR : \A s \in TagsHeld(c), t \in TagsHeld(d) : c = d /\ s = t

\* The changes c holds or is being told of.
Offered(c) ==
  offered[c] \cup {m.rc_tag : m \in {n \in inbox[c] : n.tag = "RC_ANSWER" /\ n.type # "none"}}

\* A change is accepted once, by whom it was offered to.
AcceptsOnce ==
  \A c, d \in CR : \A i \in Accepts(c) :
    LET t == requests[c][i].rc_tag IN
    /\ t \in DOMAIN rc_map /\ t \notin Offered(d)
    /\ \A j \in Accepts(d) : requests[d][j].rc_tag = t => c = d /\ i = j

\* As long as no accept was overtaken one change at a time is told, held or accepted, and
\* it is pending.
Open(c) == Offered(c) \cup AcceptTags(c)
InTime ==
  \A c, d \in CR : \A s \in Open(c), t \in Open(d) : c = d /\ s = t /\ pending_resource_change

Stands(t, type) == t \in DOMAIN rc_map /\ rc_map[t].rc_type = type

-----------------------------------------------------------------------------
(***************************************************************************)
(* The way from the processes G to the processes J: more join, or some     *)
(* leave.                                                                  *)
(***************************************************************************)
Way(G, J) == IF J \subseteq G THEN "sub" ELSE "add"
Changed(G, J) == (G \ J) \cup (J \ G)
IsWay(G, J) == G # J /\ (G \subseteq J \/ J \subseteq G)

\* The name is that of the process set J; there is none without members.
Leads(name, J) ==
  IF J = {} THEN name = S!NoName ELSE name \in S!Registered /\ pset_name_map[name] = J

StandsFor(t, G, J) == Stands(t, Way(G, J)) /\ rc_map[t].pset = Changed(G, J)

\* Only the root may accept the change.
RootHolds(G, J) ==
  \A c \in CR : Holds(c) =>
    /\ c \in G /\ c = Root(G)
    /\ \A t \in TagsHeld(c) : StandsFor(t, G, J)

(***************************************************************************)
(* Where a process can be.                                                 *)
(***************************************************************************)
Silent(c) == bcasts[c] = <<>>
Works(c, G) == c \in running_crs /\ app[c].comm = G

\* Not in the program, nor about to be.
Resting(c) == app[c] = Off /\ Silent(c) /\ c \notin running_crs

\* c is not in the process set of this name.
Excludes(name, c) ==
  name # S!Self /\ (name \in S!Registered => c \notin pset_name_map[name])

\* A broadcast tells the type of a change, or names a process set.
Says(m, type) == m.tag = "RC_ANSWER" /\ m.type = type
Names(m) == m.tag = "PSET_OP_ANSWER"

\* On the way out: c has been sent the change and the name of a process set without it.
Leaves(c) ==
  /\ c \in running_crs
  /\ \/ /\ app[c].at = "hear_change" /\ Len(bcasts[c]) = 2
        /\ Says(bcasts[c][1], "sub") /\ Names(bcasts[c][2]) /\ Excludes(bcasts[c][2].name, c)
     \/ /\ app[c].at = "hear_pset" /\ Len(bcasts[c]) = 1
        /\ app[c].rc.type = "sub" /\ Names(bcasts[c][1]) /\ Excludes(bcasts[c][1].name, c)
     \/ /\ app[c].at = "check" /\ Silent(c) /\ Excludes(app[c].main, c)
        /\ \A m \in inbox[c] : app[c].main \notin {r.name : r \in m.psets}
     \/ app[c].at = "accept" /\ Silent(c) /\ app[c].leave
     \/ app[c].at \in {"finalize", "exit"} /\ Silent(c)
     \/ app[c] = Off /\ Silent(c) /\ Done(c)

\* Done with the iterations of 07.
Finished(c) ==
  /\ program = "07" /\ Silent(c)
  /\ \/ app[c].at \in {"finalize", "exit"} /\ app[c].iter >= MaxIter
     \/ app[c] = Off /\ (c \in running_crs => Done(c))

AtWork(c, G) ==
  /\ Works(c, G)
  /\ \/ app[c].at = "barrier" /\ Silent(c)
     \/ /\ app[c].at = "hear_change" /\ c # Root(G)
        /\ Len(bcasts[c]) = 1 /\ Says(bcasts[c][1], "none")

\* The root has been told of the change, c has been sent its type.
Learns(c, G, J) ==
  /\ Works(c, G)
  /\ \/ /\ app[c].at = "hear_change"
        /\ Len(bcasts[c]) = 1 /\ Says(bcasts[c][1], Way(G, J))
     \/ app[c].at = "hear_pset" /\ Silent(c) /\ app[c].rc.type = Way(G, J)

\* c has been sent the name of the new process set, too.
LearnsName(c, G, J) ==
  /\ Works(c, G)
  /\ \/ /\ app[c].at = "hear_change"
        /\ Len(bcasts[c]) = 2 /\ Says(bcasts[c][1], Way(G, J))
        /\ Names(bcasts[c][2]) /\ Leads(bcasts[c][2].name, J)
     \/ /\ app[c].at = "hear_pset" /\ app[c].rc.type = Way(G, J)
        /\ Len(bcasts[c]) = 1 /\ Names(bcasts[c][1]) /\ Leads(bcasts[c][1].name, J)

\* c knows the new process set, and is in it.
Moves(c, G, J) ==
  /\ Works(c, G) /\ Silent(c) /\ Leads(app[c].main, J)
  /\ \/ app[c].at = "check" /\ Way(G, J) = "sub"
     \/ app[c].at = "accept" /\ c = Root(G) /\ ~app[c].leave
     \/ app[c].at = "lookup"
     \/ app[c].at = "join" /\ app[c].group = J

\* c was started, at the beginning or by the change.
Joins(c, J) ==
  LET tag == process_states[c].origin_rc_tag IN
  /\ Works(c, {}) /\ Silent(c) /\ ~Done(c)
  /\ \/ app[c].at \in {"off", "session", "psets", "info"}
     \/ app[c].at = "lookup" /\ Leads(app[c].main, J)
     \/ app[c].at = "join" /\ Leads(app[c].main, J) /\ app[c].group = J
  /\ IF tag \in DOMAIN accept_info THEN Leads(accept_info[tag].main, J) ELSE Leads(S!World, J)
  /\ S!World \in S!Registered /\ c \in pset_name_map[S!World] => pset_name_map[S!World] = J

\* What c is told on its way is true.
TrueAnswers(c, J) ==
  \A m \in inbox[c] :
    LET names == {r.name : r \in m.psets} IN
    /\ m.tag = "PSET_LOOKUP_ANSWER_SIZE" => m.size # 0
    /\ m.tag = "PSET_LOOKUP_ANSWER" => m.pset = J
    /\ m.tag = "SESSION_INFO_ANSWER" => m.origin_rc_tag = process_states[c].origin_rc_tag
    /\ m.tag = "GET_PSETS_ANSWER" /\ app[c].at = "check" => app[c].main \in names
    /\ m.tag = "GET_PSETS_ANSWER" /\ app[c].at = "psets" /\ S!World \in names => Leads(S!World, J)

-----------------------------------------------------------------------------
(***************************************************************************)
(* What all of them do together.                                           *)
(***************************************************************************)
\* Those that are not in G are on the way out, one perhaps with its offer.
Around(G) ==
  /\ \A c \in CR \ G : Resting(c) \/ (c \in pending_shutdowns /\ Leaves(c))
  /\ pending_shutdowns \cap G = {}
  /\ \A c \in CR : Holds(c) =>
       c \in pending_shutdowns /\ \A t \in TagsHeld(c) : Stands(t, "sub")

\* They work.
Working(G) ==
  /\ Around(G)
  /\ \A c \in G : Finished(c) \/ AtWork(c, G)
  /\ (\E c \in G : Finished(c)) \/ \A c \in G : Leads(app[c].main, G)

\* The root asks for a change.
Searching(G) ==
  /\ Around(G)
  /\ \A c \in G :
       /\ Works(c, G) /\ Silent(c) /\ Leads(app[c].main, G)
       /\ IF c = Root(G) THEN app[c].at = "get_change" /\ \A m \in inbox[c] : m.type = "none"
          ELSE app[c].at = "hear_change"

\* The change from G to J is offered.
Apart(G, J) ==
  /\ IsWay(G, J)
  /\ pending_shutdowns = G \ J
  /\ \A c \in CR \ G : Resting(c)

IsOffer(m, G, J) ==
  m.type = Way(G, J) /\ Leads(m.name, Changed(G, J)) /\ StandsFor(m.rc_tag, G, J)

\* The root is being told of it.
Telling(G, J) ==
  /\ Apart(G, J)
  /\ \A c \in CR : ~Holds(c)
  /\ \A c \in G :
       /\ Works(c, G) /\ Silent(c) /\ Leads(app[c].main, G)
       /\ IF c = Root(G) THEN /\ app[c].at = "get_change" /\ inbox[c] # {}
                              /\ \A m \in inbox[c] : IsOffer(m, G, J)
          ELSE app[c].at = "hear_change"

\* The root makes the process set it leads to.
Naming(G, J) ==
  /\ Apart(G, J) /\ RootHolds(G, J)
  /\ \A c \in G :
       IF c = Root(G)
       THEN /\ Works(c, G) /\ Silent(c) /\ Leads(app[c].main, G)
            /\ app[c].at = "create_op" /\ app[c].rc.type = Way(G, J)
            /\ Leads(app[c].rc.name, Changed(G, J)) /\ Holds(c)
            /\ \A m \in inbox[c] : Leads(m.name, J)
       ELSE Learns(c, G, J)

\* They move from G to J.
Moving(G, J) ==
  /\ IsWay(G, J)
  /\ pending_shutdowns = (G \ J) \cap running_crs
  /\ RootHolds(G, J)
  /\ \A c \in CR : \A t \in AddTags(c) :
       t \in DOMAIN accept_info /\ Leads(accept_info[t].main, J)
  /\ \A c \in G \cap J : Moves(c, G, J) \/ (c # Root(G) /\ LearnsName(c, G, J))
  /\ \A c \in G \ J : Leaves(c) \/ Resting(c)
  /\ \A c \in J \ G : IF \E d \in CR : Holds(d) THEN Resting(c) ELSE Joins(c, J)
  /\ \A c \in CR \ (G \cup J) : Resting(c)
  /\ \A c \in J : TrueAnswers(c, J)

Together ==
  \E G \in SUBSET CR :
    \/ Working(G) \/ Searching(G)
    \/ \E J \in SUBSET CR : Telling(G, J) \/ Naming(G, J) \/ Moving(G, J)

\* The first process set is that of the processes started first, as long as all of them run.
WorldRuns ==
  /\ S!World \in S!Registered => pset_name_map[S!World] \subseteq running_crs
  /\ \A n \in S!Registered : n.kind \notin {"empty", "self"}

AppInv ==
  /\ AppTypeOK
  /\ \A c \in CR : InStep(c)
  /\ OneHolder
  /\ WorldRuns
  /\ Together

AcceptOrder == AcceptsOnce /\ (~overtaken => InTime)

ExampleInv ==
  IF fault = "none" THEN AppInv /\ AcceptOrder ELSE overtaken /\ fault = "no_pending_change"
=============================================================================
