---------------------------- MODULE ExampleProofs ----------------------------
(***************************************************************************)
(* Proofs about the applications with resource changes, for every number   *)
(* of processes and every manager that keeps its promise.                  *)
(***************************************************************************)
EXTENDS ExampleInvariants, SimulationProofs, WellFoundedInduction

\* The inductive invariant: that of the simulation, and that of the application.
AllInv == SP!TypeOK /\ SP!IInv /\ SimInv /\ AppInv /\ AcceptOrder /\ fault = "none"

-----------------------------------------------------------------------------
(***************************************************************************)
(* The places of a process and what is underway to and from it.            *)
(***************************************************************************)
\* A process that looks up a process set is on its way to it: it is one of its members.
LEMMA LookedUp ==
  ASSUME AllInv, NEW c \in CR, app[c].at \in {"lookup", "join"}
  PROVE  \E G, J \in SUBSET CR :
           /\ Moving(G, J) /\ c \in J /\ Leads(app[c].main, J)
           /\ IF c \in G THEN Moves(c, G, J) ELSE Joins(c, J)
<1>1. /\ app[c] # Off /\ ~Leaves(c) /\ \A G : ~AtWork(c, G)
      /\ \A G, J : ~LearnsName(c, G, J) /\ ~Learns(c, G, J)
  BY DEF Off, Leaves, AtWork, LearnsName, Learns
<1>2. ~Resting(c) /\ ~Finished(c)
  BY <1>1 DEF Resting, Finished
<1>3. PICK G \in SUBSET CR :
        \/ Working(G) \/ Searching(G)
        \/ \E J \in SUBSET CR : Telling(G, J) \/ Naming(G, J) \/ Moving(G, J)
  BY DEF AllInv, AppInv, Together
<1>4. ~Working(G) /\ ~Searching(G)
  BY <1>1, <1>2 DEF Working, Searching, Around
<1>5. PICK J \in SUBSET CR : Telling(G, J) \/ Naming(G, J) \/ Moving(G, J)
  BY <1>3, <1>4
<1>6. ~Telling(G, J) /\ ~Naming(G, J)
  BY <1>1, <1>2 DEF Telling, Naming, Apart
<1>7. Moving(G, J)
  BY <1>5, <1>6
<1>8. c \in J /\ IF c \in G THEN Moves(c, G, J) ELSE Joins(c, J)
  BY <1>1, <1>2, <1>7 DEF Moving
<1>. QED
  BY <1>7, <1>8 DEF Moves, Joins

\* A process asks for what belongs to the place its program is at.
LEMMA AskSends ==
  ASSUME AllInv, NEW c \in CR, Ask(c)
  PROVE  \E r \in RequestMessage :
           /\ Asked(c, r, Awaits[r.tag]) /\ r.tag = AskedAt[app[c].at] /\ RequestFits(app[c], r)
           /\ app[c].at \in DOMAIN AskedAt /\ offered' = offered
           /\ UNCHANGED <<calls, appVars>>
<1>. DEFINE Sends(r) == /\ Asked(c, r, Awaits[r.tag]) /\ r.tag = AskedAt[app[c].at]
                        /\ RequestFits(app[c], r)
                        /\ app[c].at \in DOMAIN AskedAt /\ offered' = offered
<1>1. fault = "none" /\ pc[c] = "main" /\ UNCHANGED <<calls, appVars>>
  BY DEF Ask, At
<1>2. /\ app[c].main \in S!PsetName /\ app[c].rc.name \in S!PsetName
      /\ offered \in [CR -> SUBSET (0 .. MaxRcTag + 1)]
  BY DEF AllInv, AppInv, AppTypeOK, AppState, Change, SimInv, TypeOK
<1>3. CASE At(c, "session") /\ SessionInit(c)
  <2>. DEFINE r == [tag |-> "SESSION_CREATE"]
  <2>1. r \in RequestMessage /\ Sends(r)
    BY <1>1, <1>3
       DEF At, SessionInit, Request, Asked, Called, Awaits, RequestMessage, AskedAt,
           RequestFits
  <2>. QED
    BY <1>1, <2>1
<1>4. CASE (At(c, "psets") \/ At(c, "check")) /\ SessionGetPsets(c)
  <2>. DEFINE r == [tag |-> "GET_PSETS"]
  <2>1. r \in RequestMessage /\ Sends(r)
    BY <1>1, <1>4
       DEF At, SessionGetPsets, Request, Asked, Called, Awaits, RequestMessage, AskedAt,
           RequestFits
  <2>. QED
    BY <1>1, <2>1
<1>5. CASE At(c, "info") /\ SessionGetInfo(c)
  <2>. DEFINE r == [tag |-> "SESSION_INFO"]
  <2>1. r \in RequestMessage /\ Sends(r)
    BY <1>1, <1>5
       DEF At, SessionGetInfo, Request, Asked, Called, Awaits, RequestMessage, AskedAt,
           RequestFits
  <2>. QED
    BY <1>1, <2>1
<1>6. CASE At(c, "lookup") /\ GroupFromSessionPset(c, app[c].main)
  <2>. DEFINE r == [tag |-> "PSET_LOOKUP", name |-> app[c].main]
  <2>1. app[c].main # S!Self
    BY <1>6, LookedUp DEF At, Leads, AllInv, AppInv, WorldRuns, S!Self
  <2>2. r \in RequestMessage
    BY <1>2 DEF RequestMessage
  <2>3. Sends(r)
    BY <1>1, <1>6, <2>1
       DEF At, GroupFromSessionPset, Request, Asked, Called, Awaits, AskedAt, RequestFits
  <2>. QED
    BY <1>1, <2>2, <2>3
<1>7. CASE At(c, "get_change") /\ RCGet(c)
  <2>. DEFINE r == [tag |-> "RC"]
  <2>1. offered[c] = {}
    BY <1>7 DEF At, AllInv, AppInv, InStep
  <2>2. offered' = offered
    BY <1>2, <1>7, <2>1 DEF RCGet
  <2>3. r \in RequestMessage /\ Sends(r)
    BY <1>1, <1>7, <2>2 DEF At, RCGet, Asked, Called, Awaits, RequestMessage, AskedAt, RequestFits
  <2>. QED
    BY <1>1, <2>3
<1>8. CASE At(c, "create_op") /\
           PsetCreateOp(c, IF app[c].rc.type = "add" THEN "union" ELSE "difference",
                        app[c].main, app[c].rc.name, S!NoProposal)
  <2>. DEFINE op == IF app[c].rc.type = "add" THEN "union" ELSE "difference"
  <2>. DEFINE r == [tag |-> "PSET_OP", op |-> op, name1 |-> app[c].main, name2 |-> app[c].rc.name,
                    proposal |-> S!NoProposal]
  <2>1. r \in RequestMessage
    BY <1>2 DEF RequestMessage
  <2>2. Sends(r)
    BY <1>1, <1>8 DEF At, PsetCreateOp, Request, Asked, Called, Awaits, AskedAt, RequestFits
  <2>. QED
    BY <1>1, <2>1, <2>2
<1>9. CASE At(c, "finalize") /\ SessionFinalize(c)
  <2>. DEFINE r == [tag |-> "SESSION_FINALIZE"]
  <2>1. r \in RequestMessage /\ Sends(r)
    BY <1>1, <1>9
       DEF At, SessionFinalize, Asked, Called, Awaits, RequestMessage, AskedAt, RequestFits
  <2>. QED
    BY <1>1, <2>1
<1>. QED
  BY <1>3, <1>4, <1>5, <1>6, <1>7, <1>8, <1>9 DEF Ask

\* The process that accepts a change sends a request nobody waits for.
LEMMA AcceptSends ==
  ASSUME AllInv, NEW c \in CR, Accept(c)
  PROVE  /\ [tag |-> "RC_ACCEPT", rc_tag |-> app[c].rc.tag] \in RequestMessage
         /\ Asked(c, [tag |-> "RC_ACCEPT", rc_tag |-> app[c].rc.tag], "main")
         /\ app[c].rc.tag \in offered[c] /\ offered' = [offered EXCEPT ![c] = @ \ {app[c].rc.tag}]
         /\ UNCHANGED calls
<1>. DEFINE t == app[c].rc.tag
<1>1. /\ fault = "none" /\ pc[c] = "main" /\ UNCHANGED calls /\ RCAccept(c, t)
  BY DEF Accept, At
<1>2. t \in offered[c] /\ offered' = [offered EXCEPT ![c] = @ \ {t}]
  BY <1>1 DEF RCAccept
<1>3. t \in Nat
  BY <1>2, BoundsAssumption DEF AllInv, SimInv, TypeOK
<1>4. [tag |-> "RC_ACCEPT", rc_tag |-> t] \in RequestMessage
  BY <1>3 DEF RequestMessage
<1>5. \E kept \in SUBSET offered[c] : offered' = [offered EXCEPT ![c] = kept]
  BY <1>2
<1>. HIDE DEF t
<1>. QED
  BY <1>1, <1>2, <1>4, <1>5 DEF RCAccept, Asked, Called, Awaits, Unwaited, t

\* A request the library sends keeps the invariants of the simulation.
LEMMA AskedKeeps ==
  ASSUME SP!TypeOK, SP!IInv, SimInv, NEW c \in CR, NEW r \in RequestMessage, NEW until,
         Asked(c, r, until), UNCHANGED calls
  PROVE  SP!TypeOK' /\ SP!IInv' /\ SimInv'
<1>1. UNCHANGED S!vars
  BY DEF Asked, Send, schedulerVars, S!vars, S!crVars, S!psetVars, S!rcVars
<1>2. SP!TypeOK' /\ SP!IInv'
  BY <1>1, SchedulerSame, SchedulerSteps
<1>3. calls' \in 0 .. MaxCalls
  BY DEF SimInv, TypeOK
<1>4. TypeOK'
  BY <1>3, AskedTypes
<1>5. \A d \in CR : Place(d)'
  BY SendPlace DEF Asked
<1>. QED
  BY <1>2, <1>4, <1>5, AskedUnderway DEF SimInv

\* Every step of the application keeps the invariant of the simulation.
LEMMA SimKept ==
  ASSUME AllInv, [ExampleNext]_exampleVars
  PROVE  SP!TypeOK' /\ SP!IInv' /\ SimInv'
<1>1. SP!TypeOK /\ SP!IInv /\ SimInv
  BY DEF AllInv
<1>2. ASSUME NEW c \in CR, Ask(c) PROVE SP!TypeOK' /\ SP!IInv' /\ SimInv'
  BY <1>1, <1>2, AskSends, AskedKeeps
<1>3. ASSUME NEW c \in CR, Accept(c) PROVE SP!TypeOK' /\ SP!IInv' /\ SimInv'
  BY <1>1, <1>3, AcceptSends, AskedKeeps
<1>4. CASE [Next]_allVars
  BY <1>1, <1>4, SimStep
<1>5. ASSUME NEW c \in CR, Hear(c) PROVE [Next]_allVars
  BY <1>5 DEF Hear, Next, Worker, Receive
<1>6. ASSUME NEW c \in CR, Leave(c) PROVE [Next]_allVars
  BY <1>6 DEF Leave, Next, Worker
<1>7. ASSUME NEW c \in CR, Serve(c) PROVE [Next]_allVars
  BY <1>7 DEF Serve, Next, Handle
<1>8. Finish \/ Ended => [Next]_allVars
  BY DEF Finish, Next
<1>9. (\E c \in CR : HearBcast(c)) \/ CreateComm \/ Barrier \/ UNCHANGED exampleVars
      => UNCHANGED allVars
  BY DEF HearBcast, CreateComm, Barrier, exampleVars
<1>. QED
  BY <1>2, <1>3, <1>4, <1>5, <1>6, <1>7, <1>8, <1>9 DEF ExampleNext, Process

-----------------------------------------------------------------------------
(***************************************************************************)
(* Processes and stages that a step does not concern.                      *)
(***************************************************************************)
\* A process waits on, or an idle command comes or is heard.
InboxSame(c) ==
  \/ inbox'[c] = inbox[c]
  \/ /\ app[c].at \in {"off", "lookup"}
     /\ \A m \in inbox'[c] : m \in inbox[c] \/ m.tag = Idle

Same(c) ==
  /\ app'[c] = app[c] /\ bcasts'[c] = bcasts[c] /\ InboxSame(c)
  /\ (Done(c)' <=> Done(c))
  /\ TagsHeld(c)' = TagsHeld(c) /\ AddTags(c)' = AddTags(c)
  /\ process_states'[c].origin_rc_tag = process_states[c].origin_rc_tag

OthersSame(c) == \A d \in CR : d # c => Same(d)

WorldSame == UNCHANGED <<program, running_crs, pending_shutdowns, pset_name_map, rc_map>>

\* While the scheduler's state stays, names lead where they led.
LEMMA LeadsSame ==
  ASSUME WorldSame
  PROVE  \A n, J : Leads(n, J)' <=> Leads(n, J)
BY DEF WorldSame, Leads, S!Registered

\* Offers stand as before.
LEMMA StandsSame ==
  ASSUME WorldSame
  PROVE  /\ \A t, type : Stands(t, type)' <=> Stands(t, type)
         /\ \A t, G, J : StandsFor(t, G, J)' <=> StandsFor(t, G, J)
BY DEF WorldSame, Stands, StandsFor

\* A process whose variables stay is where it was.
LEMMA SameWorks ==
  ASSUME WorldSame, NEW c, app'[c] = app[c], bcasts'[c] = bcasts[c]
  PROVE  /\ Resting(c)' <=> Resting(c)
         /\ \A G : AtWork(c, G)' <=> AtWork(c, G)
         /\ \A G : Works(c, G)' <=> Works(c, G)
         /\ Silent(c)' <=> Silent(c)
         /\ \A G, J : Learns(c, G, J)' <=> Learns(c, G, J)
         /\ \A G, J : LearnsName(c, G, J)' <=> LearnsName(c, G, J)
         /\ \A G, J : Moves(c, G, J)' <=> Moves(c, G, J)
<1>1. \A n, J : Leads(n, J)' <=> Leads(n, J)
  BY LeadsSame
<1>. QED
  BY <1>1 DEF WorldSame, Resting, AtWork, Works, Silent, Learns, LearnsName, Moves

\* So is one that only waits on or is commanded.
LEMMA SameProcess ==
  ASSUME WorldSame, NEW c, Same(c)
  PROVE  /\ Leaves(c) => Leaves(c)'
         /\ Finished(c)' <=> Finished(c)
         /\ accept_info' = accept_info => \A J : Joins(c, J)' <=> Joins(c, J)
         /\ \A J : TrueAnswers(c, J) => TrueAnswers(c, J)'
         /\ Holds(c)' <=> Holds(c)
<1>1. \A n, J : Leads(n, J)' <=> Leads(n, J)
  BY LeadsSame
<1>2. Leaves(c) => Leaves(c)'
  BY DEF WorldSame, Same, InboxSame, Leaves, Excludes, Silent, S!Registered
<1>3. Finished(c)' <=> Finished(c)
  BY DEF WorldSame, Same, Finished, Silent
<1>4. accept_info' = accept_info => \A J : Joins(c, J)' <=> Joins(c, J)
  BY <1>1 DEF WorldSame, Same, Joins, Works, Silent, S!Registered
<1>5. \A J : TrueAnswers(c, J) => TrueAnswers(c, J)'
  BY <1>1 DEF Same, InboxSame, TrueAnswers, Idle
<1>. QED
  BY <1>2, <1>3, <1>4, <1>5 DEF Same, Holds

\* One process on the way out goes on.
LEMMA AroundStep ==
  ASSUME NEW G \in SUBSET CR, Around(G), WorldSame, NEW c \in CR, OthersSame(c),
         TagsHeld(c)' \subseteq TagsHeld(c),
         c \notin G => Resting(c)' \/ (c \in pending_shutdowns /\ Leaves(c)')
  PROVE  Around(G)'
<1>1. pending_shutdowns' = pending_shutdowns
  BY DEF WorldSame
<1>2. \A d \in CR \ G : Resting(d)' \/ (d \in pending_shutdowns' /\ Leaves(d)')
  BY <1>1, SameWorks, SameProcess DEF Around, OthersSame, Same
<1>3. \A d \in CR : TagsHeld(d)' \subseteq TagsHeld(d)
  BY DEF OthersSame, Same
<1>4. \A d \in CR : Holds(d)' =>
        d \in pending_shutdowns' /\ \A t \in TagsHeld(d)' : Stands(t, "sub")'
  BY <1>1, <1>3, StandsSame DEF Around, Holds
<1>. QED
  BY <1>1, <1>2, <1>4 DEF Around

\* One process goes on, and the others work or leave as before.
LEMMA WorkingStep ==
  ASSUME NEW G \in SUBSET CR, Working(G), WorldSame, NEW c \in CR, OthersSame(c),
         TagsHeld(c)' \subseteq TagsHeld(c),
         c \notin G => Resting(c)' \/ (c \in pending_shutdowns /\ Leaves(c)'),
         c \in G => \/ Finished(c)'
                    \/ AtWork(c, G)' /\ app'[c].main = app[c].main /\ ~Finished(c)
  PROVE  Working(G)'
<1>1. Around(G)'
  BY AroundStep DEF Working
<1>2. \A d \in G : Finished(d)' \/ AtWork(d, G)'
  BY SameWorks, SameProcess DEF Working, OthersSame, Same
<1>3. ASSUME NEW d \in G, Finished(d) PROVE Finished(d)'
  BY <1>3, SameProcess DEF OthersSame
<1>4. ASSUME NEW d \in G, Leads(app[d].main, G) PROVE Finished(d)' \/ Leads(app[d].main, G)'
  BY <1>4, LeadsSame DEF OthersSame, Same
<1>. QED
  BY <1>1, <1>2, <1>3, <1>4 DEF Working

\* The root asks for a change, and a process leaves.
LEMMA SearchingStep ==
  ASSUME NEW G \in SUBSET CR, Searching(G), WorldSame, NEW c \in CR \ G, OthersSame(c),
         TagsHeld(c)' \subseteq TagsHeld(c),
         Resting(c)' \/ (c \in pending_shutdowns /\ Leaves(c)')
  PROVE  Searching(G)'
<1>1. Around(G)'
  BY AroundStep DEF Searching
<1>2. ASSUME NEW d \in G
      PROVE  /\ Works(d, G)' /\ Silent(d)' /\ Leads(app[d].main, G)'
             /\ app'[d] = app[d]
             /\ app[d].at \notin {"off", "lookup"} => inbox'[d] = inbox[d]
  BY SameWorks, LeadsSame DEF Searching, OthersSame, Same, InboxSame
<1>. QED
  BY <1>1, <1>2 DEF Searching

\* The root holds no more than before.
LEMMA RootHoldsStep ==
  ASSUME NEW G \in SUBSET CR, NEW J, RootHolds(G, J), WorldSame, NEW c \in CR, OthersSame(c),
         TagsHeld(c)' \subseteq TagsHeld(c)
  PROVE  RootHolds(G, J)'
<1>1. \A d \in CR : TagsHeld(d)' \subseteq TagsHeld(d)
  BY DEF OthersSame, Same
<1>. QED
  BY <1>1, StandsSame DEF RootHolds, Holds

\* They move, and one process goes on.
LEMMA MovingStep ==
  ASSUME NEW G \in SUBSET CR, NEW J \in SUBSET CR, Moving(G, J), WorldSame, NEW c \in CR,
         OthersSame(c), accept_info' = accept_info,
         TagsHeld(c)' = TagsHeld(c) \/ (Way(G, J) = "sub" /\ TagsHeld(c)' \subseteq TagsHeld(c)),
         AddTags(c)' \subseteq AddTags(c),
         c \in G \cap J => Moves(c, G, J)' \/ (c # Root(G) /\ LearnsName(c, G, J)'),
         c \in G \ J => Leaves(c)' \/ Resting(c)',
         c \in J \ G => (Resting(c)' /\ Resting(c)) \/ (Joins(c, J)' /\ Joins(c, J)),
         c \notin G \cup J => Resting(c)',
         c \in J => TrueAnswers(c, J)'
  PROVE  Moving(G, J)'
<1>1. pending_shutdowns' = (G \ J) \cap running_crs'
  BY DEF WorldSame, Moving
<1>2. RootHolds(G, J)'
  BY RootHoldsStep DEF Moving
<1>3. \A d \in CR : \A t \in AddTags(d)' :
        t \in DOMAIN accept_info' /\ Leads(accept_info[t].main, J)'
  BY LeadsSame DEF Moving, OthersSame, Same
<1>4. \A d \in G \cap J : Moves(d, G, J)' \/ (d # Root(G) /\ LearnsName(d, G, J)')
  BY SameWorks DEF Moving, OthersSame, Same
<1>5. \A d \in G \ J : Leaves(d)' \/ Resting(d)'
  BY SameWorks, SameProcess DEF Moving, OthersSame, Same
<1>6. \A d \in J \ G : IF \E e \in CR : Holds(e)' THEN Resting(d)' ELSE Joins(d, J)'
  <2>1. CASE J \ G = {}
    BY <2>1
  <2>2. CASE J \ G # {}
    <3>1. Way(G, J) # "sub"
      BY <2>2 DEF Way
    <3>2. (\E e \in CR : Holds(e)') <=> \E e \in CR : Holds(e)
      BY <3>1 DEF OthersSame, Same, Holds
    <3>3. \A d \in J \ G : ~(Resting(d) /\ Joins(d, J))
      BY DEF Resting, Joins, Works
    <3>. QED
      BY <3>2, <3>3, SameWorks, SameProcess DEF Moving, OthersSame, Same
  <2>. QED
    BY <2>1, <2>2
<1>7. \A d \in CR \ (G \cup J) : Resting(d)'
  BY SameWorks DEF Moving, OthersSame, Same
<1>8. \A d \in J : TrueAnswers(d, J)'
  BY SameProcess DEF Moving, OthersSame
<1>. QED
  BY <1>1, <1>2, <1>3, <1>4, <1>5, <1>6, <1>7, <1>8 DEF Moving

\* A step that concerns none of them.
LEMMA TogetherSame ==
  ASSUME Together, WorldSame, accept_info' = accept_info, \A c \in CR : Same(c)
  PROVE  Together'
<1>1. PICK G \in SUBSET CR :
        \/ Working(G) \/ Searching(G)
        \/ \E J \in SUBSET CR : Telling(G, J) \/ Naming(G, J) \/ Moving(G, J)
  BY DEF Together
<1>2. ASSUME NEW c \in CR
      PROVE  /\ OthersSame(c) /\ TagsHeld(c)' = TagsHeld(c) /\ AddTags(c)' = AddTags(c)
             /\ app'[c] = app[c] /\ bcasts'[c] = bcasts[c]
             /\ app[c].at \notin {"off", "lookup"} => inbox'[c] = inbox[c]
  BY DEF OthersSame, Same, InboxSame
<1>3. Around(G) => Around(G)'
  BY <1>2, SameWorks, SameProcess, StandsSame DEF Around, WorldSame, Holds
<1>4. Working(G) => Working(G)'
  BY <1>2, <1>3, SameWorks, SameProcess, LeadsSame DEF Working
<1>5. Searching(G) => Searching(G)'
  BY <1>2, <1>3, SameWorks, LeadsSame DEF Searching
<1>6. ASSUME NEW J \in SUBSET CR, Telling(G, J) \/ Naming(G, J) \/ Moving(G, J)
      PROVE  Telling(G, J)' \/ Naming(G, J)' \/ Moving(G, J)'
  <2>1. Apart(G, J) => Apart(G, J)'
    BY <1>2, SameWorks DEF Apart, WorldSame
  <2>2. RootHolds(G, J) => RootHolds(G, J)'
    BY <1>2, StandsSame DEF RootHolds, Holds
  <2>3. \A m : IsOffer(m, G, J)' <=> IsOffer(m, G, J)
    BY LeadsSame, StandsSame DEF IsOffer
  <2>4. Telling(G, J) => Telling(G, J)'
    BY <1>2, <2>1, <2>3, SameWorks, SameProcess, LeadsSame DEF Telling
  <2>5. Naming(G, J) => Naming(G, J)'
    BY <1>2, <2>1, <2>2, SameWorks, SameProcess, LeadsSame DEF Naming
  <2>6. Moving(G, J) => Moving(G, J)'
    <3>. SUFFICES ASSUME Moving(G, J) PROVE Moving(G, J)'
      OBVIOUS
    <3>1. (\E c \in CR : Holds(c)') <=> \E c \in CR : Holds(c)
      BY SameProcess
    <3>2. \A d \in CR : \A t \in AddTags(d)' :
            t \in DOMAIN accept_info' /\ Leads(accept_info[t].main, J)'
      BY <1>2, LeadsSame DEF Moving
    <3>3. /\ \A d \in G \cap J : Moves(d, G, J)' \/ (d # Root(G) /\ LearnsName(d, G, J)')
          /\ \A d \in G \ J : Leaves(d)' \/ Resting(d)'
          /\ \A d \in CR \ (G \cup J) : Resting(d)'
      BY <1>2, SameWorks, SameProcess DEF Moving
    <3>4. \A d \in J \ G : IF \E e \in CR : Holds(e)' THEN Resting(d)' ELSE Joins(d, J)'
      BY <1>2, <3>1, SameWorks, SameProcess DEF Moving
    <3>5. \A d \in J : TrueAnswers(d, J)'
      BY SameProcess DEF Moving
    <3>. QED
      BY <2>2, <3>2, <3>3, <3>4, <3>5 DEF Moving, WorldSame
  <2>. QED
    BY <1>6, <2>4, <2>5, <2>6
<1>. QED
  BY <1>1, <1>4, <1>5, <1>6 DEF Together

-----------------------------------------------------------------------------
(***************************************************************************)
(* What is underway to and from a process.                                 *)
(***************************************************************************)
LEMMA AwaitsDiffer ==
  /\ \A s, t \in DOMAIN Awaits : Awaits[s] = Awaits[t] => s = t
  /\ \A t \in DOMAIN Awaits : Awaits[t] \in AnswerTag \ {"PSET_LOOKUP_ANSWER", "main", "quit", Idle}
  /\ \A at \in DOMAIN AskedAt : AskedAt[at] \in DOMAIN Awaits
  /\ "off" \notin DOMAIN AskedAt
BY DEF Awaits, AskedAt, AnswerTag, Idle

\* Where a process is that hears such an answer.
LEMMA AnswersAt ==
  ASSUME NEW at \in DOMAIN AskedAt, NEW tag, tag = Awaits[AskedAt[at]]
  PROVE  /\ tag # "IDLE_COMMAND" /\ tag # "PSET_LOOKUP_ANSWER"
         /\ tag = "SESSION_CREATE_ANSWER" <=> at = "session"
         /\ tag = "SESSION_INFO_ANSWER" <=> at = "info"
         /\ tag = "PSET_LOOKUP_ANSWER_SIZE" <=> at = "lookup"
         /\ tag = "RC_ANSWER" <=> at = "get_change"
         /\ tag = "PSET_OP_ANSWER" <=> at = "create_op"
         /\ tag = "SESSION_FINALIZE_ANSWER" <=> at = "finalize"
         /\ tag = "GET_PSETS_ANSWER" <=> at \in {"psets", "check"}
BY DEF Awaits, AskedAt

\* A process is in one of its places, and the job has not aborted.
LEMMA PlaceIs ==
  ASSUME AllInv, NEW c \in CR
  PROVE  Place(c) /\ fault = "none" /\ InStep(c)
BY DEF AllInv, SimInv, AppInv

\* A process in its program has nothing underway but what it does not wait for.
LEMMA MainPlace ==
  ASSUME AllInv, NEW c \in CR, pc[c] = "main"
  PROVE  inbox[c] = {} /\ DOMAIN requests[c] = Accepts(c) /\ c \in running_crs /\ ~Done(c)
<1>1. InProgram(c)
  BY PlaceIs DEF Place, AtRest, ToStart, Asking, Answered, LookupAnswered, SelfAnswered,
         Unanswerable, Leaving, ToQuit, HasQuit, Idle, Awaits, AnswerTag
<1>. QED
  BY <1>1, PlaceIs DEF InProgram, NoneOpen, Unwaited, InStep, RequestFits, Accepts, Done

\* A request is an accept, the end of the program, or what is asked at this place.
LEMMA RequestPlace ==
  ASSUME AllInv, NEW c \in CR, NEW i \in DOMAIN requests[c], requests[c][i].tag # "RC_ACCEPT"
  PROVE  /\ inbox[c] = {} /\ c \in running_crs
         /\ \/ requests[c][i].tag = "DONE_RUNNING" /\ Done(c) /\ app[c] = Off /\ pc[c] = Idle
            \/ /\ app[c].at \in DOMAIN AskedAt /\ requests[c][i].tag = AskedAt[app[c].at]
               /\ pc[c] = Awaits[requests[c][i].tag]
<1>1. requests[c][i].tag \notin Unwaited
  BY PlaceIs DEF InStep, RequestFits, Unwaited
<1>2. CASE Leaving(c)
  <2>1. requests[c][i].tag = "DONE_RUNNING"
    BY <1>1, <1>2 DEF Leaving, OnlyOpen
  <2>. QED
    BY <1>2, <2>1, PlaceIs DEF Leaving, InStep, Done
<1>3. CASE Asking(c)
  <2>1. PICK tag \in DOMAIN Awaits : pc[c] = Awaits[tag] /\ OnlyOpen(requests[c], tag)
    BY <1>3 DEF Asking
  <2>2. requests[c][i].tag = tag
    BY <1>1, <2>1 DEF OnlyOpen
  <2>3. pc[c] \in AnswerTag /\ pc[c] # "PSET_LOOKUP_ANSWER"
    BY <2>1, AwaitsDiffer
  <2>4. app[c].at \in DOMAIN AskedAt /\ pc[c] = Awaits[AskedAt[app[c].at]]
    BY <2>3, PlaceIs DEF InStep
  <2>5. tag = AskedAt[app[c].at]
    BY <2>1, <2>4, AwaitsDiffer
  <2>. QED
    BY <1>3, <2>1, <2>2, <2>4, <2>5 DEF Asking
<1>. QED
  BY <1>1, <1>2, <1>3, PlaceIs
     DEF Place, AtRest, ToStart, InProgram, Answered, LookupAnswered, SelfAnswered, Unanswerable,
         ToQuit, HasQuit, NoneOpen

\* While a message is on its way to a process, none of its requests is but accepts.
LEMMA MessagePlace ==
  ASSUME AllInv, NEW c \in CR, inbox[c] # {}
  PROVE  DOMAIN requests[c] = Accepts(c) /\ pc[c] # "main"
<1>1. NoneOpen(requests[c]) /\ pc[c] # "main"
  BY PlaceIs DEF Place, AtRest, ToStart, InProgram, Asking, Answered, LookupAnswered, SelfAnswered,
         Unanswerable, Leaving, ToQuit, HasQuit, AnswerTag, Idle
<1>. QED
  BY <1>1, PlaceIs DEF NoneOpen, Unwaited, InStep, RequestFits, Accepts

\* What a process receives is what it waits for.
LEMMA TakenPlace ==
  ASSUME AllInv, NEW c \in CR, NEW m \in inbox[c], m.tag = pc[c]
  PROVE  /\ DOMAIN requests[c] = Accepts(c) /\ ~Done(c)
         /\ m.tag # "PSET_LOOKUP_ANSWER_SIZE" => inbox[c] = {m}
         /\ \/ /\ m = S!Command(c, "start") /\ inbox[c] = {m}
               /\ c \in running_crs /\ app[c] = Off /\ pc[c] = Idle
            \/ /\ m = S!Command(c, "shutdown") /\ inbox[c] = {m}
               /\ c \notin running_crs /\ app[c] = Off /\ pc[c] = Idle
            \/ /\ app[c].at \in DOMAIN AskedAt /\ c \in running_crs
               /\ \/ m.tag = Awaits[AskedAt[app[c].at]]
                  \/ m.tag = "PSET_LOOKUP_ANSWER" /\ app[c].at = "lookup"
<1>1. DOMAIN requests[c] = Accepts(c)
  BY MessagePlace
<1>2. ~Done(c)
  BY <1>1 DEF Done, Accepts
<1>3. CASE pc[c] \in AnswerTag
  <2>1. c \in running_crs /\ (m.tag # "PSET_LOOKUP_ANSWER_SIZE" => inbox[c] = {m})
    BY <1>3, PlaceIs DEF Place, AtRest, ToStart, InProgram, Asking, Answered, LookupAnswered,
       SelfAnswered, Unanswerable, Leaving, ToQuit, HasQuit, AnswerTag, Idle
  <2>. QED
    BY <1>1, <1>2, <1>3, <2>1, PlaceIs DEF InStep
<1>4. CASE pc[c] \notin AnswerTag
  <2>1. ToStart(c) \/ ToQuit(c)
    BY <1>4, PlaceIs, AwaitsDiffer
       DEF Place, AtRest, InProgram, Asking, Answered, LookupAnswered, SelfAnswered, Unanswerable,
           Leaving, HasQuit, AnswerTag
  <2>. QED
    BY <1>1, <1>2, <2>1, PlaceIs DEF ToStart, ToQuit, InStep
<1>. QED
  BY <1>3, <1>4

\* A process nothing happens to stays in step.
LEMMA InStepSame ==
  ASSUME NEW c, InStep(c), app'[c] = app[c], pc'[c] = pc[c], requests'[c] = requests[c],
         inbox'[c] = inbox[c], offered'[c] = offered[c], AddTags(c)' \subseteq AddTags(c)
  PROVE  InStep(c)'
BY DEF InStep

\* There is one holder as long as nobody is offered anything.
LEMMA HolderStep ==
  ASSUME OneHolder, \A c \in CR : TagsHeld(c)' \subseteq TagsHeld(c)
  PROVE  OneHolder'
BY DEF OneHolder, Holds

\* The first process set is only concerned by changes of the scheduler's state.
LEMMA WorldRunsSame ==
  ASSUME WorldRuns, WorldSame
  PROVE  WorldRuns'
BY DEF WorldRuns, WorldSame, S!Registered

\* What a process holds and has underway only depends on its requests and offers.
LEMMA QueueSame ==
  ASSUME NEW c, requests'[c] = requests[c]
  PROVE  /\ Accepts(c)' = Accepts(c) /\ AcceptTags(c)' = AcceptTags(c)
         /\ (Done(c)' <=> Done(c))
         /\ rc_map' = rc_map => AddTags(c)' = AddTags(c)
         /\ rc_map' = rc_map /\ offered'[c] = offered[c] => TagsHeld(c)' = TagsHeld(c)
<1>1. Accepts(c)' = Accepts(c) /\ (Done(c)' <=> Done(c))
  BY DEF Accepts, Done
<1>2. AcceptTags(c)' = AcceptTags(c)
  BY <1>1 DEF AcceptTags
<1>. QED
  BY <1>1, <1>2 DEF AddTags, TagsHeld

\* A request that is sent comes after those that are underway.
LEMMA AppendTags ==
  ASSUME NEW c, NEW r \in RequestMessage, requests[c] \in Seq(RequestMessage),
         requests'[c] = Append(requests[c], r)
  PROVE  /\ \A i \in DOMAIN requests[c] :
              i \in DOMAIN requests'[c] /\ requests'[c][i] = requests[c][i]
         /\ \A i \in DOMAIN requests'[c] : i \in DOMAIN requests[c] \/ requests'[c][i] = r
         /\ \A i, j \in DOMAIN requests'[c] :
              i \notin DOMAIN requests[c] /\ j \notin DOMAIN requests[c] => i = j
         /\ r.tag = "RC_ACCEPT" => AcceptTags(c)' = AcceptTags(c) \cup {r.rc_tag}
         /\ r.tag # "RC_ACCEPT" => Accepts(c)' = Accepts(c) /\ AcceptTags(c)' = AcceptTags(c)
         /\ Done(c)' <=> Done(c) \/ r.tag = "DONE_RUNNING"
<1>1. /\ DOMAIN requests'[c] = DOMAIN requests[c] \cup {Len(requests[c]) + 1}
      /\ Len(requests[c]) + 1 \notin DOMAIN requests[c]
      /\ \A j \in DOMAIN requests[c] : requests'[c][j] = requests[c][j]
      /\ requests'[c][Len(requests[c]) + 1] = r
  BY AppendIs
<1>2. Accepts(c)' = Accepts(c) \cup (IF r.tag = "RC_ACCEPT" THEN {Len(requests[c]) + 1} ELSE {})
  BY <1>1 DEF Accepts
<1>3. Accepts(c) \subseteq DOMAIN requests[c]
  BY DEF Accepts
<1>4. /\ r.tag = "RC_ACCEPT" => AcceptTags(c)' = AcceptTags(c) \cup {r.rc_tag}
      /\ r.tag # "RC_ACCEPT" => AcceptTags(c)' = AcceptTags(c)
  BY <1>1, <1>2, <1>3 DEF AcceptTags
<1>5. Done(c)' <=> Done(c) \/ r.tag = "DONE_RUNNING"
  BY <1>1 DEF Done
<1>. QED
  BY <1>1, <1>2, <1>4, <1>5

-----------------------------------------------------------------------------
(***************************************************************************)
(* Every step of a process keeps the invariant.  It asks for something.    *)
(***************************************************************************)
LEMMA AskStep ==
  ASSUME AllInv, NEW c \in CR, Ask(c)
  PROVE  AppInv'
<1>1. PICK r \in RequestMessage :
        /\ Asked(c, r, Awaits[r.tag]) /\ r.tag = AskedAt[app[c].at] /\ RequestFits(app[c], r)
        /\ app[c].at \in DOMAIN AskedAt /\ offered' = offered
        /\ UNCHANGED <<calls, appVars>>
  BY AskSends
<1>2. /\ UNCHANGED <<program, app, bcasts, accept_info, offered>>
      /\ Send(c, r, Awaits[r.tag]) /\ pc[c] = "main"
  BY <1>1 DEF appVars, Asked
<1>3. UNCHANGED schedulerVars /\ UNCHANGED inbox
  BY <1>2 DEF Send
<1>4. r.tag \in DOMAIN Awaits /\ r.tag \notin {"RC_ACCEPT", "DONE_RUNNING"}
  BY <1>1, AwaitsDiffer DEF Awaits
<1>5. /\ requests[c] \in Seq(RequestMessage) /\ requests'[c] = Append(requests[c], r)
      /\ pc'[c] = Awaits[r.tag]
      /\ \A d \in CR : d # c => requests'[d] = requests[d] /\ pc'[d] = pc[d]
  BY <1>2 DEF Send, AllInv, SimInv, TypeOK
<1>6. /\ Accepts(c)' = Accepts(c) /\ AcceptTags(c)' = AcceptTags(c) /\ (Done(c)' <=> Done(c))
      /\ \A i \in DOMAIN requests'[c] :
           \/ i \in DOMAIN requests[c] /\ requests'[c][i] = requests[c][i]
           \/ requests'[c][i] = r
  BY <1>4, <1>5, AppendTags
<1>7. WorldSame
  BY <1>2, <1>3 DEF WorldSame, schedulerVars
<1>8. \A d \in CR : Same(d)
  <2>1. \A d \in CR : AcceptTags(d)' = AcceptTags(d) /\ (Done(d)' <=> Done(d))
    BY <1>5, <1>6, QueueSame
  <2>2. \A d \in CR : AddTags(d)' = AddTags(d)
    BY <1>7, <2>1 DEF AddTags, WorldSame
  <2>. QED
    BY <1>2, <1>3, <2>1, <2>2 DEF Same, InboxSame, TagsHeld, schedulerVars
<1>9. InStep(c)'
  <2>1. InStep(c)
    BY PlaceIs
  <2>2. \A i \in DOMAIN requests'[c] : RequestFits(app[c], requests'[c][i])
    BY <1>1, <1>6, <2>1 DEF InStep
  <2>3. pc'[c] \in AnswerTag \ {"main", "quit", Idle}
    BY <1>4, <1>5, AwaitsDiffer
  <2>. QED
    BY <1>1, <1>2, <1>3, <1>5, <1>6, <1>8, <2>1, <2>2, <2>3, AwaitsDiffer DEF InStep, Same
<1>10. \A d \in CR : InStep(d)'
  BY <1>2, <1>3, <1>5, <1>8, <1>9, PlaceIs, InStepSame DEF Same
<1>. QED
  BY <1>2, <1>3, <1>7, <1>8, <1>10, TogetherSame, HolderStep, WorldRunsSame
     DEF AllInv, AppInv, AppTypeOK, schedulerVars, Same

-----------------------------------------------------------------------------
(***************************************************************************)
(* A process hears an answer.                                              *)
(***************************************************************************)
\* The data of a message.
LEMMA MessageData ==
  ASSUME NEW m \in S!Message
  PROVE  /\ m.tag = "RC_ANSWER" => [type |-> m.type, tag |-> m.rc_tag, name |-> m.name] \in Change
         /\ m.tag = "PSET_OP_ANSWER" => m.name \in S!PsetName
         /\ m.tag = "PSET_LOOKUP_ANSWER" => m.pset \in SUBSET Rank
BY DEF S!Message, Change

\* What a process does next keeps the type of its variables.
LEMMA AgainType ==
  ASSUME NEW a \in AppState
  PROVE  Loop(a) \in AppState /\ Again(a) \in AppState
<1>1. NoChange \in Change
  BY DEF NoChange, Change, S!RCType, S!NoTag, S!NoName, S!PsetName
<1>2. \A b \in AppState : Loop(b) \in AppState
  BY <1>1 DEF Loop, AppState, Places
<1>3. [a EXCEPT !.iter = IF program = "07" THEN @ + 1 ELSE @] \in AppState
  BY DEF AppState
<1>. QED
  BY <1>2, <1>3 DEF Again

\* What it does when it is told of a change does, too.
LEMMA ToldType ==
  ASSUME NEW a \in AppState, NEW rc \in Change, NEW root \in BOOLEAN
  PROVE  Told(a, rc, root) \in AppState
BY AgainType DEF Told, AppState, Places

\* What it does when it is told a name does, too.
LEMMA NamedType ==
  ASSUME NEW a \in AppState, NEW name \in S!PsetName, NEW root \in BOOLEAN
  PROVE  Named(a, name, root) \in AppState
BY DEF Named, AppState, Places

\* What it does when it learns where it comes from does, too.
LEMMA InformedType ==
  ASSUME AppTypeOK, NEW a \in AppState, NEW tag
  PROVE  Informed(a, tag) \in AppState
<1>1. S!World \in S!PsetName
  BY DEF S!World, S!PsetName
<1>2. tag \in DOMAIN accept_info =>
        accept_info[tag].main \in S!PsetName /\ accept_info[tag].iter \in Nat
  BY DEF AppTypeOK
<1>. QED
  BY <1>1, <1>2 DEF Informed, AppState, Places

\* Whatever it hears, its variables keep their type.
LEMMA AfterType ==
  ASSUME AppTypeOK, NEW c \in CR, NEW m \in S!Message,
         \/ m.tag = "IDLE_COMMAND"
         \/ /\ app[c].at \in DOMAIN AskedAt
            /\ m.tag = Awaits[AskedAt[app[c].at]] \/ m.tag = "PSET_LOOKUP_ANSWER",
         m.tag = "PSET_LOOKUP_ANSWER_SIZE" => m.size # 0
  PROVE  After(c, app[c], m) \in AppState
<1>. DEFINE a == app[c]
            names == {r.name : r \in m.psets}
<1>1. a \in AppState /\ S!World \in S!PsetName
  BY DEF AppTypeOK, S!World, S!PsetName
<1>2. m.tag = "GET_PSETS_ANSWER" => a.at \in {"psets", "check"}
  BY DEF Awaits, AskedAt
<1>3. m.tag \in {"IDLE_COMMAND", "SESSION_CREATE_ANSWER", "SESSION_INFO_ANSWER",
                 "SESSION_FINALIZE_ANSWER", "GET_PSETS_ANSWER", "PSET_LOOKUP_ANSWER_SIZE",
                 "PSET_LOOKUP_ANSWER", "PSET_OP_ANSWER", "RC_ANSWER"}
  BY DEF Awaits, AskedAt
<1>4. CASE m.tag = "IDLE_COMMAND"
  <2>1. NoChange \in Change /\ S!NoName \in S!PsetName
    BY DEF NoChange, Change, S!RCType, S!NoTag, S!NoName, S!PsetName
  <2>2. [Off EXCEPT !.at = "session"] \in AppState
    BY <2>1 DEF Off, AppState, Places
  <2>3. After(c, a, m) = IF m.command = "start" THEN [Off EXCEPT !.at = "session"] ELSE a
    BY <1>4 DEF After, Idle
  <2>. QED
    BY <1>1, <2>2, <2>3
<1>5. CASE m.tag = "GET_PSETS_ANSWER" /\ a.at = "psets"
  <2>1. /\ [a EXCEPT !.main = S!World, !.at = "lookup"] \in AppState
        /\ [a EXCEPT !.at = "info"] \in AppState
    BY <1>1 DEF AppState, Places
  <2>2. After(c, a, m) = IF S!World \in names THEN [a EXCEPT !.main = S!World, !.at = "lookup"]
                         ELSE [a EXCEPT !.at = "info"]
    BY <1>5 DEF After, Idle
  <2>. QED
    BY <2>1, <2>2
<1>6. CASE m.tag = "GET_PSETS_ANSWER" /\ a.at = "check"
  <2>1. \A stays, root \in BOOLEAN : Checked(a, stays, root) \in AppState
    BY <1>1 DEF Checked, AppState, Places
  <2>2. (a.main \in names) \in BOOLEAN /\ IsRoot(c) \in BOOLEAN
    BY DEF IsRoot
  <2>3. After(c, a, m) = Checked(a, a.main \in names, IsRoot(c))
    BY <1>6 DEF After, Idle
  <2>. QED
    BY ONLY <2>1, <2>2, <2>3
<1>7. CASE m.tag \in {"SESSION_CREATE_ANSWER", "SESSION_FINALIZE_ANSWER"}
  <2>1. /\ [a EXCEPT !.at = IF program = "07" THEN "psets" ELSE "info"] \in AppState
        /\ [a EXCEPT !.at = "exit"] \in AppState
    BY <1>1 DEF AppState, Places
  <2>. QED
    BY <1>7, <2>1 DEF After, Idle
<1>8. CASE m.tag = "SESSION_INFO_ANSWER"
  <2>1. After(c, a, m) = Informed(a, m.origin_rc_tag)
    BY <1>8 DEF After, Idle
  <2>. QED
    BY <1>1, <2>1, InformedType
<1>9. CASE m.tag \in {"PSET_LOOKUP_ANSWER_SIZE", "PSET_LOOKUP_ANSWER"}
  <2>1. m.tag = "PSET_LOOKUP_ANSWER" => [a EXCEPT !.group = m.pset, !.at = "join"] \in AppState
    BY <1>1, MessageData DEF AppState, Places
  <2>. QED
    BY <1>1, <1>9, <2>1 DEF After, Idle
<1>10. CASE m.tag = "RC_ANSWER"
  <2>1. After(c, a, m) = Told(a, [type |-> m.type, tag |-> m.rc_tag, name |-> m.name], TRUE)
    BY <1>10 DEF After, Idle
  <2>. QED
    BY <1>1, <1>10, <2>1, MessageData, ToldType
<1>11. CASE m.tag = "PSET_OP_ANSWER"
  <2>1. After(c, a, m) = Named(a, m.name, TRUE)
    BY <1>11 DEF After, Idle
  <2>. QED
    BY <1>1, <1>11, <2>1, MessageData, NamedType
<1>. QED
  BY <1>2, <1>3, <1>4, <1>5, <1>6, <1>7, <1>8, <1>9, <1>10, <1>11

\* Who is at such a place is on the way out, and was so before.
LEMMA LeaverTogether ==
  ASSUME Together, WorldSame, accept_info' = accept_info, NEW c \in CR, OthersSame(c),
         c \in running_crs, Leaves(c) \/ Finished(c),
         Leaves(c) => Leaves(c)', Finished(c) => Finished(c)',
         TagsHeld(c)' \subseteq TagsHeld(c), AddTags(c)' \subseteq AddTags(c)
  PROVE  Together'
<1>1. PICK G \in SUBSET CR :
        \/ Working(G) \/ Searching(G)
        \/ \E J \in SUBSET CR : Telling(G, J) \/ Naming(G, J) \/ Moving(G, J)
  BY DEF Together
<1>2. /\ ~Resting(c) /\ ~AtWork(c, G)
      /\ app[c].at \in {"get_change", "hear_change"} => ~Silent(c)
      /\ app[c].at # "create_op"
      /\ \A J : ~Learns(c, G, J)
  BY DEF Resting, Leaves, Finished, AtWork, Learns, Silent, Off
<1>3. CASE Working(G)
  <2>1. c \in G => Finished(c)'
    BY <1>2, <1>3 DEF Working
  <2>2. c \notin G => c \in pending_shutdowns /\ Leaves(c)'
    BY <1>2, <1>3 DEF Working, Around
  <2>3. Working(G)'
    BY <1>3, <2>1, <2>2, WorkingStep
  <2>. QED
    BY <2>3 DEF Together
<1>4. CASE Searching(G)
  <2>1. c \notin G
    BY <1>2, <1>4 DEF Searching
  <2>2. c \in pending_shutdowns /\ Leaves(c)'
    BY <1>2, <1>4, <2>1 DEF Searching, Around
  <2>3. Searching(G)'
    BY <1>4, <2>1, <2>2, SearchingStep
  <2>. QED
    BY <2>3 DEF Together
<1>5. ASSUME NEW J \in SUBSET CR, Telling(G, J) \/ Naming(G, J) PROVE FALSE
  BY <1>2, <1>5 DEF Telling, Naming, Apart
<1>6. ASSUME NEW J \in SUBSET CR, Moving(G, J) PROVE Together'
  <2>1. c \notin G \cap J
    <3>. SUFFICES ASSUME c \in G \cap J PROVE FALSE
      OBVIOUS
    <3>1. CASE LearnsName(c, G, J)
      <4>1. \A n : Leads(n, J) => ~Excludes(n, c)
        BY DEF Leads, Excludes
      <4>. QED
        BY <3>1, <4>1 DEF LearnsName, Leaves, Finished, Silent, Off
    <3>2. CASE Moves(c, G, J)
      <4>1. \A n : Leads(n, J) => ~Excludes(n, c)
        BY DEF Leads, Excludes
      <4>. QED
        BY <3>2, <4>1 DEF Moves, Leaves, Finished, Silent, Off
    <3>. QED
      BY <1>6, <3>1, <3>2 DEF Moving
  <2>2. c \notin J \ G
    BY <1>2, <1>6 DEF Moving, Joins, Leaves, Finished, Silent, Off
  <2>3. c \in G \ J /\ Leaves(c)
    BY <1>2, <1>6, <2>1, <2>2 DEF Moving
  <2>4. Way(G, J) = "sub"
    BY <1>6, <2>3 DEF Moving, IsWay, Way
  <2>5. Moving(G, J)'
    BY <1>6, <2>3, <2>4, MovingStep
  <2>. QED
    BY <2>5 DEF Together
<1>. QED
  BY <1>1, <1>3, <1>4, <1>5, <1>6

\* A message goes to the other members of c's communicator.
Broadcast(c, m) ==
  [d \in CR |-> IF d \in app[c].comm \ {c} THEN Append(bcasts[d], m) ELSE bcasts[d]]

Hears(c, m) ==
  /\ Take(c, m)
  /\ app' = [app EXCEPT ![c] = After(c, @, m)]
  /\ bcasts' = IF m.tag \in {"RC_ANSWER", "PSET_OP_ANSWER"} THEN Broadcast(c, m) ELSE bcasts
  /\ UNCHANGED <<program, accept_info>>

\* What hearing an answer changes.
LEMMA HearEffect ==
  ASSUME AllInv, NEW c \in CR, NEW m \in inbox[c], Hears(c, m)
  PROVE  /\ WorldSame /\ UNCHANGED <<accept_info, requests, schedulerVars>>
         /\ app'[c] = After(c, app[c], m) /\ app' \in [CR -> AppState]
         /\ inbox'[c] = inbox[c] \ {m}
         /\ pc'[c] = (CASE m.tag = Idle /\ m.command = "shutdown" -> "quit"
                        [] m.tag = "PSET_LOOKUP_ANSWER_SIZE" /\ m.size > 0 -> "PSET_LOOKUP_ANSWER"
                        [] OTHER -> "main")
         /\ m.tag # "RC_ANSWER" => offered' = offered
         /\ \A d \in CR : d # c =>
              /\ app'[d] = app[d] /\ inbox'[d] = inbox[d] /\ pc'[d] = pc[d]
              /\ offered'[d] = offered[d]
         /\ \A d \in CR : /\ AddTags(d)' = AddTags(d) /\ Accepts(d)' = Accepts(d)
                          /\ (Done(d)' <=> Done(d))
         /\ DOMAIN requests[c] = Accepts(c)
         /\ m.tag \notin {"RC_ANSWER", "PSET_OP_ANSWER"} => bcasts' = bcasts /\ OthersSame(c)
         /\ offered' = offered => TagsHeld(c)' = TagsHeld(c)
         /\ m.tag # "PSET_LOOKUP_ANSWER_SIZE" => inbox'[c] = {}
<1>1. /\ app \in [CR -> AppState] /\ inbox \in [CR -> SUBSET S!Message]
      /\ pc \in [CR -> {"main", "quit", Idle} \cup AnswerTag]
      /\ offered \in [CR -> SUBSET (0 .. MaxRcTag + 1)]
  BY DEF AllInv, AppInv, AppTypeOK, SimInv, TypeOK
<1>2. /\ Take(c, m) /\ app' = [app EXCEPT ![c] = After(c, @, m)]
      /\ m.tag \notin {"RC_ANSWER", "PSET_OP_ANSWER"} => bcasts' = bcasts
      /\ UNCHANGED <<program, accept_info>>
  BY DEF Hears
<1>3. UNCHANGED <<schedulerVars, requests, calls>>
  BY <1>2 DEF Take
<1>4. WorldSame
  BY <1>2, <1>3 DEF WorldSame, schedulerVars
<1>5. /\ inbox'[c] = inbox[c] \ {m}
      /\ \A d \in CR : d # c => inbox'[d] = inbox[d] /\ pc'[d] = pc[d] /\ offered'[d] = offered[d]
      /\ m.tag # "RC_ANSWER" => offered' = offered
  BY <1>2, <1>1 DEF Take
<1>6. pc'[c] = (CASE m.tag = Idle /\ m.command = "shutdown" -> "quit"
                  [] m.tag = "PSET_LOOKUP_ANSWER_SIZE" /\ m.size > 0 -> "PSET_LOOKUP_ANSWER"
                  [] OTHER -> "main")
  BY <1>2, <1>1 DEF Take
<1>7. \/ m.tag = "IDLE_COMMAND"
      \/ /\ app[c].at \in DOMAIN AskedAt
         /\ m.tag = Awaits[AskedAt[app[c].at]] \/ m.tag = "PSET_LOOKUP_ANSWER"
  BY <1>2, TakenPlace DEF Take, S!Command
<1>8. m.tag = "PSET_LOOKUP_ANSWER_SIZE" => m.size # 0
  <2>. SUFFICES ASSUME m.tag = "PSET_LOOKUP_ANSWER_SIZE" PROVE m.size # 0
    OBVIOUS
  <2>1. app[c].at = "lookup"
    BY <1>7, AnswersAt
  <2>2. PICK G, J \in SUBSET CR : Moving(G, J) /\ c \in J
    BY <2>1, LookedUp
  <2>. QED
    BY <2>2 DEF Moving, TrueAnswers
<1>9. After(c, app[c], m) \in AppState
  <2>1. AppTypeOK /\ m \in S!Message
    BY <1>1 DEF AllInv, AppInv
  <2>. QED
    BY <1>7, <1>8, <2>1, AfterType
<1>10. \A d \in CR : /\ AddTags(d)' = AddTags(d) /\ Accepts(d)' = Accepts(d)
                     /\ (Done(d)' <=> Done(d))
                     /\ offered'[d] = offered[d] => TagsHeld(d)' = TagsHeld(d)
  BY <1>3, <1>4, QueueSame DEF WorldSame
<1>11. /\ DOMAIN requests[c] = Accepts(c)
       /\ m.tag # "PSET_LOOKUP_ANSWER_SIZE" => inbox'[c] = {}
  BY <1>2, <1>5, TakenPlace DEF Take
<1>12. app'[c] = After(c, app[c], m) /\ \A d \in CR : d # c => app'[d] = app[d]
  BY <1>2, <1>1
<1>13. app' \in [CR -> AppState]
  BY <1>2, <1>1, <1>9
<1>14. m.tag \notin {"RC_ANSWER", "PSET_OP_ANSWER"} => bcasts' = bcasts /\ OthersSame(c)
  BY <1>2, <1>3, <1>5, <1>10, <1>12 DEF OthersSame, Same, InboxSame, schedulerVars
<1>. QED
  BY <1>2, <1>3, <1>4, <1>5, <1>10, <1>12, <1>13, <1>14, <1>11, <1>6

\* A step of one process keeps the invariant if its place and what all do together fit.
LEMMA StepEnds ==
  ASSUME AllInv, NEW c \in CR, fault' = fault, AppTypeOK', InStep(c)',
         \A d \in CR : d # c => /\ app'[d] = app[d] /\ pc'[d] = pc[d] /\ requests'[d] = requests[d]
                                /\ inbox'[d] = inbox[d] /\ offered'[d] = offered[d]
                                /\ AddTags(d)' \subseteq AddTags(d),
         OneHolder', WorldRuns', Together'
  PROVE  AppInv'
<1>1. \A d \in CR : InStep(d)'
  BY PlaceIs, InStepSame
<1>. QED
  BY <1>1 DEF AllInv, AppInv

\* After it has heard an answer, a process goes on or hears the second part of it.
LEMMA HeardInStep ==
  ASSUME NEW c, InStep(c), DOMAIN requests[c] = Accepts(c), requests' = requests,
         app'[c].at # "off",
         pc'[c] = "main" \/ (pc'[c] = "PSET_LOOKUP_ANSWER" /\ app'[c].at = "lookup"),
         app'[c].leave => app'[c].at \in {"accept", "finalize", "exit"},
         offered'[c] # {} => app'[c].at \in {"create_op", "check", "accept", "finalize", "exit"},
         AddTags(c)' # {} => app'[c].at \in {"lookup", "join"}
  PROVE  InStep(c)'
<1>1. \A i \in DOMAIN requests'[c] : RequestFits(app'[c], requests'[c][i])
  BY DEF Accepts, RequestFits
<1>2. app'[c].at = "lookup" => app'[c].at \in DOMAIN AskedAt
  BY DEF AskedAt
<1>. QED
  BY <1>1, <1>2 DEF InStep, Idle, AnswerTag

\* What is left to show of a message that is heard.
LEMMA HearEnds ==
  ASSUME AllInv, NEW c \in CR, NEW m \in inbox[c], Hears(c, m), app'[c].at # "off",
         pc'[c] = "main" \/ (pc'[c] = "PSET_LOOKUP_ANSWER" /\ app'[c].at = "lookup"),
         app'[c].leave => app'[c].at \in {"accept", "finalize", "exit"},
         offered'[c] # {} => app'[c].at \in {"create_op", "check", "accept", "finalize", "exit"},
         app[c].at = "lookup" => app'[c].at = "join",
         OneHolder', Together'
  PROVE  AppInv'
<1>1. /\ WorldSame /\ UNCHANGED <<accept_info, requests, schedulerVars>>
      /\ app' \in [CR -> AppState]
      /\ \A d \in CR : d # c =>
           app'[d] = app[d] /\ inbox'[d] = inbox[d] /\ pc'[d] = pc[d] /\ offered'[d] = offered[d]
      /\ \A d \in CR : AddTags(d)' = AddTags(d)
  BY HearEffect
<1>2. m \in S!Message /\ bcasts \in [CR -> Seq(S!Message)]
  BY DEF AllInv, SimInv, TypeOK, AppInv, AppTypeOK
<1>3. bcasts' \in [CR -> Seq(S!Message)]
  <2>1. \A q \in Seq(S!Message) : Append(q, m) \in Seq(S!Message)
    BY <1>2
  <2>. QED
    BY <1>2, <2>1 DEF Hears, Broadcast
<1>4. AppTypeOK'
  BY <1>1, <1>3 DEF AllInv, AppInv, AppTypeOK, Hears
<1>5. InStep(c)'
  <2>1. "join" \notin DOMAIN AskedAt /\ Off.at # "join"
    BY DEF AskedAt, Off
  <2>2. app[c].at # "join" /\ InStep(c)
    BY <2>1, TakenPlace, PlaceIs DEF Hears, Take
  <2>3. AddTags(c)' # {} => app'[c].at = "join"
    BY <1>1, <2>2 DEF InStep
  <2>. QED
    BY <1>1, <2>2, <2>3, HeardInStep, TakenPlace DEF Hears, Take
<1>6. fault' = fault /\ WorldRuns'
  BY <1>1, WorldRunsSame DEF AllInv, AppInv, schedulerVars
<1>. QED
  BY <1>1, <1>4, <1>5, <1>6, StepEnds

\* A process hears one of its messages.
LEMMA HearIs == ASSUME NEW c, Hear(c) PROVE \E m \in inbox[c] : Hears(c, m)
BY DEF Hear, Hears, Broadcast

-----------------------------------------------------------------------------
(***************************************************************************)
(* Those on the way in.                                                    *)
(***************************************************************************)
LEMMA JoinerPlace ==
  ASSUME AllInv, NEW c \in CR, c \in running_crs,
         app[c].at \in {"session", "psets", "info"} \/ (app[c] = Off /\ ~Done(c))
  PROVE  \E G, J \in SUBSET CR : Moving(G, J) /\ c \in J \ G /\ Joins(c, J)
<1>1. /\ ~Leaves(c) /\ ~Resting(c) /\ ~Finished(c) /\ \A G : ~AtWork(c, G)
      /\ \A G, J : ~LearnsName(c, G, J) /\ ~Learns(c, G, J) /\ ~Moves(c, G, J)
      /\ app[c].at \notin {"get_change", "hear_change", "create_op"}
  BY DEF Off, Leaves, Resting, Finished, AtWork, LearnsName, Learns, Moves
<1>2. PICK G \in SUBSET CR :
        \/ Working(G) \/ Searching(G)
        \/ \E J \in SUBSET CR : Telling(G, J) \/ Naming(G, J) \/ Moving(G, J)
  BY DEF AllInv, AppInv, Together
<1>3. ~Working(G) /\ ~Searching(G)
  BY <1>1 DEF Working, Searching, Around
<1>4. \A J \in SUBSET CR : ~Telling(G, J) /\ ~Naming(G, J)
  BY <1>1 DEF Telling, Naming, Apart
<1>5. PICK J \in SUBSET CR : Moving(G, J)
  BY <1>2, <1>3, <1>4
<1>6. c \in J \ G /\ Joins(c, J)
  BY <1>1, <1>5 DEF Moving
<1>. QED
  BY <1>5, <1>6

\* A process that joins goes on.
LEMMA JoinsStep ==
  ASSUME WorldSame, accept_info' = accept_info, NEW c, NEW J, Joins(c, J),
         bcasts'[c] = bcasts[c], Done(c)' <=> Done(c),
         process_states'[c].origin_rc_tag = process_states[c].origin_rc_tag,
         app'[c].comm = app[c].comm,
         \/ app'[c].at \in {"off", "session", "psets", "info"}
         \/ app'[c].at = "lookup" /\ Leads(app'[c].main, J)
         \/ app'[c].at = "join" /\ Leads(app'[c].main, J) /\ app'[c].group = J
  PROVE  Joins(c, J)'
<1>1. \A n : Leads(n, J)' <=> Leads(n, J)
  BY LeadsSame
<1>2. PICK t : t = process_states[c].origin_rc_tag
  OBVIOUS
<1>. QED
  BY <1>1, <1>2 DEF WorldSame, Joins, Works, Silent, S!Registered

\* As the others stay where they are, all go on together.
LEMMA JoinerTogether ==
  ASSUME AllInv, WorldSame, accept_info' = accept_info, NEW c \in CR, OthersSame(c),
         NEW G \in SUBSET CR, NEW J \in SUBSET CR, Moving(G, J), c \in J \ G, Joins(c, J),
         Joins(c, J)', TrueAnswers(c, J)',
         TagsHeld(c)' = TagsHeld(c), AddTags(c)' = AddTags(c)
  PROVE  Together'
<1>1. Moving(G, J)'
  BY MovingStep
<1>. QED
  BY <1>1 DEF Together

\* A process starts, opens a session, or asks what it was started for.
LEMMA HearStart ==
  ASSUME AllInv, NEW c \in CR, NEW m \in inbox[c], Hears(c, m), app[c].at # "lookup",
         \/ m = S!Command(c, "start") /\ c \in running_crs /\ app[c] = Off
         \/ app[c].at \in {"session", "psets", "info"} /\ m.tag = Awaits[AskedAt[app[c].at]]
            /\ c \in running_crs
  PROVE  AppInv'
<1>. DEFINE tag == process_states[c].origin_rc_tag
            names == {r.name : r \in m.psets}
            a == app[c]
<1>1. Take(c, m) /\ m.tag = pc[c] /\ AllInv /\ OneHolder
  BY DEF Hears, Take, AllInv, AppInv
<1>2. ~Done(c) /\ InStep(c)
  BY <1>1, TakenPlace, PlaceIs
<1>3. PICK G, J \in SUBSET CR : Moving(G, J) /\ c \in J \ G /\ Joins(c, J)
  BY <1>2, JoinerPlace
<1>4. /\ a.comm = {} /\ TrueAnswers(c, J)
      /\ IF tag \in DOMAIN accept_info THEN Leads(accept_info[tag].main, J) ELSE Leads(S!World, J)
  BY <1>3 DEF Moving, Joins, Works
<1>5. \/ m.tag = "IDLE_COMMAND" /\ m.command = "start" /\ a = Off
      \/ m.tag = "SESSION_CREATE_ANSWER" /\ a.at = "session"
      \/ m.tag = "SESSION_INFO_ANSWER" /\ a.at = "info"
      \/ m.tag = "GET_PSETS_ANSWER" /\ a.at = "psets"
  <2>1. {"session", "psets", "info"} \subseteq DOMAIN AskedAt
    BY DEF AskedAt
  <2>. QED
    BY <2>1, AnswersAt DEF S!Command
<1>6. /\ \/ app'[c].at \in {"session", "psets", "info"}
         \/ app'[c].at = "lookup" /\ Leads(app'[c].main, J)
      /\ app'[c].comm = a.comm /\ app'[c].leave = a.leave
  <2>1. app'[c] = After(c, a, m) /\ a \in AppState
    BY HearEffect DEF AllInv, AppInv, AppTypeOK
  <2>2. CASE m.tag = "IDLE_COMMAND" /\ m.command = "start" /\ a = Off
    <3>1. After(c, a, m) = [Off EXCEPT !.at = "session"]
      BY <2>2 DEF After, Idle
    <3>. QED
      BY <2>1, <2>2, <3>1 DEF Off
  <2>3. CASE m.tag = "SESSION_CREATE_ANSWER" /\ a.at = "session"
    <3>1. After(c, a, m) = [a EXCEPT !.at = IF program = "07" THEN "psets" ELSE "info"]
      BY <2>3 DEF After, Idle
    <3>. QED
      BY <2>1, <3>1 DEF AppState
  <2>4. CASE m.tag = "SESSION_INFO_ANSWER" /\ a.at = "info"
    <3>1. After(c, a, m) = Informed(a, m.origin_rc_tag)
      BY <2>4 DEF After, Idle
    <3>2. m.origin_rc_tag = tag
      BY <1>4, <2>4 DEF TrueAnswers
    <3>. QED
      BY <1>4, <2>1, <3>1, <3>2 DEF AppState, Informed
  <2>5. CASE m.tag = "GET_PSETS_ANSWER" /\ a.at = "psets"
    <3>1. After(c, a, m) = IF S!World \in names THEN [a EXCEPT !.main = S!World, !.at = "lookup"]
                           ELSE [a EXCEPT !.at = "info"]
      BY <2>5 DEF After, Idle
    <3>2. S!World \in names => Leads(S!World, J)
      BY <1>4, <2>5 DEF TrueAnswers
    <3>. QED
      BY <2>1, <3>1, <3>2 DEF AppState
  <2>. QED
    BY <1>5, <2>2, <2>3, <2>4, <2>5
<1>7. /\ WorldSame /\ accept_info' = accept_info /\ offered' = offered /\ bcasts' = bcasts
      /\ inbox'[c] = {} /\ pc'[c] = "main" /\ OthersSame(c) /\ process_states' = process_states
      /\ \A d \in CR : TagsHeld(d)' = TagsHeld(d)
      /\ TagsHeld(c)' = TagsHeld(c) /\ AddTags(c)' = AddTags(c) /\ (Done(c)' <=> Done(c))
  <2>1. m.tag \notin {"RC_ANSWER", "PSET_OP_ANSWER", "PSET_LOOKUP_ANSWER_SIZE"}
        /\ (m.tag = Idle => m.command = "start")
    BY <1>5 DEF Idle
  <2>2. /\ WorldSame /\ UNCHANGED <<accept_info, schedulerVars>> /\ offered' = offered
        /\ bcasts' = bcasts /\ OthersSame(c) /\ inbox'[c] = {} /\ pc'[c] = "main"
        /\ AddTags(c)' = AddTags(c) /\ (Done(c)' <=> Done(c)) /\ TagsHeld(c)' = TagsHeld(c)
    BY <2>1, HearEffect
  <2>. QED
    BY <2>2 DEF OthersSame, Same, schedulerVars
<1>8. Joins(c, J)'
  BY <1>3, <1>6, <1>7, JoinsStep
<1>9. TrueAnswers(c, J)'
  BY <1>7 DEF TrueAnswers
<1>10. Together'
  BY <1>3, <1>7, <1>8, <1>9, JoinerTogether
<1>11. OneHolder'
  BY <1>1, <1>7, HolderStep
<1>12. offered[c] = {} /\ ~a.leave
  BY <1>2 DEF InStep, Off
<1>. QED
  BY <1>6, <1>7, <1>10, <1>11, <1>12, HearEnds

\* Idle commands, and the first part of the answer to a lookup, change no place.
LEMMA HearSame ==
  ASSUME AllInv, NEW c \in CR, NEW m \in inbox[c], Hears(c, m),
         m = S!Command(c, "shutdown") \/ (m.tag = "PSET_LOOKUP_ANSWER_SIZE" /\ app[c].at = "lookup")
  PROVE  AppInv'
<1>1. Take(c, m) /\ m.tag = pc[c] /\ AllInv /\ OneHolder /\ Together
  BY DEF Hears, Take, AllInv, AppInv
<1>2. InStep(c) /\ DOMAIN requests[c] = Accepts(c)
  BY <1>1, TakenPlace, PlaceIs
<1>3. /\ WorldSame /\ accept_info' = accept_info /\ offered' = offered /\ bcasts' = bcasts
      /\ inbox'[c] = inbox[c] \ {m} /\ OthersSame(c) /\ UNCHANGED <<schedulerVars, requests>>
      /\ TagsHeld(c)' = TagsHeld(c) /\ (Done(c)' <=> Done(c))
      /\ \A d \in CR : AddTags(d)' = AddTags(d)
      /\ app'[c] = After(c, app[c], m) /\ app' \in [CR -> AppState]
      /\ \A d \in CR : d # c =>
           app'[d] = app[d] /\ inbox'[d] = inbox[d] /\ pc'[d] = pc[d] /\ offered'[d] = offered[d]
      /\ pc'[c] = (CASE m.tag = Idle /\ m.command = "shutdown" -> "quit"
                     [] m.tag = "PSET_LOOKUP_ANSWER_SIZE" /\ m.size > 0 -> "PSET_LOOKUP_ANSWER"
                     [] OTHER -> "main")
  <2>1. m.tag \notin {"RC_ANSWER", "PSET_OP_ANSWER"}
    BY DEF S!Command
  <2>. QED
    BY <2>1, HearEffect
<1>4. app'[c] = app[c] /\ app[c].at \in {"off", "lookup"}
  <2>1. CASE m = S!Command(c, "shutdown")
    <3>1. m.tag = "IDLE_COMMAND" /\ m.command = "shutdown"
      BY <2>1 DEF S!Command
    <3>2. After(c, app[c], m) = app[c]
      BY <3>1 DEF After, Idle
    <3>3. app[c].at = "off"
      BY <1>1, <1>2, <3>1 DEF InStep, Idle
    <3>. QED
      BY <1>3, <3>2, <3>3
  <2>2. CASE m.tag = "PSET_LOOKUP_ANSWER_SIZE" /\ app[c].at = "lookup"
    <3>1. PICK G, J \in SUBSET CR : Moving(G, J) /\ c \in J
      BY <2>2, LookedUp
    <3>2. m.size # 0
      BY <2>2, <3>1 DEF Moving, TrueAnswers
    <3>3. After(c, app[c], m) = app[c]
      BY <2>2, <3>2 DEF After, Idle
    <3>. QED
      BY <1>3, <2>2, <3>3
  <2>. QED
    BY <2>1, <2>2
<1>5. \A d \in CR : Same(d)
  BY <1>3, <1>4 DEF OthersSame, Same, InboxSame, schedulerVars
<1>6. Together' /\ OneHolder'
  BY <1>1, <1>3, <1>5, TogetherSame, HolderStep DEF Same
<1>7. InStep(c)'
  <2>1. CASE app[c].at = "lookup"
    <3>1. pc'[c] \in {"main", "PSET_LOOKUP_ANSWER"}
      <4>1. m.tag # Idle \/ m.command # "shutdown"
        BY <1>1, <1>2, <2>1 DEF InStep
      <4>. QED
        BY <1>3, <4>1
    <3>2. ~app[c].leave /\ offered[c] = {}
      BY <1>2, <2>1 DEF InStep
    <3>. QED
      BY <1>2, <1>3, <1>4, <2>1, <3>1, <3>2, HeardInStep
  <2>2. CASE app[c].at = "off"
    <3>1. m = S!Command(c, "shutdown")
      BY <2>2
    <3>2. m.tag = "IDLE_COMMAND" /\ m.command = "shutdown"
      BY <3>1 DEF S!Command
    <3>3. pc'[c] = "quit"
      BY <1>3, <3>2 DEF Idle
    <3>4. requests'[c] = requests[c]
      BY <1>3
    <3>5. app'[c] = app[c] /\ offered'[c] = offered[c]
      BY <1>3, <1>4
    <3>. QED
      BY <1>2, <1>3, <2>2, <3>3, <3>4, <3>5 DEF InStep, AnswerTag
  <2>. QED
    BY <1>4, <2>1, <2>2
<1>8. AppTypeOK' /\ WorldRuns' /\ fault' = fault
  BY <1>3, WorldRunsSame DEF AllInv, AppInv, AppTypeOK, schedulerVars, WorldSame
<1>. QED
  BY <1>3, <1>6, <1>7, <1>8, StepEnds

\* A process hears which processes it will work with.
LEMMA HearLookup ==
  ASSUME AllInv, NEW c \in CR, NEW m \in inbox[c], Hears(c, m),
         m.tag = "PSET_LOOKUP_ANSWER", app[c].at = "lookup"
  PROVE  AppInv'
<1>. DEFINE a == app[c]
<1>1. Take(c, m) /\ m.tag = pc[c] /\ AllInv /\ OneHolder
  BY DEF Hears, Take, AllInv, AppInv
<1>2. InStep(c) /\ DOMAIN requests[c] = Accepts(c)
  BY <1>1, TakenPlace, PlaceIs
<1>3. /\ WorldSame /\ accept_info' = accept_info /\ offered' = offered /\ bcasts' = bcasts
      /\ inbox'[c] = {} /\ pc'[c] = "main" /\ OthersSame(c) /\ process_states' = process_states
      /\ TagsHeld(c)' = TagsHeld(c) /\ AddTags(c)' = AddTags(c) /\ (Done(c)' <=> Done(c))
      /\ app'[c] = After(c, app[c], m) /\ a \in AppState
  <2>1. m.tag \notin {"RC_ANSWER", "PSET_OP_ANSWER", "PSET_LOOKUP_ANSWER_SIZE", Idle}
    BY DEF Idle
  <2>2. a \in AppState
    BY DEF AllInv, AppInv, AppTypeOK
  <2>. QED
    BY <2>1, <2>2, HearEffect DEF schedulerVars
<1>4. PICK G, J \in SUBSET CR :
        /\ Moving(G, J) /\ c \in J /\ Leads(a.main, J)
        /\ IF c \in G THEN Moves(c, G, J) ELSE Joins(c, J)
  BY LookedUp
<1>5. m.pset = J
  BY <1>4 DEF Moving, TrueAnswers
<1>6. app'[c] = [a EXCEPT !.group = J, !.at = "join"]
  BY <1>3, <1>5 DEF After, Idle
<1>7. /\ app'[c].at = "join" /\ app'[c].main = a.main /\ app'[c].group = J
      /\ app'[c].comm = a.comm /\ app'[c].leave = a.leave
  BY <1>3, <1>6 DEF AppState
<1>8. TrueAnswers(c, J)'
  BY <1>3 DEF TrueAnswers
<1>9. PICK name : name = a.main
  OBVIOUS
<1>10. app'[c].main = name /\ Leads(name, J)'
  BY <1>3, <1>4, <1>7, <1>9, LeadsSame
<1>11. ASSUME c \in G PROVE Together'
  <2>1. Moves(c, G, J)'
    BY <1>3, <1>4, <1>7, <1>10, <1>11 DEF Moves, Works, Silent, WorldSame
  <2>2. Moving(G, J)'
    BY <1>3, <1>4, <1>8, <1>11, <2>1, MovingStep
  <2>. QED
    BY <2>2 DEF Together
<1>12. ASSUME c \notin G PROVE Together'
  <2>1. Joins(c, J)'
    BY <1>3, <1>4, <1>7, <1>12, <1>9, JoinsStep
  <2>. QED
    BY <1>3, <1>4, <1>8, <1>12, <2>1, JoinerTogether
<1>13. OneHolder'
  BY <1>1, <1>3, HolderStep DEF OthersSame, Same
<1>14. offered[c] = {} /\ ~a.leave
  BY <1>2 DEF InStep
<1>. QED
  BY <1>3, <1>7, <1>11, <1>12, <1>13, <1>14, HearEnds

-----------------------------------------------------------------------------
(***************************************************************************)
(* The root hears of a change, and tells the others.                       *)
(***************************************************************************)
LEMMA AskerPlace ==
  ASSUME AllInv, NEW c \in CR, app[c].at = "get_change"
  PROVE  \E G \in SUBSET CR : /\ c \in G /\ c = Root(G)
                              /\ Searching(G) \/ \E J \in SUBSET CR : Telling(G, J)
<1>1. /\ ~Leaves(c) /\ ~Resting(c) /\ ~Finished(c) /\ \A G : ~AtWork(c, G)
      /\ \A G, J : ~LearnsName(c, G, J) /\ ~Learns(c, G, J) /\ ~Moves(c, G, J) /\ ~Joins(c, J)
  BY DEF Off, Leaves, Resting, Finished, AtWork, LearnsName, Learns, Moves, Joins
<1>2. PICK G \in SUBSET CR :
        \/ Working(G) \/ Searching(G)
        \/ \E J \in SUBSET CR : Telling(G, J) \/ Naming(G, J) \/ Moving(G, J)
  BY DEF AllInv, AppInv, Together
<1>3. ~Working(G)
  BY <1>1 DEF Working, Around
<1>4. \A J \in SUBSET CR : ~Naming(G, J)
  BY <1>1 DEF Naming, Apart
<1>5. \A J \in SUBSET CR : ~Moving(G, J)
  BY <1>1 DEF Moving
<1>6. Searching(G) => c \in G /\ c = Root(G)
  BY <1>1 DEF Searching, Around
<1>7. \A J \in SUBSET CR : Telling(G, J) => c \in G /\ c = Root(G)
  BY <1>1 DEF Telling, Apart
<1>. QED
  BY <1>2, <1>3, <1>4, <1>5, <1>6, <1>7

\* The head of the loop keeps the communicator and the name.
LEMMA LoopIs ==
  ASSUME NEW a \in AppState
  PROVE  /\ Loop(a).main = a.main /\ Loop(a).comm = a.comm /\ Loop(a).leave = a.leave
         /\ \/ Loop(a).at = "barrier"
            \/ program = "07" /\ Loop(a).at = "finalize" /\ Loop(a).iter >= MaxIter
BY DEF Loop, AppState

\* The end of its body keeps them, too.
LEMMA AgainIs ==
  ASSUME NEW a \in AppState
  PROVE  /\ Again(a).main = a.main /\ Again(a).comm = a.comm /\ Again(a).leave = a.leave
         /\ \/ Again(a).at = "barrier"
            \/ program = "07" /\ Again(a).at = "finalize" /\ Again(a).iter >= MaxIter
<1>1. PICK b : b = [a EXCEPT !.iter = IF program = "07" THEN @ + 1 ELSE @]
  OBVIOUS
<1>2. b \in AppState /\ b.main = a.main /\ b.comm = a.comm /\ b.leave = a.leave
  BY <1>1 DEF AppState
<1>. QED
  BY <1>1, <1>2, LoopIs DEF Again

\* The first and the second message to a process.
LEMMA FirstIs ==
  ASSUME NEW m
  PROVE  Len(Append(<<>>, m)) = 1 /\ Append(<<>>, m)[1] = m
OBVIOUS

\* The first one stays the first when the second comes.
LEMMA SecondIs ==
  ASSUME NEW M, NEW q \in Seq(M), NEW m \in M, Len(q) = 1
  PROVE  Len(Append(q, m)) = 2 /\ Append(q, m)[1] = q[1] /\ Append(q, m)[2] = m
<1>1. PICK p : p = Append(q, m)
  OBVIOUS
<1>2. /\ p \in Seq(M) /\ DOMAIN p = DOMAIN q \cup {Len(q) + 1}
      /\ \A j \in DOMAIN q : p[j] = q[j]
      /\ p[Len(q) + 1] = m
  BY <1>1, AppendIs
<1>3. DOMAIN q = {1}
  <2>1. DOMAIN q = 1 .. Len(q)
    OBVIOUS
  <2>. QED
    BY <2>1
<1>4. p[1] = q[1] /\ p[2] = m /\ DOMAIN p = {1, 2}
  BY <1>2, <1>3
<1>5. PICK n \in Nat : n = Len(p) /\ DOMAIN p = 1 .. n
  <2>1. p \in Seq(M)
    BY <1>2
  <2>. QED
    BY ONLY <2>1
<1>6. Len(p) = 2
  <2>1. 2 \in 1 .. n /\ \A k \in 1 .. n : k \in {1, 2}
    BY <1>4, <1>5
  <2>2. 2 <= n /\ n \in 1 .. n
    BY <2>1
  <2>. QED
    BY <1>5, <2>1, <2>2
<1>. QED
  BY <1>1, <1>4, <1>6

\* What a root broadcasts reaches the other members, and no one else notices.
LEMMA BroadcastEffect ==
  ASSUME AllInv, NEW c \in CR, NEW m \in inbox[c], Hears(c, m),
         m.tag \in {"RC_ANSWER", "PSET_OP_ANSWER"}
  PROVE  /\ bcasts'[c] = bcasts[c]
         /\ \A d \in app[c].comm \ {c} : d \in CR => bcasts'[d] = Append(bcasts[d], m)
         /\ \A d \in CR \ app[c].comm : d # c => Same(d)
<1>1. bcasts' = Broadcast(c, m)
  BY DEF Hears
<1>2. \A d \in CR : d # c => /\ app'[d] = app[d] /\ inbox'[d] = inbox[d] /\ offered'[d] = offered[d]
                             /\ AddTags(d)' = AddTags(d) /\ (Done(d)' <=> Done(d))
  BY HearEffect
<1>3. process_states' = process_states /\ requests' = requests
  BY HearEffect DEF schedulerVars
<1>. QED
  BY <1>1, <1>2, <1>3 DEF Broadcast, Same, InboxSame, TagsHeld

\* What the root hears about a change.
LEMMA ChangeHeard ==
  ASSUME AllInv, NEW c \in CR, NEW m \in inbox[c], Hears(c, m), m.tag = "RC_ANSWER"
  PROVE  /\ AllInv /\ OneHolder /\ InStep(c)
         /\ WorldSame /\ accept_info' = accept_info /\ process_states' = process_states
         /\ app'[c] = Told(app[c], [type |-> m.type, tag |-> m.rc_tag, name |-> m.name], TRUE)
         /\ app[c] \in AppState /\ m \in S!Message /\ app[c].at = "get_change"
         /\ inbox[c] = {m} /\ inbox'[c] = {} /\ pc'[c] = "main"
         /\ offered'[c] = IF m.type # "none" THEN offered[c] \cup {m.rc_tag} ELSE offered[c]
         /\ \A d \in CR : d # c => /\ app'[d] = app[d] /\ inbox'[d] = inbox[d]
                                   /\ TagsHeld(d)' = TagsHeld(d)
         /\ \A d \in CR : AddTags(d)' = AddTags(d)
<1>1. Take(c, m) /\ m.tag = pc[c] /\ AllInv /\ OneHolder
  BY DEF Hears, Take, AllInv, AppInv
<1>2. /\ InStep(c) /\ inbox[c] = {m}
      /\ app[c].at \in DOMAIN AskedAt /\ m.tag = Awaits[AskedAt[app[c].at]]
  BY <1>1, TakenPlace, PlaceIs DEF S!Command
<1>3. app[c].at = "get_change"
  BY <1>2, AnswersAt
<1>4. /\ app \in [CR -> AppState] /\ inbox \in [CR -> SUBSET S!Message]
      /\ offered \in [CR -> SUBSET (0 .. MaxRcTag + 1)]
  BY DEF AllInv, AppInv, AppTypeOK, SimInv, TypeOK
<1>5. offered'[c] = IF m.type # "none" THEN offered[c] \cup {m.rc_tag} ELSE offered[c]
  BY <1>1, <1>4 DEF Take
<1>6. /\ WorldSame /\ accept_info' = accept_info /\ UNCHANGED schedulerVars
      /\ app'[c] = After(c, app[c], m)
      /\ inbox'[c] = {} /\ pc'[c] = "main"
      /\ \A d \in CR : d # c => app'[d] = app[d] /\ inbox'[d] = inbox[d] /\ offered'[d] = offered[d]
      /\ \A d \in CR : AddTags(d)' = AddTags(d)
  <2>1. m.tag \notin {"PSET_LOOKUP_ANSWER_SIZE", Idle}
    BY DEF Idle
  <2>. QED
    BY <2>1, HearEffect
<1>7. After(c, app[c], m) = Told(app[c], [type |-> m.type, tag |-> m.rc_tag, name |-> m.name], TRUE)
  BY DEF After, Idle
<1>. QED
  BY <1>1, <1>2, <1>3, <1>4, <1>5, <1>6, <1>7 DEF schedulerVars, TagsHeld

\* There is none: they go on working.
LEMMA HearRefused ==
  ASSUME AllInv, NEW c \in CR, NEW m \in inbox[c], Hears(c, m), m.tag = "RC_ANSWER",
         m.type = "none"
  PROVE  AppInv'
<1>. DEFINE a == app[c]
<1>1. /\ AllInv /\ OneHolder /\ InStep(c)
      /\ WorldSame /\ accept_info' = accept_info /\ process_states' = process_states
      /\ app'[c] = Told(a, [type |-> m.type, tag |-> m.rc_tag, name |-> m.name], TRUE)
      /\ a \in AppState /\ m \in S!Message /\ a.at = "get_change"
      /\ inbox[c] = {m} /\ inbox'[c] = {} /\ pc'[c] = "main" /\ offered'[c] = offered[c]
      /\ \A d \in CR : d # c => /\ app'[d] = app[d] /\ inbox'[d] = inbox[d]
                                /\ TagsHeld(d)' = TagsHeld(d)
      /\ \A d \in CR : AddTags(d)' = AddTags(d)
  BY ChangeHeard
<1>2. PICK G \in SUBSET CR : c \in G /\ c = Root(G) /\ Searching(G)
  <2>1. \A G, J : ~IsOffer(m, G, J)
    BY DEF IsOffer, Way
  <2>. QED
    BY <1>1, <2>1, AskerPlace DEF Telling
<1>3. app'[c] = Again(a)
  BY <1>1 DEF Told
<1>4. /\ app'[c].main = a.main /\ app'[c].comm = a.comm /\ ~app'[c].leave
      /\ \/ app'[c].at = "barrier"
         \/ program = "07" /\ app'[c].at = "finalize" /\ app'[c].iter >= MaxIter
  BY <1>1, <1>3, AgainIs DEF InStep
<1>5. a.comm = G /\ Silent(c)
  BY <1>2 DEF Searching, Works
<1>6. /\ bcasts'[c] = bcasts[c]
      /\ \A d \in G \ {c} : bcasts'[d] = Append(bcasts[d], m)
      /\ \A d \in CR \ G : Same(d)
  BY <1>5, <1>2, BroadcastEffect
<1>7. \A d \in CR : TagsHeld(d)' = TagsHeld(d)
  BY <1>1 DEF TagsHeld
<1>8. Around(G)'
  <2>1. \A d \in CR \ G : Resting(d)' \/ (d \in pending_shutdowns' /\ Leaves(d)')
    BY <1>1, <1>2, <1>6, SameWorks, SameProcess DEF Searching, Around, Same, WorldSame
  <2>2. \A d \in CR : Holds(d)' =>
          d \in pending_shutdowns' /\ \A t \in TagsHeld(d)' : Stands(t, "sub")'
    BY <1>1, <1>2, <1>7, StandsSame DEF Searching, Around, Holds, WorldSame
  <2>. QED
    BY <1>1, <1>2, <2>1, <2>2 DEF Searching, Around, WorldSame
<1>9. Finished(c)' \/ AtWork(c, G)'
  BY <1>1, <1>2, <1>4, <1>5, <1>6 DEF Finished, AtWork, Works, Searching, Silent, WorldSame
<1>10. ASSUME NEW d \in G \ {c} PROVE AtWork(d, G)' /\ app'[d] = app[d]
  <2>1. bcasts'[d] = Append(<<>>, m)
    BY <1>2, <1>6 DEF Searching, Silent
  <2>2. Len(bcasts'[d]) = 1 /\ bcasts'[d][1] = m
    BY <2>1, FirstIs
  <2>. QED
    BY <1>1, <1>2, <2>2 DEF AtWork, Says, Works, Searching, WorldSame
<1>11. \A d \in G : Leads(app[d].main, G)'
  <2>1. \A d \in G : Leads(app[d].main, G) /\ app'[d].main = app[d].main
    BY <1>2, <1>4, <1>10 DEF Searching
  <2>. QED
    BY <1>1, <2>1, LeadsSame
<1>12. Working(G)'
  BY <1>8, <1>9, <1>10, <1>11 DEF Working
<1>13. Together' /\ OneHolder'
  BY <1>1, <1>7, <1>12, HolderStep DEF Together
<1>14. offered'[c] = {}
  BY <1>1 DEF InStep
<1>. QED
  BY <1>1, <1>4, <1>13, <1>14, HearEnds

\* The change is offered: the root goes on to the process set it leads to.
LEMMA HearOffer ==
  ASSUME AllInv, NEW c \in CR, NEW m \in inbox[c], Hears(c, m), m.tag = "RC_ANSWER",
         m.type # "none"
  PROVE  AppInv'
<1>. DEFINE a == app[c]
            rc == [type |-> m.type, tag |-> m.rc_tag, name |-> m.name]
<1>1. /\ AllInv /\ OneHolder /\ InStep(c)
      /\ WorldSame /\ accept_info' = accept_info /\ process_states' = process_states
      /\ app'[c] = Told(a, rc, TRUE)
      /\ a \in AppState /\ m \in S!Message /\ a.at = "get_change"
      /\ inbox[c] = {m} /\ inbox'[c] = {} /\ pc'[c] = "main"
      /\ offered'[c] = offered[c] \cup {m.rc_tag}
      /\ \A d \in CR : d # c => /\ app'[d] = app[d] /\ inbox'[d] = inbox[d]
                                /\ TagsHeld(d)' = TagsHeld(d)
      /\ \A d \in CR : AddTags(d)' = AddTags(d)
  BY ChangeHeard
<1>2. PICK G, J \in SUBSET CR : c \in G /\ c = Root(G) /\ Telling(G, J)
  BY <1>1, AskerPlace DEF Searching
<1>3. app'[c] = [a EXCEPT !.rc = rc, !.at = "create_op"]
  BY <1>1 DEF Told
<1>4. /\ app'[c].main = a.main /\ app'[c].comm = a.comm /\ ~app'[c].leave
      /\ app'[c].at = "create_op" /\ app'[c].rc.type = m.type /\ app'[c].rc.name = m.name
  <2>1. a \in AppState /\ ~a.leave
    BY <1>1 DEF InStep
  <2>2. rc.type = m.type /\ rc.name = m.name
    OBVIOUS
  <2>. HIDE DEF rc
  <2>. QED
    BY <1>3, <2>1, <2>2 DEF AppState
<1>. HIDE DEF rc
<1>5. a.comm = G /\ Silent(c) /\ Works(c, G) /\ Leads(a.main, G) /\ IsOffer(m, G, J)
  BY <1>1, <1>2 DEF Telling, Works
<1>6. /\ bcasts'[c] = bcasts[c]
      /\ \A d \in G \ {c} : bcasts'[d] = Append(bcasts[d], m)
      /\ \A d \in CR \ G : Same(d)
  BY <1>2, <1>5, BroadcastEffect
<1>7. TagsHeld(c)' = {m.rc_tag} /\ \A d \in CR : d # c => TagsHeld(d)' = {}
  BY <1>1, <1>2 DEF TagsHeld, Telling, Holds
<1>8. StandsFor(m.rc_tag, G, J)' /\ Leads(m.name, Changed(G, J))'
  BY <1>1, <1>5, StandsSame, LeadsSame DEF IsOffer
<1>9. RootHolds(G, J)'
  BY <1>2, <1>7, <1>8 DEF RootHolds, Holds
<1>10. Apart(G, J)'
  BY <1>1, <1>2, <1>6, SameWorks DEF Telling, Apart, WorldSame, Same
<1>11. ASSUME NEW d \in G \ {c} PROVE Learns(d, G, J)'
  <2>1. bcasts'[d] = Append(<<>>, m)
    BY <1>2, <1>6, <1>11 DEF Telling, Silent
  <2>2. Len(bcasts'[d]) = 1 /\ bcasts'[d][1] = m
    BY <2>1, FirstIs
  <2>. QED
    BY <1>1, <1>2, <1>5, <2>2 DEF Learns, Says, Works, Telling, WorldSame, IsOffer
<1>12. /\ Works(c, G)' /\ Silent(c)' /\ app'[c].rc.type = Way(G, J)
       /\ Holds(c)' /\ \A n \in inbox'[c] : Leads(n.name, J)'
  <2>1. Works(c, G)' /\ Silent(c)'
    BY <1>1, <1>4, <1>5, <1>6 DEF Works, Silent, WorldSame
  <2>2. app'[c].rc.type = Way(G, J) /\ Holds(c)'
    BY <1>4, <1>5, <1>7 DEF IsOffer, Holds
  <2>. QED
    BY <1>1, <2>1, <2>2
<1>13. PICK main, name : main = a.main /\ name = m.name
  OBVIOUS
<1>14. /\ app'[c].main = main /\ Leads(main, G)'
       /\ app'[c].rc.name = name /\ Leads(name, Changed(G, J))'
  BY <1>1, <1>4, <1>5, <1>8, <1>13, LeadsSame
<1>15. Naming(G, J)'
  BY <1>2, <1>4, <1>9, <1>10, <1>11, <1>12, <1>14 DEF Naming
<1>16. Together'
  BY <1>15 DEF Together
<1>17. OneHolder'
  BY <1>7 DEF OneHolder, Holds
<1>. QED
  BY <1>1, <1>4, <1>16, <1>17, HearEnds

\* Only the root of a change that is made makes a process set.
LEMMA MakerPlace ==
  ASSUME AllInv, NEW c \in CR, app[c].at = "create_op"
  PROVE  \E G, J \in SUBSET CR : c \in G /\ c = Root(G) /\ Naming(G, J)
<1>1. /\ ~Leaves(c) /\ ~Resting(c) /\ ~Finished(c) /\ \A G : ~AtWork(c, G)
      /\ \A G, J : ~LearnsName(c, G, J) /\ ~Learns(c, G, J) /\ ~Moves(c, G, J) /\ ~Joins(c, J)
  BY DEF Off, Leaves, Resting, Finished, AtWork, LearnsName, Learns, Moves, Joins
<1>2. PICK G \in SUBSET CR :
        \/ Working(G) \/ Searching(G)
        \/ \E J \in SUBSET CR : Telling(G, J) \/ Naming(G, J) \/ Moving(G, J)
  BY DEF AllInv, AppInv, Together
<1>3. ~Working(G) /\ ~Searching(G)
  BY <1>1 DEF Working, Searching, Around
<1>4. \A J \in SUBSET CR : ~Telling(G, J) /\ ~Moving(G, J)
  BY <1>1 DEF Telling, Apart, Moving
<1>5. \A J \in SUBSET CR : Naming(G, J) => c \in G /\ c = Root(G)
  BY <1>1 DEF Naming, Apart
<1>. QED
  BY <1>2, <1>3, <1>4, <1>5

\* A process that is at none of the places of an answer has nothing in its inbox.
LEMMA NoMessage ==
  ASSUME AllInv, NEW c \in CR, app[c].at \notin DOMAIN AskedAt \cup {"off"}
  PROVE  inbox[c] = {} /\ pc[c] = "main"
<1>1. TypeOK
  BY DEF AllInv, SimInv
<1>2. pc[c] = "main"
  BY <1>1, PlaceIs DEF InStep, TypeOK
<1>. QED
  BY <1>2, MainPlace

\* To those that are not in the program come idle commands only.
LEMMA RestingInbox ==
  ASSUME AllInv, NEW c \in CR, Resting(c)
  PROVE  /\ \A m \in inbox[c] : m.tag = "IDLE_COMMAND"
         /\ ~Holds(c) /\ ~Done(c) /\ ~process_states[c].active /\ pc[c] \in {Idle, "quit"}
<1>1. InStep(c) /\ Place(c) /\ c \notin running_crs /\ app[c].at = "off"
  BY PlaceIs DEF Resting, Off
<1>2. pc[c] \in {Idle, "quit"} /\ AddTags(c) = {} /\ offered[c] = {}
  BY <1>1 DEF InStep
<1>3. \A m \in inbox[c] : m.tag = "IDLE_COMMAND"
  BY <1>1 DEF Place, AtRest, ToStart, InProgram, Asking, Answered, LookupAnswered, SelfAnswered,
              Unanswerable, Leaving, ToQuit, HasQuit, S!Command
<1>4. ~Done(c)
  BY <1>1, RequestPlace DEF Done
<1>5. ~process_states[c].active
  BY <1>1, RankKnown DEF AllInv, SP!IInv, SP!RunningHaveState
<1>. QED
  BY <1>2, <1>3, <1>4, <1>5 DEF Holds, TagsHeld

\* The root has made the process set: everyone moves on to it or leaves.
LEMMA HearNamed ==
  ASSUME AllInv, NEW c \in CR, NEW m \in inbox[c], Hears(c, m), m.tag = "PSET_OP_ANSWER"
  PROVE  AppInv'
<1>. DEFINE a == app[c]
<1>1. Take(c, m) /\ m.tag = pc[c] /\ AllInv /\ OneHolder /\ WorldRuns
  BY DEF Hears, Take, AllInv, AppInv
<1>2. InStep(c) /\ inbox[c] = {m} /\ a.at \in DOMAIN AskedAt /\ m.tag = Awaits[AskedAt[a.at]]
  BY <1>1, TakenPlace, PlaceIs DEF S!Command
<1>3. a.at = "create_op"
  BY <1>2, AnswersAt
<1>4. a \in AppState
  BY DEF AllInv, AppInv, AppTypeOK
<1>5. /\ WorldSame /\ accept_info' = accept_info /\ offered' = offered
      /\ app'[c] = After(c, a, m)
      /\ inbox'[c] = {} /\ pc'[c] = "main" /\ process_states' = process_states
      /\ \A d \in CR : d # c => app'[d] = app[d] /\ inbox'[d] = inbox[d]
      /\ \A d \in CR : TagsHeld(d)' = TagsHeld(d) /\ AddTags(d)' = AddTags(d)
  <2>1. m.tag \notin {"PSET_LOOKUP_ANSWER_SIZE", "RC_ANSWER", Idle}
    BY DEF Idle
  <2>. QED
    BY <2>1, HearEffect DEF TagsHeld, schedulerVars
<1>6. app'[c] = [a EXCEPT !.main = m.name,
                          !.at = IF a.rc.type = "sub" THEN "check" ELSE "accept"]
  BY <1>5 DEF After, Named, Idle
<1>7. PICK G, J \in SUBSET CR : c \in G /\ c = Root(G) /\ Naming(G, J)
  BY <1>3, MakerPlace
<1>8. /\ Works(c, G) /\ Silent(c) /\ a.rc.type = Way(G, J) /\ Leads(m.name, J) /\ Holds(c)
      /\ IsWay(G, J) /\ Apart(G, J) /\ RootHolds(G, J)
  BY <1>7 DEF Naming, Apart
<1>9. /\ app'[c].main = m.name /\ app'[c].comm = G /\ ~app'[c].leave
      /\ app'[c].at = IF Way(G, J) = "sub" THEN "check" ELSE "accept"
  BY <1>2, <1>3, <1>4, <1>6, <1>8 DEF InStep, AppState, Works
<1>10. PICK name : name = m.name
  OBVIOUS
<1>11. Leads(name, J) /\ Leads(name, J)'
  BY <1>5, <1>8, <1>10, LeadsSame
<1>12. \A d \in CR \ J : Excludes(name, d) /\ Excludes(name, d)'
  BY <1>1, <1>5, <1>11 DEF Leads, Excludes, WorldRuns, WorldSame, S!Registered, S!Self, S!NoName
<1>13. /\ bcasts'[c] = bcasts[c]
       /\ \A d \in G \ {c} : bcasts'[d] = Append(bcasts[d], m)
       /\ \A d \in CR \ G : Same(d)
  BY <1>7, <1>8, BroadcastEffect DEF Works
<1>14. ASSUME NEW d \in G \ {c}
       PROVE  IF d \in J THEN LearnsName(d, G, J)' ELSE Leaves(d)'
  <2>1. Learns(d, G, J) /\ bcasts'[d] = Append(bcasts[d], m) /\ app'[d] = app[d]
    BY <1>5, <1>7, <1>13, <1>14 DEF Naming
  <2>2. Works(d, G)' /\ d \in running_crs' /\ bcasts[d] \in Seq(S!Message) /\ m \in S!Message
    BY <1>5, <2>1 DEF Learns, Works, WorldSame, AllInv, AppInv, AppTypeOK, SimInv, TypeOK
  <2>3. d \notin J => Way(G, J) = "sub"
    BY <1>8, <1>14 DEF IsWay, Way
  <2>4. CASE app[d].at = "hear_change" /\ Len(bcasts[d]) = 1 /\ Says(bcasts[d][1], Way(G, J))
    <3>1. /\ Len(bcasts'[d]) = 2 /\ Says(bcasts'[d][1], Way(G, J))
          /\ Names(bcasts'[d][2]) /\ bcasts'[d][2].name = name
      BY <1>10, <2>1, <2>2, <2>4, SecondIs DEF Names
    <3>2. d \in J => LearnsName(d, G, J)'
      BY <1>11, <2>1, <2>2, <2>4, <3>1 DEF LearnsName
    <3>3. d \notin J => Leaves(d)'
      BY <1>12, <2>1, <2>2, <2>3, <2>4, <3>1 DEF Leaves
    <3>. QED
      BY <3>2, <3>3
  <2>5. CASE app[d].at = "hear_pset" /\ Silent(d) /\ app[d].rc.type = Way(G, J)
    <3>1. Len(bcasts'[d]) = 1 /\ Names(bcasts'[d][1]) /\ bcasts'[d][1].name = name
      BY <1>10, <2>1, <2>5, FirstIs DEF Silent, Names
    <3>2. d \in J => LearnsName(d, G, J)'
      BY <1>11, <2>1, <2>2, <2>5, <3>1 DEF LearnsName
    <3>3. d \notin J => Leaves(d)'
      BY <1>12, <2>1, <2>2, <2>3, <2>5, <3>1 DEF Leaves
    <3>. QED
      BY <3>2, <3>3
  <2>. QED
    BY <2>1, <2>4, <2>5 DEF Learns
<1>15. ASSUME c \in J PROVE Moves(c, G, J)'
  BY <1>5, <1>7, <1>8, <1>9, <1>10, <1>11, <1>13 DEF Moves, Works, Silent, WorldSame
<1>16. ASSUME c \notin J PROVE Leaves(c)'
  <2>1. Way(G, J) = "sub"
    BY <1>7, <1>8, <1>16 DEF IsWay, Way
  <2>. QED
    BY <1>5, <1>8, <1>9, <1>10, <1>12, <1>13, <1>16, <2>1 DEF Leaves, Works, Silent, WorldSame
<1>17. \A d \in CR \ G : Resting(d) /\ Resting(d)' /\ d \notin running_crs
  BY <1>5, <1>8, <1>13, SameWorks DEF Apart, Same, Resting
<1>18. \A d \in J : TrueAnswers(d, J)'
  <2>1. ASSUME NEW d \in G \ {c} PROVE inbox'[d] = {}
    <3>1. app[d].at \in {"hear_change", "hear_pset"}
      BY <1>7, <2>1 DEF Naming, Learns
    <3>2. app[d].at \notin DOMAIN AskedAt \cup {"off"}
      BY <3>1 DEF AskedAt
    <3>. QED
      BY <1>5, <3>2, NoMessage
  <2>2. ASSUME NEW d \in J, d \notin G PROVE \A n \in inbox'[d] : n.tag = "IDLE_COMMAND"
    BY <1>5, <1>7, <1>17, <2>2, RestingInbox
  <2>. QED
    BY <1>5, <2>1, <2>2 DEF TrueAnswers
<1>19. pending_shutdowns' = (G \ J) \cap running_crs'
  <2>1. G \subseteq running_crs
    BY <1>7 DEF Naming, Learns, Works
  <2>. QED
    BY <1>5, <1>8, <2>1 DEF Apart, WorldSame
<1>20. RootHolds(G, J)'
  BY <1>5, <1>8, StandsSame DEF RootHolds, Holds
<1>21. \A d \in CR : AddTags(d)' = {}
  <2>1. AddTags(c) = {}
    BY <1>2, <1>3 DEF InStep
  <2>2. \A d \in CR : d # c => AddTags(d) = {}
    BY <1>1, <1>8 DEF OneHolder, Holds, TagsHeld
  <2>. QED
    BY <1>5, <2>1, <2>2
<1>22. Moving(G, J)'
  BY <1>7, <1>8, <1>5, <1>14, <1>15, <1>16, <1>17, <1>18, <1>19, <1>20, <1>21 DEF Moving, Holds
<1>23. Together'
  BY <1>22 DEF Together
<1>24. OneHolder'
  BY <1>1, <1>5, HolderStep
<1>. QED
  BY <1>3, <1>5, <1>9, <1>23, <1>24, HearEnds

-----------------------------------------------------------------------------
(***************************************************************************)
(* Those that stay, and those that leave.                                  *)
(***************************************************************************)
\* Where a process is that has just looked whether it is in the new process set.
LEMMA CheckPlace ==
  ASSUME AllInv, NEW c \in CR, app[c].at = "check"
  PROVE  \/ Leaves(c)
         \/ \E G, J \in SUBSET CR : Moving(G, J) /\ c \in G \cap J /\ Moves(c, G, J)
<1>1. /\ ~Resting(c) /\ ~Finished(c) /\ \A G : ~AtWork(c, G)
      /\ \A G, J : ~LearnsName(c, G, J) /\ ~Learns(c, G, J) /\ ~Joins(c, J)
  BY DEF Off, Resting, Finished, AtWork, LearnsName, Learns, Joins
<1>2. PICK G \in SUBSET CR :
        \/ Working(G) \/ Searching(G)
        \/ \E J \in SUBSET CR : Telling(G, J) \/ Naming(G, J) \/ Moving(G, J)
  BY DEF AllInv, AppInv, Together
<1>3. Working(G) \/ Searching(G) => Leaves(c)
  BY <1>1 DEF Working, Searching, Around
<1>4. \A J \in SUBSET CR : ~Telling(G, J) /\ ~Naming(G, J)
  BY <1>1 DEF Telling, Naming, Apart
<1>5. \A J \in SUBSET CR : Moving(G, J) => Leaves(c) \/ (c \in G \cap J /\ Moves(c, G, J))
  BY <1>1 DEF Moving
<1>. QED
  BY <1>2, <1>3, <1>4, <1>5

\* A process that finalizes its session is on the way out.
LEMMA FinalPlace ==
  ASSUME AllInv, NEW c \in CR, app[c].at \in {"finalize", "exit"}
  PROVE  Leaves(c) \/ Finished(c)
<1>1. /\ ~Resting(c) /\ \A G : ~AtWork(c, G)
      /\ \A G, J : ~LearnsName(c, G, J) /\ ~Learns(c, G, J) /\ ~Joins(c, J) /\ ~Moves(c, G, J)
  BY DEF Off, Resting, AtWork, LearnsName, Learns, Joins, Moves
<1>2. PICK G \in SUBSET CR :
        \/ Working(G) \/ Searching(G)
        \/ \E J \in SUBSET CR : Telling(G, J) \/ Naming(G, J) \/ Moving(G, J)
  BY DEF AllInv, AppInv, Together
<1>3. Working(G) \/ Searching(G) => Leaves(c) \/ Finished(c)
  BY <1>1 DEF Working, Searching, Around
<1>4. \A J \in SUBSET CR : ~Telling(G, J) /\ ~Naming(G, J)
  BY <1>1 DEF Telling, Naming, Apart
<1>5. \A J \in SUBSET CR : Moving(G, J) => Leaves(c)
  BY <1>1 DEF Moving
<1>. QED
  BY <1>2, <1>3, <1>4, <1>5

\* A process hears whether it is in the new process set.
LEMMA HearCheck ==
  ASSUME AllInv, NEW c \in CR, NEW m \in inbox[c], Hears(c, m),
         m.tag = "GET_PSETS_ANSWER", app[c].at = "check"
  PROVE  AppInv'
<1>. DEFINE a == app[c]
            names == {r.name : r \in m.psets}
<1>1. Take(c, m) /\ m.tag = pc[c] /\ AllInv /\ OneHolder /\ Together
  BY DEF Hears, Take, AllInv, AppInv
<1>2. InStep(c) /\ a \in AppState /\ c \in running_crs
  BY <1>1, TakenPlace, PlaceIs DEF AppInv, AppTypeOK, AllInv, S!Command, Off
<1>3. /\ WorldSame /\ accept_info' = accept_info /\ offered' = offered /\ bcasts' = bcasts
      /\ app'[c] = After(c, a, m) /\ OthersSame(c)
      /\ inbox'[c] = {} /\ pc'[c] = "main" /\ process_states' = process_states
      /\ TagsHeld(c)' = TagsHeld(c) /\ AddTags(c)' = AddTags(c)
  <2>1. m.tag \notin {"PSET_LOOKUP_ANSWER_SIZE", "RC_ANSWER", "PSET_OP_ANSWER", Idle}
    BY DEF Idle
  <2>. QED
    BY <2>1, HearEffect DEF schedulerVars
<1>4. app'[c] = [a EXCEPT !.leave = a.main \notin names,
                          !.at = IF IsRoot(c) /\ (a.main \in names \/ program = "07") THEN "accept"
                                 ELSE IF a.main \in names THEN "lookup" ELSE "finalize"]
  BY <1>3 DEF After, Checked, Idle
<1>5. /\ app'[c].main = a.main /\ app'[c].comm = a.comm
      /\ app'[c].leave = (a.main \notin names)
      /\ app'[c].at = IF IsRoot(c) /\ (a.main \in names \/ program = "07") THEN "accept"
                      ELSE IF a.main \in names THEN "lookup" ELSE "finalize"
  BY <1>2, <1>4 DEF AppState
<1>6. OneHolder'
  BY <1>1, <1>3, HolderStep DEF OthersSame, Same
<1>7. CASE Leaves(c)
  <2>1. a.main \notin names /\ Silent(c)
    BY <1>7 DEF Leaves, Off
  <2>2. Leaves(c)'
    BY <1>2, <1>3, <1>5, <2>1 DEF Leaves, Silent, WorldSame
  <2>3. ~Finished(c)
    BY DEF Finished, Off
  <2>4. Together'
    BY <1>1, <1>2, <1>3, <1>7, <2>2, <2>3, LeaverTogether
  <2>5. offered'[c] # {} => app'[c].at \in {"accept", "finalize"}
    BY <1>5, <2>1
  <2>. QED
    BY <1>3, <1>5, <1>6, <2>1, <2>4, <2>5, HearEnds
<1>8. ASSUME NEW G \in SUBSET CR, NEW J \in SUBSET CR, Moving(G, J), c \in G \cap J, Moves(c, G, J)
      PROVE  AppInv'
  <2>1. a.main \in names
    BY <1>8 DEF Moving, TrueAnswers
  <2>2. IsRoot(c) <=> c = Root(G)
    BY <1>8 DEF IsRoot, Moves, Works
  <2>3. /\ app'[c].main = a.main /\ app'[c].comm = a.comm /\ ~app'[c].leave
        /\ app'[c].at = IF c = Root(G) THEN "accept" ELSE "lookup"
    BY <1>5, <2>1, <2>2
  <2>4. PICK name : name = a.main
    OBVIOUS
  <2>5. app'[c].main = name /\ Leads(name, J)'
    BY <1>3, <1>8, <2>3, <2>4, LeadsSame DEF Moves
  <2>6. Moves(c, G, J)'
    BY <1>3, <1>8, <2>3, <2>5 DEF Moves, Works, Silent, WorldSame
  <2>7. TrueAnswers(c, J)'
    BY <1>3 DEF TrueAnswers
  <2>8. Moving(G, J)'
    BY <1>3, <1>8, <2>6, <2>7, MovingStep
  <2>9. Together'
    BY <2>8 DEF Together
  <2>10. offered'[c] # {} => app'[c].at = "accept"
    <3>1. offered[c] # {} => c = Root(G)
      BY <1>8 DEF Moving, RootHolds, Holds, TagsHeld
    <3>. QED
      BY <1>3, <2>3, <3>1
  <2>. QED
    BY <1>3, <1>6, <2>3, <2>9, <2>10, HearEnds
<1>. QED
  BY <1>7, <1>8, CheckPlace

\* A process that leaves has finalized its session.
LEMMA HearFinal ==
  ASSUME AllInv, NEW c \in CR, NEW m \in inbox[c], Hears(c, m), m.tag = "SESSION_FINALIZE_ANSWER"
  PROVE  AppInv'
<1>. DEFINE a == app[c]
<1>1. Take(c, m) /\ m.tag = pc[c] /\ AllInv /\ OneHolder /\ Together
  BY DEF Hears, Take, AllInv, AppInv
<1>2. /\ a.at \in DOMAIN AskedAt /\ m.tag = Awaits[AskedAt[a.at]]
      /\ c \in running_crs /\ a \in AppState
  BY <1>1, TakenPlace DEF AppInv, AppTypeOK, AllInv, S!Command
<1>3. a.at = "finalize"
  BY <1>2, AnswersAt
<1>4. /\ WorldSame /\ accept_info' = accept_info /\ offered' = offered /\ bcasts' = bcasts
      /\ app'[c] = After(c, a, m) /\ OthersSame(c) /\ pc'[c] = "main"
      /\ TagsHeld(c)' = TagsHeld(c) /\ AddTags(c)' = AddTags(c)
  <2>1. m.tag \notin {"PSET_LOOKUP_ANSWER_SIZE", "RC_ANSWER", "PSET_OP_ANSWER", Idle}
    BY DEF Idle
  <2>. QED
    BY <2>1, HearEffect DEF schedulerVars
<1>5. app'[c] = [a EXCEPT !.at = "exit"]
  BY <1>4 DEF After, Idle
<1>6. app'[c].at = "exit" /\ app'[c].iter = a.iter
  BY <1>2, <1>5 DEF AppState
<1>7. OneHolder'
  BY <1>1, <1>4, HolderStep DEF OthersSame, Same
<1>8. Leaves(c) \/ Finished(c)
  BY <1>3, FinalPlace
<1>9. Leaves(c) => Leaves(c)'
  BY <1>2, <1>3, <1>4, <1>6 DEF Leaves, Silent, WorldSame, Off
<1>10. Finished(c) => Finished(c)'
  BY <1>3, <1>4, <1>6 DEF Finished, Silent, WorldSame, Off
<1>11. Together'
  BY <1>1, <1>2, <1>4, <1>8, <1>9, <1>10, LeaverTogether
<1>. QED
  BY <1>3, <1>4, <1>6, <1>7, <1>11, HearEnds

\* Whatever a process hears, it keeps the invariant.
LEMMA HearStep ==
  ASSUME AllInv, NEW c \in CR, Hear(c)
  PROVE  AppInv'
<1>1. PICK m \in inbox[c] : Hears(c, m)
  BY HearIs
<1>2. m.tag = pc[c]
  BY <1>1 DEF Hears, Take
<1>3. \/ m = S!Command(c, "start") /\ c \in running_crs /\ app[c] = Off
      \/ m = S!Command(c, "shutdown")
      \/ app[c].at \in DOMAIN AskedAt /\ m.tag = Awaits[AskedAt[app[c].at]] /\ c \in running_crs
      \/ m.tag = "PSET_LOOKUP_ANSWER" /\ app[c].at = "lookup"
  BY <1>2, TakenPlace
<1>4. CASE app[c].at \in DOMAIN AskedAt /\ m.tag = Awaits[AskedAt[app[c].at]] /\ c \in running_crs
  <2>1. app[c].at \in {"session", "psets", "info", "lookup", "get_change", "create_op", "check",
                       "finalize"}
    BY <1>4 DEF AskedAt
  <2>2. CASE app[c].at \in {"session", "psets", "info"}
    BY <1>1, <1>4, <2>2, HearStart
  <2>3. CASE app[c].at = "lookup"
    BY <1>1, <1>4, <2>3, HearSame, AnswersAt
  <2>4. CASE app[c].at = "get_change"
    BY <1>1, <1>4, <2>4, HearRefused, HearOffer, AnswersAt
  <2>5. CASE app[c].at = "create_op"
    BY <1>1, <1>4, <2>5, HearNamed, AnswersAt
  <2>6. CASE app[c].at = "check"
    BY <1>1, <1>4, <2>6, HearCheck, AnswersAt
  <2>7. CASE app[c].at = "finalize"
    BY <1>1, <1>4, <2>7, HearFinal, AnswersAt
  <2>. QED
    BY <2>1, <2>2, <2>3, <2>4, <2>5, <2>6, <2>7
<1>5. CASE m = S!Command(c, "start") /\ c \in running_crs /\ app[c] = Off
  <2>1. app[c].at # "lookup"
    BY <1>5 DEF Off
  <2>. QED
    BY <1>1, <1>5, <2>1, HearStart
<1>6. CASE m = S!Command(c, "shutdown")
  BY <1>1, <1>6, HearSame
<1>7. CASE m.tag = "PSET_LOOKUP_ANSWER" /\ app[c].at = "lookup"
  BY <1>1, <1>7, HearLookup
<1>. QED
  BY <1>3, <1>4, <1>5, <1>6, <1>7

-----------------------------------------------------------------------------
\* Less than is a relation on the numbers.
LEMMA NatPair ==
  ASSUME NEW x \in Nat, NEW y \in Nat, x < y
  PROVE  <<x, y>> \in OpToRel(<, Nat)
BY DEF OpToRel

\* The root of a communicator is one of its members.
LEMMA RootIn ==
  ASSUME NEW G \in SUBSET CR, G # {}
  PROVE  Root(G) \in G
<1>. DEFINE R == OpToRel(<, Nat)
<1>1. IsWellFoundedOn(R, Nat)
  BY NatLessThanWellFounded
<1>2. \A x, y \in Nat : x < y => <<x, y>> \in R
  BY NatPair
<1>3. G \subseteq Nat
  BY RanksAssumption
<1>. HIDE DEF R
<1>4. PICK d \in G : \A e \in G : <<e, d>> \notin R
  BY <1>1, <1>3, WFMin
<1>5. \A e \in G : d \in Nat /\ e \in Nat /\ ~(e < d)
  BY <1>2, <1>4, <1>3
<1>6. \A e \in G : d <= e
  BY ONLY <1>5
<1>. QED
  BY <1>6 DEF Root, Min

-----------------------------------------------------------------------------
(***************************************************************************)
(* The others hear what the root broadcasts.                               *)
(***************************************************************************)
\* A queue of one broadcast.
LEMMA OneIs ==
  ASSUME NEW M, NEW q \in Seq(M), Len(q) = 1
  PROVE  q # <<>> /\ Head(q) = q[1] /\ Tail(q) = <<>> /\ q[1] \in M
<1>1. q # <<>> /\ Head(q) = q[1]
  <2>1. q # <<>>
    BY EmptySeq
  <2>. QED
    BY <2>1
<1>2. q[1] \in M
  BY ElementOfSeq
<1>3. Tail(q) \in Seq(M) /\ Len(Tail(q)) = 0
  BY <1>1, HeadTailProperties
<1>4. Tail(q) = <<>>
  BY <1>3, EmptySeq
<1>. QED
  BY <1>1, <1>2, <1>4

\* When the first of two broadcasts is received, the second is left.
LEMMA TwoIs ==
  ASSUME NEW M, NEW q \in Seq(M), Len(q) = 2
  PROVE  /\ q # <<>> /\ Head(q) = q[1] /\ q[1] \in M /\ q[2] \in M
         /\ Tail(q) \in Seq(M) /\ Len(Tail(q)) = 1 /\ Tail(q)[1] = q[2]
<1>1. q # <<>> /\ Head(q) = q[1]
  OBVIOUS
<1>2. q[1] \in M /\ q[2] \in M
  BY ElementOfSeq
<1>3. /\ Tail(q) \in Seq(M) /\ Len(Tail(q)) = 1
      /\ \A i \in 1 .. Len(Tail(q)) : Tail(q)[i] = q[i + 1]
  BY <1>1, HeadTailProperties
<1>4. Tail(q)[1] = q[2]
  BY <1>3
<1>. QED
  BY ONLY <1>1, <1>2, <1>3, <1>4

\* A process with a broadcast to receive leaves, works or is being told of a change.
LEMMA HearerPlace ==
  ASSUME AllInv, NEW c \in CR, app[c].at \in {"hear_change", "hear_pset"}, ~Silent(c)
  PROVE  \/ Leaves(c)
         \/ \E G \in SUBSET CR :
              /\ c \in G
              /\ \/ Working(G) /\ AtWork(c, G)
                 \/ \E J \in SUBSET CR :
                      /\ c # Root(G)
                      /\ \/ Naming(G, J) /\ Learns(c, G, J)
                         \/ Moving(G, J) /\ c \in J /\ LearnsName(c, G, J)
<1>1. /\ ~Resting(c) /\ ~Finished(c)
      /\ \A G, J : ~Joins(c, J) /\ ~Moves(c, G, J)
  BY DEF Off, Resting, Finished, Joins, Moves
<1>2. PICK G \in SUBSET CR :
        \/ Working(G) \/ Searching(G)
        \/ \E J \in SUBSET CR : Telling(G, J) \/ Naming(G, J) \/ Moving(G, J)
  BY DEF AllInv, AppInv, Together
<1>3. Working(G) => Leaves(c) \/ (c \in G /\ AtWork(c, G))
  BY <1>1 DEF Working, Around
<1>4. Searching(G) => Leaves(c)
  BY <1>1 DEF Searching, Around
<1>5. \A J \in SUBSET CR : ~Telling(G, J)
  BY <1>1 DEF Telling, Apart
<1>6. \A J \in SUBSET CR : Naming(G, J) => c \in G /\ c # Root(G) /\ Learns(c, G, J)
  BY <1>1 DEF Naming, Apart
<1>7. \A J \in SUBSET CR : Moving(G, J) =>
        Leaves(c) \/ (c \in G \cap J /\ c # Root(G) /\ LearnsName(c, G, J))
  BY <1>1 DEF Moving
<1>. QED
  BY <1>2, <1>3, <1>4, <1>5, <1>6, <1>7

\* Naming goes on when another than the root hears of the change.
LEMMA NamingStep ==
  ASSUME NEW G \in SUBSET CR, NEW J \in SUBSET CR, Naming(G, J), WorldSame, NEW c \in G,
         OthersSame(c), c # Root(G), Learns(c, G, J)', TagsHeld(c)' = TagsHeld(c), Root(G) \in G
  PROVE  Naming(G, J)'
<1>1. RootHolds(G, J)'
  BY RootHoldsStep DEF Naming
<1>2. Apart(G, J)'
  BY SameWorks DEF Naming, Apart, OthersSame, Same, WorldSame
<1>3. ASSUME NEW d \in G, d # Root(G) PROVE Learns(d, G, J)'
  BY <1>3, SameWorks DEF Naming, OthersSame, Same
<1>4. PICK r \in G : r = Root(G)
  OBVIOUS
<1>5. app'[r] = app[r] /\ inbox'[r] = inbox[r] /\ Same(r) /\ app[r].at = "create_op"
  BY <1>4 DEF Naming, OthersSame, Same, InboxSame
<1>6. /\ Works(r, G)' /\ Silent(r)' /\ Leads(app[r].main, G)' /\ Holds(r)'
      /\ Leads(app[r].rc.name, Changed(G, J))' /\ \A m \in inbox'[r] : Leads(m.name, J)'
  BY <1>4, <1>5, SameWorks, SameProcess, LeadsSame DEF Naming, Same
<1>. QED
  BY <1>1, <1>2, <1>3, <1>4, <1>5, <1>6 DEF Naming

\* What hearing a broadcast changes.
LEMMA BcastEffect ==
  ASSUME AllInv, NEW c \in CR, HearBcast(c)
  PROVE  /\ WorldSame /\ UNCHANGED <<allVars, accept_info>> /\ OthersSame(c)
         /\ TagsHeld(c)' = TagsHeld(c) /\ AddTags(c)' = AddTags(c)
         /\ app[c] \in AppState /\ (app'[c] \in AppState => app' \in [CR -> AppState])
         /\ app[c].at \in {"hear_change", "hear_pset"} /\ ~Silent(c)
         /\ bcasts[c] \in Seq(S!Message) /\ bcasts' = [bcasts EXCEPT ![c] = Tail(@)]
         /\ app'[c] = IF app[c].at = "hear_change"
                      THEN Told(app[c], [type |-> Head(bcasts[c]).type,
                                         tag |-> Head(bcasts[c]).rc_tag,
                                         name |-> Head(bcasts[c]).name], FALSE)
                      ELSE Named(app[c], Head(bcasts[c]).name, FALSE)
         /\ ~app[c].leave /\ pc[c] = "main" /\ inbox[c] = {} /\ DOMAIN requests[c] = Accepts(c)
         /\ offered[c] = {}
<1>1. app \in [CR -> AppState] /\ bcasts \in [CR -> Seq(S!Message)] /\ InStep(c)
  BY PlaceIs DEF AllInv, AppInv, AppTypeOK
<1>2. UNCHANGED <<allVars, accept_info>> /\ program' = program
  BY DEF HearBcast
<1>3. WorldSame
  BY <1>2 DEF WorldSame, allVars, schedulerVars
<1>4. app[c].at \in {"hear_change", "hear_pset"} /\ pc[c] = "main" /\ bcasts[c] # <<>>
  BY DEF HearBcast, At
<1>5. inbox[c] = {} /\ DOMAIN requests[c] = Accepts(c)
  BY <1>4, MainPlace
<1>6. offered[c] = {} /\ ~app[c].leave
  BY <1>1, <1>4 DEF InStep
<1>7. \A d : /\ TagsHeld(d)' = TagsHeld(d) /\ AddTags(d)' = AddTags(d)
             /\ (Done(d)' <=> Done(d))
  BY <1>2 DEF allVars, workerVars, schedulerVars, TagsHeld, AddTags, AcceptTags, Accepts, Done
<1>8. \A d \in CR : d # c => app'[d] = app[d] /\ bcasts'[d] = bcasts[d]
  BY <1>1 DEF HearBcast
<1>9. OthersSame(c)
  BY <1>2, <1>7, <1>8 DEF OthersSame, Same, InboxSame, allVars, schedulerVars
<1>10. /\ bcasts' = [bcasts EXCEPT ![c] = Tail(@)]
       /\ app'[c] = IF app[c].at = "hear_change"
                    THEN Told(app[c], [type |-> Head(bcasts[c]).type,
                                       tag |-> Head(bcasts[c]).rc_tag,
                                       name |-> Head(bcasts[c]).name], FALSE)
                    ELSE Named(app[c], Head(bcasts[c]).name, FALSE)
  BY <1>1 DEF HearBcast
<1>11. app'[c] \in AppState => app' \in [CR -> AppState]
  BY <1>1 DEF HearBcast
<1>. QED
  BY <1>1, <1>2, <1>3, <1>4, <1>5, <1>6, <1>7, <1>9, <1>10, <1>11 DEF Silent

\* What is left to show of a broadcast that is received.
LEMMA BcastEnds ==
  ASSUME AllInv, NEW c \in CR, HearBcast(c), app'[c] \in AppState,
         app'[c].at \in {"barrier", "finalize", "hear_pset", "check", "lookup"},
         app'[c].leave = app[c].leave, Together'
  PROVE  AppInv'
<1>1. app' \in [CR -> AppState] /\ UNCHANGED <<allVars, accept_info>> /\ WorldSame /\ OthersSame(c)
  BY BcastEffect
<1>2. /\ fault' = fault /\ pc' = pc /\ requests' = requests /\ inbox' = inbox /\ offered' = offered
      /\ pset_name_map' = pset_name_map
  BY <1>1 DEF allVars, schedulerVars, workerVars
<1>3. bcasts' \in [CR -> Seq(S!Message)]
  <2>1. bcasts \in [CR -> Seq(S!Message)]
    BY DEF AllInv, AppInv, AppTypeOK
  <2>2. bcasts[c] # <<>> /\ bcasts' = [bcasts EXCEPT ![c] = Tail(@)]
    BY BcastEffect DEF Silent
  <2>3. Tail(bcasts[c]) \in Seq(S!Message)
    BY <2>1, <2>2, HeadTailProperties
  <2>. QED
    BY <2>1, <2>2, <2>3
<1>4. AppTypeOK'
  BY <1>1, <1>3 DEF AllInv, AppInv, AppTypeOK, WorldSame
<1>5. InStep(c)'
  <2>1. /\ InStep(c) /\ DOMAIN requests[c] = Accepts(c) /\ pc[c] = "main" /\ ~app[c].leave
        /\ offered[c] = {} /\ app[c].at \notin {"lookup", "join"} /\ AddTags(c)' = AddTags(c)
    BY PlaceIs, BcastEffect
  <2>2. pc'[c] = "main" /\ ~app'[c].leave /\ offered'[c] = {} /\ app'[c].at # "off"
    BY <1>2, <2>1
  <2>3. AddTags(c)' = {}
    BY <2>1 DEF InStep
  <2>. QED
    BY <1>2, <2>1, <2>2, <2>3, HeardInStep
<1>6. OneHolder'
  BY <1>1, HolderStep, BcastEffect DEF OthersSame, Same, AllInv, AppInv
<1>7. WorldRuns'
  BY <1>1, WorldRunsSame DEF AllInv, AppInv
<1>. QED
  BY <1>1, <1>2, <1>4, <1>5, <1>6, <1>7, StepEnds DEF OthersSame, Same

\* A process on the way out hears of the change and of the process set without it.
LEMMA LeaverBcast ==
  ASSUME AllInv, NEW c \in CR, HearBcast(c), Leaves(c)
  PROVE  AppInv'
<1>. DEFINE a == app[c]
            m == Head(bcasts[c])
            rest == Tail(bcasts[c])
<1>1. /\ WorldSame /\ accept_info' = accept_info /\ OthersSame(c)
      /\ TagsHeld(c)' = TagsHeld(c) /\ AddTags(c)' = AddTags(c)
      /\ a \in AppState /\ a.at \in {"hear_change", "hear_pset"} /\ bcasts[c] \in Seq(S!Message)
      /\ ~Silent(c) /\ inbox[c] = {}
  BY BcastEffect
<1>2. /\ bcasts'[c] = rest /\ inbox'[c] = {}
      /\ app'[c] = IF a.at = "hear_change"
                   THEN Told(a, [type |-> m.type, tag |-> m.rc_tag, name |-> m.name], FALSE)
                   ELSE Named(a, m.name, FALSE)
  <2>1. bcasts \in [CR -> Seq(S!Message)]
    BY DEF AllInv, AppInv, AppTypeOK
  <2>. QED
    BY <2>1, BcastEffect DEF allVars
<1>3. c \in running_crs /\ c \in running_crs' /\ Together
  BY <1>1 DEF Leaves, WorldSame, AllInv, AppInv
<1>4. \A name : Excludes(name, c)' <=> Excludes(name, c)
  BY <1>1 DEF Excludes, WorldSame, S!Registered, S!Self
<1>5. ~Finished(c)
  BY <1>1 DEF Finished, Off
<1>6. CASE a.at = "hear_change"
  <2>1. /\ Len(bcasts[c]) = 2 /\ Says(bcasts[c][1], "sub")
        /\ Names(bcasts[c][2]) /\ Excludes(bcasts[c][2].name, c)
    BY <1>1, <1>6 DEF Leaves, Off
  <2>2. m = bcasts[c][1] /\ m \in S!Message /\ Len(rest) = 1 /\ rest[1] = bcasts[c][2]
    BY <1>1, <2>1, TwoIs
  <2>. HIDE DEF m, rest
  <2>3. PICK rc \in Change : rc = [type |-> m.type, tag |-> m.rc_tag, name |-> m.name]
    BY <2>1, <2>2, MessageData DEF Says
  <2>4. app'[c] = [a EXCEPT !.rc = rc, !.at = "hear_pset"] /\ rc.type = "sub"
    BY <1>2, <1>6, <2>1, <2>2, <2>3 DEF Told, Says
  <2>5. /\ app'[c].at = "hear_pset" /\ app'[c].rc.type = "sub" /\ app'[c].leave = a.leave
        /\ app'[c] \in AppState
    BY <1>1, <2>3, <2>4 DEF AppState, Places
  <2>6. Leaves(c)'
    BY <1>2, <1>3, <1>4, <2>1, <2>2, <2>5 DEF Leaves
  <2>7. Together'
    BY <1>1, <1>3, <1>5, <2>6, LeaverTogether
  <2>. QED
    BY <2>5, <2>7, BcastEnds
<1>7. CASE a.at = "hear_pset"
  <2>1. /\ Len(bcasts[c]) = 1 /\ a.rc.type = "sub"
        /\ Names(bcasts[c][1]) /\ Excludes(bcasts[c][1].name, c)
    BY <1>1, <1>7 DEF Leaves, Off
  <2>2. m = bcasts[c][1] /\ m \in S!Message /\ rest = <<>>
    BY <1>1, <2>1, OneIs
  <2>. HIDE DEF m, rest
  <2>3. m.name \in S!PsetName
    BY <2>1, <2>2, MessageData DEF Names
  <2>4. app'[c] = [a EXCEPT !.main = m.name, !.at = "check"]
    BY <1>2, <1>7, <2>1 DEF Named
  <2>5. /\ app'[c].at = "check" /\ app'[c].main = m.name /\ app'[c].leave = a.leave
        /\ app'[c] \in AppState
    BY <1>1, <2>3, <2>4 DEF AppState, Places
  <2>6. Leaves(c)'
    BY <1>2, <1>3, <1>4, <2>1, <2>2, <2>5 DEF Leaves, Silent
  <2>7. Together'
    BY <1>1, <1>3, <1>5, <2>6, LeaverTogether
  <2>. QED
    BY <2>5, <2>7, BcastEnds
<1>. QED
  BY <1>1, <1>6, <1>7

\* The members of a communicator hear that there is no change.
LEMMA WorkerBcast ==
  ASSUME AllInv, NEW c \in CR, HearBcast(c),
         NEW G \in SUBSET CR, c \in G, Working(G), AtWork(c, G)
  PROVE  AppInv'
<1>. DEFINE a == app[c]
            m == Head(bcasts[c])
<1>1. /\ WorldSame /\ OthersSame(c) /\ TagsHeld(c)' = TagsHeld(c)
      /\ a \in AppState /\ a.at \in {"hear_change", "hear_pset"} /\ bcasts[c] \in Seq(S!Message)
      /\ ~a.leave
  BY BcastEffect
<1>2. /\ bcasts'[c] = Tail(bcasts[c])
      /\ app'[c] = IF a.at = "hear_change"
                   THEN Told(a, [type |-> m.type, tag |-> m.rc_tag, name |-> m.name], FALSE)
                   ELSE Named(a, m.name, FALSE)
  <2>1. bcasts \in [CR -> Seq(S!Message)]
    BY DEF AllInv, AppInv, AppTypeOK
  <2>. QED
    BY <2>1, BcastEffect
<1>3. /\ a.at = "hear_change" /\ Works(c, G)
      /\ Len(bcasts[c]) = 1 /\ Says(bcasts[c][1], "none")
  BY <1>1 DEF AtWork
<1>4. m = bcasts[c][1] /\ Tail(bcasts[c]) = <<>>
  BY <1>1, <1>3, OneIs
<1>5. app'[c] = Again(a) /\ Silent(c)'
  BY <1>2, <1>3, <1>4 DEF Told, Says, Silent
<1>6. app'[c] \in AppState
  BY <1>1, <1>5, AgainType
<1>7. /\ app'[c].main = a.main /\ app'[c].comm = a.comm /\ app'[c].leave = a.leave
      /\ \/ app'[c].at = "barrier"
         \/ program = "07" /\ app'[c].at = "finalize" /\ app'[c].iter >= MaxIter
  BY <1>1, <1>5, AgainIs
<1>8. Finished(c)' \/ AtWork(c, G)'
  BY <1>1, <1>3, <1>5, <1>7 DEF Finished, AtWork, Works, WorldSame
<1>9. ~Finished(c)
  BY <1>3 DEF Finished, Off
<1>10. Working(G)'
  BY <1>1, <1>7, <1>8, <1>9, WorkingStep
<1>11. Together'
  BY <1>10 DEF Together
<1>. QED
  BY <1>6, <1>7, <1>11, BcastEnds

\* Another than the root hears of the change before the root has the new process set.
LEMMA NamingBcast ==
  ASSUME AllInv, NEW c \in CR, HearBcast(c),
         NEW G \in SUBSET CR, NEW J \in SUBSET CR, c \in G, c # Root(G),
         Naming(G, J), Learns(c, G, J)
  PROVE  AppInv'
<1>. DEFINE a == app[c]
            m == Head(bcasts[c])
<1>1. /\ WorldSame /\ OthersSame(c) /\ TagsHeld(c)' = TagsHeld(c) /\ ~Silent(c)
      /\ a \in AppState /\ a.at \in {"hear_change", "hear_pset"} /\ bcasts[c] \in Seq(S!Message)
      /\ ~a.leave
  BY BcastEffect
<1>2. /\ bcasts'[c] = Tail(bcasts[c])
      /\ app'[c] = IF a.at = "hear_change"
                   THEN Told(a, [type |-> m.type, tag |-> m.rc_tag, name |-> m.name], FALSE)
                   ELSE Named(a, m.name, FALSE)
  <2>1. bcasts \in [CR -> Seq(S!Message)]
    BY DEF AllInv, AppInv, AppTypeOK
  <2>. QED
    BY <2>1, BcastEffect
<1>3. /\ a.at = "hear_change" /\ Works(c, G)
      /\ Len(bcasts[c]) = 1 /\ Says(bcasts[c][1], Way(G, J))
  BY <1>1 DEF Learns
<1>4. m = bcasts[c][1] /\ m \in S!Message /\ Tail(bcasts[c]) = <<>>
  BY <1>1, <1>3, OneIs
<1>5. PICK rc \in Change : rc = [type |-> m.type, tag |-> m.rc_tag, name |-> m.name]
  BY <1>3, <1>4, MessageData DEF Says
<1>6. rc.type = Way(G, J) /\ Way(G, J) # "none"
  BY <1>3, <1>4, <1>5 DEF Says, Way
<1>7. app'[c] = [a EXCEPT !.rc = rc, !.at = "hear_pset"] /\ Silent(c)'
  BY <1>2, <1>3, <1>4, <1>5, <1>6 DEF Told, Silent
<1>8. /\ app'[c].at = "hear_pset" /\ app'[c].rc.type = Way(G, J) /\ app'[c].leave = a.leave
      /\ app'[c].comm = a.comm /\ app'[c] \in AppState
  BY <1>1, <1>5, <1>6, <1>7 DEF AppState, Places
<1>9. Learns(c, G, J)'
  BY <1>1, <1>3, <1>7, <1>8 DEF Learns, Works, WorldSame
<1>10. Root(G) \in G
  BY RootIn
<1>11. Naming(G, J)'
  BY <1>1, <1>9, <1>10, NamingStep
<1>12. Together'
  BY <1>11 DEF Together
<1>. QED
  BY <1>8, <1>12, BcastEnds

\* Another than the root hears of the change, and then of the new process set.
LEMMA MoverBcast ==
  ASSUME AllInv, NEW c \in CR, HearBcast(c),
         NEW G \in SUBSET CR, NEW J \in SUBSET CR, c \in G \cap J, c # Root(G),
         Moving(G, J), LearnsName(c, G, J)
  PROVE  AppInv'
<1>. DEFINE a == app[c]
            m == Head(bcasts[c])
            rest == Tail(bcasts[c])
<1>1. /\ WorldSame /\ accept_info' = accept_info /\ OthersSame(c)
      /\ TagsHeld(c)' = TagsHeld(c) /\ AddTags(c)' = AddTags(c)
      /\ a \in AppState /\ a.at \in {"hear_change", "hear_pset"} /\ bcasts[c] \in Seq(S!Message)
      /\ ~Silent(c) /\ inbox[c] = {}
  BY BcastEffect
<1>2. /\ bcasts'[c] = rest /\ inbox'[c] = {}
      /\ app'[c] = IF a.at = "hear_change"
                   THEN Told(a, [type |-> m.type, tag |-> m.rc_tag, name |-> m.name], FALSE)
                   ELSE Named(a, m.name, FALSE)
  <2>1. bcasts \in [CR -> Seq(S!Message)]
    BY DEF AllInv, AppInv, AppTypeOK
  <2>. QED
    BY <2>1, BcastEffect DEF allVars
<1>3. \A name : Leads(name, J)' <=> Leads(name, J)
  BY <1>1, LeadsSame
<1>4. TrueAnswers(c, J)'
  BY <1>2 DEF TrueAnswers
<1>5. ASSUME Moves(c, G, J)' \/ LearnsName(c, G, J)' PROVE Together'
  <2>1. Moving(G, J)'
    BY <1>1, <1>4, <1>5, MovingStep
  <2>. QED
    BY <2>1 DEF Together
<1>6. CASE a.at = "hear_change"
  <2>1. /\ Len(bcasts[c]) = 2 /\ Says(bcasts[c][1], Way(G, J)) /\ Works(c, G)
        /\ Names(bcasts[c][2]) /\ Leads(bcasts[c][2].name, J)
    BY <1>6 DEF LearnsName
  <2>2. m = bcasts[c][1] /\ m \in S!Message /\ Len(rest) = 1 /\ rest[1] = bcasts[c][2]
    BY <1>1, <2>1, TwoIs
  <2>. HIDE DEF m, rest
  <2>3. PICK rc \in Change : rc = [type |-> m.type, tag |-> m.rc_tag, name |-> m.name]
    BY <2>1, <2>2, MessageData DEF Says
  <2>4. rc.type = Way(G, J) /\ Way(G, J) # "none"
    BY <2>1, <2>2, <2>3 DEF Says, Way
  <2>5. app'[c] = [a EXCEPT !.rc = rc, !.at = "hear_pset"]
    BY <1>2, <1>6, <2>3, <2>4 DEF Told
  <2>6. /\ app'[c].at = "hear_pset" /\ app'[c].rc.type = Way(G, J) /\ app'[c].leave = a.leave
        /\ app'[c].comm = a.comm /\ app'[c] \in AppState
    BY <1>1, <2>4, <2>5 DEF AppState, Places
  <2>7. PICK name : name = bcasts[c][2].name
    OBVIOUS
  <2>8. bcasts'[c][1].name = name /\ Leads(name, J)' /\ Len(bcasts'[c]) = 1 /\ Names(bcasts'[c][1])
    BY <1>2, <1>3, <2>1, <2>2, <2>7
  <2>9. Works(c, G)'
    BY <1>1, <2>1, <2>6 DEF Works, WorldSame
  <2>10. LearnsName(c, G, J)'
    BY <2>6, <2>8, <2>9 DEF LearnsName
  <2>. QED
    BY <1>5, <2>6, <2>10, BcastEnds
<1>7. CASE a.at = "hear_pset"
  <2>1. /\ Len(bcasts[c]) = 1 /\ a.rc.type = Way(G, J) /\ Works(c, G)
        /\ Names(bcasts[c][1]) /\ Leads(bcasts[c][1].name, J)
    BY <1>7 DEF LearnsName
  <2>2. m = bcasts[c][1] /\ m \in S!Message /\ rest = <<>>
    BY <1>1, <2>1, OneIs
  <2>. HIDE DEF m, rest
  <2>3. PICK name \in S!PsetName : name = m.name
    BY <2>1, <2>2, MessageData DEF Names
  <2>4. /\ app'[c].main = name /\ app'[c].leave = a.leave /\ app'[c].comm = a.comm
        /\ app'[c].at = IF Way(G, J) = "sub" THEN "check" ELSE "lookup"
        /\ app'[c] \in AppState
    <3>1. app'[c] = [a EXCEPT !.main = name,
                              !.at = IF Way(G, J) = "sub" THEN "check" ELSE "lookup"]
      BY <1>2, <1>7, <2>1, <2>3 DEF Named
    <3>. QED
      BY <1>1, <2>3, <3>1 DEF AppState, Places
  <2>5. Leads(name, J)'
    BY <1>3, <2>1, <2>2, <2>3
  <2>6. Works(c, G)' /\ Silent(c)'
    BY <1>1, <1>2, <2>1, <2>2, <2>4 DEF Works, WorldSame, Silent
  <2>7. Moves(c, G, J)'
    BY <2>4, <2>5, <2>6 DEF Moves
  <2>. QED
    BY <1>5, <2>4, <2>7, BcastEnds
<1>. QED
  BY <1>1, <1>6, <1>7

\* Hearing a broadcast keeps the invariant.
LEMMA HearBcastStep ==
  ASSUME AllInv, NEW c \in CR, HearBcast(c)
  PROVE  AppInv'
<1>1. app[c].at \in {"hear_change", "hear_pset"} /\ ~Silent(c)
  BY BcastEffect
<1>. QED
  BY <1>1, HearerPlace, LeaverBcast, WorkerBcast, NamingBcast, MoverBcast

-----------------------------------------------------------------------------
(***************************************************************************)
(* The root accepts the change.                                            *)
(***************************************************************************)
\* Who accepts a change: a root that was asked to leave, or one that stays.
LEMMA AccepterPlace ==
  ASSUME AllInv, NEW c \in CR, app[c].at = "accept"
  PROVE  \/ \E G \in SUBSET CR : /\ Working(G) \/ Searching(G)
                                 /\ c \notin G /\ Leaves(c) /\ c \in pending_shutdowns
         \/ \E G, J \in SUBSET CR :
              /\ Moving(G, J) /\ c \in G
              /\ IF c \in J THEN Moves(c, G, J) ELSE Leaves(c)
<1>1. /\ ~Resting(c) /\ ~Finished(c) /\ \A G : ~AtWork(c, G)
      /\ \A G, J : ~LearnsName(c, G, J) /\ ~Learns(c, G, J) /\ ~Joins(c, J)
  BY DEF Off, Resting, Finished, AtWork, LearnsName, Learns, Joins
<1>2. PICK G \in SUBSET CR :
        \/ Working(G) \/ Searching(G)
        \/ \E J \in SUBSET CR : Telling(G, J) \/ Naming(G, J) \/ Moving(G, J)
  BY DEF AllInv, AppInv, Together
<1>3. Working(G) \/ Searching(G) => c \notin G /\ Leaves(c) /\ c \in pending_shutdowns
  BY <1>1 DEF Working, Searching, Around
<1>4. \A J \in SUBSET CR : ~Telling(G, J) /\ ~Naming(G, J)
  BY <1>1 DEF Telling, Naming, Apart
<1>5. \A J \in SUBSET CR : Moving(G, J) => /\ c \in G
                                           /\ IF c \in J THEN Moves(c, G, J) ELSE Leaves(c)
  BY <1>1 DEF Moving
<1>. QED
  BY <1>2, <1>3, <1>4, <1>5

\* What accepting changes.
LEMMA AcceptEffect ==
  ASSUME AllInv, NEW c \in CR, Accept(c)
  PROVE  /\ WorldSame /\ UNCHANGED <<schedulerVars, inbox, bcasts>> /\ OthersSame(c)
         /\ TagsHeld(c) = {app[c].rc.tag} /\ TagsHeld(c)' = AddTags(c)'
         /\ AddTags(c)' = {t \in {app[c].rc.tag} : rc_map[t].rc_type = "add"}
         /\ app[c] \in AppState /\ app[c].at = "accept" /\ inbox[c] = {}
         /\ app' = [app EXCEPT ![c] = Accepted(@)]
         /\ accept_info' = [t \in DOMAIN accept_info \cup {app[c].rc.tag} |->
                              IF t = app[c].rc.tag
                              THEN [main |-> app[c].main, iter |-> app[c].iter]
                              ELSE accept_info[t]]
         /\ offered'[c] = {} /\ pc'[c] = pc[c] /\ pc[c] = "main"
         /\ \A i \in DOMAIN requests'[c] : requests'[c][i].tag = "RC_ACCEPT"
         /\ \A d \in CR :
              d # c => /\ app'[d] = app[d] /\ pc'[d] = pc[d] /\ requests'[d] = requests[d]
                       /\ inbox'[d] = inbox[d] /\ offered'[d] = offered[d]
<1>. DEFINE t == app[c].rc.tag
            r == [tag |-> "RC_ACCEPT", rc_tag |-> t]
<1>1. /\ r \in RequestMessage /\ Send(c, r, "main")
      /\ t \in offered[c] /\ offered' = [offered EXCEPT ![c] = @ \ {t}]
  BY AcceptSends DEF Asked
<1>2. /\ app' = [app EXCEPT ![c] = Accepted(@)] /\ program' = program /\ bcasts' = bcasts
      /\ accept_info' = [s \in DOMAIN accept_info \cup {t} |->
                           IF s = t THEN [main |-> app[c].main, iter |-> app[c].iter]
                           ELSE accept_info[s]]
      /\ app[c].at = "accept" /\ pc[c] = "main"
  BY DEF Accept, At
<1>3. /\ app \in [CR -> AppState] /\ InStep(c) /\ OneHolder
      /\ requests \in [CR -> Seq(RequestMessage)] /\ offered \in [CR -> SUBSET (0 .. MaxRcTag + 1)]
      /\ pc \in [CR -> {"main", "quit", Idle} \cup AnswerTag]
  BY PlaceIs DEF AllInv, AppInv, AppTypeOK, SimInv, TypeOK
<1>4. /\ UNCHANGED <<schedulerVars, inbox>>
      /\ requests' = [requests EXCEPT ![c] = Append(@, r)] /\ pc' = [pc EXCEPT ![c] = "main"]
  BY <1>1 DEF Send
<1>5. inbox[c] = {} /\ DOMAIN requests[c] = Accepts(c) /\ AddTags(c) = {}
  BY <1>2, <1>3, MainPlace DEF InStep
<1>6. requests[c] \in Seq(RequestMessage) /\ requests'[c] = Append(requests[c], r)
  BY <1>3, <1>4
<1>7. \A i \in DOMAIN requests'[c] : requests'[c][i].tag = "RC_ACCEPT"
  BY <1>1, <1>5, <1>6, AppendTags DEF Accepts
<1>. HIDE DEF t
<1>8. AddTags(c)' = {s \in {t} : rc_map[s].rc_type = "add"}
  <2>1. AcceptTags(c)' = AcceptTags(c) \cup {t}
    BY <1>1, <1>6, AppendTags
  <2>. QED
    BY <1>4, <1>5, <2>1 DEF AddTags, schedulerVars
<1>9. offered[c] = {t} /\ offered'[c] = {}
  BY <1>1, <1>3 DEF OneHolder, TagsHeld
<1>10. TagsHeld(c) = {t} /\ TagsHeld(c)' = AddTags(c)'
  BY <1>5, <1>9 DEF TagsHeld
<1>11. \A d \in CR : d # c => /\ app'[d] = app[d] /\ pc'[d] = pc[d] /\ requests'[d] = requests[d]
                              /\ inbox'[d] = inbox[d] /\ offered'[d] = offered[d]
  BY <1>1, <1>2, <1>3, <1>4
<1>12. WorldSame
  BY <1>2, <1>4 DEF WorldSame, schedulerVars
<1>13. OthersSame(c)
  <2>1. ASSUME NEW d \in CR, d # c PROVE Same(d)
    BY <1>2, <1>4, <1>11, <1>12, <2>1, QueueSame DEF Same, InboxSame, schedulerVars, WorldSame
  <2>. QED
    BY <2>1 DEF OthersSame
<1>. QED
  BY <1>2, <1>3, <1>4, <1>5, <1>7, <1>8, <1>9, <1>10, <1>11, <1>12, <1>13 DEF t

\* The way goes on when its root accepts the change.
LEMMA AcceptMoving ==
  ASSUME OneHolder, NEW G \in SUBSET CR, NEW J \in SUBSET CR, Moving(G, J), WorldSame,
         NEW c \in G, OthersSame(c), Holds(c), TagsHeld(c)' \subseteq TagsHeld(c), inbox'[c] = {},
         c \in J => Moves(c, G, J)', c \notin J => Leaves(c)', Way(G, J) = "add" => Holds(c)',
         \A t \in AddTags(c)' : t \in DOMAIN accept_info' /\ Leads(accept_info[t].main, J)'
  PROVE  Moving(G, J)'
<1>1. IsWay(G, J) /\ pending_shutdowns' = (G \ J) \cap running_crs'
  BY DEF Moving, WorldSame
<1>2. RootHolds(G, J)'
  BY RootHoldsStep DEF Moving
<1>3. \A d \in CR : d # c => TagsHeld(d) = {} /\ TagsHeld(d)' = {} /\ AddTags(d)' = {}
  BY DEF OneHolder, Holds, OthersSame, Same, TagsHeld
<1>4. ASSUME NEW d \in CR, d # c
      PROVE  /\ Resting(d) => Resting(d)'
             /\ Moves(d, G, J) => Moves(d, G, J)'
             /\ LearnsName(d, G, J) => LearnsName(d, G, J)'
             /\ Leaves(d) => Leaves(d)'
             /\ TrueAnswers(d, J) => TrueAnswers(d, J)'
  <2>1. app'[d] = app[d] /\ bcasts'[d] = bcasts[d] /\ Same(d)
    BY <1>4 DEF OthersSame, Same
  <2>. QED
    BY <2>1, SameWorks, SameProcess
<1>5. TrueAnswers(c, J)'
  BY DEF TrueAnswers
<1>6. \A d \in J \ G : Resting(d)' /\ Holds(c)'
  BY <1>4 DEF Moving, Way
<1>7. \A d \in CR : \A t \in AddTags(d)' :
        t \in DOMAIN accept_info' /\ Leads(accept_info[t].main, J)'
  BY <1>3
<1>8. \A d \in G \cap J : Moves(d, G, J)' \/ (d # Root(G) /\ LearnsName(d, G, J)')
  BY <1>4 DEF Moving
<1>9. /\ \A d \in G \ J : Leaves(d)' \/ Resting(d)'
      /\ \A d \in CR \ (G \cup J) : Resting(d)'
      /\ \A d \in J : TrueAnswers(d, J)'
  BY <1>4, <1>5 DEF Moving
<1>. QED
  BY <1>1, <1>2, <1>6, <1>7, <1>8, <1>9 DEF Moving

\* Accepting a change keeps the invariant.
LEMMA AcceptStep ==
  ASSUME AllInv, NEW c \in CR, Accept(c)
  PROVE  AppInv'
<1>. DEFINE a == app[c]
            t == app[c].rc.tag
<1>1. /\ WorldSame /\ UNCHANGED <<schedulerVars, inbox, bcasts>> /\ OthersSame(c)
      /\ TagsHeld(c) = {t} /\ TagsHeld(c)' = AddTags(c)'
      /\ AddTags(c)' = {s \in {t} : rc_map[s].rc_type = "add"}
      /\ a \in AppState /\ a.at = "accept" /\ inbox[c] = {}
      /\ app' = [app EXCEPT ![c] = Accepted(@)]
      /\ accept_info' = [s \in DOMAIN accept_info \cup {t} |->
                           IF s = t THEN [main |-> a.main, iter |-> a.iter] ELSE accept_info[s]]
  BY AcceptEffect
<1>2. /\ app \in [CR -> AppState] /\ OneHolder /\ InStep(c) /\ WorldRuns /\ AppTypeOK
  BY PlaceIs DEF AllInv, AppInv, AppTypeOK
<1>3. /\ app'[c] = Accepted(a)
      /\ app'[c] = [a EXCEPT !.at = IF a.leave THEN "finalize" ELSE "lookup"]
  BY <1>1, <1>2 DEF Accepted
<1>4. /\ app'[c] \in AppState /\ app'[c].main = a.main /\ app'[c].comm = a.comm
      /\ app'[c].leave = a.leave /\ app'[c].at = IF a.leave THEN "finalize" ELSE "lookup"
  BY <1>1, <1>3 DEF AppState, Places
<1>5. AppTypeOK'
  <2>1. app' \in [CR -> AppState]
    BY <1>1, <1>2, <1>4
  <2>2. a.main \in S!PsetName /\ a.iter \in Nat
    BY <1>1 DEF AppState
  <2>. HIDE DEF t, a
  <2>3. \A s \in DOMAIN accept_info' : accept_info'[s] \in [main : S!PsetName, iter : Nat]
    BY <1>1, <1>2, <2>2 DEF AppTypeOK
  <2>. QED
    BY <1>1, <1>2, <2>1, <2>3 DEF AppTypeOK, WorldSame
<1>6. InStep(c)'
  <2>1. /\ offered'[c] = {} /\ pc'[c] = "main" /\ inbox'[c] = {}
        /\ \A i \in DOMAIN requests'[c] : requests'[c][i].tag = "RC_ACCEPT"
    BY AcceptEffect
  <2>2. a.leave => Stands(t, "sub")
    <3>1. ASSUME NEW G \in SUBSET CR, Working(G) \/ Searching(G), c \notin G PROVE Stands(t, "sub")
      BY <1>1, <3>1 DEF Working, Searching, Around, Holds
    <3>2. ASSUME a.leave, NEW G \in SUBSET CR, NEW J \in SUBSET CR, Moving(G, J),
                 c \in G, c \notin J
          PROVE  Stands(t, "sub")
      <4>1. StandsFor(t, G, J) /\ IsWay(G, J)
        BY <1>1, <3>2 DEF Moving, RootHolds, Holds
      <4>2. Way(G, J) = "sub"
        BY <3>2, <4>1 DEF IsWay, Way
      <4>. QED
        BY <4>1, <4>2 DEF StandsFor
    <3>3. a.leave => \A G, J : ~Moves(c, G, J)
      BY <1>1 DEF Moves
    <3>. QED
      BY <1>1, <3>1, <3>2, <3>3, AccepterPlace
  <2>3. AddTags(c)' # {} => app'[c].at = "lookup"
    BY <1>1, <1>4, <2>2 DEF Stands
  <2>. QED
    BY <1>4, <2>1, <2>3 DEF InStep, RequestFits, Idle, AnswerTag
<1>7. OneHolder'
  BY <1>1, <1>2, HolderStep DEF OthersSame, Same
<1>8. WorldRuns'
  BY <1>1, <1>2, WorldRunsSame
<1>9. ASSUME Leaves(c) PROVE Leaves(c)'
  BY <1>1, <1>4, <1>9 DEF Leaves, Silent, WorldSame, Off
<1>10. ASSUME NEW G \in SUBSET CR, Working(G) \/ Searching(G), c \notin G, Leaves(c),
              c \in pending_shutdowns
       PROVE  Together'
  <2>1. Working(G) => Working(G)'
    BY <1>1, <1>9, <1>10, WorkingStep
  <2>2. Searching(G) => Searching(G)'
    BY <1>1, <1>9, <1>10, SearchingStep
  <2>. QED
    BY <1>10, <2>1, <2>2 DEF Together
<1>11. ASSUME NEW G \in SUBSET CR, NEW J \in SUBSET CR, Moving(G, J), c \in G,
              IF c \in J THEN Moves(c, G, J) ELSE Leaves(c)
       PROVE  Together'
  <2>1. PICK name : name = a.main
    OBVIOUS
  <2>2. c \in J => Leads(name, J)' /\ Moves(c, G, J)'
    <3>1. ASSUME c \in J PROVE Leads(name, J)'
      BY <1>1, <1>11, <2>1, <3>1, LeadsSame DEF Moves
    <3>2. ASSUME c \in J PROVE Moves(c, G, J)'
      BY <1>1, <1>4, <1>11, <2>1, <3>1, <3>2 DEF Moves, Works, Silent, WorldSame
    <3>. QED
      BY <3>1, <3>2
  <2>3. /\ Way(G, J) = "add" <=> rc_map[t].rc_type = "add"
        /\ Way(G, J) = "add" => c \in J
    <3>1. StandsFor(t, G, J) /\ IsWay(G, J)
      BY <1>1, <1>11 DEF Moving, RootHolds, Holds
    <3>. QED
      BY <1>11, <3>1 DEF StandsFor, Stands, IsWay, Way
  <2>4. t \in DOMAIN accept_info' /\ accept_info'[t].main = name
    BY <1>1, <2>1
  <2>5. \A s \in AddTags(c)' : s \in DOMAIN accept_info' /\ Leads(accept_info[s].main, J)'
    BY <1>1, <2>2, <2>3, <2>4 DEF Leads
  <2>6. Holds(c) /\ (Way(G, J) = "add" => Holds(c)')
    BY <1>1, <2>3 DEF Holds
  <2>7. Moving(G, J)'
    BY <1>1, <1>2, <1>9, <1>11, <2>2, <2>5, <2>6, AcceptMoving
  <2>. QED
    BY <2>7 DEF Together
<1>12. Together'
  BY <1>1, <1>10, <1>11, AccepterPlace
<1>13. /\ fault' = fault
       /\ \A d \in CR : d # c => /\ app'[d] = app[d] /\ pc'[d] = pc[d] /\ requests'[d] = requests[d]
                                 /\ inbox'[d] = inbox[d] /\ offered'[d] = offered[d]
  BY AcceptEffect DEF schedulerVars
<1>. QED
  BY <1>1, <1>5, <1>6, <1>7, <1>8, <1>12, <1>13, StepEnds DEF OthersSame, Same

-----------------------------------------------------------------------------
(***************************************************************************)
(* A process leaves.                                                       *)
(***************************************************************************)
LEMMA LeaveStep ==
  ASSUME AllInv, NEW c \in CR, Leave(c)
  PROVE  AppInv'
<1>. DEFINE r == [tag |-> "DONE_RUNNING"]
<1>1. /\ app[c].at = "exit" /\ pc[c] = "main" /\ Send(c, r, Idle)
      /\ offered' = [offered EXCEPT ![c] = {}] /\ app' = [app EXCEPT ![c] = Off]
      /\ UNCHANGED <<program, bcasts, accept_info>>
  BY DEF Leave, At, Exit
<1>2. /\ UNCHANGED <<schedulerVars, inbox>>
      /\ requests' = [requests EXCEPT ![c] = Append(@, r)] /\ pc' = [pc EXCEPT ![c] = Idle]
  BY <1>1 DEF Send
<1>3. /\ app \in [CR -> AppState] /\ InStep(c) /\ OneHolder /\ WorldRuns /\ AppTypeOK /\ Together
      /\ requests \in [CR -> Seq(RequestMessage)] /\ offered \in [CR -> SUBSET (0 .. MaxRcTag + 1)]
      /\ pc \in [CR -> {"main", "quit", Idle} \cup AnswerTag]
  BY PlaceIs DEF AllInv, AppInv, AppTypeOK, SimInv, TypeOK
<1>4. inbox[c] = {} /\ DOMAIN requests[c] = Accepts(c) /\ AddTags(c) = {} /\ c \in running_crs
  BY <1>1, <1>3, MainPlace DEF InStep
<1>5. /\ r \in RequestMessage /\ r.tag = "DONE_RUNNING"
      /\ requests[c] \in Seq(RequestMessage) /\ requests'[c] = Append(requests[c], r)
  BY <1>2, <1>3 DEF RequestMessage
<1>6. /\ \A i \in DOMAIN requests'[c] : requests'[c][i].tag \in {"RC_ACCEPT", "DONE_RUNNING"}
      /\ AcceptTags(c)' = AcceptTags(c) /\ Done(c)'
  BY <1>4, <1>5, AppendTags DEF Accepts
<1>7. /\ app'[c] = Off /\ offered'[c] = {} /\ pc'[c] = Idle /\ inbox'[c] = {}
      /\ \A d \in CR : d # c => /\ app'[d] = app[d] /\ pc'[d] = pc[d] /\ requests'[d] = requests[d]
                                /\ inbox'[d] = inbox[d] /\ offered'[d] = offered[d]
  BY <1>1, <1>2, <1>3, <1>4
<1>8. WorldSame
  BY <1>1, <1>2 DEF WorldSame, schedulerVars
<1>9. AddTags(c)' = AddTags(c) /\ TagsHeld(c)' = {}
  BY <1>4, <1>6, <1>7, <1>8 DEF AddTags, TagsHeld, WorldSame
<1>10. Done(c)'
  BY <1>6
<1>11. OthersSame(c)
  <2>1. ASSUME NEW d \in CR, d # c PROVE Same(d)
    BY <1>1, <1>2, <1>7, <1>8, <2>1, QueueSame DEF Same, InboxSame, schedulerVars, WorldSame
  <2>. QED
    BY <2>1 DEF OthersSame
<1>12. Off \in AppState /\ Off.at = "off" /\ ~Off.leave
  <2>1. NoChange \in Change
    BY DEF NoChange, Change, S!RCType, S!NoTag, S!PsetName, S!NoName
  <2>. QED
    BY <2>1 DEF Off, AppState, Places, S!PsetName, S!NoName
<1>13. AppTypeOK'
  <2>1. app' \in [CR -> AppState]
    BY <1>1, <1>3, <1>12
  <2>. QED
    BY <1>1, <1>3, <2>1 DEF AppTypeOK
<1>14. InStep(c)'
  BY <1>4, <1>6, <1>7, <1>9, <1>12 DEF InStep, RequestFits, Idle, AnswerTag
<1>15. OneHolder'
  BY <1>3, <1>9, <1>11, HolderStep DEF OthersSame, Same
<1>16. WorldRuns'
  BY <1>3, <1>8, WorldRunsSame
<1>17. Leaves(c) \/ Finished(c)
  BY <1>1, FinalPlace
<1>18. Leaves(c) => Leaves(c)'
  BY <1>1, <1>4, <1>7, <1>8, <1>10 DEF Leaves, Silent, WorldSame, Off
<1>19. Finished(c) => Finished(c)'
  BY <1>1, <1>7, <1>8, <1>10 DEF Finished, Silent, WorldSame
<1>20. Together'
  BY <1>1, <1>3, <1>4, <1>8, <1>9, <1>11, <1>17, <1>18, <1>19, LeaverTogether
<1>. QED
  BY <1>2, <1>7, <1>11, <1>13, <1>14, <1>15, <1>16, <1>20, StepEnds
     DEF schedulerVars, OthersSame, Same

-----------------------------------------------------------------------------
(***************************************************************************)
(* The steps that need all members.                                        *)
(***************************************************************************)
LEMMA JoinedIs ==
  ASSUME NEW a \in AppState
  PROVE  /\ Joined(a) \in AppState
         /\ Joined(a).main = a.main /\ Joined(a).comm = a.group /\ Joined(a).leave = a.leave
         /\ \/ Joined(a).at = "barrier"
            \/ program = "07" /\ Joined(a).at = "finalize" /\ Joined(a).iter >= MaxIter
<1>. DEFINE in == [a EXCEPT !.comm = a.group, !.group = {}]
<1>1. in \in AppState /\ in.main = a.main /\ in.comm = a.group /\ in.leave = a.leave
  BY DEF AppState
<1>2. Joined(a) = Loop(in) \/ Joined(a) = Again(in)
  BY DEF Joined
<1>. HIDE DEF in
<1>. QED
  BY <1>1, <1>2, LoopIs, AgainIs, AgainType

\* What is left to show of a step that only changes where some members are.
LEMMA MembersEnd ==
  ASSUME AllInv, UNCHANGED <<allVars, program, bcasts, accept_info>>, app' \in [CR -> AppState],
         \A d \in CR : \/ app'[d] = app[d]
                       \/ /\ pc[d] = "main" /\ app[d].at \in {"join", "barrier"}
                          /\ app'[d].at \in {"barrier", "finalize", "get_change", "hear_change"}
                          /\ app'[d].leave = app[d].leave /\ ~Holds(d),
         Together'
  PROVE  AppInv'
<1>1. /\ fault' = fault /\ pc' = pc /\ requests' = requests /\ inbox' = inbox /\ offered' = offered
  BY DEF allVars, schedulerVars, workerVars
<1>2. WorldSame
  BY DEF WorldSame, allVars, schedulerVars
<1>3. ASSUME NEW d \in CR PROVE InStep(d)'
  <2>1. InStep(d)
    BY PlaceIs
  <2>2. CASE app'[d] = app[d]
    BY <1>1, <1>2, <2>1, <2>2, QueueSame, InStepSame DEF WorldSame
  <2>3. CASE /\ pc[d] = "main" /\ app[d].at \in {"join", "barrier"}
             /\ app'[d].at \in {"barrier", "finalize", "get_change", "hear_change"}
             /\ app'[d].leave = app[d].leave /\ ~Holds(d)
    <3>1. DOMAIN requests[d] = Accepts(d)
      BY <2>3, MainPlace
    <3>2. AddTags(d)' = {} /\ offered'[d] = {}
      BY <1>1, <1>2, <2>3, QueueSame DEF Holds, TagsHeld, WorldSame
    <3>3. ~app'[d].leave
      BY <2>1, <2>3 DEF InStep
    <3>. QED
      BY <1>1, <2>1, <2>3, <3>1, <3>2, <3>3, HeardInStep
  <2>. QED
    BY <2>2, <2>3
<1>4. \A d \in CR : TagsHeld(d)' = TagsHeld(d)
  BY <1>1, <1>2, QueueSame DEF WorldSame
<1>5. OneHolder'
  BY <1>4, HolderStep DEF AllInv, AppInv
<1>6. WorldRuns'
  BY <1>2, WorldRunsSame DEF AllInv, AppInv
<1>. QED
  BY <1>1, <1>3, <1>5, <1>6 DEF AllInv, AppInv, AppTypeOK

\* A step of some members leaves the other processes as they are.
LEMMA MembersOthers ==
  ASSUME UNCHANGED <<allVars, program, bcasts, accept_info>>
  PROVE  /\ WorldSame
         /\ \A d \in CR : app'[d] = app[d] => Same(d)
         /\ \A d \in CR : TagsHeld(d)' = TagsHeld(d) /\ (Holds(d)' <=> Holds(d))
<1>1. WorldSame /\ requests' = requests /\ inbox' = inbox /\ offered' = offered
      /\ process_states' = process_states
  BY DEF WorldSame, allVars, schedulerVars, workerVars
<1>. QED
  BY <1>1, QueueSame DEF WorldSame, Same, InboxSame, Holds

\* The processes of a process set make their communicator: all of them are there.
LEMMA CreateCommStep ==
  ASSUME AllInv, CreateComm
  PROVE  AppInv'
<1>1. UNCHANGED <<allVars, program, bcasts, accept_info>> /\ fault = "none" /\ OneHolder
      /\ app \in [CR -> AppState]
  BY PlaceIs DEF CreateComm, AllInv, AppInv, AppTypeOK
<1>2. PICK c \in CR : /\ At(c, "join")
                      /\ \A d \in app[c].group : At(d, "join") /\ app[d].group = app[c].group
                      /\ app' = [d \in CR |-> IF d \in app[c].group THEN Joined(app[d]) ELSE app[d]]
  BY DEF CreateComm
<1>3. PICK G, J \in SUBSET CR : /\ Moving(G, J) /\ c \in J
                                /\ IF c \in G THEN Moves(c, G, J) ELSE Joins(c, J)
  BY <1>2, LookedUp DEF At
<1>4. app[c].group = J
  BY <1>2, <1>3 DEF At, Moves, Joins
<1>5. /\ \A d \in J : app[d].at = "join" /\ app[d].group = J /\ pc[d] = "main"
      /\ app' = [d \in CR |-> IF d \in J THEN Joined(app[d]) ELSE app[d]]
  BY <1>2, <1>4 DEF At
<1>6. ASSUME NEW d \in J
      PROVE  /\ app'[d] \in AppState
             /\ app'[d].main = app[d].main /\ app'[d].comm = J /\ app'[d].leave = app[d].leave
             /\ \/ app'[d].at = "barrier"
                \/ program = "07" /\ app'[d].at = "finalize" /\ app'[d].iter >= MaxIter
  BY <1>1, <1>5, JoinedIs
<1>7. app' \in [CR -> AppState]
  BY <1>1, <1>5, <1>6
<1>8. ASSUME NEW d \in J PROVE d \in running_crs /\ Silent(d) /\ Leads(app[d].main, J) /\ ~Holds(d)
  <2>1. ~Resting(d) /\ ~LearnsName(d, G, J)
    BY <1>5 DEF Resting, Off, LearnsName
  <2>2. Moves(d, G, J) \/ Joins(d, J)
    BY <1>3, <2>1 DEF Moving
  <2>3. d \in running_crs /\ Silent(d) /\ Leads(app[d].main, J)
    BY <1>5, <2>2 DEF Moves, Joins, Works
  <2>4. offered[d] = {}
    BY <1>5, PlaceIs DEF InStep
  <2>5. CASE J \subseteq G
    <3>1. \A t \in TagsHeld(d) : Stands(t, "sub")
      BY <1>3, <2>5 DEF Moving, RootHolds, Holds, StandsFor, Way
    <3>. QED
      BY <2>3, <2>4, <3>1 DEF Holds, TagsHeld, AddTags, Stands
  <2>6. CASE \E e \in J \ G : ~Resting(e)
    BY <1>3, <2>3, <2>6 DEF Moving
  <2>. QED
    BY <1>5, <2>5, <2>6 DEF Resting, Off
<1>9. /\ WorldSame /\ \A d \in CR \ J : Same(d)
      /\ \A d \in CR : TagsHeld(d)' = TagsHeld(d) /\ (Holds(d)' <=> Holds(d))
  BY <1>1, <1>5, MembersOthers
<1>10. ASSUME NEW d \in CR \ J PROVE Resting(d)' \/ (d \in pending_shutdowns' /\ Leaves(d)')
  <2>1. Resting(d) \/ (d \in G \ J /\ Leaves(d))
    BY <1>3 DEF Moving
  <2>2. d \in G /\ Leaves(d) => d \in pending_shutdowns
    BY <1>3 DEF Moving, Leaves
  <2>3. app'[d] = app[d] /\ bcasts'[d] = bcasts[d] /\ Same(d)
    BY <1>9 DEF Same
  <2>. QED
    BY <1>9, <2>1, <2>2, <2>3, SameWorks, SameProcess DEF WorldSame
<1>11. pending_shutdowns' \cap J = {}
  BY <1>3, <1>9 DEF Moving, WorldSame
<1>12. ASSUME NEW d \in CR, Holds(d)
       PROVE  d \in pending_shutdowns' /\ \A t \in TagsHeld(d)' : Stands(t, "sub")'
  <2>1. d \in G \ J /\ \A t \in TagsHeld(d) : StandsFor(t, G, J)
    BY <1>3, <1>8, <1>12 DEF Moving, RootHolds
  <2>2. Way(G, J) = "sub"
    BY <1>3, <2>1 DEF Moving, IsWay, Way
  <2>3. ~Resting(d)
    BY <1>12, RestingInbox
  <2>4. d \in pending_shutdowns
    BY <1>3, <2>1, <2>3 DEF Moving, Leaves
  <2>. QED
    BY <1>9, <2>1, <2>2, <2>4, StandsSame DEF StandsFor, WorldSame
<1>13. Around(J)'
  BY <1>9, <1>10, <1>11, <1>12 DEF Around
<1>14. ASSUME NEW d \in J PROVE (Finished(d)' \/ AtWork(d, J)') /\ Leads(app[d].main, J)'
  <2>1. Silent(d)' /\ d \in running_crs' /\ program' = program
    BY <1>1, <1>8, <1>9 DEF Silent, WorldSame
  <2>2. Finished(d)' \/ AtWork(d, J)'
    BY <1>6, <2>1 DEF Finished, AtWork, Works
  <2>3. PICK name : name = app[d].main
    OBVIOUS
  <2>4. app'[d].main = name /\ Leads(name, J)'
    BY <1>6, <1>8, <1>9, <2>3, LeadsSame
  <2>. QED
    BY <2>2, <2>4 DEF Leads
<1>15. Working(J)'
  BY <1>13, <1>14 DEF Working
<1>16. Together'
  BY <1>15 DEF Together
<1>17. ASSUME NEW d \in CR
       PROVE  \/ app'[d] = app[d]
              \/ /\ pc[d] = "main" /\ app[d].at \in {"join", "barrier"}
                 /\ app'[d].at \in {"barrier", "finalize", "get_change", "hear_change"}
                 /\ app'[d].leave = app[d].leave /\ ~Holds(d)
  BY <1>5, <1>6, <1>8
<1>. QED
  BY <1>1, <1>7, <1>16, <1>17, MembersEnd

\* Where a process waits in a barrier.
LEMMA BarrierPlace ==
  ASSUME AllInv, NEW c \in CR, app[c].at = "barrier"
  PROVE  \E G \in SUBSET CR : Working(G) /\ c \in G /\ AtWork(c, G)
<1>1. /\ ~Resting(c) /\ ~Finished(c) /\ ~Leaves(c)
      /\ \A G, J : /\ ~LearnsName(c, G, J) /\ ~Learns(c, G, J) /\ ~Joins(c, J)
                   /\ ~Moves(c, G, J)
  BY DEF Off, Resting, Finished, Leaves, LearnsName, Learns, Joins, Moves
<1>2. PICK G \in SUBSET CR :
        \/ Working(G) \/ Searching(G)
        \/ \E J \in SUBSET CR : Telling(G, J) \/ Naming(G, J) \/ Moving(G, J)
  BY DEF AllInv, AppInv, Together
<1>3. Working(G) => c \in G /\ AtWork(c, G)
  BY <1>1 DEF Working, Around
<1>4. ~Searching(G)
  BY <1>1 DEF Searching, Around
<1>5. \A J \in SUBSET CR : ~Telling(G, J) /\ ~Naming(G, J)
  BY <1>1 DEF Telling, Naming, Apart
<1>6. \A J \in SUBSET CR : ~Moving(G, J)
  BY <1>1 DEF Moving
<1>. QED
  BY <1>2, <1>3, <1>4, <1>5, <1>6

\* The members of a communicator pass a barrier.
LEMMA BarrierStep ==
  ASSUME AllInv, Barrier
  PROVE  AppInv'
<1>1. UNCHANGED <<allVars, program, bcasts, accept_info>> /\ fault = "none"
      /\ app \in [CR -> AppState]
  BY PlaceIs DEF Barrier, AllInv, AppInv, AppTypeOK
<1>2. PICK c \in CR :
        /\ At(c, "barrier")
        /\ \A d \in app[c].comm : At(d, "barrier") /\ app[d].comm = app[c].comm
        /\ app' = [d \in CR |-> IF d \in app[c].comm
                     THEN [app[d] EXCEPT !.at = IF d = Root(app[c].comm) THEN "get_change"
                                                ELSE "hear_change"]
                     ELSE app[d]]
  BY DEF Barrier
<1>3. PICK G \in SUBSET CR : Working(G) /\ c \in G /\ AtWork(c, G)
  BY <1>2, BarrierPlace DEF At
<1>4. app[c].comm = G
  BY <1>3 DEF AtWork, Works
<1>5. /\ \A d \in G : app[d].at = "barrier" /\ pc[d] = "main"
      /\ app' = [d \in CR |-> IF d \in G
                   THEN [app[d] EXCEPT !.at = IF d = Root(G) THEN "get_change" ELSE "hear_change"]
                   ELSE app[d]]
  BY <1>2, <1>4 DEF At
<1>6. ASSUME NEW d \in G
      PROVE  /\ app'[d] \in AppState
             /\ app'[d].main = app[d].main /\ app'[d].comm = app[d].comm
             /\ app'[d].leave = app[d].leave
             /\ app'[d].at = IF d = Root(G) THEN "get_change" ELSE "hear_change"
  <2>1. app[d] \in AppState
    BY <1>1
  <2>2. app'[d] = [app[d] EXCEPT !.at = IF d = Root(G) THEN "get_change" ELSE "hear_change"]
    BY <1>5
  <2>. QED
    BY <2>1, <2>2 DEF AppState, Places
<1>7. app' \in [CR -> AppState]
  BY <1>1, <1>5, <1>6
<1>8. ASSUME NEW d \in G
      PROVE  Works(d, G) /\ Silent(d) /\ inbox[d] = {} /\ Leads(app[d].main, G)
  <2>1. \A e \in G : ~Finished(e)
    BY <1>5 DEF Finished, Off
  <2>2. AtWork(d, G) /\ Leads(app[d].main, G)
    BY <1>3, <2>1 DEF Working
  <2>. QED
    BY <1>5, <2>2, MainPlace DEF AtWork
<1>9. /\ WorldSame /\ \A d \in CR \ G : Same(d)
      /\ \A d \in CR : TagsHeld(d)' = TagsHeld(d) /\ (Holds(d)' <=> Holds(d))
  BY <1>1, <1>5, MembersOthers
<1>10. Around(G)'
  <2>1. Around(G)
    BY <1>3 DEF Working
  <2>2. ASSUME NEW d \in CR \ G PROVE Resting(d)' \/ (d \in pending_shutdowns' /\ Leaves(d)')
    <3>1. Resting(d) \/ (d \in pending_shutdowns /\ Leaves(d))
      BY <2>1 DEF Around
    <3>2. app'[d] = app[d] /\ bcasts'[d] = bcasts[d] /\ Same(d)
      BY <1>9 DEF Same
    <3>. QED
      BY <1>9, <3>1, <3>2, SameWorks, SameProcess DEF WorldSame
  <2>. QED
    BY <1>9, <2>1, <2>2, StandsSame DEF Around, WorldSame
<1>11. ASSUME NEW d \in G
       PROVE  /\ Works(d, G)' /\ Silent(d)' /\ Leads(app[d].main, G)'
              /\ IF d = Root(G)
                 THEN app'[d].at = "get_change" /\ \A m \in inbox'[d] : m.type = "none"
                 ELSE app'[d].at = "hear_change"
  <2>1. Works(d, G)' /\ Silent(d)' /\ inbox'[d] = {}
    BY <1>1, <1>6, <1>8, <1>9 DEF Works, Silent, WorldSame, allVars
  <2>2. PICK name : name = app[d].main
    OBVIOUS
  <2>3. app'[d].main = name /\ Leads(name, G)'
    BY <1>6, <1>8, <1>9, <2>2, LeadsSame
  <2>. QED
    BY <1>6, <2>1, <2>3 DEF Leads
<1>12. Searching(G)'
  BY <1>10, <1>11 DEF Searching
<1>13. Together'
  BY <1>12 DEF Together
<1>14. ASSUME NEW d \in CR
       PROVE  \/ app'[d] = app[d]
              \/ /\ pc[d] = "main" /\ app[d].at \in {"join", "barrier"}
                 /\ app'[d].at \in {"barrier", "finalize", "get_change", "hear_change"}
                 /\ app'[d].leave = app[d].leave /\ ~Holds(d)
  <2>1. d \in G => ~Holds(d)
    BY <1>5, PlaceIs DEF InStep, Holds, TagsHeld
  <2>. QED
    BY <1>5, <1>6, <2>1
<1>. QED
  BY <1>1, <1>7, <1>13, <1>14, MembersEnd

-----------------------------------------------------------------------------
(***************************************************************************)
(* The end of the simulation.                                              *)
(***************************************************************************)
LEMMA FinishStep ==
  ASSUME AllInv, Finish
  PROVE  AppInv'
<1>1. /\ running_crs = {} /\ Deliver /\ sent' = {S!Command(c, "shutdown") : c \in CR}
      /\ UNCHANGED <<requests, pc, offered, appVars, fault, running_crs, pending_shutdowns,
                     pset_name_map, rc_map, pending_resource_change, process_states>>
  BY DEF Finish, Shutdown, S!ShutdownAll, workerVars, S!crVars, S!psetVars, S!rcVars
<1>2. WorldSame /\ UNCHANGED <<app, bcasts, accept_info>>
  BY <1>1 DEF WorldSame, appVars
<1>3. ASSUME NEW c \in CR
      PROVE  /\ app[c].at = "off"
             /\ \A m \in inbox'[c] : m \in inbox[c] \/ m.tag = Idle
  <2>1. Place(c) /\ InStep(c)
    BY PlaceIs
  <2>2. pc[c] \in {Idle, "quit"}
    BY <1>1, <2>1, PlaceIs DEF Place, AtRest, ToStart, InProgram, Asking, Answered, LookupAnswered,
       SelfAnswered, Unanswerable, Leaving, ToQuit, HasQuit
  <2>3. app[c].at = "off"
    BY <2>1, <2>2 DEF InStep
  <2>4. inbox'[c] = inbox[c] \cup {m \in sent' : m.to = c}
    BY <1>1 DEF Deliver
  <2>. QED
    BY <1>1, <2>3, <2>4 DEF S!Command, Idle
<1>4. \A c \in CR : Same(c)
  BY <1>1, <1>2, <1>3, QueueSame DEF Same, InboxSame
<1>5. ASSUME NEW c \in CR PROVE InStep(c)'
  <2>1. InStep(c) /\ AddTags(c)' = AddTags(c)
    BY <1>1, PlaceIs, QueueSame
  <2>. QED
    BY <1>1, <1>2, <1>3, <2>1 DEF InStep
<1>6. OneHolder' /\ WorldRuns' /\ Together'
  BY <1>2, <1>4, TogetherSame, HolderStep, WorldRunsSame DEF AllInv, AppInv, Same
<1>7. AppTypeOK'
  BY <1>2 DEF AllInv, AppInv, AppTypeOK, WorldSame
<1>. QED
  BY <1>1, <1>5, <1>6, <1>7 DEF AllInv, AppInv

\* Nothing happens.
LEMMA StutterStep ==
  ASSUME AllInv, UNCHANGED exampleVars
  PROVE  AppInv'
<1>1. /\ UNCHANGED <<allVars, app, bcasts, program, accept_info>>
  BY DEF exampleVars, appVars
<1>2. /\ WorldSame /\ UNCHANGED <<fault, pc, requests, inbox, offered, process_states>>
  BY <1>1 DEF WorldSame, allVars, schedulerVars, workerVars
<1>3. \A c \in CR : Same(c) /\ InStep(c)'
  BY <1>1, <1>2, QueueSame, PlaceIs, InStepSame DEF Same, InboxSame, WorldSame
<1>4. OneHolder' /\ WorldRuns' /\ Together'
  BY <1>1, <1>2, <1>3, TogetherSame, HolderStep, WorldRunsSame DEF AllInv, AppInv, Same
<1>5. AppTypeOK'
  BY <1>1 DEF AllInv, AppInv, AppTypeOK
<1>. QED
  BY <1>2, <1>3, <1>4, <1>5 DEF AllInv, AppInv

-----------------------------------------------------------------------------
(***************************************************************************)
(* The scheduler serves a request.                                         *)
(***************************************************************************)
\* Rank 0 takes the i-th request of c.
Serves(c, i) == i \in DOMAIN requests[c] /\ HandleRequest(c, i) /\ UNCHANGED appVars

\* What serving any request of c changes, and what not.
LEMMA ServeEffect ==
  ASSUME AllInv, NEW c \in CR, NEW i, Serves(c, i)
  PROVE  /\ i \in DOMAIN requests[c] /\ requests[c][i] \in RequestMessage
         /\ Dispatch(c, requests[c][i]) /\ fault = "none"
         /\ UNCHANGED <<pc, offered, app, bcasts, program, accept_info>>
         /\ \A d \in CR : inbox'[d] = inbox[d] \cup {m \in sent' : m.to = d}
         /\ \A d \in CR : d # c => requests'[d] = requests[d] /\ (Done(d)' <=> Done(d))
         /\ \A j \in DOMAIN requests'[c] :
              \E k \in DOMAIN requests[c] \ {i} : requests'[c][j] = requests[c][k]
         /\ \A k \in DOMAIN requests[c] \ {i} :
              \E j \in DOMAIN requests'[c] : requests'[c][j] = requests[c][k]
         /\ \A j \in DOMAIN requests'[c] :
              LET k == IF j < i THEN j ELSE j + 1
              IN  /\ j \in Nat /\ i \in Nat
                  /\ k \in DOMAIN requests[c] /\ requests'[c][j] = requests[c][k]
<1>1. /\ HandleRequest(c, i) /\ UNCHANGED appVars
  BY DEF Serves
<1>2. /\ Dispatch(c, requests[c][i]) /\ requests' = [requests EXCEPT ![c] = RemoveAt(@, i)]
      /\ Deliver /\ UNCHANGED workerVars
  BY <1>1 DEF HandleRequest
<1>3. requests \in [CR -> Seq(RequestMessage)] /\ fault = "none"
  BY DEF AllInv, SimInv, TypeOK
<1>4. PICK queue \in Seq(RequestMessage) : queue = requests[c]
  BY <1>3
<1>5. i \in DOMAIN queue /\ queue[i] \in RequestMessage /\ DOMAIN queue \subseteq Nat
  BY <1>4 DEF Serves
<1>6. requests'[c] = RemoveAt(queue, i) /\ \A d \in CR : d # c => requests'[d] = requests[d]
  BY <1>2, <1>3, <1>4
<1>. DEFINE rest == RemoveAt(queue, i)
<1>7. /\ DOMAIN rest \subseteq Nat
      /\ \A j \in DOMAIN rest :
           \/ j < i /\ j \in DOMAIN queue /\ rest[j] = queue[j]
           \/ j >= i /\ j + 1 \in DOMAIN queue /\ rest[j] = queue[j + 1]
      /\ \A j \in DOMAIN queue : j < i => j \in DOMAIN rest
      /\ \A j \in DOMAIN queue : j > i => j - 1 \in DOMAIN rest
  BY <1>5, RemoveAtIs
<1>. HIDE DEF rest
<1>8. ASSUME NEW j \in DOMAIN rest
      PROVE  LET k == IF j < i THEN j ELSE j + 1
             IN  j \in Nat /\ i \in Nat /\ k \in DOMAIN queue /\ k # i /\ rest[j] = queue[k]
  BY <1>5, <1>7
<1>9. ASSUME NEW k \in DOMAIN queue \ {i} PROVE \E j \in DOMAIN rest : rest[j] = queue[k]
  <2>. DEFINE j == IF k < i THEN k ELSE k - 1
  <2>1. k \in Nat /\ i \in Nat /\ k # i
    BY <1>5
  <2>2. j \in DOMAIN rest
    BY <1>7, <2>1
  <2>3. rest[j] = queue[k]
    BY <1>7, <2>1, <2>2
  <2>. QED
    BY <2>2, <2>3
<1>10. \A d \in CR : inbox'[d] = inbox[d] \cup {m \in sent' : m.to = d}
  BY <1>2 DEF Deliver
<1>11. \A d \in CR : d # c => (Done(d)' <=> Done(d))
  BY <1>6, QueueSame
<1>. QED
  BY <1>1, <1>2, <1>3, <1>4, <1>5, <1>6, <1>8, <1>9, <1>10, <1>11 DEF workerVars, appVars, rest

\* The accepts that are left: all, but for the one that is served.
LEMMA ServeAccepts ==
  ASSUME AllInv, NEW c \in CR, NEW i, Serves(c, i)
  PROVE  /\ \A d \in CR : d # c => AcceptTags(d)' = AcceptTags(d)
         /\ requests[c][i].tag # "RC_ACCEPT" => AcceptTags(c)' = AcceptTags(c)
         /\ requests[c][i].tag = "RC_ACCEPT" =>
              LET t == requests[c][i].rc_tag IN
              /\ i \in Accepts(c) /\ t \in AcceptTags(c) /\ t \in DOMAIN rc_map
              /\ AcceptTags(c)' = AcceptTags(c) \ {t}
              /\ \A d \in CR : t \notin Offered(d) /\ (d # c => t \notin AcceptTags(d))
<1>1. /\ i \in DOMAIN requests[c]
      /\ \A d \in CR : d # c => requests'[d] = requests[d]
      /\ \A j \in DOMAIN requests'[c] :
           \E k \in DOMAIN requests[c] \ {i} : requests'[c][j] = requests[c][k]
      /\ \A k \in DOMAIN requests[c] \ {i} :
           \E j \in DOMAIN requests'[c] : requests'[c][j] = requests[c][k]
  BY ServeEffect
<1>2. /\ AcceptTags(c) = {requests[c][k].rc_tag : k \in Accepts(c)}
      /\ AcceptTags(c)' = {requests'[c][j].rc_tag : j \in Accepts(c)'}
      /\ \A k : k \in Accepts(c) <=> k \in DOMAIN requests[c] /\ requests[c][k].tag = "RC_ACCEPT"
      /\ \A j : j \in Accepts(c)' <=> j \in DOMAIN requests'[c] /\ requests'[c][j].tag = "RC_ACCEPT"
  BY DEF AcceptTags, Accepts
<1>3. \A s : s \in AcceptTags(c)' <=> \E k \in Accepts(c) \ {i} : s = requests[c][k].rc_tag
  <2>1. ASSUME NEW s \in AcceptTags(c)' PROVE \E k \in Accepts(c) \ {i} : s = requests[c][k].rc_tag
    BY <1>1, <1>2, <2>1
  <2>2. ASSUME NEW k \in Accepts(c) \ {i} PROVE requests[c][k].rc_tag \in AcceptTags(c)'
    <3>1. PICK j \in DOMAIN requests'[c] : requests'[c][j] = requests[c][k]
      BY <1>1, <1>2
    <3>. QED
      BY <1>2, <3>1
  <2>. QED
    BY <2>1, <2>2
<1>4. \A d \in CR : d # c => AcceptTags(d)' = AcceptTags(d)
  BY <1>1, QueueSame
<1>5. CASE requests[c][i].tag # "RC_ACCEPT"
  <2>1. i \notin Accepts(c)
    BY <1>2, <1>5
  <2>2. AcceptTags(c)' = AcceptTags(c)
    BY <1>2, <1>3, <2>1
  <2>. QED
    BY <1>4, <1>5, <2>2
<1>6. CASE requests[c][i].tag = "RC_ACCEPT"
  <2>1. PICK t : t = requests[c][i].rc_tag
    OBVIOUS
  <2>2. i \in Accepts(c) /\ t \in AcceptTags(c)
    BY <1>1, <1>2, <1>6, <2>1
  <2>3. /\ t \in DOMAIN rc_map
        /\ \A d \in CR : /\ t \notin Offered(d)
                         /\ \A j \in Accepts(d) : requests[d][j].rc_tag = t => c = d /\ i = j
    BY <2>1, <2>2 DEF AllInv, AcceptOrder, AcceptsOnce
  <2>4. \A d \in CR : d # c => t \notin AcceptTags(d)
    BY <2>3 DEF AcceptTags
  <2>5. AcceptTags(c)' = AcceptTags(c) \ {t}
    <3>1. \A k \in Accepts(c) : requests[c][k].rc_tag = t <=> k = i
      BY <2>1, <2>3
    <3>2. \A s : s \in AcceptTags(c) <=> \E k \in Accepts(c) : s = requests[c][k].rc_tag
      BY <1>2
    <3>. QED
      BY ONLY <1>3, <3>1, <3>2
  <2>. QED
    BY <1>4, <1>6, <2>1, <2>2, <2>3, <2>4, <2>5
<1>. QED
  BY <1>5, <1>6

\* The changes that are offered stay as they are.
OffersStay == \A s \in DOMAIN rc_map : s \in DOMAIN rc_map' /\ rc_map'[s] = rc_map[s]

\* An accept that is underway is of a change that stands.
LEMMA AcceptsStand == AllInv => \A d \in CR : AcceptTags(d) \subseteq DOMAIN rc_map
BY DEF AllInv, AcceptOrder, AcceptsOnce, AcceptTags

\* No other request changes who holds a change.
LEMMA ServeHeld ==
  ASSUME AllInv, NEW c \in CR, NEW i, Serves(c, i), requests[c][i].tag # "RC_ACCEPT", OffersStay
  PROVE  \A d \in CR : AddTags(d)' = AddTags(d) /\ TagsHeld(d)' = TagsHeld(d)
<1>1. \A d \in CR : AcceptTags(d)' = AcceptTags(d) /\ AcceptTags(d) \subseteq DOMAIN rc_map
  BY ServeAccepts, AcceptsStand
<1>2. offered' = offered
  BY ServeEffect
<1>3. \A d \in CR : AddTags(d)' = AddTags(d)
  BY <1>1 DEF AddTags, OffersStay
<1>. QED
  BY <1>2, <1>3 DEF TagsHeld

\* The request of a process that waits, or is done, is the only one but for its accepts.
LEMMA AnswerEffect ==
  ASSUME AllInv, NEW c \in CR, NEW i, Serves(c, i), requests[c][i].tag # "RC_ACCEPT"
  PROVE  /\ inbox[c] = {} /\ c \in running_crs /\ ~Done(c)'
         /\ \A j \in DOMAIN requests'[c] : requests'[c][j].tag = "RC_ACCEPT"
         /\ offered[c] = offered'[c]
         /\ \/ requests[c][i].tag = "DONE_RUNNING" /\ Done(c) /\ app[c] = Off /\ pc[c] = Idle
            \/ /\ app[c].at \in DOMAIN AskedAt /\ requests[c][i].tag = AskedAt[app[c].at]
               /\ pc[c] = Awaits[requests[c][i].tag] /\ ~Done(c)
<1>1. i \in DOMAIN requests[c] /\ offered'[c] = offered[c]
  BY ServeEffect
<1>2. /\ inbox[c] = {} /\ c \in running_crs
      /\ \/ requests[c][i].tag = "DONE_RUNNING" /\ Done(c) /\ app[c] = Off /\ pc[c] = Idle
         \/ /\ app[c].at \in DOMAIN AskedAt /\ requests[c][i].tag = AskedAt[app[c].at]
            /\ pc[c] = Awaits[requests[c][i].tag]
  BY <1>1, RequestPlace
<1>3. \A j \in DOMAIN requests[c] : requests[c][j].tag # "PSET_FREE"
  BY PlaceIs DEF InStep, RequestFits
<1>4. ASSUME NEW j \in DOMAIN requests[c], j # i PROVE requests[c][j].tag = "RC_ACCEPT"
  <2>1. Place(c) /\ ~NoneOpen(requests[c])
    BY <1>1, <1>3, PlaceIs DEF NoneOpen, Unwaited
  <2>2. \E tag : OnlyOpen(requests[c], tag)
    BY <2>1 DEF Place, AtRest, ToStart, InProgram, Asking, Answered, LookupAnswered, SelfAnswered,
       Unanswerable, Leaving, ToQuit, HasQuit
  <2>. QED
    BY <1>1, <1>3, <1>4, <2>2 DEF OnlyOpen, Unwaited
<1>5. \A j \in DOMAIN requests'[c] : requests'[c][j].tag = "RC_ACCEPT"
  BY <1>4, ServeEffect
<1>6. ~Done(c)'
  BY <1>5 DEF Done
<1>7. requests[c][i].tag # "DONE_RUNNING" => ~Done(c)
  BY <1>4 DEF Done
<1>8. app[c].at \in DOMAIN AskedAt => AskedAt[app[c].at] # "DONE_RUNNING"
  BY DEF AskedAt
<1>. QED
  BY <1>1, <1>2, <1>5, <1>6, <1>7, <1>8

\* What is left to show of an answer.
LEMMA AnswerEnds ==
  ASSUME AllInv, NEW c \in CR, NEW i, Serves(c, i),
         requests[c][i].tag \notin {"RC_ACCEPT", "DONE_RUNNING"},
         fault' = fault, OffersStay, \A m \in sent' : m.to = c, WorldRuns', Together'
  PROVE  AppInv' /\ fault' = fault
<1>1. /\ UNCHANGED <<pc, offered, app, bcasts, program, accept_info>>
      /\ \A d \in CR : inbox'[d] = inbox[d] \cup {m \in sent' : m.to = d}
      /\ \A d \in CR : d # c => requests'[d] = requests[d]
      /\ \A d \in CR : TagsHeld(d)' = TagsHeld(d) /\ AddTags(d)' = AddTags(d)
  BY ServeEffect, ServeHeld
<1>2. \A j \in DOMAIN requests'[c] : requests'[c][j].tag = "RC_ACCEPT"
  BY AnswerEffect
<1>3. InStep(c)'
  <2>1. InStep(c)
    BY PlaceIs
  <2>2. \A j \in DOMAIN requests'[c] : RequestFits(app[c], requests'[c][j])
    BY <1>2 DEF RequestFits
  <2>. QED
    BY <1>1, <2>1, <2>2 DEF InStep
<1>4. ASSUME NEW d \in CR, d # c PROVE inbox'[d] = inbox[d]
  <2>1. {m \in sent' : m.to = d} = {}
    BY <1>4
  <2>. QED
    BY <1>1, <2>1
<1>5. AppTypeOK' /\ OneHolder'
  BY <1>1, HolderStep DEF AllInv, AppInv, AppTypeOK
<1>. QED
  BY <1>1, <1>3, <1>4, <1>5, StepEnds

\* A question that changes nothing leaves everyone where they are, if its answer is true.
LEMMA AnsweredTogether ==
  ASSUME AllInv, NEW c \in CR, NEW i, Serves(c, i),
         requests[c][i].tag \notin {"RC_ACCEPT", "DONE_RUNNING"},
         WorldSame, \A m \in sent' : m.to = c,
         \A d \in CR : process_states'[d].origin_rc_tag = process_states[d].origin_rc_tag,
         app[c].at \in {"session", "psets", "info", "lookup", "check", "finalize"},
         Leaves(c) => Leaves(c)',
         \A G, J \in SUBSET CR : Moving(G, J) /\ c \in J => TrueAnswers(c, J)'
  PROVE  Together'
<1>1. /\ UNCHANGED <<offered, app, bcasts, program, accept_info>>
      /\ app'[c] = app[c] /\ bcasts'[c] = bcasts[c]
      /\ \A d \in CR : d # c => requests'[d] = requests[d] /\ (Done(d)' <=> Done(d))
      /\ \A d \in CR : TagsHeld(d)' = TagsHeld(d) /\ AddTags(d)' = AddTags(d)
      /\ \A d \in CR : inbox'[d] = inbox[d] \cup {m \in sent' : m.to = d}
      /\ ~Done(c) /\ ~Done(c)' /\ app[c].at # "off"
  BY ServeEffect, ServeHeld, AnswerEffect DEF Off, WorldSame, OffersStay
<1>2. ASSUME NEW d \in CR, d # c PROVE inbox'[d] = inbox[d]
  <2>1. {m \in sent' : m.to = d} = {}
    BY <1>2
  <2>. QED
    BY <1>1, <2>1
<1>3. OthersSame(c)
  BY <1>1, <1>2 DEF OthersSame, Same, InboxSame
<1>4. /\ Resting(c)' <=> Resting(c)
      /\ \A G : AtWork(c, G)' <=> AtWork(c, G)
      /\ \A G, J : LearnsName(c, G, J)' <=> LearnsName(c, G, J)
      /\ \A G, J : Moves(c, G, J)' <=> Moves(c, G, J)
  BY <1>1, SameWorks
<1>5. ~Resting(c) /\ (Finished(c) => Finished(c)')
  BY <1>1 DEF Resting, Off, Finished, Silent, WorldSame
<1>6. PICK G \in SUBSET CR :
        \/ Working(G) \/ Searching(G)
        \/ \E J \in SUBSET CR : Telling(G, J) \/ Naming(G, J) \/ Moving(G, J)
  BY DEF AllInv, AppInv, Together
<1>7. CASE Working(G)
  <2>1. c \notin G => c \in pending_shutdowns /\ Leaves(c)'
    BY <1>5, <1>7 DEF Working, Around
  <2>2. c \in G => Finished(c)' \/ (AtWork(c, G)' /\ ~Finished(c))
    BY <1>4, <1>5, <1>7 DEF Working
  <2>3. Working(G)'
    BY <1>1, <1>3, <1>7, <2>1, <2>2, WorkingStep
  <2>. QED
    BY <2>3 DEF Together
<1>8. CASE Searching(G)
  <2>1. c \notin G
    BY <1>8 DEF Searching
  <2>2. c \in pending_shutdowns /\ Leaves(c)'
    BY <1>5, <1>8, <2>1 DEF Searching, Around
  <2>3. Searching(G)'
    BY <1>1, <1>3, <1>8, <2>1, <2>2, SearchingStep
  <2>. QED
    BY <2>3 DEF Together
<1>9. \A J \in SUBSET CR : ~Telling(G, J) /\ ~Naming(G, J)
  BY <1>5 DEF Telling, Naming, Apart, Learns
<1>10. ASSUME NEW J \in SUBSET CR, Moving(G, J) PROVE Together'
  <2>1. c \in G \cap J => Moves(c, G, J)' \/ (c # Root(G) /\ LearnsName(c, G, J)')
    BY <1>4, <1>10 DEF Moving
  <2>2. c \in G \ J => Leaves(c)'
    BY <1>5, <1>10 DEF Moving
  <2>3. c \in J \ G => Joins(c, J) /\ Joins(c, J)'
    <3>1. c \in J \ G => Joins(c, J)
      BY <1>5, <1>10 DEF Moving
    <3>2. ASSUME Joins(c, J) PROVE Joins(c, J)'
      <4>1. \/ app'[c].at \in {"off", "session", "psets", "info"}
            \/ app'[c].at = "lookup" /\ Leads(app'[c].main, J)
            \/ app'[c].at = "join" /\ Leads(app'[c].main, J) /\ app'[c].group = J
        BY <1>1, <3>2 DEF Joins
      <4>. QED
        BY <1>1, <3>2, <4>1, JoinsStep
    <3>. QED
      BY <3>1, <3>2
  <2>4. c \in G \cup J
    BY <1>5, <1>10 DEF Moving
  <2>5. c \in J => TrueAnswers(c, J)'
    BY <1>10
  <2>6. Moving(G, J)'
    BY <1>1, <1>3, <1>10, <2>1, <2>2, <2>3, <2>4, <2>5, MovingStep
  <2>. QED
    BY <2>6 DEF Together
<1>. QED
  BY <1>6, <1>7, <1>8, <1>9, <1>10

\* A question about the state, truly answered, keeps the invariant.
LEMMA QueryEnds ==
  ASSUME AllInv, NEW c \in CR, NEW i, Serves(c, i),
         requests[c][i].tag \notin {"RC_ACCEPT", "DONE_RUNNING"},
         UNCHANGED <<running_crs, pending_shutdowns, pset_name_map, rc_map, process_states, fault>>,
         \A m \in sent' : m.to = c,
         app[c].at \in {"session", "psets", "info", "lookup", "check", "finalize"},
         Leaves(c) => Leaves(c)',
         \A G, J \in SUBSET CR : Moving(G, J) /\ c \in J => TrueAnswers(c, J)'
  PROVE  AppInv' /\ fault' = fault
<1>1. WorldSame
  BY ServeEffect DEF WorldSame
<1>2. Together'
  BY <1>1, AnsweredTogether
<1>3. WorldRuns'
  BY <1>1, WorldRunsSame DEF AllInv, AppInv
<1>. QED
  BY <1>2, <1>3, AnswerEnds DEF OffersStay

\* A process makes or finalizes its session, or asks for the change that started it.
LEMMA ServeSession ==
  ASSUME AllInv, NEW c \in CR, NEW i, Serves(c, i),
         requests[c][i].tag \in {"SESSION_CREATE", "SESSION_INFO", "SESSION_FINALIZE"}
  PROVE  AppInv' /\ fault' = fault
<1>. DEFINE r == requests[c][i]
<1>1. /\ Dispatch(c, r) /\ fault = "none" /\ UNCHANGED <<app, bcasts>>
      /\ inbox'[c] = {m \in sent' : m.to = c} /\ c \in running_crs
      /\ app[c].at \in DOMAIN AskedAt /\ r.tag = AskedAt[app[c].at]
  BY ServeEffect, AnswerEffect
<1>2. app[c].at \in {"session", "info", "finalize"}
  BY <1>1 DEF AskedAt
<1>3. process_states[c].active
  BY <1>1, RankAssumption DEF AllInv, SP!IInv, SP!RunningHaveState
<1>4. /\ UNCHANGED <<running_crs, pending_shutdowns, pset_name_map, rc_map, process_states, fault>>
      /\ \/ \E id : sent' = {S!SessionCreateAnswer(c, id)}
         \/ sent' = {S!SessionInfoAnswer(c, process_states[c])}
         \/ sent' = {S!SessionFinalizeAnswer(c)}
  <2>1. CASE r.tag = "SESSION_CREATE"
    BY <1>1, <2>1 DEF Dispatch, S!HandleSessionCreate, S!crVars, S!psetVars, S!rcVars
  <2>2. CASE r.tag = "SESSION_INFO"
    BY <1>1, <1>3, <2>2 DEF Dispatch, S!HandleSessionInfo, S!crVars, S!psetVars, S!rcVars
  <2>3. CASE r.tag = "SESSION_FINALIZE"
    BY <1>1, <2>3 DEF Dispatch, S!HandleSessionFinalize, S!crVars, S!psetVars, S!rcVars
  <2>. QED
    BY <2>1, <2>2, <2>3
<1>5. \A m \in sent' :
        /\ m.to = c
        /\ m.tag \in {"SESSION_CREATE_ANSWER", "SESSION_INFO_ANSWER", "SESSION_FINALIZE_ANSWER"}
        /\ m.tag = "SESSION_INFO_ANSWER" => m.origin_rc_tag = process_states[c].origin_rc_tag
  BY <1>4 DEF S!SessionCreateAnswer, S!SessionInfoAnswer, S!SessionFinalizeAnswer
<1>6. \A J : TrueAnswers(c, J)'
  BY <1>1, <1>4, <1>5 DEF TrueAnswers
<1>7. Leaves(c) => Leaves(c)'
  BY <1>1, <1>2, <1>4 DEF Leaves, Silent, Off
<1>. QED
  BY <1>2, <1>4, <1>5, <1>6, <1>7, QueryEnds

\* A process looks up the process set it is on its way to.
LEMMA ServeLookup ==
  ASSUME AllInv, NEW c \in CR, NEW i, Serves(c, i), requests[c][i].tag = "PSET_LOOKUP"
  PROVE  AppInv' /\ fault' = fault
<1>. DEFINE r == requests[c][i]
<1>1. /\ Dispatch(c, r) /\ fault = "none" /\ UNCHANGED <<app, bcasts>>
      /\ inbox'[c] = {m \in sent' : m.to = c} /\ r \in RequestMessage /\ i \in DOMAIN requests[c]
      /\ app[c].at \in DOMAIN AskedAt /\ r.tag = AskedAt[app[c].at]
  BY ServeEffect, AnswerEffect
<1>2. app[c].at = "lookup"
  BY <1>1 DEF AskedAt
<1>3. r.name = app[c].main
  BY <1>1, PlaceIs DEF InStep, RequestFits
<1>4. S!HandlePsetLookup(c, r.name)
  BY <1>1 DEF Dispatch
<1>5. PICK G, J \in SUBSET CR : /\ Moving(G, J) /\ c \in J /\ Leads(app[c].main, J)
  BY <1>2, LookedUp
<1>6. r.name \in S!Registered /\ pset_name_map[r.name] = J /\ r.name # S!Self
  BY <1>3, <1>5 DEF Leads, AllInv, AppInv, WorldRuns, S!Self
<1>7. /\ UNCHANGED <<running_crs, pending_shutdowns, pset_name_map, rc_map, process_states, fault>>
      /\ sent' = {S!LookupAnswerSize(c, S!Cardinality(J)), S!LookupAnswer(c, J)}
  BY <1>4, <1>6 DEF S!HandlePsetLookup, S!crVars, S!psetVars, S!rcVars
<1>8. S!Cardinality(J) \in Nat \ {0}
  BY <1>6, SizeIsPositive DEF AllInv, SimInv
<1>9. \A m \in sent' :
        /\ m.to = c /\ m.tag \in {"PSET_LOOKUP_ANSWER_SIZE", "PSET_LOOKUP_ANSWER"}
        /\ m.tag = "PSET_LOOKUP_ANSWER_SIZE" => m.size # 0
        /\ m.tag = "PSET_LOOKUP_ANSWER" => m.pset = J
  BY <1>7, <1>8 DEF S!LookupAnswerSize, S!LookupAnswer
<1>10. \A H, K \in SUBSET CR : Moving(H, K) /\ c \in K => K = J
  <2>1. ASSUME NEW H \in SUBSET CR, NEW K \in SUBSET CR, Moving(H, K), c \in K
        PROVE  Leads(app[c].main, K)
    <3>1. ~Resting(c) /\ ~LearnsName(c, H, K)
      BY <1>2 DEF Resting, Off, LearnsName
    <3>2. Moves(c, H, K) \/ Joins(c, K)
      BY <2>1, <3>1 DEF Moving
    <3>. QED
      BY <1>2, <3>2 DEF Moves, Joins
  <2>. QED
    BY <1>3, <1>6, <2>1 DEF Leads
<1>11. \A H, K \in SUBSET CR : Moving(H, K) /\ c \in K => TrueAnswers(c, K)'
  BY <1>1, <1>9, <1>10 DEF TrueAnswers
<1>12. Leaves(c) => Leaves(c)'
  BY <1>2 DEF Leaves, Off
<1>. QED
  BY <1>2, <1>7, <1>9, <1>11, <1>12, QueryEnds

\* What a process is told of its process sets.
LEMMA PsetsAnswered ==
  ASSUME AllInv, NEW c \in CR, NEW i, Serves(c, i), requests[c][i].tag = "GET_PSETS"
  PROVE  /\ UNCHANGED <<running_crs, pending_shutdowns, pset_name_map, rc_map,
                        process_states, fault>>
         /\ \A m \in sent' :
              /\ m.to = c /\ m.tag = "GET_PSETS_ANSWER"
              /\ \A n \in {r.name : r \in m.psets} :
                   n = S!Self \/ (n \in S!Registered /\ c \in pset_name_map[n])
              /\ \A n \in S!Registered : c \in pset_name_map[n] => n \in {r.name : r \in m.psets}
<1>. DEFINE refs == process_states[c].psets_containing
<1>1. /\ Dispatch(c, requests[c][i]) /\ fault = "none" /\ c \in running_crs
  BY ServeEffect, AnswerEffect
<1>2. process_states[c].active
  BY <1>1, RankAssumption DEF AllInv, SP!IInv, SP!RunningHaveState
<1>3. S!HandleGetPsets(c)
  BY <1>1 DEF Dispatch
<1>4. /\ UNCHANGED <<running_crs, pending_shutdowns, pset_name_map, rc_map, process_states, fault>>
      /\ sent' = {S!GetPsetsAnswer(c, refs \cup {[name |-> S!Self, pset_size |-> 1]})}
  BY <1>2, <1>3 DEF S!HandleGetPsets, S!crVars, S!psetVars, S!rcVars
<1>5. /\ \A n \in S!Registered : c \in pset_name_map[n] => \E r \in refs : r.name = n
      /\ \A r \in refs : r.name \in S!Registered /\ c \in pset_name_map[r.name]
  BY <1>1 DEF AllInv, SP!IInv, SP!BackrefsExact, SP!Registered, S!Registered
<1>. HIDE DEF refs
<1>6. ASSUME NEW m \in sent'
      PROVE  m.to = c /\ m.tag = "GET_PSETS_ANSWER"
             /\ m.psets = refs \cup {[name |-> S!Self, pset_size |-> 1]}
  BY <1>4, <1>6 DEF S!GetPsetsAnswer
<1>7. ASSUME NEW m \in sent'
      PROVE  /\ \A r \in m.psets :
                  r.name = S!Self \/ (r.name \in S!Registered /\ c \in pset_name_map[r.name])
             /\ \A n \in S!Registered : c \in pset_name_map[n] => \E r \in m.psets : r.name = n
  BY <1>5, <1>6, <1>7
<1>8. ASSUME NEW m \in sent', NEW n \in {r.name : r \in m.psets}
      PROVE  n = S!Self \/ (n \in S!Registered /\ c \in pset_name_map[n])
  BY <1>7
<1>9. ASSUME NEW m \in sent', NEW n \in S!Registered, c \in pset_name_map[n]
      PROVE  n \in {r.name : r \in m.psets}
  BY <1>7, <1>9
<1>10. UNCHANGED <<running_crs, pending_shutdowns, pset_name_map, rc_map, process_states, fault>>
  BY <1>4
<1>. QED
  BY ONLY <1>6, <1>8, <1>9, <1>10

\* A process asks for its process sets, when it starts or to see whether it stays.
LEMMA ServePsets ==
  ASSUME AllInv, NEW c \in CR, NEW i, Serves(c, i), requests[c][i].tag = "GET_PSETS"
  PROVE  AppInv' /\ fault' = fault
<1>1. /\ UNCHANGED <<app, bcasts>> /\ inbox'[c] = {m \in sent' : m.to = c}
      /\ app[c].at \in DOMAIN AskedAt /\ requests[c][i].tag = AskedAt[app[c].at]
      /\ c \in running_crs
  BY ServeEffect, AnswerEffect
<1>2. app[c].at \in {"psets", "check"}
  BY <1>1 DEF AskedAt
<1>3. /\ UNCHANGED <<running_crs, pending_shutdowns, pset_name_map, rc_map, process_states, fault>>
      /\ \A m \in sent' :
           /\ m.to = c /\ m.tag = "GET_PSETS_ANSWER"
           /\ \A n \in {r.name : r \in m.psets} :
                n = S!Self \/ (n \in S!Registered /\ c \in pset_name_map[n])
           /\ \A n \in S!Registered : c \in pset_name_map[n] => n \in {r.name : r \in m.psets}
  BY PsetsAnswered
<1>4. Leaves(c) => Leaves(c)'
  <2>1. ASSUME Leaves(c) PROVE app[c].at = "check" /\ Silent(c) /\ Excludes(app[c].main, c)
    BY <1>2, <2>1 DEF Leaves, Off
  <2>2. ASSUME Leaves(c) PROVE \A m \in inbox'[c] : app[c].main \notin {r.name : r \in m.psets}
    BY <1>1, <1>3, <2>1, <2>2 DEF Excludes
  <2>3. Excludes(app[c].main, c) => Excludes(app[c].main, c)'
    BY <1>1, <1>3 DEF Excludes, S!Registered, S!Self
  <2>4. ASSUME Leaves(c) PROVE Leaves(c)'
    BY <1>1, <1>3, <2>1, <2>2, <2>3, <2>4 DEF Leaves, Silent
  <2>. QED
    BY <2>4
<1>5. ASSUME NEW G \in SUBSET CR, NEW J \in SUBSET CR, Moving(G, J), c \in J
      PROVE  TrueAnswers(c, J)'
  <2>1. ~Resting(c) /\ ~LearnsName(c, G, J)
    BY <1>2 DEF Resting, Off, LearnsName
  <2>2. Moves(c, G, J) \/ Joins(c, J)
    BY <1>5, <2>1 DEF Moving
  <2>3. app[c].at = "check" =>
          app[c].main \in S!Registered /\ c \in pset_name_map[app[c].main]
    BY <1>5, <2>2 DEF Moves, Joins, Leads
  <2>4. app[c].at = "psets" =>
          (S!World \in S!Registered /\ c \in pset_name_map[S!World] => pset_name_map[S!World] = J)
    BY <2>2 DEF Moves, Joins
  <2>5. S!World # S!Self
    BY DEF S!World, S!Self
  <2>6. ASSUME NEW m \in inbox'[c]
        PROVE  LET names == {r.name : r \in m.psets} IN
               /\ m.tag = "GET_PSETS_ANSWER"
               /\ app[c].at = "check" => app[c].main \in names
               /\ app[c].at = "psets" /\ S!World \in names => Leads(S!World, J)
    <3>1. m \in sent'
      BY <1>1, <2>6
    <3>2. app[c].at = "check" => app[c].main \in {r.name : r \in m.psets}
      BY <1>3, <2>3, <3>1
    <3>3. app[c].at = "psets" /\ S!World \in {r.name : r \in m.psets} => Leads(S!World, J)
      BY <1>3, <1>5, <2>4, <2>5, <3>1 DEF Leads
    <3>. QED
      BY <1>3, <3>1, <3>2, <3>3
  <2>7. Leads(S!World, J)' <=> Leads(S!World, J)
    BY <1>3 DEF Leads, S!Registered, S!World, S!NoName
  <2>8. S!World' = S!World
    BY DEF S!World
  <2>. QED
    BY <1>1, <2>6, <2>7, <2>8 DEF TrueAnswers
<1>. QED
  BY <1>2, <1>3, <1>4, <1>5, QueryEnds

\* Where a process is that asks for a change.
LEMMA SearcherPlace ==
  ASSUME AllInv, NEW c \in CR, NEW i, Serves(c, i), requests[c][i].tag = "RC"
  PROVE  \E G \in SUBSET CR : c \in G /\ c = Root(G) /\ Searching(G)
<1>1. inbox[c] = {} /\ app[c].at \in DOMAIN AskedAt /\ "RC" = AskedAt[app[c].at]
  BY AnswerEffect
<1>2. app[c].at = "get_change"
  BY <1>1 DEF AskedAt
<1>3. \A G, J : c \in G /\ c = Root(G) => ~Telling(G, J)
  BY <1>1 DEF Telling
<1>. QED
  BY <1>2, <1>3, AskerPlace

\* No change is proposed to the root.
LEMMA ServeRefusal ==
  ASSUME AllInv, NEW c \in CR, NEW i, Serves(c, i), requests[c][i].tag = "RC", S!RefuseRC(c)
  PROVE  AppInv' /\ fault' = fault
<1>1. PICK G \in SUBSET CR : c \in G /\ c = Root(G) /\ Searching(G)
  BY SearcherPlace
<1>2. /\ UNCHANGED <<running_crs, pending_shutdowns, pset_name_map, rc_map, process_states, fault>>
      /\ pending_resource_change' = TRUE
      /\ \A m \in sent' : m.to = c /\ m.type = "none"
  BY DEF S!RefuseRC, S!RcAnswer, S!crVars, S!psetVars
<1>3. /\ UNCHANGED <<app, bcasts, program, accept_info>>
      /\ \A d \in CR : TagsHeld(d)' = TagsHeld(d) /\ (d # c => (Done(d)' <=> Done(d)))
      /\ inbox'[c] = {m \in sent' : m.to = c}
      /\ \A d \in CR : inbox'[d] = inbox[d] \cup {m \in sent' : m.to = d}
  BY <1>2, ServeEffect, ServeHeld, AnswerEffect DEF OffersStay
<1>4. ASSUME NEW d \in CR, d # c PROVE inbox'[d] = inbox[d]
  <2>1. {m \in sent' : m.to = d} = {}
    BY <1>2, <1>4
  <2>. QED
    BY <1>3, <2>1
<1>5. \A n, J : Leads(n, J)' <=> Leads(n, J)
  BY <1>2 DEF Leads, S!Registered, S!NoName
<1>6. ASSUME NEW d \in CR \ G PROVE Resting(d)' \/ (d \in pending_shutdowns' /\ Leaves(d)')
  <2>1. Resting(d) \/ (d \in pending_shutdowns /\ Leaves(d))
    BY <1>1 DEF Searching, Around
  <2>2. Resting(d) => Resting(d)'
    BY <1>2, <1>3 DEF Resting, Silent
  <2>3. \A name : Excludes(name, d)' <=> Excludes(name, d)
    BY <1>2 DEF Excludes, S!Registered, S!Self
  <2>4. app' = app /\ bcasts' = bcasts /\ inbox'[d] = inbox[d] /\ running_crs' = running_crs
        /\ (Done(d)' <=> Done(d))
    BY <1>1, <1>2, <1>3, <1>4
  <2>5. Leaves(d) => Leaves(d)'
    BY ONLY <2>3, <2>4 DEF Leaves, Silent
  <2>. QED
    BY <1>2, <2>1, <2>2, <2>5
<1>7. ASSUME NEW d \in CR, Holds(d)'
      PROVE  d \in pending_shutdowns' /\ \A t \in TagsHeld(d)' : Stands(t, "sub")'
  <2>1. d \in pending_shutdowns /\ \A t \in TagsHeld(d) : Stands(t, "sub")
    BY <1>1, <1>3, <1>7 DEF Searching, Around, Holds
  <2>. QED
    BY <1>2, <1>3, <2>1 DEF Stands
<1>8. Around(G)'
  BY <1>1, <1>2, <1>6, <1>7 DEF Searching, Around
<1>9. ASSUME NEW d \in G
      PROVE  /\ Works(d, G)' /\ Silent(d)' /\ Leads(app[d].main, G)'
             /\ IF d = Root(G)
                THEN app'[d].at = "get_change" /\ \A m \in inbox'[d] : m.type = "none"
                ELSE app'[d].at = "hear_change"
  <2>1. Works(d, G)' /\ Silent(d)' /\ app'[d] = app[d]
    BY <1>1, <1>2, <1>3 DEF Searching, Works, Silent
  <2>2. PICK name : name = app[d].main
    OBVIOUS
  <2>3. app'[d].main = name /\ Leads(name, G)'
    BY <1>1, <1>5, <2>1, <2>2 DEF Searching
  <2>. QED
    BY <1>1, <1>2, <1>3, <2>1, <2>3 DEF Searching, Leads
<1>10. Searching(G)'
  BY <1>8, <1>9 DEF Searching
<1>11. Together'
  BY <1>10 DEF Together
<1>12. WorldRuns'
  BY <1>2 DEF AllInv, AppInv, WorldRuns, S!Registered, S!World
<1>. QED
  BY <1>2, <1>11, <1>12, AnswerEnds DEF OffersStay

\* The process sets there are stay when another one is registered.
Grows == \A n \in S!Registered : n \in S!Registered' /\ pset_name_map'[n] = pset_name_map[n]

\* Names lead where they led when another one is registered.
LEMMA LeadsGrows ==
  ASSUME Grows, NEW n, NEW J, Leads(n, J)
  PROVE  Leads(n, J)'
BY DEF Leads, Grows, S!NoName

\* The way to or from a set of processes.
LEMMA WayIs ==
  ASSUME NEW G \in SUBSET CR, NEW P \in SUBSET CR, P # {}
  PROVE  /\ P \cap G = {} => /\ IsWay(G, G \cup P) /\ Way(G, G \cup P) = "add"
                             /\ Changed(G, G \cup P) = P /\ G \ (G \cup P) = {}
         /\ P \subseteq G => /\ IsWay(G, G \ P) /\ Way(G, G \ P) = "sub"
                             /\ Changed(G, G \ P) = P /\ G \ (G \ P) = P
<1>1. ASSUME P \cap G = {} PROVE G # G \cup P /\ ~(G \cup P \subseteq G)
  BY <1>1
<1>2. ASSUME P \cap G = {} PROVE Changed(G, G \cup P) = P /\ G \ (G \cup P) = {}
  BY <1>2 DEF Changed
<1>3. ASSUME P \subseteq G PROVE G # G \ P /\ G \ P \subseteq G
  BY <1>3
<1>4. ASSUME P \subseteq G PROVE Changed(G, G \ P) = P /\ G \ (G \ P) = P
  BY <1>4 DEF Changed
<1>. QED
  BY <1>1, <1>2, <1>3, <1>4 DEF IsWay, Way

\* The change of type type with the tag t and the process set P of name n is offered to c.
Offers(c, G, t, n, P, type) ==
  /\ P \in SUBSET CR /\ P # {}
  /\ \/ type = "add" /\ P \cap G = {} /\ pending_shutdowns' = {}
     \/ type = "sub" /\ P \subseteq G /\ pending_shutdowns' = P
  /\ sent' = {S!RcAnswer(c, t, type, n)}
  /\ pending_resource_change' = TRUE /\ t \notin DOMAIN rc_map /\ t \in DOMAIN rc_map'
  /\ rc_map'[t].rc_type = type /\ rc_map'[t].pset = P /\ OffersStay
  /\ n \notin S!Registered /\ n \in S!Registered' /\ pset_name_map'[n] = P
  /\ S!Registered' = S!Registered \cup {n} /\ Grows
  /\ running_crs' = running_crs /\ fault' = fault
  /\ n = S!RcName(next_rc_tag)

\* What the handler of RC offers is a change from the processes that run.
LEMMA OfferEffect ==
  ASSUME AllInv, NEW c \in CR, NEW G \in SUBSET CR, running_crs = G, pending_shutdowns = {},
         NEW change \in ManagerRC(manager, running_crs),
         S!OfferAdd(c, change) \/ S!OfferSub(c, change)
  PROVE  \E t, n, P, type : Offers(c, G, t, n, P, type)
<1>1. PICK t, n, P, type : /\ t = next_rc_tag + 1 /\ n = S!RcName(next_rc_tag)
                           /\ P = change.pset /\ type = change.rc_type
  OBVIOUS
<1>2. /\ change.rc_type \in {"add", "sub"}
      /\ change.pset # {} /\ change.pset \in SUBSET CR
      /\ change.rc_type = "add" => change.pset \cap G = {}
      /\ change.rc_type = "sub" => change.pset \subseteq G
  <2>1. change.rc_type \in {"add", "sub"}
    BY DEF S!OfferAdd, S!OfferSub
  <2>. QED
    BY <2>1, ManagersPromise DEF AllInv, SP!TypeOK
<1>3. \A d \in G : process_states[d].active
  BY RankAssumption DEF AllInv, SP!IInv, SP!RunningHaveState
<1>4. /\ S!Offer(change) /\ sent' = {S!RcAnswer(c, t, type, n)}
      /\ running_crs' = running_crs /\ fault' = fault
      /\ pending_shutdowns' = IF change.rc_type = "sub" THEN change.pset ELSE {}
  <2>1. ASSUME S!OfferAdd(c, change)
        PROVE  /\ S!Offer(change) /\ sent' = {S!RcAnswer(c, t, change.rc_type, n)}
               /\ running_crs' = running_crs /\ fault' = fault
               /\ pending_shutdowns' = {} /\ change.rc_type = "add"
    BY <1>1, <2>1 DEF S!OfferAdd
  <2>2. ASSUME S!OfferSub(c, change)
        PROVE  /\ S!Offer(change) /\ sent' = {S!RcAnswer(c, t, change.rc_type, n)}
               /\ running_crs' = running_crs /\ fault' = fault
               /\ pending_shutdowns' = change.pset /\ change.rc_type = "sub"
    BY <1>1, <1>2, <1>3, <2>2 DEF S!OfferSub
  <2>3. CASE S!OfferAdd(c, change)
    BY <1>1, <2>1, <2>3
  <2>4. CASE S!OfferSub(c, change)
    BY <1>1, <2>2, <2>4
  <2>. QED
    BY <2>3, <2>4
<1>5. n \notin S!Registered
  <2>1. \A m \in S!Registered : m.kind = "rc" => m.id < next_rc_tag
    BY DEF AllInv, SP!IInv, SP!OffersAgree, SP!Registered, S!Registered
  <2>2. next_rc_tag \in Nat /\ n.kind = "rc" /\ n.id = next_rc_tag
    BY <1>1 DEF AllInv, SP!TypeOK, S!RcName
  <2>. QED
    BY <2>1, <2>2
<1>6. /\ pset_name_map' = [m \in S!Registered \cup {n} |->
                             IF m \in S!Registered THEN pset_name_map[m] ELSE change.pset]
      /\ pending_resource_change' = TRUE
      /\ rc_map' = [s \in DOMAIN rc_map \cup {t} |->
                      IF s = t THEN [rc_type |-> change.rc_type, new_pset_name |-> n,
                                     pset |-> change.pset]
                      ELSE rc_map[s]]
  BY <1>1, <1>4 DEF S!Offer, S!Register, S!Registered
<1>7. S!Registered' = S!Registered \cup {n} /\ pset_name_map'[n] = change.pset /\ Grows
  <2>1. DOMAIN pset_name_map' = S!Registered \cup {n}
    BY <1>6
  <2>2. S!Registered' = DOMAIN pset_name_map'
    BY DEF S!Registered
  <2>. QED
    BY <1>5, <1>6, <2>1, <2>2 DEF Grows
<1>8. /\ t \notin DOMAIN rc_map /\ t \in DOMAIN rc_map'
      /\ rc_map'[t].rc_type = change.rc_type /\ rc_map'[t].pset = change.pset
      /\ OffersStay
  <2>1. t \notin DOMAIN rc_map
    BY <1>1 DEF AllInv, SP!TypeOK, SP!IInv, SP!OffersAgree
  <2>. QED
    BY <1>6, <2>1 DEF OffersStay
<1>9. Offers(c, G, t, n, P, type)
  BY <1>1, <1>2, <1>4, <1>5, <1>6, <1>7, <1>8 DEF Offers
<1>. QED
  BY <1>9

\* A change is offered to the root.
LEMMA ServeOffer ==
  ASSUME AllInv, NEW c \in CR, NEW i, Serves(c, i), requests[c][i].tag = "RC",
         pending_shutdowns = {},
         NEW change \in ManagerRC(manager, running_crs),
         S!OfferAdd(c, change) \/ S!OfferSub(c, change)
  PROVE  AppInv' /\ fault' = fault
<1>1. PICK G \in SUBSET CR : c \in G /\ c = Root(G) /\ Searching(G)
  BY SearcherPlace
<1>2. running_crs = G
  <2>1. running_crs \subseteq CR
    BY DEF AllInv, SP!TypeOK
  <2>2. G \subseteq running_crs
    BY <1>1 DEF Searching, Works
  <2>3. \A d \in CR \ G : d \notin running_crs
    BY <1>1 DEF Searching, Around, Resting
  <2>. QED
    BY <2>1, <2>2, <2>3
<1>3. \A d \in CR : ~Holds(d)
  BY <1>1 DEF Searching, Around
<1>4. PICK t, n, P, type : Offers(c, G, t, n, P, type)
  BY <1>2, OfferEffect
<1>5. /\ P \in SUBSET CR /\ P # {}
      /\ \/ type = "add" /\ P \cap G = {} /\ pending_shutdowns' = {}
         \/ type = "sub" /\ P \subseteq G /\ pending_shutdowns' = P
      /\ sent' = {S!RcAnswer(c, t, type, n)}
      /\ pending_resource_change' = TRUE /\ t \in DOMAIN rc_map'
      /\ rc_map'[t].rc_type = type /\ rc_map'[t].pset = P /\ OffersStay
      /\ n \notin S!Registered /\ n \in S!Registered' /\ pset_name_map'[n] = P
      /\ S!Registered' = S!Registered \cup {n} /\ Grows
      /\ running_crs' = running_crs /\ fault' = fault
      /\ n = S!RcName(next_rc_tag)
  BY <1>4 DEF Offers
<1>6. PICK J \in SUBSET CR : J = IF type = "add" THEN G \cup P ELSE G \ P
  BY <1>5
<1>7. IsWay(G, J) /\ Way(G, J) = type /\ Changed(G, J) = P /\ pending_shutdowns' = G \ J
  <2>1. P \in SUBSET CR /\ P # {}
    BY <1>5
  <2>2. ASSUME type = "add", P \cap G = {}, pending_shutdowns' = {}
        PROVE  IsWay(G, J) /\ Way(G, J) = type /\ Changed(G, J) = P /\ pending_shutdowns' = G \ J
    <3>1. J = G \cup P
      BY <1>6, <2>2
    <3>2. /\ IsWay(G, G \cup P) /\ Way(G, G \cup P) = "add"
          /\ Changed(G, G \cup P) = P /\ G \ (G \cup P) = {}
      BY <2>1, <2>2, WayIs
    <3>3. IsWay(G, J) /\ Way(G, J) = "add" /\ Changed(G, J) = P /\ G \ J = {}
      BY ONLY <3>1, <3>2
    <3>. QED
      BY <2>2, <3>3
  <2>3. ASSUME type = "sub", P \subseteq G, pending_shutdowns' = P
        PROVE  IsWay(G, J) /\ Way(G, J) = type /\ Changed(G, J) = P /\ pending_shutdowns' = G \ J
    <3>1. J = G \ P
      BY <1>6, <2>3
    <3>2. /\ IsWay(G, G \ P) /\ Way(G, G \ P) = "sub"
          /\ Changed(G, G \ P) = P /\ G \ (G \ P) = P
      BY <2>1, <2>3, WayIs
    <3>3. IsWay(G, J) /\ Way(G, J) = "sub" /\ Changed(G, J) = P /\ G \ J = P
      BY ONLY <3>1, <3>2
    <3>. QED
      BY <2>3, <3>3
  <2>. QED
    BY <1>5, <2>2, <2>3
<1>8. ASSUME NEW m \in sent'
      PROVE  /\ m.to = c /\ m.type = type /\ m.name = n /\ m.rc_tag = t
  BY <1>5, <1>8 DEF S!RcAnswer
<1>9. /\ UNCHANGED <<app, bcasts, program, accept_info>>
      /\ \A d \in CR : TagsHeld(d)' = TagsHeld(d)
      /\ inbox'[c] = {m \in sent' : m.to = c}
  BY <1>5, ServeEffect, ServeHeld, AnswerEffect
<1>10. Leads(n, P)' /\ StandsFor(t, G, J)'
  BY <1>5, <1>7 DEF Leads, StandsFor, Stands
<1>11. \A m \in inbox'[c] : m.type = type /\ m.name = n /\ m.rc_tag = t
  BY <1>8, <1>9
<1>12. inbox'[c] # {}
  <2>1. S!RcAnswer(c, t, type, n) \in sent'
    BY <1>5
  <2>. QED
    BY <1>8, <1>9, <2>1
<1>13. ASSUME NEW m \in inbox'[c]
       PROVE  /\ m.type = Way(G, J) /\ Leads(m.name, Changed(G, J))'
              /\ StandsFor(m.rc_tag, G, J)'
  BY <1>7, <1>10, <1>11, <1>13 DEF Leads, StandsFor, Stands
<1>14. Apart(G, J)'
  <2>1. \A d \in CR \ G : Resting(d)'
    BY <1>1, <1>5, <1>9 DEF Searching, Around, Resting, Silent
  <2>. QED
    BY <1>7, <2>1 DEF Apart
<1>15. ASSUME NEW d \in G
       PROVE  /\ Works(d, G)' /\ Silent(d)' /\ Leads(app[d].main, G)'
              /\ app'[d].at = IF d = Root(G) THEN "get_change" ELSE "hear_change"
  <2>1. Works(d, G)' /\ Silent(d)' /\ app'[d] = app[d]
    BY <1>1, <1>5, <1>9 DEF Searching, Works, Silent
  <2>2. PICK name : name = app[d].main
    OBVIOUS
  <2>3. app'[d].main = name /\ Leads(name, G)'
    BY <1>1, <1>5, <2>1, <2>2, LeadsGrows DEF Searching
  <2>. QED
    BY <1>1, <2>1, <2>3 DEF Searching, Leads
<1>16. \A d \in CR : ~Holds(d)'
  BY <1>3, <1>9 DEF Holds
<1>17. Telling(G, J)'
  BY <1>1, <1>12, <1>13, <1>14, <1>15, <1>16 DEF Telling, IsOffer
<1>18. Together'
  BY <1>17 DEF Together
<1>19. WorldRuns'
  <2>1. n # S!World /\ n.kind \notin {"empty", "self"}
    BY <1>5 DEF S!RcName, S!World
  <2>. QED
    BY <1>5, <2>1 DEF AllInv, AppInv, WorldRuns, Grows, S!World
<1>. QED
  BY <1>5, <1>8, <1>18, <1>19, AnswerEnds

\* The request for a change is refused or answered with an offer.
LEMMA ServeRC ==
  ASSUME AllInv, NEW c \in CR, NEW i, Serves(c, i), requests[c][i].tag = "RC"
  PROVE  AppInv' /\ fault' = fault
<1>1. S!HandleRC(c)
  BY ServeEffect DEF Dispatch
<1>. QED
  BY <1>1, ServeRefusal, ServeOffer DEF S!HandleRC

\* The process set of a change is made: it is the one the change leads to.
Makes(c, name, J) ==
  /\ sent' = {S!PsetOpAnswer(c, name)}
  /\ Leads(name, J)'
  /\ Grows
  /\ UNCHANGED <<running_crs, pending_shutdowns, rc_map, pending_resource_change, fault>>
  /\ S!World \in S!Registered' => S!World \in S!Registered
  /\ \A n \in S!Registered' : n.kind \notin {"empty", "self"}

\* The operation on two registered process sets gives the set asked for, under a new name.
LEMMA OpEffect ==
  ASSUME AllInv, NEW c \in CR, NEW A, NEW B, NEW name1, NEW name2, NEW J, NEW op,
         S!HandlePsetOp(c, op, name1, name2, S!NoProposal),
         Leads(name1, A), A # {}, Leads(name2, B), B # {}, J = S!Result(op, A, B),
         op \in {"union", "difference"}
  PROVE  \E name : Makes(c, name, J)
<1>1. /\ name1 \in S!Registered /\ pset_name_map[name1] = A /\ name1 # S!Self
      /\ name2 \in S!Registered /\ pset_name_map[name2] = B /\ name2 # S!Self
      /\ \A n \in S!Registered : n.kind \notin {"empty", "self"}
  BY DEF Leads, AllInv, AppInv, WorldRuns, S!Self
<1>2. S!Operand(c, name1) = A /\ S!Operand(c, name2) = B
  BY <1>1 DEF S!Operand
<1>3. {name1, name2} \subseteq S!Registered \cup {S!Self}
  BY <1>1
<1>4. S!NewName(S!NoProposal) = S!OpName(next_op)
  BY DEF S!NewName, S!NoProposal
<1>5. \/ /\ J = {} /\ sent' = {S!PsetOpAnswer(c, S!NoName)}
         /\ UNCHANGED <<pset_name_map, running_crs, pending_shutdowns, rc_map,
                        pending_resource_change, fault>>
      \/ /\ J # {} /\ sent' = {S!PsetOpAnswer(c, S!OpName(next_op))}
         /\ pset_name_map' = S!Register(pset_name_map, S!OpName(next_op), J)
         /\ UNCHANGED <<running_crs, pending_shutdowns, rc_map, pending_resource_change, fault>>
  BY <1>2, <1>3, <1>4 DEF S!HandlePsetOp, S!crVars, S!psetVars, S!rcVars
<1>6. CASE J = {}
  <2>1. Leads(S!NoName, J)'
    BY <1>6 DEF Leads, S!NoName
  <2>2. Makes(c, S!NoName, J)
    BY <1>1, <1>5, <1>6, <2>1 DEF Makes, Grows, S!Registered
  <2>. QED
    BY <2>2
<1>7. CASE J # {}
  <2>1. PICK name : name = S!OpName(next_op)
    OBVIOUS
  <2>2. name \notin S!Registered
    BY <2>1 DEF AllInv, SP!TypeOK, SP!IInv, SP!NamesFresh, SP!Registered, S!Registered, S!OpName
  <2>3. name.kind \notin {"empty", "self"} /\ name # S!World
    BY <2>1 DEF S!OpName, S!World
  <2>4. pset_name_map' = [n \in S!Registered \cup {name} |->
                            IF n \in S!Registered THEN pset_name_map[n] ELSE J]
    BY <1>5, <1>7, <2>1 DEF S!Register, S!Registered
  <2>5. S!Registered' = S!Registered \cup {name}
    BY <2>4 DEF S!Registered
  <2>6. Leads(name, J)' /\ Grows
    BY <1>7, <2>2, <2>4, <2>5 DEF Leads, Grows
  <2>7. Makes(c, name, J)
    BY <1>1, <1>5, <1>7, <2>1, <2>3, <2>5, <2>6 DEF Makes
  <2>. QED
    BY <2>7
<1>. QED
  BY <1>6, <1>7

\* The root is told the name of the process set the change leads to.
LEMMA ServeOp ==
  ASSUME AllInv, NEW c \in CR, NEW i, Serves(c, i), requests[c][i].tag = "PSET_OP"
  PROVE  AppInv' /\ fault' = fault
<1>. DEFINE r == requests[c][i]
<1>1. /\ Dispatch(c, r) /\ UNCHANGED <<app, bcasts, program, accept_info>>
      /\ inbox'[c] = {m \in sent' : m.to = c} /\ r \in RequestMessage /\ i \in DOMAIN requests[c]
      /\ app[c].at \in DOMAIN AskedAt /\ r.tag = AskedAt[app[c].at]
  BY ServeEffect, AnswerEffect
<1>2. app[c].at = "create_op"
  BY <1>1 DEF AskedAt
<1>3. PICK G, J \in SUBSET CR : c \in G /\ c = Root(G) /\ Naming(G, J)
  BY <1>2, MakerPlace
<1>4. /\ r.op = IF app[c].rc.type = "add" THEN "union" ELSE "difference"
      /\ r.name1 = app[c].main /\ r.name2 = app[c].rc.name /\ r.proposal = S!NoProposal
  BY <1>1, PlaceIs DEF InStep, RequestFits
<1>5. PICK op, name1, name2 : op = r.op /\ name1 = r.name1 /\ name2 = r.name2
  OBVIOUS
<1>6. S!HandlePsetOp(c, op, name1, name2, S!NoProposal)
  BY <1>1, <1>4, <1>5 DEF Dispatch
<1>7. /\ IsWay(G, J) /\ Leads(name1, G) /\ Leads(name2, Changed(G, J))
      /\ op = IF Way(G, J) = "add" THEN "union" ELSE "difference"
      /\ op \in {"union", "difference"} /\ G # {}
  BY <1>3, <1>4, <1>5 DEF Naming, Apart
<1>8. Changed(G, J) # {} /\ J = S!Result(op, G, Changed(G, J))
  BY <1>7 DEF IsWay, Way, Changed, S!Result
<1>9. PICK name : Makes(c, name, J)
  BY <1>6, <1>7, <1>8, OpEffect
<1>10. /\ sent' = {S!PsetOpAnswer(c, name)} /\ Leads(name, J)' /\ Grows
       /\ UNCHANGED <<running_crs, pending_shutdowns, rc_map, pending_resource_change, fault>>
  BY <1>9 DEF Makes
<1>11. /\ \A m \in sent' : m.to = c /\ m.name = name
       /\ \A d \in CR : TagsHeld(d)' = TagsHeld(d)
  BY <1>10, ServeHeld DEF S!PsetOpAnswer, OffersStay
<1>12. \A t, type : Stands(t, type)' <=> Stands(t, type)
  BY <1>10 DEF Stands
<1>13. Apart(G, J)'
  BY <1>1, <1>3, <1>10 DEF Naming, Apart, Resting, Silent
<1>14. RootHolds(G, J)'
  BY <1>1, <1>3, <1>10, <1>11 DEF Naming, RootHolds, Holds, StandsFor, Stands
<1>15. ASSUME NEW d \in G, d # Root(G) PROVE Learns(d, G, J)'
  BY <1>1, <1>3, <1>10, <1>15 DEF Naming, Learns, Works, Silent
<1>16. ASSUME NEW m \in inbox'[c] PROVE Leads(m.name, J)'
  <2>1. m.name = name
    BY <1>1, <1>11, <1>16
  <2>. QED
    BY <1>10, <2>1 DEF Leads
<1>17. /\ Works(c, G)' /\ Silent(c)' /\ app'[c].at = "create_op"
       /\ app'[c].rc.type = Way(G, J) /\ Holds(c)'
  BY <1>1, <1>2, <1>3, <1>10, <1>11 DEF Naming, Works, Silent, Holds
<1>18. Leads(app[c].main, G)' /\ Leads(app[c].rc.name, Changed(G, J))'
  <2>1. app'[c].main = name1 /\ app'[c].rc.name = name2
    BY <1>1, <1>4, <1>5
  <2>2. Leads(name1, G)' /\ Leads(name2, Changed(G, J))'
    BY <1>7, <1>10, LeadsGrows
  <2>. QED
    BY <2>1, <2>2 DEF Leads
<1>19. Naming(G, J)'
  BY <1>3, <1>13, <1>14, <1>15, <1>16, <1>17, <1>18 DEF Naming
<1>20. Together'
  BY <1>19 DEF Together
<1>21. WorldRuns'
  BY <1>9, <1>10 DEF Makes, AllInv, AppInv, WorldRuns, Grows
<1>. QED
  BY <1>10, <1>11, <1>20, <1>21, AnswerEnds DEF OffersStay

\* The scheduler learns that c is done: c no longer runs, and the process sets it was in
\* are gone.
Gone(c) ==
  /\ UNCHANGED <<app, bcasts, program, accept_info, rc_map, pending_resource_change, fault>>
  /\ running_crs' = running_crs \ {c} /\ pending_shutdowns' = pending_shutdowns \ {c}
  /\ sent' = {}
  /\ \A n : n \in S!Registered' <=> n \in S!Registered /\ c \notin pset_name_map[n]
  /\ \A n \in S!Registered' : pset_name_map'[n] = pset_name_map[n]
  /\ \A d \in CR : /\ TagsHeld(d)' = TagsHeld(d) /\ AddTags(d)' = AddTags(d)
                   /\ inbox'[d] = inbox[d]
                   /\ d # c => /\ (Done(d)' <=> Done(d)) /\ requests'[d] = requests[d]
                               /\ process_states'[d].origin_rc_tag = process_states[d].origin_rc_tag

\* That is what the handler of DONE_RUNNING does.
LEMMA GoneEffect ==
  ASSUME AllInv, NEW c \in CR, NEW i, Serves(c, i), requests[c][i].tag = "DONE_RUNNING"
  PROVE  Gone(c)
<1>1. PICK refs, names : refs = process_states[c].psets_containing /\ names = {r.name : r \in refs}
  OBVIOUS
<1>2. /\ Dispatch(c, requests[c][i]) /\ fault = "none" /\ c \in running_crs
      /\ UNCHANGED <<app, bcasts, program, accept_info>>
      /\ \A d \in CR : d # c => (Done(d)' <=> Done(d)) /\ requests'[d] = requests[d]
      /\ \A d \in CR : inbox'[d] = inbox[d] \cup {m \in sent' : m.to = d}
  BY ServeEffect, AnswerEffect
<1>3. process_states[c].active
  BY <1>2, RankAssumption DEF AllInv, SP!IInv, SP!RunningHaveState
<1>4. /\ \A n \in S!Registered : c \in pset_name_map[n] => \E r \in refs : r.name = n
      /\ \A r \in refs : r.name \in S!Registered /\ c \in pset_name_map[r.name]
  BY <1>2, <1>1 DEF AllInv, SP!IInv, SP!BackrefsExact, SP!Registered, S!Registered
<1>5. S!HandleWorkerDone(c)
  BY <1>2 DEF Dispatch
<1>6. names \cap S!Registered = names
  BY <1>4, <1>1
<1>7. /\ UNCHANGED <<rc_map, pending_resource_change, fault>>
      /\ running_crs' = running_crs \ {c} /\ pending_shutdowns' = pending_shutdowns \ {c}
      /\ sent' = {}
      /\ pset_name_map' = S!Unregister(pset_name_map, names)
      /\ process_states' = [S!DropBackrefs(process_states, names) EXCEPT ![c] = S!NoProcess]
  BY <1>2, <1>3, <1>5, <1>6, <1>1 DEF S!HandleWorkerDone, S!rcVars
<1>8. \A n : n \in names <=> n \in S!Registered /\ c \in pset_name_map[n]
  BY <1>4, <1>1
<1>9. /\ S!Registered' = S!Registered \ names
      /\ \A n \in S!Registered' : pset_name_map'[n] = pset_name_map[n]
  BY <1>7 DEF S!Registered, S!Unregister
<1>10. \A d \in CR : d # c => process_states'[d].origin_rc_tag = process_states[d].origin_rc_tag
  <2>1. process_states \in [Rank -> SP!ProcessState]
    BY DEF AllInv, SP!TypeOK
  <2>2. \A d \in Rank : d # c => process_states'[d] = S!DropBackrefs(process_states, names)[d]
    BY <1>7 DEF S!DropBackrefs
  <2>3. \A d \in Rank : S!DropBackrefs(process_states, names)[d].origin_rc_tag
                          = process_states[d].origin_rc_tag
    BY <2>1 DEF S!DropBackrefs, SP!ProcessState
  <2>. QED
    BY <2>2, <2>3, RankAssumption
<1>11. \A d \in CR : inbox'[d] = inbox[d]
  BY <1>2, <1>7
<1>12. /\ \A n : n \in S!Registered' <=> n \in S!Registered /\ c \notin pset_name_map[n]
       /\ \A n \in S!Registered' : pset_name_map'[n] = pset_name_map[n]
  BY <1>8, <1>9
<1>13. \A d \in CR : /\ TagsHeld(d)' = TagsHeld(d) /\ AddTags(d)' = AddTags(d)
                     /\ inbox'[d] = inbox[d]
                     /\ d # c =>
                          /\ (Done(d)' <=> Done(d)) /\ requests'[d] = requests[d]
                          /\ process_states'[d].origin_rc_tag = process_states[d].origin_rc_tag
  <2>1. \A d \in CR : AddTags(d)' = AddTags(d) /\ TagsHeld(d)' = TagsHeld(d)
    BY <1>7, ServeHeld DEF OffersStay
  <2>. QED
    BY <1>2, <1>10, <1>11, <2>1
<1>14. /\ UNCHANGED <<app, bcasts, program, accept_info, rc_map, pending_resource_change, fault>>
       /\ running_crs' = running_crs \ {c} /\ pending_shutdowns' = pending_shutdowns \ {c}
       /\ sent' = {}
  BY <1>2, <1>7
<1>. QED
  BY ONLY <1>12, <1>13, <1>14 DEF Gone

\* It concerns no other process.
LEMMA GoneOthers ==
  ASSUME NEW c \in CR, Gone(c), NEW d \in CR, d # c
  PROVE  /\ Resting(d) => Resting(d)'
         /\ Leaves(d) => Leaves(d)'
         /\ Finished(d) => Finished(d)'
         /\ \A G : AtWork(d, G) => AtWork(d, G)'
         /\ \A G, J : c \notin J /\ Moves(d, G, J) => Moves(d, G, J)'
         /\ \A G, J : c \notin J /\ LearnsName(d, G, J) => LearnsName(d, G, J)'
         /\ \A J : c \notin J /\ Joins(d, J) => Joins(d, J)'
         /\ \A J : c \notin J /\ TrueAnswers(d, J) => TrueAnswers(d, J)'
<1>1. \A n, J : c \notin J /\ Leads(n, J) => Leads(n, J)'
  BY DEF Gone, Leads, S!NoName
<1>2. \A n : Excludes(n, d) => Excludes(n, d)'
  BY DEF Gone, Excludes, S!Self
<1>3. /\ app' = app /\ bcasts' = bcasts /\ accept_info' = accept_info /\ program' = program
      /\ inbox'[d] = inbox[d] /\ (d \in running_crs' <=> d \in running_crs)
      /\ (Done(d)' <=> Done(d))
      /\ process_states'[d].origin_rc_tag = process_states[d].origin_rc_tag
      /\ S!World \in S!Registered' => S!World \in S!Registered
      /\ S!World \in S!Registered' => pset_name_map'[S!World] = pset_name_map[S!World]
  BY DEF Gone
<1>4. /\ Resting(d) => Resting(d)'
      /\ Finished(d) => Finished(d)'
      /\ \A G : AtWork(d, G) => AtWork(d, G)'
  BY <1>3 DEF Resting, Finished, AtWork, Works, Silent
<1>5. Leaves(d) => Leaves(d)'
  BY ONLY <1>2, <1>3 DEF Leaves, Silent
<1>6. \A G, J : c \notin J /\ Moves(d, G, J) => Moves(d, G, J)'
  BY ONLY <1>1, <1>3 DEF Moves, Works, Silent
<1>7. \A G, J : c \notin J /\ LearnsName(d, G, J) => LearnsName(d, G, J)'
  BY ONLY <1>1, <1>3 DEF LearnsName, Works
<1>8. \A J : c \notin J /\ Joins(d, J) => Joins(d, J)'
  BY ONLY <1>1, <1>3 DEF Joins, Works, Silent
<1>9. \A J : c \notin J /\ TrueAnswers(d, J) => TrueAnswers(d, J)'
  BY ONLY <1>1, <1>3 DEF TrueAnswers
<1>. QED
  BY <1>4, <1>5, <1>6, <1>7, <1>8, <1>9

\* Only those that are not in the process set they go to, or are done, exit.
LEMMA GonePlace ==
  ASSUME NEW c \in CR, c \in running_crs, Done(c), app[c] = Off
  PROVE  /\ Leaves(c) \/ Finished(c) => Silent(c)
         /\ \A G \in SUBSET CR : Working(G) =>
              IF c \in G THEN Finished(c) ELSE c \in pending_shutdowns /\ Silent(c)
         /\ \A G \in SUBSET CR : Searching(G) => c \notin G /\ Silent(c)
         /\ \A G, J \in SUBSET CR : ~Telling(G, J) /\ ~Naming(G, J)
         /\ \A G, J \in SUBSET CR : Moving(G, J) => c \in G \ J /\ Silent(c)
<1>1. /\ ~Resting(c) /\ (\A G : ~AtWork(c, G))
      /\ \A G, J : ~LearnsName(c, G, J) /\ ~Learns(c, G, J) /\ ~Moves(c, G, J) /\ ~Joins(c, J)
  BY DEF Off, Resting, AtWork, LearnsName, Learns, Moves, Joins
<1>2. Leaves(c) \/ Finished(c) => Silent(c)
  BY DEF Leaves, Finished, Off
<1>3. \A G \in SUBSET CR : Around(G) /\ c \notin G => c \in pending_shutdowns /\ Silent(c)
  BY <1>1, <1>2 DEF Around
<1>4. \A G \in SUBSET CR : Working(G) =>
        IF c \in G THEN Finished(c) ELSE c \in pending_shutdowns /\ Silent(c)
  BY <1>1, <1>3 DEF Working
<1>5. \A G \in SUBSET CR : Searching(G) => c \notin G /\ Silent(c)
  <2>1. \A G \in SUBSET CR : Searching(G) => c \notin G
    BY DEF Searching, Off
  <2>. QED
    BY <1>3, <2>1 DEF Searching
<1>6. \A G, J \in SUBSET CR : ~Telling(G, J) /\ ~Naming(G, J)
  <2>1. \A G, J \in SUBSET CR : Telling(G, J) => c \notin G
    BY DEF Telling, Off
  <2>2. \A G, J \in SUBSET CR : Naming(G, J) => c \notin G
    BY <1>1 DEF Naming, Off
  <2>3. \A G, J \in SUBSET CR : Telling(G, J) \/ Naming(G, J) => c \in G
    BY <1>1 DEF Telling, Naming, Apart
  <2>. QED
    BY <2>1, <2>2, <2>3
<1>7. ASSUME NEW G \in SUBSET CR, NEW J \in SUBSET CR, Moving(G, J)
      PROVE  c \in G \ J /\ Silent(c)
  <2>1. c \notin G \cap J /\ c \notin J \ G /\ c \in G \cup J
    BY <1>1, <1>7 DEF Moving
  <2>2. c \in G \ J
    BY <2>1
  <2>3. Leaves(c)
    BY <1>1, <1>7, <2>2 DEF Moving
  <2>. QED
    BY <1>2, <2>2, <2>3
<1>. QED
  BY <1>2, <1>4, <1>5, <1>6, <1>7

\* A process that is gone is no longer on the way out.
LEMMA GoneAround ==
  ASSUME NEW c \in CR, Gone(c), NEW G \in SUBSET CR, Around(G), ~Holds(c),
         c \notin G => Silent(c), app[c] = Off
  PROVE  Around(G)'
<1>1. ASSUME NEW d \in CR \ G PROVE Resting(d)' \/ (d \in pending_shutdowns' /\ Leaves(d)')
  <2>1. CASE d = c
    BY <1>1, <2>1 DEF Gone, Resting, Silent
  <2>2. CASE d # c
    BY <1>1, <2>2, GoneOthers DEF Gone, Around
  <2>. QED
    BY <2>1, <2>2
<1>2. pending_shutdowns' \cap G = {}
  BY DEF Gone, Around
<1>3. ASSUME NEW d \in CR, Holds(d)'
      PROVE  d \in pending_shutdowns' /\ \A t \in TagsHeld(d)' : Stands(t, "sub")'
  <2>1. Holds(d) /\ TagsHeld(d)' = TagsHeld(d)
    BY <1>3 DEF Gone, Holds
  <2>2. d \in pending_shutdowns /\ d # c /\ \A t \in TagsHeld(d) : Stands(t, "sub")
    BY <2>1 DEF Around
  <2>. QED
    BY <2>1, <2>2 DEF Gone, Stands
<1>. QED
  BY <1>1, <1>2, <1>3 DEF Around

\* The others move on when one is gone.
LEMMA GoneMoving ==
  ASSUME NEW c \in CR, Gone(c), NEW G \in SUBSET CR, NEW J \in SUBSET CR, Moving(G, J),
         app[c] = Off, Silent(c), c \in G \ J
  PROVE  Moving(G, J)'
<1>1. /\ pending_shutdowns' = (G \ J) \cap running_crs'
      /\ \A t, type : Stands(t, type)' <=> Stands(t, type)
      /\ \A t : StandsFor(t, G, J)' <=> StandsFor(t, G, J)
      /\ \A d \in CR : Holds(d)' <=> Holds(d)
  BY DEF Gone, Moving, Stands, StandsFor, Holds
<1>2. RootHolds(G, J)'
  BY <1>1 DEF Gone, Moving, RootHolds
<1>3. \A n : Leads(n, J) => Leads(n, J)'
  BY DEF Gone, Leads, S!NoName
<1>4. ASSUME NEW d \in CR, NEW t \in AddTags(d)'
      PROVE  t \in DOMAIN accept_info' /\ Leads(accept_info[t].main, J)'
  <2>1. t \in DOMAIN accept_info /\ Leads(accept_info[t].main, J)
    BY <1>4 DEF Gone, Moving
  <2>2. PICK name : name = accept_info[t].main
    OBVIOUS
  <2>3. accept_info' = accept_info /\ Leads(name, J)'
    BY <1>3, <2>1, <2>2 DEF Gone
  <2>. QED
    BY <2>1, <2>2, <2>3 DEF Leads
<1>5. Resting(c)'
  BY DEF Gone, Resting, Silent
<1>6. \A d \in G \cap J : Moves(d, G, J)' \/ (d # Root(G) /\ LearnsName(d, G, J)')
  BY GoneOthers DEF Moving
<1>7. \A d \in G \ J : Leaves(d)' \/ Resting(d)'
  BY <1>5, GoneOthers DEF Moving
<1>8. \A d \in J \ G : IF \E e \in CR : Holds(e)' THEN Resting(d)' ELSE Joins(d, J)'
  BY <1>1, GoneOthers DEF Moving
<1>9. \A d \in CR \ (G \cup J) : Resting(d)'
  BY GoneOthers DEF Moving
<1>10. \A d \in J : TrueAnswers(d, J)'
  BY GoneOthers DEF Moving
<1>. QED
  BY <1>1, <1>2, <1>4, <1>6, <1>7, <1>8, <1>9, <1>10 DEF Moving

\* Serving the last request of a process.
LEMMA ServeDone ==
  ASSUME AllInv, NEW c \in CR, NEW i, Serves(c, i), requests[c][i].tag = "DONE_RUNNING"
  PROVE  AppInv' /\ fault' = fault
<1>1. Gone(c)
  BY GoneEffect
<1>2. /\ UNCHANGED <<pc, offered, app, bcasts, program, accept_info>>
      /\ Done(c) /\ app[c] = Off /\ pc[c] = Idle /\ c \in running_crs /\ inbox[c] = {}
      /\ \A j \in DOMAIN requests'[c] : requests'[c][j].tag = "RC_ACCEPT"
  BY ServeEffect, AnswerEffect DEF Off, AskedAt
<1>3. InStep(c) /\ app[c].at = "off"
  BY <1>2, PlaceIs DEF Off
<1>4. ~Holds(c)
  BY <1>2, <1>3 DEF InStep, Holds, TagsHeld
<1>5. InStep(c)'
  <2>1. \A j \in DOMAIN requests'[c] : RequestFits(app[c], requests'[c][j])
    BY <1>2 DEF RequestFits
  <2>2. AddTags(c)' = AddTags(c)
    BY <1>1 DEF Gone
  <2>. QED
    BY <1>2, <1>3, <2>1, <2>2 DEF InStep
<1>6. PICK G \in SUBSET CR :
        \/ Working(G) \/ Searching(G)
        \/ \E J \in SUBSET CR : Telling(G, J) \/ Naming(G, J) \/ Moving(G, J)
  BY DEF AllInv, AppInv, Together
<1>7. \A n : c \notin G /\ Leads(n, G) => Leads(n, G)'
  BY <1>1 DEF Gone, Leads, S!NoName
<1>8. ASSUME NEW d \in CR, c \notin G, Leads(app[d].main, G) PROVE Leads(app[d].main, G)'
  <2>1. PICK name : name = app[d].main
    OBVIOUS
  <2>2. Leads(name, G)' /\ app'[d].main = name
    BY <1>2, <1>7, <1>8, <2>1
  <2>. QED
    BY <2>2 DEF Leads
<1>9. ASSUME Working(G) PROVE Together'
  <2>1. Around(G)'
    BY <1>1, <1>2, <1>4, <1>9, GoneAround, GonePlace DEF Working
  <2>2. ASSUME NEW d \in G PROVE Finished(d)' \/ AtWork(d, G)'
    <3>1. CASE d = c
      <4>1. Finished(c)
        BY <1>2, <1>9, <3>1, GonePlace
      <4>. QED
        BY <1>1, <1>2, <3>1, <4>1 DEF Finished, Gone, Silent
    <3>2. CASE d # c
      BY <1>1, <1>9, <3>2, GoneOthers DEF Working
    <3>. QED
      BY <3>1, <3>2
  <2>3. (\E d \in G : Finished(d)') \/ \A d \in G : Leads(app[d].main, G)'
    <3>1. CASE c \in G
      <4>1. Finished(c)
        BY <1>2, <1>9, <3>1, GonePlace
      <4>2. Finished(c)'
        BY <1>1, <1>2, <4>1 DEF Finished, Gone, Silent
      <4>. QED
        BY <3>1, <4>2
    <3>2. CASE c \notin G
      <4>1. \A d \in G : d # c /\ (Finished(d) => Finished(d)')
        BY <1>1, <3>2, GoneOthers
      <4>. QED
        BY <1>8, <1>9, <3>2, <4>1 DEF Working
    <3>. QED
      BY <3>1, <3>2
  <2>4. Working(G)'
    BY <2>1, <2>2, <2>3 DEF Working
  <2>. QED
    BY <2>4 DEF Together
<1>10. ASSUME Searching(G) PROVE Together'
  <2>1. c \notin G /\ Silent(c)
    BY <1>2, <1>10, GonePlace
  <2>2. Around(G)'
    BY <1>1, <1>2, <1>4, <1>10, <2>1, GoneAround DEF Searching
  <2>3. ASSUME NEW d \in G
        PROVE  /\ Works(d, G)' /\ Silent(d)' /\ Leads(app[d].main, G)'
               /\ app'[d] = app[d] /\ inbox'[d] = inbox[d]
    BY <1>1, <1>2, <1>8, <1>10, <2>1 DEF Searching, Works, Silent, Gone
  <2>4. Searching(G)'
    BY <1>10, <2>2, <2>3 DEF Searching
  <2>. QED
    BY <2>4 DEF Together
<1>11. \A J \in SUBSET CR : ~Telling(G, J) /\ ~Naming(G, J)
  BY <1>2, GonePlace
<1>12. ASSUME NEW J \in SUBSET CR, Moving(G, J) PROVE Together'
  <2>1. c \in G \ J /\ Silent(c)
    BY <1>2, <1>12, GonePlace
  <2>2. Gone(c) /\ app[c] = Off
    BY <1>1, <1>2
  <2>3. Moving(G, J)'
    BY <1>12, <2>1, <2>2, GoneMoving
  <2>. QED
    BY <2>3 DEF Together
<1>13. Together'
  BY <1>6, <1>9, <1>10, <1>11, <1>12
<1>14. WorldRuns'
  BY <1>1 DEF Gone, AllInv, AppInv, WorldRuns
<1>15. AppTypeOK' /\ OneHolder' /\ fault' = fault
  BY <1>1, <1>2, HolderStep DEF AllInv, AppInv, AppTypeOK, Gone
<1>16. \A d \in CR : d # c => /\ inbox'[d] = inbox[d] /\ requests'[d] = requests[d]
                              /\ AddTags(d)' = AddTags(d)
  BY <1>1 DEF Gone
<1>. QED
  BY <1>2, <1>5, <1>13, <1>14, <1>15, <1>16, StepEnds

\* An accept is served: no one holds its change any more, and nothing else changes hands.
LEMMA AcceptServed ==
  ASSUME AllInv, NEW c \in CR, NEW i, Serves(c, i), requests[c][i].tag = "RC_ACCEPT",
         NEW t, t = requests[c][i].rc_tag,
         \A s \in DOMAIN rc_map \ {t} : s \in DOMAIN rc_map' /\ rc_map'[s] = rc_map[s]
  PROVE  /\ t \in DOMAIN rc_map /\ t \in AcceptTags(c) /\ (Done(c)' <=> Done(c))
         /\ \A d \in CR : /\ t \notin Offered(d)
                          /\ AddTags(d)' = AddTags(d) \ {t} /\ TagsHeld(d)' = TagsHeld(d) \ {t}
         /\ inbox'[c] = inbox[c] => InStep(c)'
<1>1. /\ i \in DOMAIN requests[c]
      /\ UNCHANGED <<pc, offered, app, bcasts, program, accept_info>>
      /\ \A j \in DOMAIN requests'[c] :
           \E k \in DOMAIN requests[c] \ {i} : requests'[c][j] = requests[c][k]
      /\ \A k \in DOMAIN requests[c] \ {i} :
           \E j \in DOMAIN requests'[c] : requests'[c][j] = requests[c][k]
  BY ServeEffect
<1>2. /\ t \in AcceptTags(c) /\ t \in DOMAIN rc_map
      /\ AcceptTags(c)' = AcceptTags(c) \ {t}
      /\ \A d \in CR : d # c => AcceptTags(d)' = AcceptTags(d)
      /\ \A d \in CR : t \notin Offered(d) /\ (d # c => t \notin AcceptTags(d))
  BY ServeAccepts
<1>3. ASSUME NEW d \in CR
      PROVE  AddTags(d)' = AddTags(d) \ {t} /\ TagsHeld(d)' = TagsHeld(d) \ {t}
  <2>1. AcceptTags(d)' = AcceptTags(d) \ {t}
    BY <1>2
  <2>2. AcceptTags(d) \subseteq DOMAIN rc_map
    BY AcceptsStand
  <2>3. AddTags(d)' = AddTags(d) \ {t}
    BY <2>1, <2>2 DEF AddTags
  <2>4. t \notin offered[d]
    BY <1>2 DEF Offered
  <2>. QED
    BY <1>1, <2>3, <2>4 DEF TagsHeld
<1>4. Done(c)' <=> Done(c)
  BY <1>1 DEF Done
<1>5. ASSUME inbox'[c] = inbox[c] PROVE InStep(c)'
  <2>1. InStep(c)
    BY PlaceIs
  <2>2. \A j \in DOMAIN requests'[c] : RequestFits(app[c], requests'[c][j])
    BY <1>1, <2>1 DEF InStep
  <2>. QED
    BY <1>1, <1>3, <1>5, <2>1, <2>2 DEF InStep
<1>. QED
  BY <1>2, <1>3, <1>4, <1>5

\* What the root is told when it asks for a change.
LEMMA OfferTold ==
  ASSUME AllInv, NEW c \in CR, app[c].at = "get_change", NEW m \in inbox[c]
  PROVE  m.tag = "RC_ANSWER"
<1>1. InStep(c) /\ Place(c) /\ pc[c] # "main"
      /\ pc \in [CR -> {"main", "quit", Idle} \cup AnswerTag]
  BY PlaceIs, MessagePlace DEF AllInv, SimInv, TypeOK
<1>2. pc[c] = Awaits[AskedAt["get_change"]]
  BY <1>1 DEF InStep
<1>3. pc[c] = "RC_ANSWER"
  BY <1>2 DEF Awaits, AskedAt
<1>. QED
  BY <1>1, <1>3 DEF Place, AtRest, ToStart, InProgram, Asking, Answered, LookupAnswered,
     SelfAnswered, Unanswerable, Leaving, ToQuit, HasQuit, Idle

\* A change of which the scheduler only notes that it is accepted: it may be long past.
LEMMA ServeAcceptSub ==
  ASSUME AllInv, NEW c \in CR, NEW i, Serves(c, i), requests[c][i].tag = "RC_ACCEPT",
         NEW t, t = requests[c][i].rc_tag, S!AcceptSub(t)
  PROVE  AppInv'
<1>1. /\ UNCHANGED <<pc, offered, app, bcasts, program, accept_info>>
      /\ \A d \in CR : d # c => requests'[d] = requests[d] /\ (Done(d)' <=> Done(d))
      /\ \A d \in CR : inbox'[d] = inbox[d] \cup {m \in sent' : m.to = d}
  BY ServeEffect
<1>2. /\ rc_map[t].rc_type = "sub"
      /\ UNCHANGED <<running_crs, pending_shutdowns, pset_name_map, process_states, fault>>
      /\ rc_map' = [s \in DOMAIN rc_map \ {t} |-> rc_map[s]]
      /\ \A d \in CR : inbox'[d] = inbox[d]
  BY <1>1 DEF S!AcceptSub, S!psetVars
<1>3. /\ Done(c)' <=> Done(c)
      /\ \A d \in CR : /\ t \notin Offered(d)
                       /\ AddTags(d)' = AddTags(d) \ {t} /\ TagsHeld(d)' = TagsHeld(d) \ {t}
      /\ InStep(c)'
  BY <1>2, AcceptServed
<1>4. ASSUME NEW d \in CR
      PROVE  /\ AddTags(d)' = AddTags(d) /\ TagsHeld(d)' = TagsHeld(d) /\ (Holds(d)' <=> Holds(d))
             /\ t \notin TagsHeld(d)
  <2>1. t \notin AddTags(d)
    BY <1>2 DEF AddTags
  <2>2. t \notin TagsHeld(d)
    BY <1>3, <2>1 DEF TagsHeld, Offered
  <2>3. AddTags(d)' = AddTags(d) /\ TagsHeld(d)' = TagsHeld(d)
    BY <1>3, <2>1, <2>2
  <2>. QED
    BY <2>2, <2>3 DEF Holds
<1>5. /\ \A n, J : Leads(n, J)' <=> Leads(n, J)
      /\ \A n, d : Excludes(n, d)' <=> Excludes(n, d)
      /\ \A s, type : s # t => (Stands(s, type)' <=> Stands(s, type))
      /\ \A s, G, J : s # t => (StandsFor(s, G, J)' <=> StandsFor(s, G, J))
  BY <1>2 DEF Leads, Excludes, S!Registered, S!NoName, S!Self, Stands, StandsFor
<1>6. /\ app' = app /\ bcasts' = bcasts /\ running_crs' = running_crs /\ program' = program
      /\ pending_shutdowns' = pending_shutdowns /\ accept_info' = accept_info
      /\ process_states' = process_states /\ pset_name_map' = pset_name_map
      /\ \A d \in CR : inbox'[d] = inbox[d] /\ (Done(d)' <=> Done(d))
  BY <1>1, <1>2, <1>3
<1>7. ASSUME NEW d \in CR
      PROVE  /\ Resting(d) => Resting(d)'
             /\ Leaves(d) => Leaves(d)'
             /\ Finished(d) => Finished(d)'
             /\ \A G : AtWork(d, G) => AtWork(d, G)'
             /\ \A G, J : Learns(d, G, J) => Learns(d, G, J)'
             /\ \A G, J : Moves(d, G, J) => Moves(d, G, J)'
             /\ \A G, J : LearnsName(d, G, J) => LearnsName(d, G, J)'
             /\ \A J : Joins(d, J) => Joins(d, J)'
             /\ \A J : TrueAnswers(d, J) => TrueAnswers(d, J)'
  <2>1. Resting(d) => Resting(d)'
    BY ONLY <1>6 DEF Resting, Silent
  <2>2. Leaves(d) => Leaves(d)'
    BY ONLY <1>5, <1>6 DEF Leaves, Silent
  <2>3. Finished(d) => Finished(d)'
    BY ONLY <1>6 DEF Finished, Silent
  <2>4. \A G : AtWork(d, G) => AtWork(d, G)'
    BY ONLY <1>6 DEF AtWork, Works, Silent
  <2>5. \A G, J : Learns(d, G, J) => Learns(d, G, J)'
    BY ONLY <1>6 DEF Learns, Works, Silent
  <2>6. \A G, J : Moves(d, G, J) => Moves(d, G, J)'
    BY ONLY <1>5, <1>6 DEF Moves, Works, Silent
  <2>7. \A G, J : LearnsName(d, G, J) => LearnsName(d, G, J)'
    BY ONLY <1>5, <1>6 DEF LearnsName, Works
  <2>8. \A J : Joins(d, J) => Joins(d, J)'
    BY ONLY <1>5, <1>6 DEF Joins, Works, Silent, S!Registered
  <2>9. \A J : TrueAnswers(d, J) => TrueAnswers(d, J)'
    BY ONLY <1>5, <1>6 DEF TrueAnswers
  <2>. QED
    BY <2>1, <2>2, <2>3, <2>4, <2>5, <2>6, <2>7, <2>8, <2>9
<1>8. ASSUME NEW G \in SUBSET CR, NEW d \in G
      PROVE  /\ Works(d, G) => Works(d, G)'
             /\ Silent(d) => Silent(d)'
             /\ Leads(app[d].main, G) => Leads(app[d].main, G)'
             /\ \A J : Leads(app[d].rc.name, J) => Leads(app[d].rc.name, J)'
             /\ app'[d] = app[d] /\ inbox'[d] = inbox[d]
  <2>1. (Works(d, G) => Works(d, G)') /\ (Silent(d) => Silent(d)')
        /\ app'[d] = app[d] /\ inbox'[d] = inbox[d]
    BY <1>6 DEF Works, Silent
  <2>2. /\ Leads(app[d].main, G) => Leads(app[d].main, G)'
        /\ \A J : Leads(app[d].rc.name, J) => Leads(app[d].rc.name, J)'
    BY <1>6 DEF Leads, S!Registered
  <2>. QED
    BY <2>1, <2>2
<1>9. ASSUME NEW G \in SUBSET CR, Around(G) PROVE Around(G)'
  BY <1>4, <1>5, <1>6, <1>7, <1>9 DEF Around, Holds
<1>10. ASSUME NEW G \in SUBSET CR, Working(G) PROVE Working(G)'
  BY <1>7, <1>8, <1>9, <1>10 DEF Working
<1>11. ASSUME NEW G \in SUBSET CR, Searching(G) PROVE Searching(G)'
  BY <1>8, <1>9, <1>11 DEF Searching
<1>12. ASSUME NEW G \in SUBSET CR, NEW J \in SUBSET CR
       PROVE  /\ Apart(G, J) => Apart(G, J)'
              /\ RootHolds(G, J) => RootHolds(G, J)'
  BY <1>4, <1>5, <1>6, <1>7 DEF Apart, RootHolds, Holds
<1>13. ASSUME NEW G \in SUBSET CR, NEW J \in SUBSET CR, Telling(G, J) PROVE Telling(G, J)'
  <2>1. ASSUME NEW d \in G, app[d].at = "get_change", NEW m \in inbox[d], IsOffer(m, G, J)
        PROVE  IsOffer(m, G, J)'
    <3>1. m.tag = "RC_ANSWER" /\ m.type # "none"
      BY <2>1, OfferTold DEF IsOffer, Way
    <3>2. m.rc_tag # t
      BY <1>3, <2>1, <3>1 DEF Offered
    <3>. QED
      BY <1>5, <2>1, <3>2 DEF IsOffer
  <2>. QED
    BY <1>4, <1>8, <1>12, <1>13, <2>1 DEF Telling
<1>14. ASSUME NEW G \in SUBSET CR, NEW J \in SUBSET CR, Naming(G, J) PROVE Naming(G, J)'
  BY <1>4, <1>5, <1>7, <1>8, <1>12, <1>14 DEF Naming
<1>15. ASSUME NEW G \in SUBSET CR, NEW J \in SUBSET CR, Moving(G, J) PROVE Moving(G, J)'
  <2>1. \A d \in CR : \A s \in AddTags(d)' :
          s \in DOMAIN accept_info' /\ Leads(accept_info[s].main, J)'
    BY <1>4, <1>6, <1>15 DEF Moving, Leads, S!Registered
  <2>2. (\E d \in CR : Holds(d)') <=> \E d \in CR : Holds(d)
    BY <1>4
  <2>3. /\ pending_shutdowns' = (G \ J) \cap running_crs'
        /\ \A d \in G \cap J : Moves(d, G, J)' \/ (d # Root(G) /\ LearnsName(d, G, J)')
        /\ \A d \in G \ J : Leaves(d)' \/ Resting(d)'
        /\ \A d \in J \ G : IF \E e \in CR : Holds(e) THEN Resting(d)' ELSE Joins(d, J)'
        /\ \A d \in CR \ (G \cup J) : Resting(d)'
        /\ \A d \in J : TrueAnswers(d, J)'
    BY <1>6, <1>7, <1>15 DEF Moving
  <2>. QED
    BY <1>12, <1>15, <2>1, <2>2, <2>3 DEF Moving
<1>16. Together'
  <2>1. PICK G \in SUBSET CR :
          \/ Working(G) \/ Searching(G)
          \/ \E J \in SUBSET CR : Telling(G, J) \/ Naming(G, J) \/ Moving(G, J)
    BY DEF AllInv, AppInv, Together
  <2>2. \/ Working(G)' \/ Searching(G)'
        \/ \E J \in SUBSET CR : Telling(G, J)' \/ Naming(G, J)' \/ Moving(G, J)'
    BY <1>10, <1>11, <1>13, <1>14, <1>15, <2>1
  <2>. QED
    BY <2>2 DEF Together
<1>17. WorldRuns' /\ AppTypeOK' /\ OneHolder'
  BY <1>1, <1>4, <1>6, HolderStep DEF AllInv, AppInv, AppTypeOK, WorldRuns, S!Registered
<1>18. \A d \in CR : d # c => inbox'[d] = inbox[d] /\ requests'[d] = requests[d]
                              /\ AddTags(d)' = AddTags(d)
  BY <1>1, <1>2, <1>4
<1>. QED
  BY <1>1, <1>2, <1>3, <1>16, <1>17, <1>18, StepEnds

\* The processes K are started by the change t.
Starts(t, K) ==
  /\ \A d \in K : d \notin running_crs /\ process_states'[d].origin_rc_tag = t
  /\ \A d \in CR \ K : process_states'[d].origin_rc_tag = process_states[d].origin_rc_tag
  /\ running_crs' = running_crs \cup K
  /\ sent' = S!StartCommands(K)
  /\ UNCHANGED <<pending_shutdowns, pset_name_map, fault>>

\* That is what accepting a change of processes at rest does.
LEMMA AddEffect ==
  ASSUME AllInv, NEW t, S!AcceptAdd(t), NEW K \in SUBSET CR, rc_map[t].pset = K,
         \A d \in K : Resting(d)
  PROVE  Starts(t, K)
<1>1. \A d \in K : d \notin running_crs /\ ~process_states[d].active
  BY RestingInbox DEF Resting
<1>2. /\ process_states' = S!Started(process_states, K, pset_name_map, TRUE, t)
      /\ running_crs' = running_crs \cup K
      /\ sent' = S!StartCommands(K)
      /\ UNCHANGED <<pending_shutdowns, pset_name_map, fault>>
  BY <1>1 DEF S!AcceptAdd, S!psetVars
<1>3. \A d \in K : process_states'[d].origin_rc_tag = t
  BY <1>2, RankAssumption DEF S!Started
<1>4. \A d \in CR \ K : process_states'[d].origin_rc_tag = process_states[d].origin_rc_tag
  BY <1>2, RankAssumption DEF S!Started
<1>. QED
  BY <1>1, <1>2, <1>3, <1>4 DEF Starts

\* A change with which others join.
LEMMA AddMoving ==
  ASSUME AllInv, NEW c \in CR, NEW i, Serves(c, i), requests[c][i].tag = "RC_ACCEPT",
         NEW t, t \in AddTags(c), \A d \in CR : ~Holds(d)' /\ AddTags(d)' = {},
         NEW G \in SUBSET CR, NEW J \in SUBSET CR, Moving(G, J), Way(G, J) = "add",
         Starts(t, J \ G)
  PROVE  Moving(G, J)'
<1>. DEFINE K == J \ G
<1>1. /\ UNCHANGED <<app, bcasts, program, accept_info>>
      /\ \A d \in CR : d # c => (Done(d)' <=> Done(d))
      /\ \A d \in CR : inbox'[d] = inbox[d] \cup {m \in sent' : m.to = d}
  BY ServeEffect
<1>2. Holds(c) /\ c \in G
  BY DEF Moving, RootHolds, Holds, TagsHeld
<1>3. \A n, L : Leads(n, L)' <=> Leads(n, L)
  BY DEF Starts, Leads, S!Registered, S!NoName
<1>4. G \subseteq J
  BY DEF Moving, IsWay, Way
<1>5. \A d \in K : Resting(d)
  BY <1>2 DEF Moving
<1>6. IsWay(G, J) /\ pending_shutdowns' = (G \ J) \cap running_crs'
  BY <1>4 DEF Moving, Starts
<1>7. RootHolds(G, J)'
  BY DEF RootHolds
<1>8. \A d \in CR : \A s \in AddTags(d)' :
        s \in DOMAIN accept_info' /\ Leads(accept_info[s].main, J)'
  OBVIOUS
<1>9. \A d \in CR : d \in running_crs => d \in running_crs'
  BY DEF Starts
<1>10. \A d \in G \cap J : Moves(d, G, J)' \/ (d # Root(G) /\ LearnsName(d, G, J)')
  <2>1. \A d \in CR : Moves(d, G, J) => Moves(d, G, J)'
    BY <1>1, <1>3, <1>9 DEF Moves, Works, Silent
  <2>2. \A d \in CR : LearnsName(d, G, J) => LearnsName(d, G, J)'
    BY <1>1, <1>3, <1>9 DEF LearnsName, Works
  <2>. QED
    BY <2>1, <2>2 DEF Moving
<1>11. \A d \in G \ J : Leaves(d)' \/ Resting(d)'
  BY <1>4
<1>12. \A d \in CR \ (G \cup J) : Resting(d)'
  BY <1>1 DEF Moving, Resting, Silent, Starts
<1>13. ASSUME NEW d \in K PROVE Joins(d, J)'
  <2>1. Resting(d) /\ ~Done(d) /\ d # c /\ d \in CR
    BY <1>2, <1>5, <1>13, RestingInbox
  <2>2. Works(d, {})' /\ Silent(d)' /\ ~Done(d)' /\ app'[d].at = "off"
    BY <1>1, <2>1, <1>13 DEF Resting, Off, Works, Silent, Starts
  <2>3. process_states'[d].origin_rc_tag = t
    BY <1>13 DEF Starts
  <2>4. t \in DOMAIN accept_info /\ Leads(accept_info[t].main, J)
    BY <1>2 DEF Moving
  <2>5. PICK name : name = accept_info[t].main
    OBVIOUS
  <2>6. t \in DOMAIN accept_info' /\ accept_info'[t].main = name /\ Leads(name, J)'
    BY <1>1, <1>3, <2>4, <2>5
  <2>7. S!World \in S!Registered' => d \notin pset_name_map'[S!World]
    <3>1. d \notin running_crs
      BY <1>13 DEF Starts
    <3>. QED
      BY <3>1 DEF AllInv, AppInv, WorldRuns, Starts, S!Registered
  <2>. QED
    BY <2>2, <2>3, <2>6, <2>7 DEF Joins, Leads
<1>14. \A d \in J \ G : IF \E e \in CR : Holds(e)' THEN Resting(d)' ELSE Joins(d, J)'
  BY <1>2, <1>13
<1>15. \A m \in sent' : m.tag = "IDLE_COMMAND" /\ m.to \in K
  BY DEF Starts, S!StartCommands, S!Command
<1>16. ASSUME NEW d \in J PROVE TrueAnswers(d, J)'
  <2>1. CASE d \in K
    <3>1. \A m \in inbox[d] : m.tag = "IDLE_COMMAND"
      BY <1>5, <2>1, RestingInbox
    <3>2. \A m \in inbox'[d] : m.tag = "IDLE_COMMAND"
      BY <1>1, <1>15, <3>1
    <3>. QED
      BY <3>2 DEF TrueAnswers
  <2>2. CASE d \notin K
    <3>1. {m \in sent' : m.to = d} = {}
      BY <1>15, <2>2
    <3>2. inbox'[d] = inbox[d] /\ app'[d] = app[d]
      BY <1>1, <3>1
    <3>3. process_states'[d].origin_rc_tag = process_states[d].origin_rc_tag
      BY <2>2 DEF Starts
    <3>4. TrueAnswers(d, J)
      BY DEF Moving
    <3>. QED
      BY ONLY <1>3, <3>2, <3>3, <3>4 DEF TrueAnswers
  <2>. QED
    BY <2>1, <2>2
<1>. QED
  BY <1>6, <1>7, <1>8, <1>10, <1>11, <1>12, <1>14, <1>16 DEF Moving

\* The processes of the change are started.
LEMMA ServeAcceptAdd ==
  ASSUME AllInv, NEW c \in CR, NEW i, Serves(c, i), requests[c][i].tag = "RC_ACCEPT",
         NEW t, t = requests[c][i].rc_tag, S!AcceptAdd(t)
  PROVE  AppInv' /\ fault' = "none"
<1>1. /\ UNCHANGED <<pc, offered, app, bcasts, program, accept_info>>
      /\ \A d \in CR : d # c => requests'[d] = requests[d]
      /\ \A d \in CR : inbox'[d] = inbox[d] \cup {m \in sent' : m.to = d}
  BY ServeEffect
<1>2. rc_map[t].rc_type = "add" /\ t \in AcceptTags(c)
  BY ServeAccepts DEF S!AcceptAdd
<1>3. t \in AddTags(c) /\ t \in TagsHeld(c) /\ Holds(c) /\ ~Stands(t, "sub")
  BY <1>2 DEF AddTags, TagsHeld, Holds, Stands
<1>4. PICK G \in SUBSET CR, J \in SUBSET CR : Moving(G, J)
  <2>1. \A G \in SUBSET CR : ~Around(G)
    BY <1>3 DEF Around
  <2>2. \A G, J \in SUBSET CR : ~Telling(G, J)
    BY <1>3 DEF Telling
  <2>3. app[c].at \in {"lookup", "join"}
    BY <1>3, PlaceIs DEF InStep
  <2>4. \A G, J \in SUBSET CR : ~Naming(G, J)
    BY <1>3, <2>3 DEF Naming, RootHolds
  <2>. QED
    BY <2>1, <2>2, <2>4 DEF AllInv, AppInv, Together, Working, Searching
<1>5. Way(G, J) = "add" /\ rc_map[t].pset = Changed(G, J) /\ c \in G
  BY <1>2, <1>3, <1>4 DEF Moving, RootHolds, StandsFor, Stands
<1>6. Changed(G, J) = J \ G
  BY <1>4, <1>5 DEF Moving, IsWay, Way, Changed
<1>7. \A d \in J \ G : Resting(d)
  BY <1>3, <1>4 DEF Moving
<1>8. Starts(t, J \ G)
  BY <1>5, <1>6, <1>7, AddEffect
<1>9. \A d \in CR : AddTags(d)' = {} /\ ~Holds(d)'
  <2>1. rc_map' = [s \in DOMAIN rc_map \ {t} |-> rc_map[s]]
    BY <1>7, <1>8, <1>5, <1>6, RestingInbox DEF S!AcceptAdd, Resting, Starts, S!Abort
  <2>2. \A d \in CR : AddTags(d)' = AddTags(d) \ {t} /\ TagsHeld(d)' = TagsHeld(d) \ {t}
    BY <2>1, AcceptServed
  <2>3. \A d \in CR : TagsHeld(d) \subseteq {t} /\ AddTags(d) \subseteq {t}
    BY <1>3 DEF AllInv, AppInv, OneHolder, TagsHeld
  <2>. QED
    BY <2>2, <2>3 DEF Holds
<1>10. Moving(G, J)'
  BY <1>3, <1>4, <1>5, <1>8, <1>9, AddMoving
<1>11. Together'
  BY <1>10 DEF Together
<1>12. \A m \in sent' : m.to \in J \ G
  BY <1>8 DEF Starts, S!StartCommands, S!Command
<1>13. ASSUME NEW d \in CR PROVE InStep(d)'
  <2>1. ASSUME d = c PROVE InStep(c)'
    <3>1. {m \in sent' : m.to = c} = {}
      BY <1>5, <1>12
    <3>2. \A s \in DOMAIN rc_map \ {t} : s \in DOMAIN rc_map' /\ rc_map'[s] = rc_map[s]
      BY <1>7, <1>8, <1>5, <1>6, RestingInbox DEF S!AcceptAdd, Resting, Starts, S!Abort
    <3>3. inbox'[c] = inbox[c]
      BY <1>1, <3>1
    <3>. QED
      BY <3>2, <3>3, AcceptServed
  <2>2. ASSUME d # c, d \in J \ G PROVE InStep(d)'
    <3>1. app[d] = Off /\ InStep(d)
      BY <1>7, <2>2, PlaceIs DEF Resting
    <3>2. app[d].at = "off"
      BY <3>1 DEF Off
    <3>. QED
      BY <1>1, <1>9, <2>2, <3>1, <3>2 DEF InStep
  <2>3. ASSUME d # c, d \notin J \ G PROVE InStep(d)'
    <3>1. {m \in sent' : m.to = d} = {}
      BY <1>12, <2>3
    <3>2. inbox'[d] = inbox[d]
      BY <1>1, <3>1
    <3>. QED
      BY <1>1, <1>9, <2>3, <3>2, PlaceIs, InStepSame
  <2>. QED
    BY <2>1, <2>2, <2>3
<1>14. WorldRuns' /\ AppTypeOK' /\ OneHolder' /\ fault' = "none"
  BY <1>1, <1>8, <1>9
     DEF AllInv, AppInv, AppTypeOK, WorldRuns, OneHolder, Holds, S!Registered, Starts
<1>. QED
  BY <1>11, <1>13, <1>14 DEF AppInv

\* The accept is of a change that stands: one abort of the handler can be reached, that of
\* an accept while no change is pending.
LEMMA ServeAccept ==
  ASSUME AllInv, NEW c \in CR, NEW i, Serves(c, i), requests[c][i].tag = "RC_ACCEPT"
  PROVE  \/ AppInv' /\ fault' = "none" /\ pending_resource_change
         \/ /\ fault' = "no_pending_change" /\ ~pending_resource_change
            /\ UNCHANGED <<app, offered, program, running_crs, pending_shutdowns, pset_name_map>>
<1>1. PICK t : t = requests[c][i].rc_tag
  OBVIOUS
<1>2. /\ S!HandleRCAccept(t) /\ UNCHANGED <<app, offered, program>> /\ fault = "none"
  BY <1>1, ServeEffect DEF Dispatch
<1>3. t \in DOMAIN rc_map
  BY <1>1, ServeAccepts
<1>4. CASE ~pending_resource_change
  BY <1>2, <1>4 DEF S!HandleRCAccept, S!Abort, S!crVars, S!psetVars
<1>5. CASE pending_resource_change
  <2>1. S!AcceptAdd(t) \/ S!AcceptSub(t)
    BY <1>2, <1>3, <1>5 DEF S!HandleRCAccept
  <2>2. CASE S!AcceptAdd(t)
    BY <1>1, <1>5, <2>2, ServeAcceptAdd
  <2>3. CASE S!AcceptSub(t)
    <3>1. AppInv'
      BY <1>1, <2>3, ServeAcceptSub
    <3>2. fault' = "none"
      BY <1>2, <2>3 DEF S!AcceptSub
    <3>. QED
      BY <1>5, <3>1, <3>2
  <2>. QED
    BY <1>5, <2>1, <2>2, <2>3
<1>. QED
  BY <1>4, <1>5

\* What is served, if it is not an accept.
LEMMA ServedTags ==
  ASSUME AllInv, NEW c \in CR, NEW i, Serves(c, i)
  PROVE  requests[c][i].tag \in {"SESSION_CREATE", "SESSION_INFO", "SESSION_FINALIZE",
           "PSET_LOOKUP", "GET_PSETS", "RC", "PSET_OP", "DONE_RUNNING", "RC_ACCEPT"}
<1>1. requests[c][i].tag # "RC_ACCEPT" =>
        \/ requests[c][i].tag = "DONE_RUNNING"
        \/ app[c].at \in DOMAIN AskedAt /\ requests[c][i].tag = AskedAt[app[c].at]
  BY AnswerEffect
<1>. QED
  BY <1>1 DEF AskedAt

\* Whatever else the scheduler serves, the invariant is kept.
LEMMA ServeStep ==
  ASSUME AllInv, NEW c \in CR, NEW i, Serves(c, i), requests[c][i].tag # "RC_ACCEPT"
  PROVE  AppInv' /\ fault' = fault
BY ServedTags, ServeSession, ServeLookup, ServePsets, ServeRC, ServeOp, ServeDone

-----------------------------------------------------------------------------
(***************************************************************************)
(* Offers and accepts come in order: every change is accepted once, and as *)
(* long as no accept was overtaken one change is open at a time.           *)
(***************************************************************************)
\* c does not accept a change twice.
Once(c) == \A i, j \in Accepts(c) : requests[c][i].rc_tag = requests[c][j].rc_tag => i = j

\* What is known of the accepts that are underway.
LEMMA OrderHolds ==
  ASSUME AllInv, NEW c \in CR
  PROVE  /\ Once(c) /\ AcceptTags(c) \subseteq DOMAIN rc_map
         /\ \A d \in CR : /\ AcceptTags(c) \cap Offered(d) = {}
                          /\ c # d => AcceptTags(c) \cap AcceptTags(d) = {}
BY DEF AllInv, AcceptOrder, AcceptsOnce, Once, AcceptTags

\* What is to show of them.
LEMMA OrderEnds ==
  ASSUME \A c \in CR : Once(c)' /\ AcceptTags(c)' \subseteq DOMAIN rc_map',
         \A c, d \in CR : AcceptTags(c)' \cap Offered(d)' = {},
         \A c, d \in CR : c # d => AcceptTags(c)' \cap AcceptTags(d)' = {},
         ~overtaken' => InTime'
  PROVE  AcceptOrder'
<1>1. ASSUME NEW c \in CR, NEW d \in CR, NEW i \in Accepts(c)'
      PROVE  LET t == requests'[c][i].rc_tag IN
             /\ t \in DOMAIN rc_map' /\ t \notin Offered(d)'
             /\ \A j \in Accepts(d)' : requests'[d][j].rc_tag = t => c = d /\ i = j
  <2>. DEFINE t == requests'[c][i].rc_tag
  <2>1. t \in AcceptTags(c)'
    BY <1>1 DEF AcceptTags
  <2>2. ASSUME NEW j \in Accepts(d)', requests'[d][j].rc_tag = t PROVE c = d /\ i = j
    <3>1. t \in AcceptTags(d)'
      BY <2>2 DEF AcceptTags
    <3>2. c = d
      BY <2>1, <3>1
    <3>. QED
      BY <1>1, <2>2, <3>2 DEF Once
  <2>. QED
    BY <2>1, <2>2
<1>. QED
  BY <1>1 DEF AcceptOrder, AcceptsOnce

\* Nothing is offered or accepted.
LEMMA OrderKept ==
  ASSUME AllInv, overtaken => overtaken',
         \A d \in CR :
           /\ Once(d)' /\ AcceptTags(d)' \subseteq DOMAIN rc_map'
           /\ Offered(d)' \subseteq Offered(d) /\ AcceptTags(d)' \subseteq AcceptTags(d),
         \/ overtaken
         \/ pending_resource_change => pending_resource_change'
         \/ \A d \in CR : Open(d)' = {}
  PROVE  AcceptOrder'
<1>1. \A c, d \in CR : /\ AcceptTags(c)' \cap Offered(d)' = {}
                       /\ c # d => AcceptTags(c)' \cap AcceptTags(d)' = {}
  BY OrderHolds
<1>2. \A d \in CR : Open(d)' \subseteq Open(d)
  BY DEF Open
<1>3. ~overtaken' => InTime'
  <2>1. ASSUME ~overtaken' PROVE InTime
    BY <2>1 DEF AllInv, AcceptOrder
  <2>. QED
    BY <1>2, <2>1 DEF InTime
<1>. QED
  BY <1>1, <1>3, OrderEnds

\* What is still offered.
LEMMA StillOffered ==
  ASSUME NEW d, offered'[d] \subseteq offered[d],
         \A m \in inbox'[d] : m \in inbox[d] \/ m.tag # "RC_ANSWER" \/ m.type = "none"
  PROVE  Offered(d)' \subseteq Offered(d)
BY DEF Offered

\* No request is sent or handled.
LEMMA OrderSame ==
  ASSUME AllInv, UNCHANGED <<requests, rc_map, pending_resource_change, overtaken>>,
         \A d \in CR : Offered(d)' \subseteq Offered(d)
  PROVE  AcceptOrder'
<1>1. ASSUME NEW d \in CR
      PROVE  Once(d)' /\ AcceptTags(d)' = AcceptTags(d) /\ AcceptTags(d)' \subseteq DOMAIN rc_map'
  BY OrderHolds DEF Once, AcceptTags, Accepts
<1>. QED
  BY <1>1, OrderKept

\* A process accepts nothing but what is offered to it.
LEMMA OrderSent ==
  ASSUME AllInv, NEW c \in CR, NEW r \in RequestMessage, NEW until, Send(c, r, until),
         overtaken' = overtaken, \A d \in CR : offered'[d] \subseteq offered[d],
         r.tag = "RC_ACCEPT" =>
           /\ r.rc_tag \in offered[c] \ offered'[c] /\ r.rc_tag \in DOMAIN rc_map
           /\ inbox[c] = {} /\ \A d \in CR \ {c} : r.rc_tag \notin Offered(d)
  PROVE  AcceptOrder'
<1>1. /\ UNCHANGED <<schedulerVars, inbox>> /\ requests[c] \in Seq(RequestMessage)
      /\ requests'[c] = Append(requests[c], r)
      /\ \A d \in CR : d # c => requests'[d] = requests[d]
  BY DEF Send, AllInv, SimInv, TypeOK
<1>2. UNCHANGED <<rc_map, pending_resource_change>>
  BY <1>1 DEF schedulerVars
<1>3. \A d \in CR : Offered(d)' \subseteq Offered(d)
  BY <1>1, StillOffered
<1>4. \A d \in CR : d # c => Once(d)' /\ AcceptTags(d)' = AcceptTags(d)
  BY <1>1, QueueSame, OrderHolds DEF Once
<1>5. CASE r.tag # "RC_ACCEPT"
  <2>1. /\ Accepts(c)' = Accepts(c) /\ AcceptTags(c)' = AcceptTags(c)
        /\ \A i \in Accepts(c) : requests'[c][i] = requests[c][i]
    BY <1>1, <1>5, AppendTags DEF Accepts
  <2>2. Once(c)'
    BY <2>1, OrderHolds DEF Once
  <2>. QED
    BY <1>2, <1>3, <1>4, <2>1, <2>2, OrderHolds, OrderKept
<1>6. CASE r.tag = "RC_ACCEPT"
  <2>1. PICK t : t = r.rc_tag
    OBVIOUS
  <2>2. t \in offered[c] /\ t \notin offered'[c] /\ t \in DOMAIN rc_map
    BY <1>6, <2>1
  <2>3. AcceptTags(c)' = AcceptTags(c) \cup {t}
    BY <1>1, <1>6, <2>1, AppendTags
  <2>4. t \in Offered(c) /\ t \notin Offered(c)'
    BY <1>1, <1>6, <2>2 DEF Offered
  <2>5. \A d \in CR : t \notin AcceptTags(d)
    BY <2>4, OrderHolds
  <2>6. Once(c)'
    <3>1. ASSUME NEW i \in Accepts(c)', NEW j \in Accepts(c)',
                 requests'[c][i].rc_tag = requests'[c][j].rc_tag
          PROVE  i = j
      <4>1. /\ \A k \in DOMAIN requests[c] : requests'[c][k] = requests[c][k]
            /\ \A k \in DOMAIN requests'[c] : k \in DOMAIN requests[c] \/ requests'[c][k] = r
            /\ \A k, l \in DOMAIN requests'[c] :
                 k \notin DOMAIN requests[c] /\ l \notin DOMAIN requests[c] => k = l
        BY <1>1, AppendTags
      <4>2. i \in DOMAIN requests'[c] /\ j \in DOMAIN requests'[c]
        BY <3>1 DEF Accepts
      <4>3. \A k \in Accepts(c)' : k \in DOMAIN requests[c] =>
              k \in Accepts(c) /\ requests'[c][k].rc_tag \in AcceptTags(c)
        BY <4>1 DEF Accepts, AcceptTags
      <4>4. t \notin AcceptTags(c)
        BY <2>5
      <4>5. Once(c)
        BY OrderHolds
      <4>. QED
        BY <2>1, <3>1, <4>1, <4>2, <4>3, <4>4, <4>5 DEF Once
    <3>. QED
      BY <3>1 DEF Once
  <2>7. \A d \in CR : AcceptTags(d)' \subseteq DOMAIN rc_map'
    BY <1>2, <1>4, <2>2, <2>3, OrderHolds
  <2>8. ASSUME NEW d \in CR, d # c PROVE t \notin Offered(d)
    BY <1>6, <2>1, <2>8
  <2>9. \A d, e \in CR : AcceptTags(d)' \cap Offered(e)' = {}
    BY <1>3, <1>4, <2>3, <2>4, <2>8, OrderHolds
  <2>10. \A d, e \in CR : d # e => AcceptTags(d)' \cap AcceptTags(e)' = {}
    BY <1>4, <2>3, <2>5, OrderHolds
  <2>11. ~overtaken' => InTime'
    <3>1. \A d \in CR : Open(d)' \subseteq Open(d)
      BY <1>3, <1>4, <2>3, <2>4 DEF Open
    <3>. QED
      BY <1>2, <3>1 DEF AllInv, AcceptOrder, InTime
  <2>. QED
    BY <1>4, <2>6, <2>7, <2>9, <2>10, <2>11, OrderEnds
<1>. QED
  BY <1>5, <1>6

\* A change that is told was offered to the root, and nobody holds one.
LEMMA ToldAlone ==
  ASSUME AllInv, NEW c \in CR, NEW m \in inbox[c], m.tag = "RC_ANSWER", m.type # "none"
  PROVE  /\ app[c].at = "get_change" /\ inbox[c] = {m} /\ \A d \in CR : ~Holds(d)
         /\ \A G : c \in G /\ c = Root(G) => ~Searching(G)
<1>1. pc[c] = "RC_ANSWER" /\ inbox[c] = {m}
  <2>1. m.tag # "IDLE_COMMAND" /\ inbox[c] # {}
    OBVIOUS
  <2>2. Answered(c) \/ LookupAnswered(c) \/ SelfAnswered(c)
    BY <2>1, PlaceIs DEF Place, AtRest, ToStart, InProgram, Asking, Unanswerable, Leaving, ToQuit,
       HasQuit, S!Command
  <2>. QED
    BY <2>2 DEF Answered, LookupAnswered, SelfAnswered
<1>2. app[c].at = "get_change"
  <2>1. app[c].at \in DOMAIN AskedAt /\ pc[c] = Awaits[AskedAt[app[c].at]]
    BY <1>1, PlaceIs DEF InStep, AnswerTag
  <2>. QED
    BY <1>1, <2>1, AnswersAt
<1>3. \A G : c \in G /\ c = Root(G) => ~Searching(G)
  BY DEF Searching
<1>4. \A d \in CR : ~Holds(d)
  BY <1>2, <1>3, AskerPlace DEF Telling
<1>. QED
  BY <1>1, <1>2, <1>3, <1>4

\* What is held stands.
LEMMA HeldStands ==
  ASSUME AllInv, NEW c \in CR, NEW t \in TagsHeld(c)
  PROVE  t \in DOMAIN rc_map
<1>1. Holds(c)
  BY DEF Holds
<1>2. PICK G \in SUBSET CR :
        \/ Working(G) \/ Searching(G)
        \/ \E J \in SUBSET CR : Telling(G, J) \/ Naming(G, J) \/ Moving(G, J)
  BY DEF AllInv, AppInv, Together
<1>3. Around(G) => t \in DOMAIN rc_map
  BY <1>1 DEF Around, Stands
<1>4. \A J : RootHolds(G, J) => t \in DOMAIN rc_map
  BY <1>1 DEF RootHolds, StandsFor, Stands
<1>5. \A J : ~Telling(G, J)
  BY <1>1 DEF Telling
<1>. QED
  BY <1>2, <1>3, <1>4, <1>5 DEF Working, Searching, Naming, Moving

\* Processes keep the order.
LEMMA ProcessOrder ==
  ASSUME AllInv, NEW c \in CR, Process(c)
  PROVE  AcceptOrder'
<1>1. overtaken' = overtaken
  BY DEF Process
<1>2. CASE Ask(c)
  <2>1. PICK r \in RequestMessage :
          /\ Asked(c, r, Awaits[r.tag]) /\ r.tag = AskedAt[app[c].at]
          /\ app[c].at \in DOMAIN AskedAt /\ offered' = offered
    BY <1>2, AskSends
  <2>2. Send(c, r, Awaits[r.tag]) /\ r.tag # "RC_ACCEPT"
    BY <2>1 DEF Asked, AskedAt
  <2>. QED
    BY <1>1, <2>1, <2>2, OrderSent
<1>3. CASE Hear(c)
  <2>1. PICK m \in inbox[c] : Hears(c, m)
    BY <1>3, HearIs
  <2>2. /\ UNCHANGED <<requests, schedulerVars>> /\ inbox'[c] = inbox[c] \ {m}
        /\ \A d \in CR : d # c => inbox'[d] = inbox[d] /\ offered'[d] = offered[d]
    BY <2>1, HearEffect
  <2>3. offered' = IF m.tag = "RC_ANSWER" /\ m.type # "none"
                   THEN [offered EXCEPT ![c] = @ \cup {m.rc_tag}] ELSE offered
    BY <2>1 DEF Hears, Take
  <2>4. offered'[c] \subseteq Offered(c) /\ offered[c] \subseteq Offered(c)
    BY <2>3 DEF Offered, AllInv, SimInv, TypeOK
  <2>5. Offered(c)' \subseteq Offered(c)
    BY <2>2, <2>4 DEF Offered
  <2>6. \A d \in CR : Offered(d)' \subseteq Offered(d)
    BY <2>2, <2>5 DEF Offered
  <2>. QED
    BY <1>1, <2>2, <2>6, OrderSame DEF schedulerVars
<1>4. CASE HearBcast(c)
  BY <1>1, <1>4, OrderSame, StillOffered DEF HearBcast, allVars, schedulerVars, workerVars
<1>5. CASE Accept(c)
  <2>. DEFINE r == [tag |-> "RC_ACCEPT", rc_tag |-> app[c].rc.tag]
  <2>1. /\ r \in RequestMessage /\ Send(c, r, "main") /\ r.rc_tag \in offered[c]
        /\ offered' = [offered EXCEPT ![c] = @ \ {r.rc_tag}] /\ r.tag = "RC_ACCEPT"
    BY <1>5, AcceptSends DEF Asked
  <2>2. offered \in [CR -> SUBSET (0 .. MaxRcTag + 1)] /\ inbox[c] = {}
    BY <1>5, AcceptEffect DEF AllInv, SimInv, TypeOK
  <2>. HIDE DEF r
  <2>3. r.rc_tag \in TagsHeld(c) /\ Holds(c)
    BY <2>1 DEF TagsHeld, Holds
  <2>4. r.rc_tag \in DOMAIN rc_map
    BY <2>3, HeldStands
  <2>5. ASSUME NEW d \in CR \ {c} PROVE r.rc_tag \notin Offered(d)
    <3>1. r.rc_tag \notin offered[d]
      BY <2>3, <2>5 DEF AllInv, AppInv, OneHolder, TagsHeld
    <3>2. \A m \in inbox[d] : ~(m.tag = "RC_ANSWER" /\ m.type # "none")
      BY <2>3, ToldAlone
    <3>. QED
      BY <3>1, <3>2 DEF Offered
  <2>6. r.rc_tag \notin offered'[c] /\ \A d \in CR : offered'[d] \subseteq offered[d]
    BY <2>1, <2>2
  <2>. QED
    BY <1>1, <2>1, <2>2, <2>4, <2>5, <2>6, OrderSent
<1>6. CASE Leave(c)
  <2>. DEFINE r == [tag |-> "DONE_RUNNING"]
  <2>1. /\ Send(c, r, Idle) /\ offered' = [offered EXCEPT ![c] = {}]
        /\ r \in RequestMessage /\ r.tag # "RC_ACCEPT"
    BY <1>6 DEF Leave, Exit, RequestMessage
  <2>2. \A d \in CR : offered'[d] \subseteq offered[d]
    BY <2>1 DEF AllInv, SimInv, TypeOK
  <2>. HIDE DEF r
  <2>. QED
    BY <1>1, <2>1, <2>2, OrderSent
<1>. QED
  BY <1>2, <1>3, <1>4, <1>5, <1>6 DEF Process

\* Rank 0 takes the accepts of a process one by one.
LEMMA ServeOnce ==
  ASSUME AllInv, NEW c \in CR, NEW i, Serves(c, i), NEW d \in CR
  PROVE  Once(d)'
<1>1. CASE d # c
  <2>1. requests'[d] = requests[d]
    BY <1>1, ServeEffect
  <2>. QED
    BY <2>1, QueueSame, OrderHolds DEF Once
<1>2. CASE d = c
  <2>1. ASSUME NEW j \in Accepts(c)', NEW l \in Accepts(c)',
               requests'[c][j].rc_tag = requests'[c][l].rc_tag
        PROVE  j = l
    <3>. DEFINE From(n) == IF n < i THEN n ELSE n + 1
    <3>1. \A n \in Accepts(c)' :
            /\ n \in Nat /\ i \in Nat
            /\ From(n) \in Accepts(c) /\ requests'[c][n] = requests[c][From(n)]
      BY ServeEffect DEF Accepts
    <3>2. From(j) = From(l)
      BY <2>1, <3>1, OrderHolds DEF Once
    <3>. QED
      BY <2>1, <3>1, <3>2
  <2>. QED
    BY <1>2, <2>1 DEF Once
<1>. QED
  BY <1>1, <1>2

\* Nothing but a request for a change or its accept touches the changes on offer.
LEMMA ServeQuiet ==
  ASSUME AllInv, NEW c \in CR, NEW i, Serves(c, i), requests[c][i].tag \notin {"RC", "RC_ACCEPT"},
         fault' = "none"
  PROVE  UNCHANGED <<rc_map, pending_resource_change>> /\ \A m \in sent' : m.tag # "RC_ANSWER"
<1>1. Dispatch(c, requests[c][i])
  BY ServeEffect
<1>2. CASE requests[c][i].tag \in {"DONE_RUNNING", "SESSION_CREATE", "SESSION_INFO",
                                   "SESSION_FINALIZE", "GET_PSETS"}
  BY <1>1, <1>2 DEF Dispatch, S!HandleWorkerDone, S!HandleSessionCreate, S!HandleSessionInfo,
     S!HandleSessionFinalize, S!HandleGetPsets, S!Abort, S!rcVars, S!SessionCreateAnswer,
     S!SessionInfoAnswer, S!SessionFinalizeAnswer, S!GetPsetsAnswer
<1>3. CASE requests[c][i].tag = "PSET_LOOKUP"
  BY <1>1, <1>3 DEF Dispatch, S!HandlePsetLookup, S!rcVars, S!LookupAnswer, S!LookupAnswerSize
<1>4. CASE requests[c][i].tag = "PSET_OP"
  BY <1>1, <1>4 DEF Dispatch, S!HandlePsetOp, S!Abort, S!rcVars, S!PsetOpAnswer
<1>. QED
  BY <1>2, <1>3, <1>4, ServedTags

\* When a change is asked for, none is on offer.
LEMMA NoneOffered ==
  ASSUME AllInv, NEW c \in CR, NEW G \in SUBSET CR, c \in G, c = Root(G), Searching(G),
         inbox[c] = {}, pending_shutdowns = {}, NEW d \in CR
  PROVE  Offered(d) = {}
<1>1. ~Holds(d)
  BY DEF Searching, Around
<1>2. ASSUME NEW m \in inbox[d], m.tag = "RC_ANSWER", m.type # "none" PROVE FALSE
  <2>1. app[d].at = "get_change" /\ d # c
    BY <1>2, ToldAlone
  <2>2. d \notin G
    BY <2>1 DEF Searching
  <2>3. ~Resting(d) /\ ~Leaves(d)
    BY <2>1 DEF Resting, Leaves, Off
  <2>. QED
    BY <2>2, <2>3 DEF Searching, Around
<1>. QED
  BY <1>1, <1>2 DEF Offered, Holds, TagsHeld

\* A request for a change leaves the order as it is, unless it overtakes an accept.
LEMMA ServeRCOrder ==
  ASSUME AllInv, NEW c \in CR, NEW i, Serves(c, i), requests[c][i].tag = "RC",
         overtaken' = (overtaken \/ InFlight("RC_ACCEPT"))
  PROVE  AcceptOrder'
<1>1. /\ S!HandleRC(c) /\ offered' = offered /\ inbox[c] = {}
      /\ \A d \in CR : inbox'[d] = inbox[d] \cup {m \in sent' : m.to = d}
      /\ \A d \in CR : AcceptTags(d)' = AcceptTags(d) /\ Once(d)'
  BY ServeEffect, ServeAccepts, ServeOnce, AnswerEffect DEF Dispatch
<1>2. CASE S!RefuseRC(c)
  <2>1. /\ rc_map' = rc_map /\ pending_resource_change' = TRUE
        /\ \A m \in sent' : m.type = "none"
    BY <1>2 DEF S!RefuseRC, S!RcAnswer
  <2>2. \A d \in CR : Offered(d)' \subseteq Offered(d)
    BY <1>1, <2>1, StillOffered
  <2>. QED
    BY <1>1, <2>1, <2>2, OrderHolds, OrderKept
<1>3. CASE ~S!RefuseRC(c)
  <2>1. PICK G \in SUBSET CR : c \in G /\ c = Root(G) /\ Searching(G)
    BY SearcherPlace
  <2>2. running_crs = G
    <3>1. running_crs \subseteq CR
      BY DEF AllInv, SP!TypeOK
    <3>2. G \subseteq running_crs
      BY <2>1 DEF Searching, Works
    <3>3. \A d \in CR \ G : d \in pending_shutdowns \/ d \notin running_crs
      BY <2>1 DEF Searching, Around, Resting
    <3>4. pending_shutdowns = {}
      BY <1>1, <1>3 DEF S!HandleRC
    <3>. QED
      BY <3>1, <3>2, <3>3, <3>4
  <2>3. pending_shutdowns = {} /\ \E t, n, P, type : Offers(c, G, t, n, P, type)
    BY <1>1, <1>3, <2>2, OfferEffect DEF S!HandleRC
  <2>4. PICK t, n, P, type : Offers(c, G, t, n, P, type)
    BY <2>3
  <2>5. /\ t \notin DOMAIN rc_map /\ OffersStay /\ pending_resource_change' = TRUE
        /\ \A m \in sent' : m.rc_tag = t /\ m.to = c
    BY <2>4 DEF Offers, S!RcAnswer
  <2>6. \A d \in CR : Offered(d) = {}
    BY <1>1, <2>1, <2>3, NoneOffered
  <2>7. \A d \in CR : Offered(d)' \subseteq IF d = c THEN {t} ELSE {}
    BY <1>1, <2>5, <2>6 DEF Offered
  <2>8. \A d \in CR :
          AcceptTags(d) \subseteq DOMAIN rc_map /\ DOMAIN rc_map \subseteq DOMAIN rc_map'
    BY <2>5, OrderHolds DEF OffersStay
  <2>9. \A d, e \in CR : AcceptTags(d)' \cap Offered(e)' = {}
    BY <1>1, <2>5, <2>7, <2>8
  <2>10. \A d, e \in CR : d # e => AcceptTags(d)' \cap AcceptTags(e)' = {}
    BY <1>1, OrderHolds
  <2>11. ~overtaken' => InTime'
    <3>1. ASSUME ~overtaken', NEW d \in CR PROVE AcceptTags(d)' = {}
      <4>1. Accepts(d) = {}
        BY <3>1 DEF InFlight, Accepts
      <4>2. AcceptTags(d) = {}
        BY <4>1 DEF AcceptTags
      <4>. QED
        BY <1>1, <4>2
    <3>2. ASSUME ~overtaken', NEW d \in CR PROVE Open(d)' \subseteq IF d = c THEN {t} ELSE {}
      BY <2>7, <3>1, <3>2 DEF Open
    <3>. QED
      BY <2>5, <3>2 DEF InTime
  <2>. QED
    BY <1>1, <2>8, <2>9, <2>10, <2>11, OrderEnds
<1>. QED
  BY <1>2, <1>3

\* An accept that is carried out closes its change.
LEMMA ServeAcceptOrder ==
  ASSUME AllInv, NEW c \in CR, NEW i, Serves(c, i), requests[c][i].tag = "RC_ACCEPT",
         fault' = "none", overtaken => overtaken'
  PROVE  AcceptOrder'
<1>1. PICK t : t = requests[c][i].rc_tag
  OBVIOUS
<1>2. /\ S!HandleRCAccept(t) /\ offered' = offered
      /\ \A d \in CR : inbox'[d] = inbox[d] \cup {m \in sent' : m.to = d}
  BY <1>1, ServeEffect DEF Dispatch
<1>3. /\ t \in AcceptTags(c) /\ t \in DOMAIN rc_map /\ AcceptTags(c)' = AcceptTags(c) \ {t}
      /\ \A d \in CR : /\ t \notin Offered(d) /\ Once(d)'
                       /\ d # c => t \notin AcceptTags(d) /\ AcceptTags(d)' = AcceptTags(d)
  BY <1>1, ServeAccepts, ServeOnce
<1>4. /\ DOMAIN rc_map' = DOMAIN rc_map \ {t}
      /\ \A m \in sent' : m.tag # "RC_ANSWER"
  <2>1. S!AcceptAdd(t) \/ S!AcceptSub(t)
    BY <1>2 DEF S!HandleRCAccept, S!Abort
  <2>2. CASE S!AcceptAdd(t)
    <3>1. /\ rc_map' = [s \in DOMAIN rc_map \ {t} |-> rc_map[s]]
          /\ sent' = S!StartCommands(rc_map[t].pset)
      BY <2>2 DEF S!AcceptAdd, S!Abort
    <3>. QED
      BY <3>1 DEF S!StartCommands, S!Command
  <2>3. CASE S!AcceptSub(t)
    BY <2>3 DEF S!AcceptSub
  <2>. QED
    BY <2>1, <2>2, <2>3
<1>5. \A d \in CR : Offered(d)' \subseteq Offered(d)
  BY <1>2, <1>4, StillOffered
<1>6. \A d \in CR : /\ AcceptTags(d)' \subseteq AcceptTags(d)
                    /\ AcceptTags(d)' \subseteq DOMAIN rc_map'
  BY <1>3, <1>4, OrderHolds
<1>7. ASSUME ~overtaken, NEW d \in CR PROVE Open(d)' = {}
  <2>1. Open(d)' \subseteq Open(d) \ {t}
    BY <1>3, <1>5 DEF Open
  <2>2. t \in Open(c) /\ InTime
    BY <1>3, <1>7 DEF Open, AllInv, AcceptOrder
  <2>. QED
    BY <2>1, <2>2 DEF InTime
<1>. QED
  BY <1>3, <1>5, <1>6, <1>7, OrderKept

\* Whatever is served, the order is kept.
LEMMA ServeOrder ==
  ASSUME AllInv, NEW c \in CR, NEW i, Serves(c, i), fault' = "none",
         overtaken' = (overtaken \/ (requests[c][i].tag = "RC" /\ InFlight("RC_ACCEPT")))
  PROVE  AcceptOrder'
<1>1. requests[c][i].tag = "RC" => AcceptOrder'
  BY ServeRCOrder
<1>2. requests[c][i].tag = "RC_ACCEPT" => AcceptOrder'
  BY ServeAcceptOrder
<1>3. CASE requests[c][i].tag \notin {"RC", "RC_ACCEPT"}
  <2>1. UNCHANGED <<rc_map, pending_resource_change>> /\ \A m \in sent' : m.tag # "RC_ANSWER"
    BY <1>3, ServeQuiet
  <2>2. /\ offered' = offered
        /\ \A d \in CR : inbox'[d] = inbox[d] \cup {m \in sent' : m.to = d}
    BY ServeEffect
  <2>3. \A d \in CR : AcceptTags(d)' = AcceptTags(d) /\ Once(d)'
    BY <1>3, ServeAccepts, ServeOnce
  <2>4. \A d \in CR : Offered(d)' \subseteq Offered(d)
    BY <2>1, <2>2, StillOffered
  <2>5. \A d \in CR : /\ Once(d)' /\ AcceptTags(d)' \subseteq DOMAIN rc_map'
                      /\ Offered(d)' \subseteq Offered(d) /\ AcceptTags(d)' \subseteq AcceptTags(d)
    BY <2>1, <2>3, <2>4, OrderHolds
  <2>6. (overtaken => overtaken') /\ pending_resource_change' = pending_resource_change
    BY <2>1
  <2>. QED
    BY <2>5, <2>6, OrderKept
<1>. QED
  BY <1>1, <1>2, <1>3

\* Only an accept that was overtaken comes while no change is pending.
LEMMA AcceptPending ==
  ASSUME AllInv, NEW c \in CR, NEW i, Serves(c, i), requests[c][i].tag = "RC_ACCEPT",
         ~pending_resource_change
  PROVE  overtaken
<1>1. AcceptTags(c) # {}
  BY ServeAccepts
<1>. QED
  BY <1>1 DEF AllInv, AcceptOrder, InTime, Open

-----------------------------------------------------------------------------
(***************************************************************************)
(* The invariant, and what follows from it.                                *)
(***************************************************************************)
LEMMA ExampleStarts ==
  ASSUME ExampleInit
  PROVE  AllInv
<1>1. SP!TypeOK /\ SP!IInv /\ SimInv
  BY SimInit DEF ExampleInit
<1>2. PICK first \in SUBSET CR :
        /\ first # {} /\ running_crs = first
        /\ sent = S!StartCommands(first)
        /\ pset_name_map = [n \in {S!World} |-> first]
  BY ManagersAssumption DEF ExampleInit, Init, S!Init
<1>3. \A c \in CR : /\ pc[c] = Idle /\ requests[c] = <<>> /\ offered[c] = {}
                    /\ app[c] = Off /\ bcasts[c] = <<>>
                    /\ \A m \in inbox[c] : m.tag = "IDLE_COMMAND"
  BY <1>2 DEF ExampleInit, Init, S!StartCommands, S!Command
<1>4. /\ fault = "none" /\ pending_shutdowns = {} /\ DOMAIN accept_info = {}
      /\ app = [c \in CR |-> Off] /\ bcasts = [c \in CR |-> <<>>] /\ program \in Programs
  BY DEF ExampleInit, Init, S!Init
<1>5. S!Registered = {S!World} /\ pset_name_map[S!World] = first
  BY <1>2 DEF S!Registered
<1>6. \A c \in CR : Accepts(c) = {} /\ ~Done(c)
  <2>1. DOMAIN <<>> = {}
    OBVIOUS
  <2>. QED
    BY <1>3, <2>1 DEF Accepts, Done
<1>7. \A c \in CR : /\ TagsHeld(c) = {} /\ AcceptTags(c) = {} /\ AddTags(c) = {} /\ ~Holds(c)
                    /\ Offered(c) = {}
  BY <1>3, <1>6 DEF TagsHeld, AcceptTags, AddTags, Holds, Offered
<1>8. AppTypeOK
  <2>1. Off \in AppState
    BY DEF Off, AppState, Places, NoChange, Change, S!NoName, S!NoTag, S!RCType, S!PsetName
  <2>2. <<>> \in Seq(S!Message)
    OBVIOUS
  <2>. QED
    BY <1>4, <2>1, <2>2 DEF AppTypeOK
<1>9. ASSUME NEW c \in CR PROVE InStep(c)
  <2>1. app[c].at = "off" /\ ~app[c].leave
    BY <1>3, <1>9 DEF Off
  <2>2. DOMAIN requests[c] = {}
    BY <1>3, <1>9
  <2>3. pc[c] \notin AnswerTag
    BY <1>3, <1>9 DEF Idle, AnswerTag
  <2>. QED
    BY <1>3, <1>7, <1>9, <2>1, <2>2, <2>3 DEF InStep
<1>10. OneHolder /\ WorldRuns
  BY <1>2, <1>5, <1>7 DEF OneHolder, WorldRuns, S!World
<1>11. Leads(S!World, first)
  BY <1>2, <1>5 DEF Leads
<1>12. ASSUME NEW c \in first PROVE Joins(c, first)
  <2>1. Works(c, {}) /\ Silent(c) /\ app[c].at = "off"
    BY <1>2, <1>3, <1>12 DEF Works, Silent, Off
  <2>. QED
    BY <1>4, <1>5, <1>6, <1>11, <1>12, <2>1 DEF Joins
<1>13. \A c \in CR \ first : Resting(c)
  BY <1>2, <1>3 DEF Resting, Silent
<1>14. \A c \in first : TrueAnswers(c, first)
  BY <1>3 DEF TrueAnswers
<1>15. IsWay({}, first) /\ RootHolds({}, first)
  BY <1>2, <1>7 DEF IsWay, RootHolds
<1>16. Moving({}, first)
  BY <1>4, <1>7, <1>12, <1>13, <1>14, <1>15 DEF Moving
<1>17. Together
  <2>1. {} \in SUBSET CR
    OBVIOUS
  <2>. QED
    BY <1>16, <2>1 DEF Together
<1>18. AcceptOrder
  BY <1>6, <1>7 DEF AcceptOrder, AcceptsOnce, InTime, Open
<1>. QED
  BY <1>1, <1>4, <1>8, <1>9, <1>10, <1>17, <1>18 DEF AllInv, AppInv

\* The process set that is looked up is there.
LEMMA GroupFoundHolds == AllInv => GroupFound
BY DEF AllInv, AppInv, AppTypeOK, AppState, Places, GroupFound

\* One process at a time holds an offer.
LEMMA OneOfferHolds == AllInv => OneOffer
<1>1. ASSUME AllInv, NEW c \in CR, NEW d \in CR, offered[c] # {}, offered[d] # {} PROVE c = d
  <2>1. PICK s \in TagsHeld(c), t \in TagsHeld(d) : TRUE
    BY <1>1 DEF TagsHeld
  <2>. QED
    BY <1>1, <2>1 DEF AllInv, AppInv, OneHolder
<1>. QED
  BY <1>1 DEF OneOffer

\* Who leaves is on the way out, or done.
LEMMA OnlyAskedLeaveHolds == AllInv => OnlyAskedLeave
<1>1. ASSUME AllInv, NEW c \in CR, app[c].at \in {"finalize", "exit"}
      PROVE  c \in pending_shutdowns \/ (program = "07" /\ app[c].iter >= MaxIter)
  <2>1. /\ ~Resting(c) /\ app[c] # Off /\ (\A G : ~AtWork(c, G))
        /\ \A G, J : /\ ~LearnsName(c, G, J) /\ ~Learns(c, G, J) /\ ~Moves(c, G, J)
                     /\ ~Joins(c, J)
    BY <1>1 DEF Off, Resting, AtWork, LearnsName, Learns, Moves, Joins
  <2>2. PICK G \in SUBSET CR :
          \/ Working(G) \/ Searching(G)
          \/ \E J \in SUBSET CR : Telling(G, J) \/ Naming(G, J) \/ Moving(G, J)
    BY <1>1 DEF AllInv, AppInv, Together
  <2>3. ASSUME Around(G), c \notin G PROVE c \in pending_shutdowns
    BY <2>1, <2>3 DEF Around
  <2>4. CASE Working(G)
    BY <2>1, <2>3, <2>4 DEF Working, Finished
  <2>5. CASE Searching(G)
    BY <1>1, <2>3, <2>5 DEF Searching
  <2>6. \A J \in SUBSET CR : ~Telling(G, J) /\ ~Naming(G, J)
    BY <1>1, <2>1 DEF Telling, Naming, Apart
  <2>7. ASSUME NEW J \in SUBSET CR, Moving(G, J) PROVE c \in pending_shutdowns
    <3>1. c \in G \ J /\ Leaves(c)
      <4>1. c \notin G \cap J /\ c \in G \cup J
        BY <2>1, <2>7 DEF Moving
      <4>2. c \notin J \ G
        BY <2>1, <2>7 DEF Moving
      <4>3. c \in G \ J
        BY <4>1, <4>2
      <4>. QED
        BY <2>1, <2>7, <4>3 DEF Moving
    <3>. QED
      BY <2>7, <3>1 DEF Moving, Leaves
  <2>. QED
    BY <2>2, <2>4, <2>5, <2>6, <2>7
<1>. QED
  BY <1>1 DEF OnlyAskedLeave

\* Who is at a barrier works.
LEMMA CommsAgreeHolds == AllInv => CommsAgree
<1>1. ASSUME AllInv, program = "06", NEW c \in CR, app[c].at = "barrier"
      PROVE  /\ app[c].main \in S!Registered
             /\ pset_name_map[app[c].main] = app[c].comm
             /\ app[c].comm \subseteq running_crs
             /\ running_crs \ app[c].comm \subseteq pending_shutdowns
  <2>1. /\ ~Resting(c) /\ app[c] # Off /\ ~Leaves(c)
        /\ \A G, J : /\ ~LearnsName(c, G, J) /\ ~Learns(c, G, J) /\ ~Moves(c, G, J)
                     /\ ~Joins(c, J)
    BY <1>1 DEF Off, Resting, Leaves, LearnsName, Learns, Moves, Joins
  <2>2. PICK G \in SUBSET CR :
          \/ Working(G) \/ Searching(G)
          \/ \E J \in SUBSET CR : Telling(G, J) \/ Naming(G, J) \/ Moving(G, J)
    BY <1>1 DEF AllInv, AppInv, Together
  <2>3. ~Searching(G)
    BY <1>1, <2>1 DEF Searching, Around
  <2>4. \A J \in SUBSET CR : ~Telling(G, J) /\ ~Naming(G, J)
    BY <1>1, <2>1 DEF Telling, Naming, Apart
  <2>5. \A J \in SUBSET CR : ~Moving(G, J)
    BY <2>1 DEF Moving
  <2>6. Working(G)
    BY <2>2, <2>3, <2>4, <2>5
  <2>7. c \in G
    BY <2>1, <2>6 DEF Working, Around
  <2>8. \A d \in CR : ~Finished(d)
    BY <1>1 DEF Finished
  <2>9. \A d \in G : AtWork(d, G) /\ Leads(app[d].main, G)
    BY <2>6, <2>8 DEF Working
  <2>10. app[c].comm = G /\ G \subseteq running_crs
    BY <2>7, <2>9 DEF AtWork, Works
  <2>11. app[c].main \in S!Registered /\ pset_name_map[app[c].main] = G
    BY <2>7, <2>9 DEF Leads
  <2>12. running_crs \ G \subseteq pending_shutdowns
    <3>1. running_crs \subseteq CR
      BY <1>1 DEF AllInv, SP!TypeOK
    <3>. QED
      BY <2>6, <3>1 DEF Working, Around, Resting
  <2>. QED
    BY <2>10, <2>11, <2>12
<1>. QED
  BY <1>1 DEF CommsAgree

\* What is left when the accept that was overtaken has made the job abort.
Aborted ==
  /\ SP!TypeOK /\ SP!IInv /\ SimInv
  /\ overtaken /\ fault = "no_pending_change"
  /\ GroupFound /\ OneOffer /\ OnlyAskedLeave /\ CommsAgree

\* Every step keeps the invariant, unless an accept that was overtaken makes the job abort.
LEMMA ExampleStep ==
  ASSUME AllInv, [ExampleNext]_exampleVars
  PROVE  AllInv' \/ Aborted'
<1>1. SP!TypeOK' /\ SP!IInv' /\ SimInv'
  BY SimKept
<1>2. ASSUME NEW c \in CR, Process(c) PROVE AllInv'
  <2>1. AppInv'
    BY <1>2, AskStep, HearStep, HearBcastStep, AcceptStep, LeaveStep DEF Process
  <2>2. AcceptOrder'
    BY <1>2, ProcessOrder
  <2>3. fault' = fault
    <3>1. UNCHANGED schedulerVars
      <4>1. Ask(c) => UNCHANGED schedulerVars
        BY AskSends DEF Asked, Send
      <4>2. Hear(c) \/ HearBcast(c) => UNCHANGED schedulerVars
        BY DEF Hear, Take, HearBcast, allVars
      <4>3. Accept(c) \/ Leave(c) => UNCHANGED schedulerVars
        BY DEF Accept, RCAccept, Leave, Exit, Send
      <4>. QED
        BY <1>2, <4>1, <4>2, <4>3 DEF Process
    <3>. QED
      BY <3>1 DEF schedulerVars
  <2>. QED
    BY <1>1, <2>1, <2>2, <2>3 DEF AllInv
<1>3. ASSUME NEW c \in CR, Serve(c) PROVE AllInv' \/ Aborted'
  <2>1. PICK i : /\ Serves(c, i)
                 /\ overtaken' = (overtaken \/ (requests[c][i].tag = "RC" /\ InFlight("RC_ACCEPT")))
    BY <1>3 DEF Serve, Serves
  <2>2. AppInv' /\ fault' = "none" => AllInv'
    BY <1>1, <2>1, ServeOrder DEF AllInv
  <2>3. CASE requests[c][i].tag # "RC_ACCEPT"
    <3>1. AppInv' /\ fault' = fault
      BY <2>1, <2>3, ServeStep
    <3>. QED
      BY <2>2, <3>1 DEF AllInv
  <2>4. CASE requests[c][i].tag = "RC_ACCEPT"
    <3>1. CASE AppInv' /\ fault' = "none"
      BY <2>2, <3>1
    <3>2. CASE ~(AppInv' /\ fault' = "none")
      <4>1. /\ fault' = "no_pending_change" /\ ~pending_resource_change
            /\ UNCHANGED <<app, offered, program, running_crs, pending_shutdowns, pset_name_map>>
        BY <2>1, <2>4, <3>2, ServeAccept
      <4>2. overtaken'
        BY <2>1, <2>4, <4>1, AcceptPending
      <4>3. GroupFound' /\ OneOffer' /\ OnlyAskedLeave' /\ CommsAgree'
        BY <4>1, GroupFoundHolds, OneOfferHolds, OnlyAskedLeaveHolds, CommsAgreeHolds
           DEF GroupFound, OneOffer, OnlyAskedLeave, CommsAgree, S!Registered
      <4>. QED
        BY <1>1, <4>1, <4>2, <4>3 DEF Aborted
    <3>. QED
      BY <3>1, <3>2
  <2>. QED
    BY <2>3, <2>4
<1>4. ASSUME CreateComm \/ Barrier \/ Finish \/ UNCHANGED exampleVars PROVE AllInv'
  <2>1. AppInv'
    BY <1>4, CreateCommStep, BarrierStep, FinishStep, StutterStep
  <2>2. UNCHANGED <<requests, offered, rc_map, pending_resource_change, overtaken, fault>>
    BY <1>4 DEF CreateComm, Barrier, Finish, Shutdown, S!ShutdownAll, S!rcVars, workerVars,
       exampleVars, allVars, schedulerVars
  <2>3. \A c \in CR : \A m \in inbox'[c] : m \in inbox[c] \/ m.tag # "RC_ANSWER"
    <3>1. CASE Finish
      BY <3>1 DEF Finish, Shutdown, S!ShutdownAll, Deliver, S!Command
    <3>2. CASE ~Finish
      BY <1>4, <3>2 DEF CreateComm, Barrier, exampleVars, allVars, workerVars
    <3>. QED
      BY <3>1, <3>2
  <2>4. AcceptOrder'
    BY <2>2, <2>3, StillOffered, OrderSame
  <2>. QED
    BY <1>1, <2>1, <2>2, <2>4 DEF AllInv
<1>5. Ended /\ UNCHANGED <<appVars, overtaken>> => UNCHANGED exampleVars
  BY DEF Ended, exampleVars
<1>. QED
  BY <1>2, <1>3, <1>4, <1>5 DEF ExampleNext

\* After the abort nothing happens any more.
LEMMA AbortedStep ==
  ASSUME Aborted, [ExampleNext]_exampleVars
  PROVE  Aborted'
<1>1. fault # "none"
  BY DEF Aborted
<1>2. ASSUME NEW c \in CR PROVE ~Process(c) /\ ~Serve(c)
  <2>1. ~Process(c)
    BY <1>1 DEF Process, Ask, Hear, Take, HearBcast, Accept, Leave, At
  <2>2. \A r : ~Dispatch(c, r)
    BY <1>1 DEF Dispatch, S!Scheduling, S!HandleWorkerDone, S!HandleSessionCreate,
       S!HandleSessionInfo, S!HandleSessionFinalize, S!HandleGetPsets, S!HandlePsetInfo,
       S!HandlePsetLookup, S!HandlePsetOp, S!HandlePsetFree, S!HandleSchedHints, S!HandleRC,
       S!HandleRCAccept
  <2>. QED
    BY <2>1, <2>2 DEF Serve, HandleRequest
<1>3. ~CreateComm /\ ~Barrier /\ ~Finish
  BY <1>1 DEF CreateComm, Barrier, Finish, Shutdown, S!ShutdownAll, At
<1>4. UNCHANGED exampleVars
  BY <1>2, <1>3 DEF ExampleNext, Ended, exampleVars
<1>5. UNCHANGED <<allVars, app, program, overtaken>>
  BY <1>4 DEF exampleVars, appVars
<1>6. SP!TypeOK' /\ SP!IInv' /\ SimInv'
  BY <1>5, SimStep DEF Aborted
<1>7. UNCHANGED <<fault, offered, running_crs, pending_shutdowns, pset_name_map>>
  BY <1>5 DEF allVars, schedulerVars, workerVars
<1>. QED
  BY <1>5, <1>6, <1>7 DEF Aborted, GroupFound, OneOffer, OnlyAskedLeave, CommsAgree, S!Registered

\* The steps of the examples keep the invariant until the job aborts.
LEMMA AllInvariance == ExampleSpec => [](AllInv \/ Aborted)
BY ExampleStarts, ExampleStep, AbortedStep, PTL DEF ExampleSpec

\* In every run of the examples their processes work together, learn of a change together
\* and move together to the process set it leads to, one at a time holding the offer, in
\* whatever order their requests are handled, unless the job aborts.
THEOREM ExampleInvariance == ExampleSpec => [](SP!TypeOK /\ SP!IInv /\ SimInv /\ ExampleInv)
<1>1. AllInv \/ Aborted => SP!TypeOK /\ SP!IInv /\ SimInv /\ ExampleInv
  BY DEF AllInv, Aborted, ExampleInv
<1>. QED
  BY <1>1, AllInvariance, PTL

\* Nothing an example does makes a handler (scheduler_handlers.c) abort, but for an accept
\* that a request for a change overtook: it may find no change pending.
THEOREM OnlyOvertakenAborts == ExampleSpec => []OvertakenAborts
<1>1. AllInv \/ Aborted => OvertakenAborts
  BY DEF AllInv, Aborted, OvertakenAborts
<1>. QED
  BY <1>1, AllInvariance, PTL

\* Every process set an example looks up (MPI_Group_from_session_pset) is there, although
\* the processes that were in it exit at any time.
THEOREM GroupsFound == ExampleSpec => []GroupFound
<1>1. AllInv \/ Aborted => GroupFound
  BY GroupFoundHolds DEF Aborted
<1>. QED
  BY <1>1, AllInvariance, PTL

\* One process at a time holds an offer, although the root changes and a root that leaves in
\* 06 takes its offer along.
THEOREM OffersOne == ExampleSpec => []OneOffer
<1>1. AllInv \/ Aborted => OneOffer
  BY OneOfferHolds DEF Aborted
<1>. QED
  BY <1>1, AllInvariance, PTL

\* A process that finalizes its session was asked to leave, or has done its work in 07.
THEOREM AskedLeaveOnly == ExampleSpec => []OnlyAskedLeave
<1>1. AllInv \/ Aborted => OnlyAskedLeave
  BY OnlyAskedLeaveHolds DEF Aborted
<1>. QED
  BY <1>1, AllInvariance, PTL

\* In 06 the processes at a barrier are the members of one communicator, which are those of
\* the process set each of them knows it by; whoever runs besides was asked to leave.
THEOREM CommunicatorsAgree == ExampleSpec => []CommsAgree
<1>1. AllInv \/ Aborted => CommsAgree
  BY CommsAgreeHolds DEF Aborted
<1>. QED
  BY <1>1, AllInvariance, PTL
=============================================================================
