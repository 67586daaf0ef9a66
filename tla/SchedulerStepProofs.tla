------------------------- MODULE SchedulerStepProofs -------------------------
(***************************************************************************)
(* What no step of the scheduler may do, and that its log and the origins  *)
(* it tells are the truth, on top of the invariant proved in               *)
(* SchedulerProofs.                                                        *)
(***************************************************************************)
EXTENDS SchedulerProofs

\* The variables these theorems speak of.
stepVars == <<running_crs, pending_shutdowns, cr_state, pset_name_map, rc_map>>

\* The parts of the handlers that change them.
Exits(src) ==
  LET freed == {r.name : r \in process_states[src].psets_containing} \cap Registered
  IN
  /\ src \in running_crs
  /\ {r.name : r \in process_states[src].psets_containing} = freed
  /\ pending_shutdowns' = pending_shutdowns \ {src}
  /\ pset_name_map' = Unregister(pset_name_map, freed)
  /\ running_crs' = running_crs \ {src}
  /\ SetState({src}, "idle")
  /\ rc_map' = rc_map

Frees ==
  /\ \E names : pset_name_map' = Unregister(pset_name_map, names)
  /\ UNCHANGED <<running_crs, pending_shutdowns, cr_state, rc_map>>

Creates ==
  /\ \E n, members : pset_name_map' = Register(pset_name_map, n, members)
  /\ UNCHANGED <<running_crs, pending_shutdowns, cr_state, rc_map>>

\* A handler that answers, or aborts, changes none of them.
LEMMA AbortKeeps ==
  ASSUME NEW f, NEW msgs, Abort(f, msgs)
  PROVE  UNCHANGED stepVars
BY DEF Abort, stepVars, crVars, psetVars, rcVars

\* What is written to the state log.
LEMMA SetStateIs ==
  ASSUME NEW S, NEW state, SetState(S, state)
  PROVE  \A c \in CR : cr_state'[c] = IF c \in S THEN state ELSE cr_state[c]
BY DEF SetState

\* Registering a set neither drops nor changes one that is there.
LEMMA RegisterKeeps ==
  ASSUME NEW map, NEW m, NEW members
  PROVE  /\ DOMAIN map \subseteq DOMAIN Register(map, m, members)
         /\ \A n \in DOMAIN map : Register(map, m, members)[n] = map[n]
BY DEF Register

\* Every step leaves the variables alone or is one of the seven that change them.
LEMMA StepCases ==
  ASSUME TypeOK, [Next]_vars
  PROVE  \/ UNCHANGED stepVars
         \/ \E src \in CR : Exits(src)
         \/ Frees
         \/ Creates
         \/ /\ pending_shutdowns = {}
            /\ \E src \in CR, change \in ManagerRC(manager, running_crs) :
                 OfferAdd(src, change) \/ OfferSub(src, change)
         \/ \E tag \in DOMAIN rc_map : AcceptAdd(tag) \/ AcceptSub(tag)
<1>. DEFINE Goal == \/ UNCHANGED stepVars
                    \/ \E src \in CR : Exits(src)
                    \/ Frees
                    \/ Creates
                    \/ /\ pending_shutdowns = {}
                       /\ \E src \in CR, change \in ManagerRC(manager, running_crs) :
                            OfferAdd(src, change) \/ OfferSub(src, change)
                    \/ \E tag \in DOMAIN rc_map : AcceptAdd(tag) \/ AcceptSub(tag)
<1>1. ASSUME NEW src \in CR, Checked(src) PROVE Goal
  <2>1. CASE HandleWorkerDone(src)
    <3>1. CASE \E f \in Fault : Abort(f, {})
      BY <3>1, AbortKeeps
    <3>2. CASE ~\E f \in Fault : Abort(f, {})
      <4>1. Exits(src)
        BY <2>1, <3>2 DEF HandleWorkerDone, Exits, Fault, rcVars
      <4>. QED
        BY <4>1
    <3>. QED
      BY <3>1, <3>2
  <2>2. CASE HandleSessionInfo(src) \/ HandleGetPsets(src)
    BY <2>2, AbortKeeps DEF HandleSessionInfo, HandleGetPsets, stepVars, crVars, psetVars, rcVars
  <2>. QED
    BY <1>1, <2>1, <2>2 DEF Checked
<1>2. ASSUME NEW src \in running_crs, Running(src) PROVE Goal
  <2>0. src \in CR
    BY DEF TypeOK
  <2>1. CASE \/ HandleSessionCreate(src)
             \/ HandleSessionFinalize(src)
             \/ \E name \in Names : HandlePsetInfo(src, name) \/ HandlePsetLookup(src, name)
    BY <2>1 DEF HandleSessionCreate, HandleSessionFinalize, HandlePsetInfo, HandlePsetLookup,
                stepVars, crVars, psetVars, rcVars
  <2>2. CASE HandleSchedHints(src)
    BY <2>2, AbortKeeps DEF HandleSchedHints
  <2>3. ASSUME NEW op, NEW n1, NEW n2, NEW p, HandlePsetOp(src, op, n1, n2, p)
        PROVE  UNCHANGED stepVars \/ Creates
    <3>1. \/ Abort("unsupported_op", {})
          \/ UNCHANGED <<crVars, psetVars, rcVars>>
          \/ /\ pset_name_map' = Register(pset_name_map, NewName(p),
                                   Result(op, Operand(src, n1), Operand(src, n2)))
             /\ UNCHANGED <<crVars, rcVars>>
      BY <2>3 DEF HandlePsetOp
    <3>. QED
      BY <3>1, AbortKeeps DEF Creates, stepVars, crVars, psetVars, rcVars
  <2>4. CASE HandleRC(src)
    <3>1. CASE RefuseRC(src)
      BY <3>1 DEF RefuseRC, stepVars, crVars, psetVars
    <3>. QED
      BY <2>0, <2>4, <3>1 DEF HandleRC
  <2>. QED
    BY <1>2, <2>1, <2>2, <2>3, <2>4 DEF Running
<1>3. CASE Anyone
  <2>1. ASSUME NEW name, HandlePsetFree(name) PROVE Frees
    BY <2>1 DEF HandlePsetFree, Frees, crVars, rcVars
  <2>2. ASSUME NEW tag, HandleRCAccept(tag) PROVE Goal
    BY <2>2, AbortKeeps DEF HandleRCAccept
  <2>. QED
    BY <1>3, <2>1, <2>2 DEF Anyone
<1>4. CASE ShutdownAll \/ UNCHANGED vars
  BY <1>4 DEF ShutdownAll, vars, stepVars, crVars, psetVars, rcVars
<1>. QED
  BY <1>1, <1>2, <1>3, <1>4 DEF Next, Terminated

-----------------------------------------------------------------------------
(***************************************************************************)
(* What the parts of the handlers that matter here change, in one place.   *)
(***************************************************************************)
\* Whoever is asked to leave runs.
LEMMA PendingRun ==
  ASSUME IInv
  PROVE  pending_shutdowns \subseteq running_crs
BY DEF IInv, PendingShutdownsAgree

\* Offering and accepting a change, when they do not abort.
LEMMA OfferAddIs ==
  ASSUME NEW src, NEW change, OfferAdd(src, change)
  PROVE  /\ pset_name_map' = Register(pset_name_map, RcName(next_rc_tag), change.pset)
         /\ SetState(change.pset, "reserved")
         /\ UNCHANGED <<running_crs, pending_shutdowns>>
BY DEF OfferAdd, Offer

LEMMA OfferSubIs ==
  ASSUME NEW src, NEW change, OfferSub(src, change)
  PROVE  \/ UNCHANGED stepVars
         \/ /\ pset_name_map' = Register(pset_name_map, RcName(next_rc_tag), change.pset)
            /\ SetState(change.pset, "proposed_shutdown")
            /\ pending_shutdowns' = change.pset
            /\ running_crs' = running_crs
BY AbortKeeps DEF OfferSub, Offer

LEMMA AcceptAddIs ==
  ASSUME NEW tag \in DOMAIN rc_map, AcceptAdd(tag)
  PROVE  \/ UNCHANGED stepVars
         \/ /\ rc_map[tag].pset \cap running_crs = {}
            /\ running_crs' = running_crs \cup rc_map[tag].pset
            /\ SetState(rc_map[tag].pset, "running")
            /\ DOMAIN rc_map' \subseteq DOMAIN rc_map
            /\ UNCHANGED <<pending_shutdowns, pset_name_map>>
BY AbortKeeps DEF AcceptAdd, psetVars

LEMMA AcceptSubIs ==
  ASSUME NEW tag \in DOMAIN rc_map, AcceptSub(tag)
  PROVE  /\ SetState(rc_map[tag].pset \cap running_crs, "accepted_shutdown")
         /\ DOMAIN rc_map' \subseteq DOMAIN rc_map
         /\ UNCHANGED <<running_crs, pending_shutdowns, pset_name_map>>
BY DEF AcceptSub, psetVars

-----------------------------------------------------------------------------
(***************************************************************************)
(* The action properties.                                                  *)
(***************************************************************************)
\* Process sets keep their members, and a process that exits takes along every
\* process set it was in: it knows them all by its back references.
LEMMA PsetsStableStep ==
  ASSUME TypeOK, IInv, [Next]_vars
  PROVE  /\ \A n \in Registered \cap Registered' : pset_name_map'[n] = pset_name_map[n]
         /\ \A c \in running_crs \ running_crs' : \A n \in Registered' :
              c \notin pset_name_map'[n]
<1>. DEFINE Kept == \A n \in Registered \cap Registered' : pset_name_map'[n] = pset_name_map[n]
            Taken == \A c \in running_crs \ running_crs' : \A n \in Registered' :
                       c \notin pset_name_map'[n]
<1>1. CASE UNCHANGED stepVars
  BY <1>1 DEF stepVars, Registered
<1>2. ASSUME NEW src \in CR, Exits(src) PROVE Kept /\ Taken
  <2>. DEFINE names == {r.name : r \in process_states[src].psets_containing}
  <2>1. /\ src \in running_crs /\ running_crs' = running_crs \ {src}
        /\ names = names \cap Registered
        /\ pset_name_map' = Unregister(pset_name_map, names)
    BY <1>2 DEF Exits
  <2>2. \A n \in Registered : src \in pset_name_map[n] => n \in names
    BY <2>1 DEF IInv, BackrefsExact
  <2>. HIDE DEF names
  <2>3. Registered' = Registered \ names /\ \A n \in Registered' : pset_name_map'[n] = pset_name_map[n]
    BY <2>1 DEF Registered, Unregister
  <2>. QED
    BY <2>1, <2>2, <2>3
<1>3. CASE Frees
  <2>1. PICK names : pset_name_map' = Unregister(pset_name_map, names)
    BY <1>3 DEF Frees
  <2>2. Kept
    BY <2>1 DEF Unregister, Registered
  <2>. QED
    BY <1>3, <2>2 DEF Frees
<1>4. CASE Creates
  BY <1>4, RegisterKeeps DEF Creates, Registered
<1>5. ASSUME NEW src, NEW change, OfferAdd(src, change) \/ OfferSub(src, change)
      PROVE  Kept /\ Taken
  BY <1>1, <1>5, OfferAddIs, OfferSubIs, RegisterKeeps DEF Registered
<1>6. ASSUME NEW tag \in DOMAIN rc_map, AcceptAdd(tag) \/ AcceptSub(tag)
      PROVE  Kept /\ Taken
  BY <1>1, <1>6, AcceptAddIs, AcceptSubIs DEF Registered
<1>. QED
  BY <1>1, <1>2, <1>3, <1>4, <1>5, <1>6, StepCases

\* For every manager that keeps its promise, the registry is never changed in place and
\* never outlives its members: pset_free and worker_done leave no stale set behind.
THEOREM RegistryStable == Spec => PsetsStable
<1>1. [Next]_vars /\ TypeOK /\ IInv =>
        [/\ \A n \in Registered \cap Registered' : pset_name_map'[n] = pset_name_map[n]
         /\ \A c \in running_crs \ running_crs' : \A n \in Registered' :
              c \notin pset_name_map'[n]]_vars
  BY PsetsStableStep
<1>. QED
  BY <1>1, TypeCorrect, Invariance, PTL DEF Spec, PsetsStable

\* Shutdowns are pending one change at a time, until every process asked to leave
\* has left.
LEMMA OneShutdownStep ==
  ASSUME TypeOK, IInv, [Next]_vars, pending_shutdowns # {}
  PROVE  /\ DOMAIN rc_map' \subseteq DOMAIN rc_map
         /\ pending_shutdowns' = pending_shutdowns \cap running_crs'
<1>. DEFINE Goal == /\ DOMAIN rc_map' \subseteq DOMAIN rc_map
                    /\ pending_shutdowns' = pending_shutdowns \cap running_crs'
<1>0. pending_shutdowns \subseteq running_crs
  BY PendingRun
<1>1. CASE UNCHANGED stepVars
  BY <1>0, <1>1 DEF stepVars
<1>2. ASSUME NEW src \in CR, Exits(src) PROVE Goal
  BY <1>0, <1>2 DEF Exits
<1>3. CASE Frees \/ Creates
  BY <1>0, <1>3 DEF Frees, Creates
<1>4. ASSUME NEW tag \in DOMAIN rc_map, AcceptAdd(tag) \/ AcceptSub(tag) PROVE Goal
  BY <1>0, <1>1, <1>4, AcceptAddIs, AcceptSubIs
<1>. QED
  BY <1>1, <1>2, <1>3, <1>4, StepCases

\* While processes are asked to leave, handle_rc offers nothing and accepting an earlier
\* offer withdraws nobody's shutdown, for every manager that keeps its promise.
THEOREM ShutdownsInTurn == Spec => OneShutdownAtATime
<1>1. [Next]_vars /\ TypeOK /\ IInv =>
        [pending_shutdowns # {} =>
           /\ DOMAIN rc_map' \subseteq DOMAIN rc_map
           /\ pending_shutdowns' = pending_shutdowns \cap running_crs']_vars
  BY OneShutdownStep
<1>. QED
  BY <1>1, TypeCorrect, Invariance, PTL DEF Spec, OneShutdownAtATime

-----------------------------------------------------------------------------
(***************************************************************************)
(* The state log.                                                          *)
(***************************************************************************)
\* At the start the initial process set runs, and is logged as running.
LEMMA LogInit == Init => LogAgrees
<1>. SUFFICES ASSUME Init PROVE LogAgrees
  OBVIOUS
<1>1. PICK first \in ManagerInit :
        /\ running_crs = first.pset
        /\ cr_state = [c \in CR |-> IF c \in first.pset THEN "running" ELSE "idle"]
  BY DEF Init
<1>2. pending_shutdowns = {}
  BY DEF Init
<1>. QED
  BY <1>1, <1>2 DEF LogAgrees

\* Every handler that starts, asks or loses a CR logs it.
LEMMA LogStep ==
  ASSUME TypeOK, IInv, LogAgrees, [Next]_vars
  PROVE  LogAgrees'
<1>0. pending_shutdowns \subseteq running_crs
  BY PendingRun
<1>1. CASE UNCHANGED stepVars
  BY <1>1 DEF stepVars, LogAgrees
<1>2. ASSUME NEW src \in CR, Exits(src) PROVE LogAgrees'
  <2>1. \A c \in CR : cr_state'[c] = IF c \in {src} THEN "idle" ELSE cr_state[c]
    BY <1>2, SetStateIs DEF Exits
  <2>. QED
    BY <1>2, <2>1 DEF Exits, LogAgrees
<1>3. CASE Frees \/ Creates
  BY <1>3 DEF Frees, Creates, LogAgrees
<1>4. ASSUME NEW src \in CR, NEW change \in ManagerRC(manager, running_crs),
             pending_shutdowns = {}, OfferAdd(src, change) \/ OfferSub(src, change)
      PROVE  LogAgrees'
  <2>1. /\ change.rc_type = "add" => change.pset \cap running_crs = {}
        /\ change.rc_type = "sub" => change.pset \subseteq running_crs
    BY ManagerPromise DEF TypeOK
  <2>2. CASE OfferAdd(src, change)
    <3>1. /\ change.pset \cap running_crs = {}
          /\ UNCHANGED <<running_crs, pending_shutdowns>>
      BY <2>1, <2>2, OfferAddIs DEF OfferAdd
    <3>2. \A c \in CR : cr_state'[c] = IF c \in change.pset THEN "reserved" ELSE cr_state[c]
      BY <2>2, OfferAddIs, SetStateIs
    <3>. QED
      BY <1>4, <3>1, <3>2 DEF LogAgrees
  <2>3. CASE OfferSub(src, change) /\ ~UNCHANGED stepVars
    <3>1. /\ change.pset \subseteq running_crs
          /\ pending_shutdowns' = change.pset
          /\ running_crs' = running_crs
      BY <2>1, <2>3, OfferSubIs DEF OfferSub
    <3>2. \A c \in CR : cr_state'[c] = IF c \in change.pset
                                       THEN "proposed_shutdown" ELSE cr_state[c]
      BY <2>3, OfferSubIs, SetStateIs
    <3>. QED
      BY <1>4, <3>1, <3>2 DEF LogAgrees
  <2>. QED
    BY <1>1, <1>4, <2>2, <2>3
<1>5. ASSUME NEW tag \in DOMAIN rc_map, AcceptAdd(tag) PROVE LogAgrees'
  <2>1. CASE ~UNCHANGED stepVars
    <3>. DEFINE starting == rc_map[tag].pset
    <3>1. /\ starting \cap running_crs = {}
          /\ running_crs' = running_crs \cup starting
          /\ pending_shutdowns' = pending_shutdowns
      BY <1>5, <2>1, AcceptAddIs
    <3>2. \A c \in CR : cr_state'[c] = IF c \in starting THEN "running" ELSE cr_state[c]
      BY <1>5, <2>1, AcceptAddIs, SetStateIs
    <3>. QED
      BY <1>0, <3>1, <3>2 DEF LogAgrees
  <2>. QED
    BY <1>1, <2>1
<1>6. ASSUME NEW tag \in DOMAIN rc_map, AcceptSub(tag) PROVE LogAgrees'
  <2>1. \A c \in CR : cr_state'[c] = IF c \in rc_map[tag].pset \cap running_crs
                                     THEN "accepted_shutdown" ELSE cr_state[c]
    BY <1>6, AcceptSubIs, SetStateIs
  <2>. QED
    BY <1>6, <2>1, AcceptSubIs DEF LogAgrees
<1>. QED
  BY <1>1, <1>2, <1>3, <1>4, <1>5, <1>6, StepCases

\* The state log (logging.c) can be trusted: for every manager that keeps its promise it
\* shows who runs and who is asked to leave, after every handler.
THEOREM LogTells == Spec => []LogAgrees
<1>1. TypeOK /\ IInv /\ LogAgrees /\ [Next]_vars => LogAgrees'
  BY LogStep
<1>. QED
  BY <1>1, LogInit, TypeCorrect, Invariance, PTL DEF Spec

-----------------------------------------------------------------------------
(***************************************************************************)
(* The origin a process started by a resource change is told is the truth: *)
(* the tag leads to the process set of the CRs that were started with it.  *)
(***************************************************************************)

\* OriginsAgree speaks of these variables only.
originVars == <<running_crs, process_states, pset_name_map, rc_map, next_rc_tag>>

\* The running processes that the change known by a tag has started.
StartedBy(tag) == {d \in running_crs : /\ process_states[d].dynamic_start
                                       /\ process_states[d].origin_rc_tag = tag}

\* OriginsAgree for one process, with its tag spelled out.
OriginOf(c) ==
  LET tag == process_states[c].origin_rc_tag
  IN  /\ tag \in 0 .. next_rc_tag /\ tag \notin DOMAIN rc_map
      /\ RcName(tag - 1) \in Registered => pset_name_map[RcName(tag - 1)] = StartedBy(tag)

LEMMA OriginsSplit ==
  OriginsAgree <=> \A c \in running_crs : process_states[c].dynamic_start => OriginOf(c)
BY DEF OriginsAgree, OriginOf, StartedBy

LEMMA OriginsSplitNext ==
  OriginsAgree' <=>
    \A c \in running_crs' : process_states'[c].dynamic_start => OriginOf(c)'
BY DEF OriginsAgree, OriginOf, StartedBy

\* A step by which nobody starts or exits keeps the origins, when it neither adds nor
\* changes the process set of an earlier tag, and offers nothing under one.
LEMMA OriginsKept ==
  ASSUME TypeOK, OriginsAgree, UNCHANGED running_crs,
         \A c \in running_crs :
           /\ process_states'[c].dynamic_start = process_states[c].dynamic_start
           /\ process_states'[c].origin_rc_tag = process_states[c].origin_rc_tag,
         next_rc_tag' \in Nat, next_rc_tag' >= next_rc_tag,
         \A t \in DOMAIN rc_map' : t \in DOMAIN rc_map \/ t > next_rc_tag,
         \A i \in Int : i < next_rc_tag /\ RcName(i) \in Registered' =>
           RcName(i) \in Registered /\ pset_name_map'[RcName(i)] = pset_name_map[RcName(i)]
  PROVE  OriginsAgree'
<1>1. \A t : StartedBy(t)' = StartedBy(t)
  BY DEF StartedBy
<1>2. ASSUME NEW c \in running_crs, process_states[c].dynamic_start PROVE OriginOf(c)'
  <2>. DEFINE tag == process_states[c].origin_rc_tag
  <2>1. OriginOf(c) /\ process_states'[c].origin_rc_tag = tag
    BY <1>2, OriginsSplit
  <2>2. tag \in 0 .. next_rc_tag /\ tag \notin DOMAIN rc_map /\ next_rc_tag \in Nat
    BY <2>1 DEF OriginOf, TypeOK
  <2>3. RcName(tag - 1) \in Registered => pset_name_map[RcName(tag - 1)] = StartedBy(tag)
    BY <2>1 DEF OriginOf
  <2>. HIDE DEF tag
  <2>4. tag \in 0 .. next_rc_tag' /\ tag \notin DOMAIN rc_map'
    BY <2>2
  <2>5. RcName(tag - 1) \in Registered' => pset_name_map'[RcName(tag - 1)] = StartedBy(tag)
    <3>1. tag - 1 \in Int /\ tag - 1 < next_rc_tag
      BY <2>2
    <3>. QED
      BY <2>3, <3>1
  <2>. QED
    BY <1>1, <2>1, <2>4, <2>5 DEF OriginOf
<1>. QED
  BY <1>2, OriginsSplitNext

\* A process takes along the process sets it was in, its origin among them.
LEMMA ExitOrigins ==
  ASSUME TypeOK, IInv, OriginsAgree, NEW src \in CR, HandleWorkerDone(src),
         ~\E f \in Fault : Abort(f, {})
  PROVE  OriginsAgree'
<1>. DEFINE names == {r.name : r \in process_states[src].psets_containing}
            freed == names \cap Registered
<1>1. /\ src \in running_crs
      /\ names = freed
      /\ pset_name_map' = Unregister(pset_name_map, freed)
      /\ process_states' = [DropBackrefs(process_states, freed) EXCEPT ![src] = NoProcess]
      /\ running_crs' = running_crs \ {src}
      /\ UNCHANGED <<rc_map, next_rc_tag>>
  BY DEF HandleWorkerDone, Fault, rcVars
<1>2. \A n \in Registered : src \in pset_name_map[n] => n \in freed
  BY <1>1 DEF IInv, BackrefsExact
<1>3. \A c \in running_crs' :
        /\ c \in running_crs \ {src}
        /\ process_states'[c].dynamic_start = process_states[c].dynamic_start
        /\ process_states'[c].origin_rc_tag = process_states[c].origin_rc_tag
  <2>1. \A c \in Rank \ {src} :
          /\ process_states'[c].dynamic_start = process_states[c].dynamic_start
          /\ process_states'[c].origin_rc_tag = process_states[c].origin_rc_tag
    BY <1>1 DEF TypeOK, ProcessState, DropBackrefs
  <2>2. running_crs \subseteq Rank
    BY CRAssumption DEF TypeOK
  <2>. QED
    BY <1>1, <2>1, <2>2
<1>4. /\ Registered' = Registered \ freed
      /\ \A n \in Registered' : pset_name_map'[n] = pset_name_map[n]
  BY <1>1 DEF Unregister, Registered
<1>. HIDE DEF freed
<1>5. \A t : StartedBy(t)' = StartedBy(t) \ {src}
  BY <1>1, <1>3 DEF StartedBy
<1>6. ASSUME NEW c \in running_crs', process_states'[c].dynamic_start PROVE OriginOf(c)'
  <2>. DEFINE tag == process_states[c].origin_rc_tag
              origin == RcName(tag - 1)
  <2>1. OriginOf(c) /\ process_states'[c].origin_rc_tag = tag
    BY <1>3, <1>6, OriginsSplit
  <2>2. origin \in Registered => pset_name_map[origin] = StartedBy(tag)
    BY <2>1 DEF OriginOf
  <2>. HIDE DEF origin
  <2>3. origin \in Registered' => pset_name_map'[origin] = StartedBy(tag) \ {src}
    BY <1>2, <1>4, <2>2
  <2>. QED
    BY <1>1, <1>5, <2>1, <2>3 DEF OriginOf, origin
<1>. QED
  BY <1>6, OriginsSplitNext

\* The processes an accepted change starts are the process set it was offered with.
LEMMA AcceptOrigins ==
  ASSUME TypeOK, IInv, OriginsAgree, NEW tag \in DOMAIN rc_map, AcceptAdd(tag),
         ~\E f \in Fault : Abort(f, {})
  PROVE  OriginsAgree'
<1>. DEFINE starting == rc_map[tag].pset
<1>1. /\ \A c \in starting : c \notin running_crs
      /\ starting \subseteq Rank
      /\ process_states' = Started(process_states, starting, pset_name_map, TRUE, tag)
      /\ running_crs' = running_crs \cup starting
      /\ rc_map' = [t \in DOMAIN rc_map \ {tag} |-> rc_map[t]]
      /\ UNCHANGED <<pset_name_map, next_rc_tag>>
  BY CRAssumption DEF AcceptAdd, Fault, psetVars
<1>2. /\ tag \in Nat /\ next_rc_tag \in Nat /\ tag < next_rc_tag
      /\ RcName(tag - 1) \in Registered => pset_name_map[RcName(tag - 1)] = starting
  BY DEF TypeOK, IInv, OffersAgree, NamesFresh
<1>3. running_crs \subseteq Rank
  BY CRAssumption DEF TypeOK
<1>. HIDE DEF starting
<1>4. /\ \A c \in starting : /\ process_states'[c].dynamic_start
                             /\ process_states'[c].origin_rc_tag = tag
      /\ \A c \in running_crs : process_states'[c] = process_states[c]
  BY <1>1, <1>3 DEF Started
<1>5. \A c \in running_crs : process_states[c].dynamic_start =>
        process_states[c].origin_rc_tag # tag
  BY OriginsSplit DEF OriginOf
<1>6. StartedBy(tag)' = starting
  BY <1>1, <1>4, <1>5 DEF StartedBy
<1>7. \A t : t # tag => StartedBy(t)' = StartedBy(t)
  BY <1>1, <1>4 DEF StartedBy
<1>8. ASSUME NEW c \in starting PROVE OriginOf(c)'
  <2>1. process_states'[c].origin_rc_tag = tag
    BY <1>4
  <2>2. tag \in 0 .. next_rc_tag' /\ tag \notin DOMAIN rc_map'
    BY <1>1, <1>2
  <2>3. RcName(tag - 1) \in Registered' => pset_name_map'[RcName(tag - 1)] = starting
    BY <1>1, <1>2 DEF Registered
  <2>. QED
    BY <1>6, <2>1, <2>2, <2>3 DEF OriginOf
<1>9. ASSUME NEW c \in running_crs, process_states[c].dynamic_start PROVE OriginOf(c)'
  <2>1. OriginOf(c) /\ process_states'[c] = process_states[c]
    BY <1>4, <1>9, OriginsSplit
  <2>. QED
    BY <1>1, <1>5, <1>7, <1>9, <2>1 DEF OriginOf, Registered
<1>. QED
  BY <1>1, <1>4, <1>8, <1>9, OriginsSplitNext

\* AddBackrefs leaves the origin of every process alone.
LEMMA AddBackrefsOrigin ==
  ASSUME NEW states \in [Rank -> ProcessState], NEW n, NEW members
  PROVE  \A c \in Rank :
           /\ AddBackrefs(states, n, members)[c].dynamic_start = states[c].dynamic_start
           /\ AddBackrefs(states, n, members)[c].origin_rc_tag = states[c].origin_rc_tag
BY DEF AddBackrefs, ProcessState

\* The name of an offer is that of no earlier tag.
LEMMA OfferOrigins ==
  ASSUME TypeOK, OriginsAgree, NEW src, NEW change \in ChangeOf(Rank),
         OfferAdd(src, change) \/ OfferSub(src, change), ~\E f \in Fault : Abort(f, {})
  PROVE  OriginsAgree'
<1>. DEFINE named == AddBackrefs(process_states, RcName(next_rc_tag), change.pset)
<1>1. /\ Offer(change)
      /\ running_crs' = running_crs
      /\ \/ process_states' = named
         \/ process_states' = [c \in Rank |-> IF c \in change.pset
                                THEN [named[c] EXCEPT !.pending_shutdown = TRUE]
                                ELSE named[c]]
  BY DEF OfferAdd, OfferSub, Fault
<1>2. running_crs \subseteq Rank /\ next_rc_tag \in Nat
  BY CRAssumption DEF TypeOK
<1>3. \A c \in Rank : /\ named[c].dynamic_start = process_states[c].dynamic_start
                      /\ named[c].origin_rc_tag = process_states[c].origin_rc_tag
  BY AddBackrefsOrigin DEF TypeOK
<1>4. named \in [Rank -> ProcessState]
  BY <1>2, NamesType, AddBackrefsType DEF TypeOK, ChangeOf
<1>. HIDE DEF named
<1>5. \A c \in Rank : /\ process_states'[c].dynamic_start = named[c].dynamic_start
                      /\ process_states'[c].origin_rc_tag = named[c].origin_rc_tag
  BY <1>1, <1>4 DEF ProcessState
<1>6. /\ next_rc_tag' \in Nat /\ next_rc_tag' >= next_rc_tag
      /\ \A t \in DOMAIN rc_map' : t \in DOMAIN rc_map \/ t > next_rc_tag
  BY <1>1, <1>2 DEF Offer
<1>7. \A i \in Int : i < next_rc_tag /\ RcName(i) \in Registered' =>
        RcName(i) \in Registered /\ pset_name_map'[RcName(i)] = pset_name_map[RcName(i)]
  <2>1. \A i \in Int : RcName(i).id = i
    BY DEF RcName
  <2>2. /\ Registered' = Registered \cup {RcName(next_rc_tag)}
        /\ \A n \in Registered : pset_name_map'[n] = pset_name_map[n]
    BY <1>1 DEF Offer, Register, Registered
  <2>. QED
    BY <1>2, <2>1, <2>2
<1>. QED
  BY <1>1, <1>2, <1>3, <1>5, <1>6, <1>7, OriginsKept

\* Operations make names of another kind; they and pset_free leave the other names alone.
LEMMA NameOrigins ==
  ASSUME TypeOK, OriginsAgree,
         \/ \E name : HandlePsetFree(name)
         \/ \E src, op, n1, n2, p : HandlePsetOp(src, op, n1, n2, p),
         ~\E f \in Fault : Abort(f, {})
  PROVE  OriginsAgree'
<1>1. running_crs \subseteq Rank /\ process_states \in [Rank -> ProcessState]
      /\ next_rc_tag \in Nat
  BY CRAssumption DEF TypeOK
<1>2. ASSUME NEW name, HandlePsetFree(name) PROVE OriginsAgree'
  <2>1. /\ pset_name_map' = Unregister(pset_name_map, {name} \cap Registered)
        /\ process_states' = DropBackrefs(process_states, {name} \cap Registered)
        /\ UNCHANGED <<running_crs, rc_map, next_rc_tag>>
    BY <1>2 DEF HandlePsetFree, crVars, rcVars
  <2>2. \A c \in Rank :
          /\ process_states'[c].dynamic_start = process_states[c].dynamic_start
          /\ process_states'[c].origin_rc_tag = process_states[c].origin_rc_tag
    BY <1>1, <2>1 DEF DropBackrefs, ProcessState
  <2>3. \A n \in Registered' : n \in Registered /\ pset_name_map'[n] = pset_name_map[n]
    BY <2>1 DEF Unregister, Registered
  <2>4. /\ running_crs' = running_crs /\ rc_map' = rc_map
        /\ next_rc_tag' \in Nat /\ next_rc_tag' >= next_rc_tag
    BY <1>1, <2>1
  <2>. QED
    BY <1>1, <2>2, <2>3, <2>4, OriginsKept
<1>3. ASSUME NEW src, NEW op, NEW n1, NEW n2, NEW p, HandlePsetOp(src, op, n1, n2, p)
      PROVE  OriginsAgree'
  <2>. DEFINE members == Result(op, Operand(src, n1), Operand(src, n2))
              name == NewName(p)
  <2>1. CASE UNCHANGED <<crVars, psetVars, rcVars, process_states>>
    BY <1>1, <2>1, OriginsKept DEF crVars, psetVars, rcVars, Registered
  <2>2. CASE /\ process_states' = AddBackrefs(process_states, name, members)
             /\ pset_name_map' = Register(pset_name_map, name, members)
             /\ UNCHANGED <<running_crs, rc_map, next_rc_tag>>
    <3>1. \A i : name # RcName(i)
      <4>1. \A i : RcName(i).kind = "rc" /\ OpName(i).kind = "op" /\ Proposed(i).kind = "proposed"
        BY DEF RcName, OpName, Proposed
      <4>2. name = OpName(next_op) \/ name = Proposed(p)
        BY DEF NewName
      <4>. HIDE DEF name
      <4>. QED
        BY <4>1, <4>2
    <3>. HIDE DEF name, members
    <3>2. \A c \in Rank :
            /\ process_states'[c].dynamic_start = process_states[c].dynamic_start
            /\ process_states'[c].origin_rc_tag = process_states[c].origin_rc_tag
      BY <1>1, <2>2, AddBackrefsOrigin
    <3>3. /\ Registered' = Registered \cup {name}
          /\ \A n \in Registered : pset_name_map'[n] = pset_name_map[n]
      BY <2>2 DEF Register, Registered
    <3>. QED
      BY <1>1, <2>2, <3>1, <3>2, <3>3, OriginsKept
  <2>. QED
    BY <1>3, <2>1, <2>2 DEF HandlePsetOp, Fault, crVars, rcVars
<1>. QED
  BY <1>2, <1>3

\* The other steps leave the origins, and what they lead to, as they are.
LEMMA OriginsUnchanged ==
  ASSUME OriginsAgree, UNCHANGED originVars
  PROVE  OriginsAgree'
BY DEF OriginsAgree, originVars, Registered

LEMMA AbortOrigins ==
  ASSUME OriginsAgree, NEW f, NEW msgs, Abort(f, msgs)
  PROVE  OriginsAgree'
BY OriginsUnchanged DEF Abort, originVars, crVars, psetVars, rcVars

LEMMA RCOrigins ==
  ASSUME TypeOK, OriginsAgree, NEW src \in CR, HandleRC(src), ~\E f \in Fault : Abort(f, {})
  PROVE  OriginsAgree'
<1>1. CASE RefuseRC(src)
  BY <1>1, OriginsUnchanged DEF RefuseRC, originVars, crVars, psetVars
<1>2. ASSUME NEW change \in ManagerRC(manager, running_crs),
             OfferAdd(src, change) \/ OfferSub(src, change)
      PROVE  OriginsAgree'
  <2>1. change \in ChangeOf(Rank)
    BY ManagerAssumption, CRAssumption DEF TypeOK
  <2>. QED
    BY <1>2, <2>1, OfferOrigins
<1>. QED
  BY <1>1, <1>2 DEF HandleRC

LEMMA OriginsStep ==
  ASSUME TypeOK, IInv, OriginsAgree, [Next]_vars
  PROVE  OriginsAgree'
<1>0. CASE \E f \in Fault : Abort(f, {})
  BY <1>0, AbortOrigins
<1>. SUFFICES ASSUME ~\E f \in Fault : Abort(f, {}) PROVE OriginsAgree'
  BY <1>0
<1>1. ASSUME NEW src \in CR, Checked(src) PROVE OriginsAgree'
  <2>1. CASE HandleWorkerDone(src)
    BY <2>1, ExitOrigins
  <2>2. CASE HandleSessionInfo(src) \/ HandleGetPsets(src)
    BY <2>2, OriginsUnchanged DEF HandleSessionInfo, HandleGetPsets, Fault, originVars,
                                  crVars, psetVars, rcVars
  <2>. QED
    BY <1>1, <2>1, <2>2 DEF Checked
<1>2. ASSUME NEW src \in running_crs, Running(src) PROVE OriginsAgree'
  <2>1. CASE \/ HandleSessionCreate(src)
             \/ HandleSessionFinalize(src)
             \/ \E name \in Names : HandlePsetInfo(src, name) \/ HandlePsetLookup(src, name)
    BY <2>1, OriginsUnchanged DEF HandleSessionCreate, HandleSessionFinalize,
            HandlePsetInfo, HandlePsetLookup, originVars, crVars, psetVars, rcVars
  <2>2. CASE HandleSchedHints(src)
    BY <2>2, AbortOrigins DEF HandleSchedHints
  <2>3. ASSUME NEW op, NEW n1, NEW n2, NEW p, HandlePsetOp(src, op, n1, n2, p)
        PROVE  OriginsAgree'
    BY <2>3, NameOrigins
  <2>4. CASE HandleRC(src)
    BY <2>4, RCOrigins DEF TypeOK
  <2>. QED
    BY <1>2, <2>1, <2>2, <2>3, <2>4 DEF Running
<1>3. CASE Anyone
  <2>1. ASSUME NEW name, HandlePsetFree(name) PROVE OriginsAgree'
    BY <2>1, NameOrigins
  <2>2. ASSUME NEW tag, HandleRCAccept(tag) PROVE OriginsAgree'
    <3>1. tag \in DOMAIN rc_map /\ (AcceptAdd(tag) \/ AcceptSub(tag))
      BY <2>2 DEF HandleRCAccept, Fault
    <3>2. CASE AcceptSub(tag)
      <4>1. /\ UNCHANGED <<running_crs, process_states, pset_name_map, next_rc_tag>>
            /\ \A t \in DOMAIN rc_map' : t \in DOMAIN rc_map
        BY <3>2 DEF AcceptSub, psetVars
      <4>2. next_rc_tag \in Nat
        BY DEF TypeOK
      <4>. QED
        BY <4>1, <4>2, OriginsKept DEF Registered
    <3>. QED
      BY <3>1, <3>2, AcceptOrigins
  <2>. QED
    BY <1>3, <2>1, <2>2 DEF Anyone
<1>4. CASE ShutdownAll \/ UNCHANGED vars
  BY <1>4, OriginsUnchanged DEF ShutdownAll, vars, originVars, crVars, psetVars, rcVars
<1>. QED
  BY <1>1, <1>2, <1>3, <1>4 DEF Next, Terminated

\* The first processes were started by no change.
LEMMA OriginsInit == Init => OriginsAgree
<1>. SUFFICES ASSUME Init PROVE OriginsAgree
  OBVIOUS
<1>1. PICK first \in ManagerInit :
        /\ running_crs = first.pset
        /\ process_states = Started([c \in Rank |-> NoProcess], first.pset,
                                    [n \in {World} |-> first.pset], FALSE, NoTag)
  BY DEF Init
<1>2. first.pset \subseteq Rank
  BY ManagerAssumption, CRAssumption
<1>3. \A c \in running_crs : ~process_states[c].dynamic_start
  BY <1>1, <1>2 DEF Started
<1>. QED
  BY <1>3 DEF OriginsAgree

\* For every manager that keeps its promise a process can find those it was started
\* together with by the tag its session info gives (scheduler_handlers.c:127), whatever
\* process sets were freed and whoever has exited since.
THEOREM OriginsTold == Spec => []OriginsAgree
<1>1. TypeOK /\ IInv /\ OriginsAgree /\ [Next]_vars => OriginsAgree'
  BY OriginsStep
<1>. QED
  BY <1>1, OriginsInit, TypeCorrect, Invariance, PTL DEF Spec
=============================================================================
