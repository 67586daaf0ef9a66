---------------------- MODULE SchedulerRefinementProofs ----------------------
(***************************************************************************)
(* Scheduler implements SchedulerService: every handler is a step of the   *)
(* service, or leaves all it speaks of as it is.                           *)
(***************************************************************************)
EXTENDS SchedulerStepProofs, SchedulerRefinement

\* A running process that no change has started is told so.
FirstOriginsTold ==
  \A c \in running_crs : ~process_states[c].dynamic_start =>
    process_states[c].origin_rc_tag = NoTag

\* All the theorem rests on.
RInv == TypeOK /\ IInv /\ OriginsAgree /\ FirstOriginsTold

\* The service's origin, as a function of the scheduler's state.
OriginMap == [c \in running_crs |-> process_states[c].origin_rc_tag]

LEMMA OriginMapKept ==
  ASSUME UNCHANGED running_crs,
         \A c \in running_crs :
           process_states'[c].origin_rc_tag = process_states[c].origin_rc_tag
  PROVE  OriginMap' = OriginMap
BY DEF OriginMap

-----------------------------------------------------------------------------
(***************************************************************************)
(* Ends and questions.                                                     *)
(***************************************************************************)
LEMMA AbortEnds ==
  ASSUME Scheduling, NEW f, f # "none", NEW msgs, Abort(f, msgs)
  PROVE  Service!End
BY DEF Service!End, Scheduling, Abort, crVars, psetVars, rcVars

LEMMA ShutdownEnds ==
  ASSUME ShutdownAll
  PROVE  Service!End
BY DEF Service!End, Service!Commands, ShutdownAll, Command, crVars, psetVars, rcVars

\* What a question leaves alone is the whole state of the service.
LEMMA StateKept ==
  ASSUME UNCHANGED <<crVars, psetVars, rcVars, process_states, next_session_id, phase, fault>>
  PROVE  UNCHANGED Service!state
BY DEF Service!state, crVars, psetVars, rcVars

LEMMA InfoTold ==
  ASSUME RInv, NEW src \in CR, HandleSessionInfo(src)
  PROVE  Service!Answer(src) \/ Service!End
<1>1. CASE Abort("info_no_state", {})
  BY <1>1, AbortEnds DEF HandleSessionInfo
<1>2. CASE ~Abort("info_no_state", {})
  <2>1. /\ Scheduling /\ process_states[src].active
        /\ sent' = {SessionInfoAnswer(src, process_states[src])}
        /\ UNCHANGED <<crVars, psetVars, rcVars, process_states, next_session_id, phase, fault>>
    BY <1>2 DEF HandleSessionInfo
  <2>2. src \in running_crs
    BY <2>1, CRAssumption DEF RInv, IInv, RunningHaveState
  <2>3. process_states[src].pending_shutdown = (src \in pending_shutdowns)
    <3>1. process_states[src].pending_shutdown \in BOOLEAN
      BY CRAssumption DEF RInv, TypeOK, ProcessState
    <3>. QED
      BY <2>2, <3>1 DEF RInv, IInv, PendingShutdownsAgree
  <2>4. process_states[src].dynamic_start = (process_states[src].origin_rc_tag # NoTag)
    <3>1. process_states[src].dynamic_start \in BOOLEAN /\ next_rc_tag \in Nat
      BY CRAssumption DEF RInv, TypeOK, ProcessState
    <3>2. process_states[src].dynamic_start => process_states[src].origin_rc_tag # NoTag
      BY <2>2, <3>1 DEF RInv, OriginsAgree, NoTag
    <3>. QED
      BY <2>2, <3>1, <3>2 DEF RInv, FirstOriginsTold
  <2>5. SessionInfoAnswer(src, process_states[src]) = Service!SessionInfo(src)
    BY <2>2, <2>3, <2>4 DEF SessionInfoAnswer, Service!SessionInfo
  <2>. QED
    BY <2>1, <2>2, <2>5, StateKept DEF Service!Answer, Scheduling
<1>. QED
  BY <1>1, <1>2

LEMMA SetsTold ==
  ASSUME RInv, NEW src \in CR, HandleGetPsets(src)
  PROVE  Service!Answer(src) \/ Service!End
<1>1. CASE Abort("get_psets_no_state", {})
  BY <1>1, AbortEnds DEF HandleGetPsets
<1>2. CASE ~Abort("get_psets_no_state", {})
  <2>1. /\ Scheduling /\ process_states[src].active
        /\ sent' = {GetPsetsAnswer(src, process_states[src].psets_containing
                                          \cup {[name |-> Self, pset_size |-> 1]})}
        /\ UNCHANGED <<crVars, psetVars, rcVars, process_states, next_session_id, phase, fault>>
    BY <1>2 DEF HandleGetPsets
  <2>2. src \in running_crs
    BY <2>1, CRAssumption DEF RInv, IInv, RunningHaveState
  <2>. DEFINE refs == process_states[src].psets_containing
              sets == {[name |-> n, pset_size |-> Cardinality(pset_name_map[n])] :
                         n \in Service!SetsOf(src)}
  <2>3. refs \subseteq Backref
    BY CRAssumption DEF RInv, TypeOK, ProcessState
  <2>4. /\ \A n \in Registered : src \in pset_name_map[n] => \E r \in refs : r.name = n
        /\ \A r \in refs : /\ r.name \in Registered /\ src \in pset_name_map[r.name]
                           /\ r.pset_size = Cardinality(pset_name_map[r.name])
    BY <2>2 DEF RInv, IInv, BackrefsExact
  <2>5. \A n : n \in Service!SetsOf(src) <=> n \in Registered /\ src \in pset_name_map[n]
    BY DEF Service!SetsOf, Registered
  <2>. HIDE DEF refs
  <2>6. refs \subseteq sets
    BY <2>3, <2>4, <2>5 DEF Backref
  <2>7. sets \subseteq refs
    <3>. SUFFICES ASSUME NEW n \in Service!SetsOf(src)
                  PROVE  [name |-> n, pset_size |-> Cardinality(pset_name_map[n])] \in refs
      OBVIOUS
    <3>1. PICK r \in refs : r.name = n
      BY <2>4, <2>5
    <3>. QED
      BY <2>3, <2>4, <3>1 DEF Backref
  <2>8. refs = sets
    BY <2>6, <2>7
  <2>9. sent' = {Service!SetsAnswer(src)}
    BY <2>1, <2>8 DEF GetPsetsAnswer, Service!SetsAnswer, refs
  <2>. QED
    BY <2>1, <2>2, <2>9, StateKept DEF Service!Answer, Scheduling
<1>. QED
  BY <1>1, <1>2

\* Sizes and members of process sets are those of the registry.
LEMMA LookupsTold ==
  ASSUME NEW src \in CR, NEW name,
         HandlePsetInfo(src, name) \/ HandlePsetLookup(src, name) \/ HandleSessionFinalize(src)
  PROVE  Service!Answer(src)
<1>1. Scheduling /\ fault' = "none" /\ UNCHANGED Service!state
  BY StateKept DEF HandlePsetInfo, HandlePsetLookup, HandleSessionFinalize, Scheduling
<1>2. CASE HandlePsetInfo(src, name)
  <2>1. PICK k \in Service!Sizes \cup {0, 1} : sent' = {PsetInfoAnswer(src, k)}
    BY <1>2 DEF HandlePsetInfo, Service!Sizes, Registered
  <2>. QED
    BY <1>1, <2>1 DEF Service!Answer, PsetInfoAnswer, Scheduling
<1>3. CASE HandlePsetLookup(src, name)
  <2>1. sent' \in Service!LookupAnswers(src)
    <3>1. CASE name # Self /\ name \in Registered
      BY <1>3, <3>1 DEF HandlePsetLookup, Service!LookupAnswers, LookupAnswer,
                        LookupAnswerSize, Registered
    <3>. QED
      BY <1>3, <3>1 DEF HandlePsetLookup, Service!LookupAnswers, LookupAnswer, LookupAnswerSize
  <2>. QED
    BY <1>1, <2>1 DEF Service!Answer, Scheduling
<1>4. CASE HandleSessionFinalize(src)
  BY <1>1, <1>4 DEF Service!Answer, HandleSessionFinalize, SessionFinalizeAnswer, Scheduling
<1>. QED
  BY <1>2, <1>3, <1>4

LEMMA SessionOpens ==
  ASSUME RInv, NEW src \in CR, HandleSessionCreate(src)
  PROVE  Service!OpenSession(src)
<1>1. /\ Scheduling /\ fault' = "none"
      /\ sent' = {SessionCreateAnswer(src, next_session_id)}
      /\ next_session_id' = next_session_id + 1
      /\ UNCHANGED <<crVars, psetVars, rcVars, process_states, phase, fault>>
  BY DEF HandleSessionCreate, Scheduling
<1>2. next_session_id \in Nat
  BY DEF RInv, TypeOK
<1>3. next_session_id \in next_session_id .. next_session_id' - 1
  BY <1>1, <1>2
<1>. QED
  BY <1>1, <1>2, <1>3 DEF Service!OpenSession, SessionCreateAnswer, Scheduling, crVars,
                          psetVars, rcVars

-----------------------------------------------------------------------------
(***************************************************************************)
(* Process sets.                                                           *)
(***************************************************************************)
LEMMA FreesNames ==
  ASSUME RInv, NEW name, HandlePsetFree(name)
  PROVE  Service!Free(DOMAIN pset_name_map \ DOMAIN pset_name_map')
<1>. DEFINE freed == {name} \cap Registered
<1>1. /\ Scheduling /\ fault' = "none" /\ phase' = phase
      /\ pset_name_map' = Unregister(pset_name_map, freed)
      /\ process_states' = DropBackrefs(process_states, freed)
      /\ sent' = {}
      /\ UNCHANGED <<running_crs, pending_shutdowns, rc_map, next_rc_tag, next_session_id>>
  BY DEF HandlePsetFree, Scheduling, crVars, rcVars
<1>2. DOMAIN pset_name_map' = DOMAIN pset_name_map \ freed
  BY <1>1 DEF Unregister
<1>3. DOMAIN pset_name_map \ (DOMAIN pset_name_map \ DOMAIN pset_name_map')
        = DOMAIN pset_name_map \ freed
  BY <1>2
<1>4. OriginMap' = OriginMap
  <2>1. \A c \in Rank : process_states'[c].origin_rc_tag = process_states[c].origin_rc_tag
    BY <1>1 DEF RInv, TypeOK, DropBackrefs, ProcessState
  <2>2. running_crs \subseteq Rank
    BY CRAssumption DEF RInv, TypeOK
  <2>. QED
    BY <1>1, <2>1, <2>2, OriginMapKept
<1>. QED
  BY <1>1, <1>3, <1>4 DEF Service!Free, Unregister, Scheduling, OriginMap

\* The name an operation gives its result is not in the registry.
LEMMA NewNameFree ==
  ASSUME RInv, NEW p
  PROVE  NewName(p) \notin Registered
<1>1. OpName(next_op).kind = "op" /\ OpName(next_op).id = next_op /\ next_op \in Nat
  BY DEF OpName, RInv, TypeOK
<1>2. OpName(next_op) \notin Registered
  BY <1>1 DEF RInv, IInv, NamesFresh
<1>. QED
  BY <1>2 DEF NewName

LEMMA OperationTold ==
  ASSUME RInv, NEW src \in running_crs, NEW op, NEW n1, NEW n2, NEW p,
         HandlePsetOp(src, op, n1, n2, p)
  PROVE  \/ Service!Answer(src)
         \/ Service!End
         \/ \E n \in DOMAIN pset_name_map' : Service!Create(src, n)
<1>. DEFINE known == {n1, n2} \subseteq Registered \cup {Self}
            members == Result(op, Operand(src, n1), Operand(src, n2))
            name == NewName(p)
<1>0. Scheduling
  BY DEF HandlePsetOp
<1>1. CASE Abort("unsupported_op", {})
  BY <1>0, <1>1, AbortEnds
<1>2. CASE /\ sent' = {PsetOpAnswer(src, NoName)}
           /\ UNCHANGED <<crVars, psetVars, rcVars, process_states, next_session_id, phase, fault>>
  BY <1>0, <1>2, StateKept DEF Service!Answer, PsetOpAnswer, Scheduling
<1>3. CASE /\ known /\ op \in {"union", "intersect", "difference"} /\ members # {}
           /\ process_states' = AddBackrefs(process_states, name, members)
           /\ pset_name_map' = Register(pset_name_map, name, members)
           /\ sent' = {PsetOpAnswer(src, name)}
           /\ UNCHANGED <<crVars, rcVars, next_session_id, phase, fault>>
  <2>1. Operand(src, n1) \in Service!Operands(src) /\ Operand(src, n2) \in Service!Operands(src)
    BY <1>3 DEF Operand, Service!Operands, Registered
  <2>2. \E A, B \in Service!Operands(src) : members \in {A \cup B, A \cap B, A \ B}
    BY <1>3, <2>1 DEF Result
  <2>3. name \notin DOMAIN pset_name_map
    BY NewNameFree DEF Registered
  <2>4. \A c \in Rank : process_states'[c].origin_rc_tag = process_states[c].origin_rc_tag
    <3>. HIDE DEF name, members
    <3>. QED
      BY <1>3, AddBackrefsOrigin DEF RInv, TypeOK
  <2>5. OriginMap' = OriginMap
    <3>1. running_crs' = running_crs /\ running_crs \subseteq Rank
      BY <1>3, CRAssumption DEF RInv, TypeOK, crVars
    <3>. HIDE DEF name, members
    <3>. QED
      BY <2>4, <3>1, OriginMapKept
  <2>. HIDE DEF name, members
  <2>6. Service!Add(name, members)
    BY <1>3, <2>3 DEF Service!Add, Register
  <2>7. /\ name \in DOMAIN pset_name_map'
        /\ UNCHANGED <<running_crs, pending_shutdowns, rc_map, next_rc_tag, next_session_id, phase>>
        /\ fault = "none" /\ fault' = "none" /\ phase = "scheduling"
    BY <1>0, <1>3 DEF crVars, rcVars, Scheduling, Register
  <2>8. Service!Create(src, name)
    BY <1>3, <2>2, <2>3, <2>5, <2>6, <2>7 DEF Service!Create, PsetOpAnswer, OriginMap
  <2>. QED
    BY <2>7, <2>8
<1>. QED
  BY <1>1, <1>2, <1>3 DEF HandlePsetOp

-----------------------------------------------------------------------------
(***************************************************************************)
(* Resource changes.                                                       *)
(***************************************************************************)
LEMMA RefusalTold ==
  ASSUME NEW src \in CR, Scheduling, RefuseRC(src)
  PROVE  Service!Answer(src)
<1>1. UNCHANGED Service!state
  BY DEF RefuseRC, Service!state, crVars, psetVars
<1>. QED
  BY <1>1 DEF RefuseRC, RcAnswer, Service!Answer, Scheduling

\* What the manager proposes is a change the service may offer.
LEMMA ProposedChange ==
  ASSUME RInv, NEW change \in ManagerRC(manager, running_crs)
  PROVE  /\ change \in ChangeOf(Rank)
         /\ change.rc_type # "none" => change.pset # {}
         /\ change.rc_type = "add" => change.pset \subseteq CR \ running_crs
         /\ change.rc_type = "sub" => change.pset \subseteq running_crs
<1>1. manager \in ManagerState /\ running_crs \in SUBSET CR /\ running_crs \in SUBSET Rank
  BY CRAssumption DEF RInv, TypeOK
<1>. QED
  BY <1>1, ManagerAssumption, ManagerPromise

\* The part of an offer that the two kinds have in common.
LEMMA OfferOpens ==
  ASSUME RInv, NEW change, Offer(change), NEW what, change.rc_type = what
  PROVE  LET tag == next_rc_tag + 1
             made == [rc_type |-> what, new_pset_name |-> RcName(next_rc_tag),
                      pset |-> change.pset]
         IN  /\ tag \in next_rc_tag .. next_rc_tag' - 1
             /\ tag \in DOMAIN rc_map' /\ rc_map'[tag] = made
             /\ rc_map' = [u \in DOMAIN rc_map \cup {tag} |-> IF u = tag THEN made ELSE rc_map[u]]
             /\ RcName(next_rc_tag) \notin DOMAIN pset_name_map
             /\ Service!Add(RcName(next_rc_tag), change.pset)
<1>1. next_rc_tag \in Nat
  BY DEF RInv, TypeOK
<1>2. RcName(next_rc_tag) \notin DOMAIN pset_name_map
  BY <1>1 DEF RInv, IInv, OffersAgree, RcName, Registered
<1>3. next_rc_tag' = next_rc_tag + 2
  BY DEF Offer
<1>4. next_rc_tag + 1 \in next_rc_tag .. next_rc_tag' - 1
  BY <1>1, <1>3
<1>5. Service!Add(RcName(next_rc_tag), change.pset)
  BY <1>2 DEF Service!Add, Offer, Register
<1>. QED
  BY <1>2, <1>4, <1>5 DEF Offer

LEMMA OfferTold ==
  ASSUME RInv, NEW src \in CR, Scheduling, pending_shutdowns = {},
         NEW change \in ManagerRC(manager, running_crs),
         OfferAdd(src, change) \/ OfferSub(src, change)
  PROVE  \/ Service!End
         \/ \E t \in DOMAIN rc_map' :
              Service!Offer(src, t, rc_map'[t].new_pset_name, rc_map'[t])
<1>. DEFINE tag == next_rc_tag + 1
            n == RcName(next_rc_tag)
            made == [rc_type |-> change.rc_type, new_pset_name |-> n, pset |-> change.pset]
            named == AddBackrefs(process_states, n, change.pset)
<1>0. CASE Abort("sub_no_state", {})
  BY <1>0, AbortEnds
<1>. SUFFICES ASSUME ~Abort("sub_no_state", {})
              PROVE  \E t \in DOMAIN rc_map' :
                       Service!Offer(src, t, rc_map'[t].new_pset_name, rc_map'[t])
  BY <1>0
<1>1. /\ Offer(change)
      /\ sent' = {RcAnswer(src, tag, change.rc_type, n)}
      /\ \/ change.rc_type = "add" /\ pending_shutdowns' = pending_shutdowns
         \/ change.rc_type = "sub" /\ pending_shutdowns' = change.pset
      /\ \/ process_states' = named
         \/ process_states' = [c \in Rank |-> IF c \in change.pset
                                THEN [named[c] EXCEPT !.pending_shutdown = TRUE]
                                ELSE named[c]]
      /\ UNCHANGED <<running_crs, next_session_id, phase, fault>>
  BY DEF OfferAdd, OfferSub
<1>2. /\ change \in ChangeOf(Rank)
      /\ change.pset # {}
      /\ \/ change.rc_type = "add" /\ change.pset \subseteq CR \ running_crs
         \/ change.rc_type = "sub" /\ change.pset \subseteq running_crs
  BY <1>1, ProposedChange
<1>3. OriginMap' = OriginMap
  <2>1. \A c \in Rank : named[c].origin_rc_tag = process_states[c].origin_rc_tag
    BY AddBackrefsOrigin DEF RInv, TypeOK
  <2>2. named \in [Rank -> ProcessState]
    BY <1>2, NamesType, AddBackrefsType DEF RInv, TypeOK, ChangeOf
  <2>. HIDE DEF named
  <2>3. \A c \in Rank : process_states'[c].origin_rc_tag = named[c].origin_rc_tag
    BY <1>1, <2>2 DEF ProcessState
  <2>4. running_crs \subseteq Rank
    BY CRAssumption DEF RInv, TypeOK
  <2>. QED
    BY <1>1, <2>1, <2>3, <2>4, OriginMapKept
<1>4. /\ tag \in next_rc_tag .. next_rc_tag' - 1
      /\ tag \in DOMAIN rc_map' /\ rc_map'[tag] = made
      /\ rc_map' = [u \in DOMAIN rc_map \cup {tag} |-> IF u = tag THEN made ELSE rc_map[u]]
      /\ n \notin DOMAIN pset_name_map
      /\ Service!Add(n, change.pset)
  BY <1>1, OfferOpens
<1>. HIDE DEF n, tag, named
<1>5. Service!Offer(src, tag, n, made)
  BY <1>1, <1>2, <1>3, <1>4 DEF Service!Offer, Scheduling, RcAnswer, OriginMap
<1>. QED
  BY <1>4, <1>5

\* An accepted ADD starts what it offered; nothing else is started.
LEMMA AcceptTold ==
  ASSUME RInv, NEW tag, HandleRCAccept(tag)
  PROVE  Service!End \/ \E t \in DOMAIN rc_map : Service!Accept(t)
<1>0. Scheduling
  BY DEF HandleRCAccept
<1>1. CASE \E f \in Fault \ {"none"} : Abort(f, {})
  BY <1>0, <1>1, AbortEnds
<1>. SUFFICES ASSUME ~\E f \in Fault \ {"none"} : Abort(f, {}) PROVE Service!Accept(tag) /\ tag \in DOMAIN rc_map
  BY <1>1
<1>2. tag \in DOMAIN rc_map /\ (AcceptAdd(tag) \/ AcceptSub(tag))
  BY DEF HandleRCAccept, Fault
<1>3. running_crs \subseteq Rank /\ next_rc_tag \in Nat
  BY CRAssumption DEF RInv, TypeOK
<1>4. CASE AcceptAdd(tag)
  <2>. DEFINE starting == rc_map[tag].pset
  <2>1. /\ rc_map[tag].rc_type = "add"
        /\ starting \subseteq CR \ running_crs
        /\ process_states' = Started(process_states, starting, pset_name_map, TRUE, tag)
        /\ running_crs' = running_crs \cup starting
        /\ sent' = StartCommands(starting)
        /\ rc_map' = [t \in DOMAIN rc_map \ {tag} |-> rc_map[t]]
        /\ UNCHANGED <<pending_shutdowns, pset_name_map, next_rc_tag, next_session_id, phase, fault>>
    BY <1>4 DEF AcceptAdd, Fault, psetVars
  <2>. HIDE DEF starting
  <2>2. starting \subseteq Rank
    BY <2>1, CRAssumption
  <2>3. OriginMap' = [c \in running_crs \cup starting |->
                        IF c \in starting THEN tag ELSE process_states[c].origin_rc_tag]
    BY <1>3, <2>1, <2>2 DEF OriginMap, Started
  <2>4. OriginMap' = [c \in running_crs \cup starting |->
                        IF c \in starting THEN tag ELSE OriginMap[c]]
    BY <2>3 DEF OriginMap
  <2>5. sent' = Service!Commands(starting, "start")
    BY <2>1 DEF StartCommands, Command, Service!Commands
  <2>. QED
    BY <1>0, <1>2, <2>1, <2>4, <2>5 DEF Service!Accept, Scheduling, OriginMap, starting
<1>5. CASE AcceptSub(tag)
  BY <1>0, <1>2, <1>5 DEF AcceptSub, Service!Accept, Scheduling, psetVars
<1>. QED
  BY <1>2, <1>4, <1>5

-----------------------------------------------------------------------------
(***************************************************************************)
(* Exits.                                                                  *)
(***************************************************************************)
LEMMA ExitTold ==
  ASSUME RInv, NEW src \in CR, HandleWorkerDone(src)
  PROVE  Service!Exit(src) \/ Service!End
<1>. DEFINE names == {r.name : r \in process_states[src].psets_containing}
            freed == names \cap Registered
<1>0. Scheduling
  BY DEF HandleWorkerDone
<1>1. CASE \E f \in Fault \ {"none"} : Abort(f, {})
  BY <1>0, <1>1, AbortEnds
<1>. SUFFICES ASSUME ~\E f \in Fault \ {"none"} : Abort(f, {}) PROVE Service!Exit(src)
  BY <1>1
<1>2. /\ src \in running_crs
      /\ pending_shutdowns' = pending_shutdowns \ {src}
      /\ pset_name_map' = Unregister(pset_name_map, freed)
      /\ process_states' = [DropBackrefs(process_states, freed) EXCEPT ![src] = NoProcess]
      /\ running_crs' = running_crs \ {src}
      /\ sent' = {}
      /\ UNCHANGED <<rc_map, next_rc_tag, next_session_id, phase, fault>>
  BY DEF HandleWorkerDone, Fault, rcVars
<1>3. freed = Service!SetsOf(src)
  <2>1. /\ \A n \in Registered : src \in pset_name_map[n] => n \in names
        /\ \A n \in names : n \in Registered /\ src \in pset_name_map[n]
    BY <1>2 DEF RInv, IInv, BackrefsExact
  <2>. HIDE DEF names
  <2>. QED
    BY <2>1 DEF Service!SetsOf, Registered
<1>. HIDE DEF freed
<1>4. pset_name_map' = [n \in DOMAIN pset_name_map \ Service!SetsOf(src) |-> pset_name_map[n]]
  BY <1>2, <1>3 DEF Unregister
<1>5. OriginMap' = [d \in running_crs \ {src} |-> OriginMap[d]]
  <2>1. \A c \in Rank \ {src} : process_states'[c].origin_rc_tag = process_states[c].origin_rc_tag
    BY <1>2 DEF RInv, TypeOK, ProcessState, DropBackrefs
  <2>2. running_crs \subseteq Rank
    BY CRAssumption DEF RInv, TypeOK
  <2>. QED
    BY <1>2, <2>1, <2>2 DEF OriginMap
<1>. QED
  BY <1>0, <1>2, <1>4, <1>5 DEF Service!Exit, Scheduling, OriginMap

-----------------------------------------------------------------------------
(***************************************************************************)
(* The first processes.                                                    *)
(***************************************************************************)
LEMMA ServiceInit == Init => Service!Init /\ FirstOriginsTold
<1>. SUFFICES ASSUME Init PROVE Service!Init /\ FirstOriginsTold
  OBVIOUS
<1>1. PICK first \in ManagerInit :
        /\ running_crs = first.pset
        /\ pset_name_map = [n \in {World} |-> first.pset]
        /\ process_states = Started([c \in Rank |-> NoProcess], first.pset,
                                    [n \in {World} |-> first.pset], FALSE, NoTag)
        /\ sent = StartCommands(first.pset)
  BY DEF Init
<1>2. first.pset \in (SUBSET CR) \ {{}} /\ first.pset \subseteq Rank
  BY ManagerAssumption, CRAssumption
<1>3. \A c \in running_crs : process_states[c].origin_rc_tag = NoTag
  BY <1>1, <1>2 DEF Started
<1>4. [c \in running_crs |-> process_states[c].origin_rc_tag] = [c \in running_crs |-> NoTag]
  BY <1>3
<1>5. sent = Service!Commands(running_crs, "start")
  BY <1>1 DEF StartCommands, Command, Service!Commands
<1>6. /\ pending_shutdowns = {}
      /\ rc_map = [t \in {} |-> {}]
      /\ next_session_id = 0 /\ next_rc_tag = 0
      /\ phase = "scheduling" /\ fault = "none"
  BY DEF Init
<1>. QED
  BY <1>1, <1>2, <1>3, <1>4, <1>5, <1>6 DEF Service!Init, FirstOriginsTold

\* Whoever runs after a step ran before it, or was started by a change.
LEMMA FirstOriginsKept ==
  ASSUME FirstOriginsTold,
         \A c \in running_crs' :
           \/ process_states'[c].dynamic_start
           \/ /\ c \in running_crs
              /\ process_states'[c].dynamic_start = process_states[c].dynamic_start
              /\ process_states'[c].origin_rc_tag = process_states[c].origin_rc_tag
  PROVE  FirstOriginsTold'
BY DEF FirstOriginsTold

\* The same for steps by which the processes at most get other back references.
LEMMA FirstOriginsSame ==
  ASSUME FirstOriginsTold, running_crs \subseteq Rank, running_crs' = running_crs,
         \A c \in Rank :
           /\ process_states'[c].dynamic_start = process_states[c].dynamic_start
           /\ process_states'[c].origin_rc_tag = process_states[c].origin_rc_tag
  PROVE  FirstOriginsTold'
BY DEF FirstOriginsTold

LEMMA OfferFirstOrigins ==
  ASSUME RInv, NEW src, NEW change \in ChangeOf(Rank), Offer(change), running_crs' = running_crs,
         LET named == AddBackrefs(process_states, RcName(next_rc_tag), change.pset)
         IN  \/ process_states' = named
             \/ process_states' = [c \in Rank |-> IF c \in change.pset
                                     THEN [named[c] EXCEPT !.pending_shutdown = TRUE]
                                     ELSE named[c]]
  PROVE  FirstOriginsTold'
<1>. DEFINE named == AddBackrefs(process_states, RcName(next_rc_tag), change.pset)
<1>1. \A c \in Rank : /\ named[c].dynamic_start = process_states[c].dynamic_start
                      /\ named[c].origin_rc_tag = process_states[c].origin_rc_tag
  BY AddBackrefsOrigin DEF RInv, TypeOK
<1>2. named \in [Rank -> ProcessState]
  BY NamesType, AddBackrefsType DEF RInv, TypeOK, ChangeOf
<1>. HIDE DEF named
<1>3. \A c \in Rank : /\ process_states'[c].dynamic_start = named[c].dynamic_start
                      /\ process_states'[c].origin_rc_tag = named[c].origin_rc_tag
  BY <1>2 DEF ProcessState, named
<1>4. running_crs \subseteq Rank
  BY CRAssumption DEF RInv, TypeOK
<1>. QED
  BY <1>1, <1>3, <1>4, FirstOriginsSame DEF RInv

LEMMA FirstOriginsStep ==
  ASSUME RInv, [Next]_vars
  PROVE  FirstOriginsTold'
<1>. DEFINE same == UNCHANGED <<running_crs, process_states>>
<1>. USE DEF Fault
<1>0. /\ running_crs \subseteq Rank /\ process_states \in [Rank -> ProcessState]
      /\ FirstOriginsTold
  BY CRAssumption DEF RInv, TypeOK
<1>1. CASE same
  BY <1>0, <1>1, FirstOriginsSame
<1>. SUFFICES ASSUME ~same PROVE FirstOriginsTold'
  BY <1>1
<1>2. \A f, msgs : ~Abort(f, msgs)
  BY DEF Abort, crVars
<1>3. ASSUME NEW src \in CR, HandleWorkerDone(src) PROVE FirstOriginsTold'
  <2>. DEFINE freed == {r.name : r \in process_states[src].psets_containing} \cap Registered
  <2>1. /\ process_states' = [DropBackrefs(process_states, freed) EXCEPT ![src] = NoProcess]
        /\ running_crs' = running_crs \ {src}
    BY <1>2, <1>3 DEF HandleWorkerDone
  <2>. HIDE DEF freed
  <2>2. \A c \in Rank \ {src} :
          /\ process_states'[c].dynamic_start = process_states[c].dynamic_start
          /\ process_states'[c].origin_rc_tag = process_states[c].origin_rc_tag
    BY <1>0, <2>1 DEF ProcessState, DropBackrefs
  <2>. QED
    BY <1>0, <2>1, <2>2, FirstOriginsKept
<1>4. ASSUME NEW src, NEW op, NEW n1, NEW n2, NEW p, HandlePsetOp(src, op, n1, n2, p)
      PROVE  FirstOriginsTold'
  <2>. DEFINE members == Result(op, Operand(src, n1), Operand(src, n2))
              name == NewName(p)
  <2>1. process_states' = AddBackrefs(process_states, name, members) /\ running_crs' = running_crs
    BY <1>2, <1>4 DEF HandlePsetOp, crVars
  <2>. HIDE DEF name, members
  <2>2. \A c \in Rank :
          /\ process_states'[c].dynamic_start = process_states[c].dynamic_start
          /\ process_states'[c].origin_rc_tag = process_states[c].origin_rc_tag
    BY <1>0, <2>1, AddBackrefsOrigin
  <2>. QED
    BY <1>0, <2>1, <2>2, FirstOriginsSame
<1>5. ASSUME NEW name, HandlePsetFree(name) PROVE FirstOriginsTold'
  <2>1. \A c \in Rank :
          /\ process_states'[c].dynamic_start = process_states[c].dynamic_start
          /\ process_states'[c].origin_rc_tag = process_states[c].origin_rc_tag
    BY <1>0, <1>5 DEF HandlePsetFree, DropBackrefs, ProcessState
  <2>. QED
    BY <1>0, <1>5, <2>1, FirstOriginsSame DEF HandlePsetFree, crVars
<1>6. ASSUME NEW src \in CR, HandleRC(src) PROVE FirstOriginsTold'
  <2>1. PICK change \in ManagerRC(manager, running_crs) :
          OfferAdd(src, change) \/ OfferSub(src, change)
    BY <1>6 DEF HandleRC, RefuseRC, crVars
  <2>2. change \in ChangeOf(Rank)
    BY ProposedChange
  <2>3. /\ Offer(change) /\ running_crs' = running_crs
        /\ LET named == AddBackrefs(process_states, RcName(next_rc_tag), change.pset)
           IN  \/ process_states' = named
               \/ process_states' = [c \in Rank |-> IF c \in change.pset
                                       THEN [named[c] EXCEPT !.pending_shutdown = TRUE]
                                       ELSE named[c]]
    BY <1>2, <2>1 DEF OfferAdd, OfferSub
  <2>. QED
    BY <2>2, <2>3, OfferFirstOrigins
<1>7. ASSUME NEW tag, HandleRCAccept(tag) PROVE FirstOriginsTold'
  <2>1. /\ \A c \in rc_map[tag].pset : c \in CR
        /\ process_states' = Started(process_states, rc_map[tag].pset, pset_name_map, TRUE, tag)
        /\ running_crs' = running_crs \cup rc_map[tag].pset
    BY <1>2, <1>7 DEF HandleRCAccept, AcceptAdd, AcceptSub
  <2>2. \A c \in running_crs' : IF c \in rc_map[tag].pset
          THEN process_states'[c].dynamic_start
          ELSE c \in running_crs /\ process_states'[c] = process_states[c]
    BY <1>0, <2>1, CRAssumption DEF Started
  <2>. QED
    BY <1>0, <2>2, FirstOriginsKept
<1>. QED
  <2>1. Next
    BY DEF vars, crVars
  <2>2. /\ \A src \in CR : ~HandleSessionInfo(src) /\ ~HandleGetPsets(src)
        /\ \A src : /\ ~HandleSessionCreate(src) /\ ~HandleSessionFinalize(src)
                    /\ ~HandleSchedHints(src)
                    /\ \A name : ~HandlePsetInfo(src, name) /\ ~HandlePsetLookup(src, name)
        /\ ~ShutdownAll /\ ~Terminated
    BY <1>2 DEF HandleSessionInfo, HandleGetPsets, HandleSessionCreate, HandleSessionFinalize,
           HandleSchedHints, HandlePsetInfo, HandlePsetLookup, ShutdownAll, Terminated,
           vars, crVars
  <2>3. running_crs \subseteq CR
    BY DEF RInv, TypeOK
  <2>. QED
    BY <1>3, <1>4, <1>5, <1>6, <1>7, <2>1, <2>2, <2>3 DEF Next, Checked, Running, Anyone

-----------------------------------------------------------------------------
(***************************************************************************)
(* The theorem.                                                            *)
(***************************************************************************)
LEMMA ServiceStep ==
  ASSUME RInv, [Next]_vars
  PROVE  [Service!Next]_(Service!vars)
<1>1. CASE UNCHANGED vars
  BY <1>1 DEF vars, crVars, psetVars, rcVars, Service!vars, Service!state
<1>2. ASSUME NEW src \in CR, Checked(src) PROVE Service!Next
  <2>1. Service!Answer(src) \/ Service!Exit(src) \/ Service!End
    BY <1>2, InfoTold, SetsTold, ExitTold DEF Checked
  <2>. QED
    BY <2>1 DEF Service!Next
<1>3. ASSUME NEW src \in running_crs, Running(src) PROVE Service!Next
  <2>1. src \in CR
    BY DEF RInv, TypeOK
  <2>2. CASE HandleSessionCreate(src)
    BY <2>1, <2>2, SessionOpens DEF Service!Next
  <2>3. CASE HandleSchedHints(src)
    BY <2>3, AbortEnds DEF HandleSchedHints, Service!Next
  <2>4. CASE \/ HandleSessionFinalize(src)
             \/ \E name \in Names : HandlePsetInfo(src, name) \/ HandlePsetLookup(src, name)
    BY <2>1, <2>4, LookupsTold DEF Service!Next
  <2>5. ASSUME NEW op, NEW n1, NEW n2, NEW p, HandlePsetOp(src, op, n1, n2, p)
        PROVE  Service!Next
    BY <2>1, <2>5, OperationTold DEF Service!Next
  <2>6. CASE HandleRC(src)
    <3>1. Scheduling
      BY <2>6 DEF HandleRC
    <3>2. CASE RefuseRC(src)
      BY <2>1, <3>1, <3>2, RefusalTold DEF Service!Next
    <3>3. ASSUME pending_shutdowns = {}, NEW change \in ManagerRC(manager, running_crs),
                 OfferAdd(src, change) \/ OfferSub(src, change)
          PROVE  Service!Next
      BY <2>1, <3>1, <3>3, OfferTold DEF Service!Next
    <3>. QED
      BY <2>6, <3>2, <3>3 DEF HandleRC
  <2>. QED
    BY <1>3, <2>2, <2>3, <2>4, <2>5, <2>6 DEF Running
<1>4. CASE Anyone
  BY <1>4, FreesNames, AcceptTold DEF Anyone, Service!Next
<1>5. CASE ShutdownAll
  BY <1>5, ShutdownEnds DEF Service!Next
<1>. QED
  BY <1>1, <1>2, <1>3, <1>4, <1>5 DEF Next, Terminated

\* For every manager that keeps its promise, and any number of CRs, each handler does one
\* step of what SchedulerService promises, or the job aborts: every answer tells the
\* truth about who runs, who is asked to leave and which process sets there are.
THEOREM ServiceImplemented == Spec => ImplementsService
<1>1. RInv /\ [Next]_vars => [Service!Next]_(Service!vars) /\ FirstOriginsTold'
  BY ServiceStep, FirstOriginsStep
<1>2. RInv <=> TypeOK /\ IInv /\ OriginsAgree /\ FirstOriginsTold
  BY DEF RInv
<1>. QED
  BY <1>1, <1>2, ServiceInit, TypeCorrect, Invariance, OriginsTold, PTL
     DEF Spec, ImplementsService, Service!Spec
=============================================================================
