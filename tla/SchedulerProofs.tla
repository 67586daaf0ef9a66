--------------------------- MODULE SchedulerProofs ---------------------------
(***************************************************************************)
(* Proofs about the scheduler, for every set of computing resources, every *)
(* manager that keeps its promise and every bound.                         *)
(***************************************************************************)
EXTENDS SchedulerInvariants, FiniteSetTheorems, TLAPS

-----------------------------------------------------------------------------
(***************************************************************************)
(* Lemmas about the operators the handlers are built from.                 *)
(***************************************************************************)
\* The sizes the scheduler computes are natural numbers: process sets are finite.
LEMMA SizeIsNat == \A S \in SUBSET Rank : Cardinality(S) \in Nat
BY FS_Subset, FS_CardinalityType, CRAssumption

\* Back references only ever hold names and sizes.
LEMMA PsetsContainingType ==
  ASSUME NEW map, DOMAIN map \subseteq PsetName,
         \A n \in DOMAIN map : map[n] \in SUBSET Rank, NEW c
  PROVE  PsetsContaining(c, map) \subseteq Backref
BY SizeIsNat DEF PsetsContaining, Backref

LEMMA StartedType ==
  ASSUME NEW states \in [Rank -> ProcessState], NEW S, NEW map,
         DOMAIN map \subseteq PsetName, \A n \in DOMAIN map : map[n] \in SUBSET Rank,
         NEW dynamic \in BOOLEAN, NEW tag \in Int
  PROVE  Started(states, S, map, dynamic, tag) \in [Rank -> ProcessState]
BY PsetsContainingType DEF Started, ProcessState

LEMMA AddBackrefsType ==
  ASSUME NEW states \in [Rank -> ProcessState], NEW n \in PsetName,
         NEW members \in SUBSET Rank
  PROVE  AddBackrefs(states, n, members) \in [Rank -> ProcessState]
<1>. DEFINE ref == [name |-> n, pset_size |-> Cardinality(members)]
<1>1. ref \in Backref
  BY SizeIsNat DEF Backref
<1>2. ASSUME NEW c \in Rank
      PROVE  InsertName(states[c].psets_containing, ref) \in SUBSET Backref
  BY <1>1 DEF InsertName, ProcessState
<1>. QED
  BY <1>2 DEF AddBackrefs, ProcessState

LEMMA DropBackrefsType ==
  ASSUME NEW states \in [Rank -> ProcessState], NEW names
  PROVE  DropBackrefs(states, names) \in [Rank -> ProcessState]
BY DEF DropBackrefs, ProcessState

LEMMA NamesType ==
  /\ NoName \in PsetName /\ Self \in PsetName /\ World \in PsetName
  /\ \A i \in Nat : RcName(i) \in PsetName /\ OpName(i) \in PsetName /\ Proposed(i) \in PsetName
BY DEF PsetName, NoName, Self, World, RcName, OpName, Proposed

\* What can be asked for is a name, and an operand is a set of ranks.
LEMMA NewNameType ==
  ASSUME next_op \in Nat, NEW p \in {NoProposal} \cup DOMAIN Proposals
  PROVE  NewName(p) \in PsetName
BY NamesType, ProposalAssumption DEF NewName, NoProposal

-----------------------------------------------------------------------------
(***************************************************************************)
(* Type correctness.                                                       *)
(***************************************************************************)
\* An aborting step, or one that only answers, leaves everything well-typed.
LEMMA AbortType ==
  ASSUME TypeOK, NEW f \in Fault, NEW msgs \in SUBSET Message, Abort(f, msgs)
  PROVE  TypeOK'
BY DEF TypeOK, Abort, Registered, crVars, psetVars, rcVars

LEMMA AnswerType ==
  ASSUME TypeOK, sent' \in SUBSET Message,
         UNCHANGED <<crVars, psetVars, rcVars, process_states, next_session_id, phase, fault>>
  PROVE  TypeOK'
BY DEF TypeOK, Registered, crVars, psetVars, rcVars

\* The initial process set is started with correct types.
LEMMA InitType == Init => TypeOK
<1>. SUFFICES ASSUME Init PROVE TypeOK
  OBVIOUS
<1>1. PICK first \in ManagerInit :
        /\ manager = first.manager
        /\ running_crs = first.pset
        /\ pset_name_map = [n \in {World} |-> first.pset]
        /\ process_states = Started([c \in Rank |-> NoProcess], first.pset,
                                    [n \in {World} |-> first.pset], FALSE, NoTag)
        /\ cr_state = [c \in CR |-> IF c \in first.pset THEN "running" ELSE "idle"]
        /\ sent = StartCommands(first.pset)
  BY DEF Init
<1>2. first.pset \in SUBSET CR /\ first.manager \in ManagerState
  BY ManagerAssumption
<1>3. process_states \in [Rank -> ProcessState]
  <2>1. [c \in Rank |-> NoProcess] \in [Rank -> ProcessState]
    BY DEF NoProcess, ProcessState, NoTag
  <2>. DEFINE world == [n \in {World} |-> first.pset]
  <2>2. DOMAIN world \subseteq PsetName /\ \A n \in DOMAIN world : world[n] \in SUBSET Rank
    BY <1>2, NamesType, CRAssumption
  <2>3. NoTag \in Int
    BY DEF NoTag
  <2>. HIDE DEF world
  <2>4. Started([c \in Rank |-> NoProcess], first.pset, world, FALSE, NoTag)
          \in [Rank -> ProcessState]
    BY <2>1, <2>2, <2>3, StartedType
  <2>. QED
    BY <1>1, <2>4 DEF world
<1>4. sent \subseteq Message
  BY <1>1, <1>2 DEF StartCommands, Command, Message
<1>5. Registered \subseteq PsetName /\ \A n \in Registered : pset_name_map[n] \in SUBSET Rank
  BY <1>1, <1>2, NamesType, CRAssumption DEF Registered
<1>6. cr_state \in [CR -> CrState]
  BY <1>1 DEF CrState
<1>. QED
  BY <1>1, <1>2, <1>3, <1>4, <1>5, <1>6 DEF Init, TypeOK, Fault, NoTag

LEMMA WorkerDoneType ==
  ASSUME TypeOK, NEW src \in CR, HandleWorkerDone(src)
  PROVE  TypeOK'
<1>. DEFINE names == {r.name : r \in process_states[src].psets_containing}
            freed == names \cap Registered
<1>1. CASE \E f \in Fault : Abort(f, {})
  BY <1>1, AbortType
<1>2. CASE /\ pending_shutdowns' = pending_shutdowns \ {src}
           /\ pset_name_map' = Unregister(pset_name_map, freed)
           /\ process_states' = [DropBackrefs(process_states, freed) EXCEPT ![src] = NoProcess]
           /\ running_crs' = running_crs \ {src}
           /\ SetState({src}, "idle")
           /\ sent' = {}
           /\ UNCHANGED <<rcVars, next_op, next_session_id, phase, fault>>
  <2>1. DropBackrefs(process_states, freed) \in [Rank -> ProcessState]
    BY DropBackrefsType DEF TypeOK
  <2>2. NoProcess \in ProcessState
    BY DEF NoProcess, ProcessState, NoTag
  <2>3. process_states' \in [Rank -> ProcessState]
    BY <1>2, <2>1, <2>2
  <2>4. cr_state' \in [CR -> CrState]
    BY <1>2 DEF SetState, TypeOK, CrState
  <2>5. /\ Registered' \subseteq PsetName
        /\ \A n \in Registered' : pset_name_map'[n] \in SUBSET Rank
    BY <1>2 DEF Unregister, Registered, TypeOK
  <2>. QED
    BY <1>2, <2>3, <2>4, <2>5 DEF TypeOK, rcVars
<1>. QED
  BY <1>1, <1>2 DEF HandleWorkerDone, Fault

\* The requests that change nothing but the session counter.
LEMMA ReadingType ==
  ASSUME TypeOK, NEW src \in CR
  PROVE  /\ HandleSessionCreate(src) => TypeOK'
         /\ HandleSessionInfo(src) => TypeOK'
         /\ HandleSessionFinalize(src) => TypeOK'
         /\ HandleGetPsets(src) => TypeOK'
         /\ HandleSchedHints(src) => TypeOK'
         /\ \A name \in Names : HandlePsetInfo(src, name) => TypeOK'
         /\ \A name \in Names : HandlePsetLookup(src, name) => TypeOK'
<1>1. HandleSessionCreate(src) => TypeOK'
  <2>. SUFFICES ASSUME HandleSessionCreate(src) PROVE TypeOK'
    OBVIOUS
  <2>1. sent' \subseteq Message
    BY DEF HandleSessionCreate, SessionCreateAnswer, Message, TypeOK
  <2>. QED
    BY <2>1 DEF HandleSessionCreate, TypeOK, Registered, crVars, psetVars, rcVars
<1>2. HandleSessionInfo(src) => TypeOK'
  <2>. SUFFICES ASSUME HandleSessionInfo(src) PROVE TypeOK'
    OBVIOUS
  <2>1. CASE Abort("info_no_state", {})
    BY <2>1, AbortType DEF Fault
  <2>2. CASE ~Abort("info_no_state", {})
    <3>1. process_states[src] \in ProcessState
      BY CRAssumption DEF TypeOK
    <3>2. sent' \subseteq Message
      BY <2>2, <3>1 DEF HandleSessionInfo, SessionInfoAnswer, Message, ProcessState
    <3>. QED
      BY <2>2, <3>2, AnswerType DEF HandleSessionInfo
  <2>. QED
    BY <2>1, <2>2
<1>3. HandleSessionFinalize(src) => TypeOK'
  <2>. SUFFICES ASSUME HandleSessionFinalize(src) PROVE TypeOK'
    OBVIOUS
  <2>1. sent' \subseteq Message
    BY DEF HandleSessionFinalize, SessionFinalizeAnswer, Message
  <2>. QED
    BY <2>1, AnswerType DEF HandleSessionFinalize
<1>4. HandleGetPsets(src) => TypeOK'
  <2>. SUFFICES ASSUME HandleGetPsets(src) PROVE TypeOK'
    OBVIOUS
  <2>1. CASE Abort("get_psets_no_state", {})
    BY <2>1, AbortType DEF Fault
  <2>2. CASE ~Abort("get_psets_no_state", {})
    <3>. DEFINE ns == process_states[src].psets_containing
                        \cup {[name |-> Self, pset_size |-> 1]}
    <3>1. ns \subseteq Backref
      BY CRAssumption, NamesType DEF TypeOK, ProcessState, Backref
    <3>2. GetPsetsAnswer(src, ns) \in Message
      BY <3>1 DEF GetPsetsAnswer, Message
    <3>. QED
      BY <2>2, <3>2, AnswerType DEF HandleGetPsets
  <2>. QED
    BY <2>1, <2>2
<1>5. HandleSchedHints(src) => TypeOK'
  <2>1. {SchedHintsAnswer(src)} \in SUBSET Message /\ "free_null_info" \in Fault
    BY DEF SchedHintsAnswer, Message, Fault
  <2>. QED
    BY <2>1, AbortType DEF HandleSchedHints
<1>6. ASSUME NEW name \in Names, HandlePsetInfo(src, name)
      PROVE  TypeOK'
  <2>1. \A k \in Nat : PsetInfoAnswer(src, k) \in Message
    BY DEF PsetInfoAnswer, Message
  <2>2. name \in Registered => Cardinality(pset_name_map[name]) \in Nat
    BY SizeIsNat DEF TypeOK
  <2>3. sent' \subseteq Message
    BY <1>6, <2>1, <2>2 DEF HandlePsetInfo
  <2>. QED
    BY <1>6, <2>3, AnswerType DEF HandlePsetInfo
<1>7. ASSUME NEW name \in Names, HandlePsetLookup(src, name)
      PROVE  TypeOK'
  <2>1. /\ \A k \in Nat : LookupAnswerSize(src, k) \in Message
        /\ \A S \in SUBSET Rank : LookupAnswer(src, S) \in Message
    BY DEF LookupAnswerSize, LookupAnswer, Message
  <2>2. name \in Registered => /\ pset_name_map[name] \in SUBSET Rank
                               /\ Cardinality(pset_name_map[name]) \in Nat
    BY SizeIsNat DEF TypeOK
  <2>3. {src} \in SUBSET Rank
    BY CRAssumption
  <2>4. sent' \subseteq Message
    BY <1>7, <2>1, <2>2, <2>3 DEF HandlePsetLookup
  <2>. QED
    BY <1>7, <2>4, AnswerType DEF HandlePsetLookup
<1>. QED
  BY <1>1, <1>2, <1>3, <1>4, <1>5, <1>6, <1>7

LEMMA PsetFreeType ==
  ASSUME TypeOK, NEW name, HandlePsetFree(name)
  PROVE  TypeOK'
<1>1. process_states' \in [Rank -> ProcessState]
  BY DropBackrefsType DEF TypeOK, HandlePsetFree
<1>2. /\ Registered' \subseteq PsetName
      /\ \A n \in Registered' : pset_name_map'[n] \in SUBSET Rank
  BY DEF HandlePsetFree, Unregister, Registered, TypeOK
<1>. QED
  BY <1>1, <1>2 DEF HandlePsetFree, TypeOK, crVars, rcVars

\* Registering a new process set keeps the registry well-typed.
LEMMA RegisterType ==
  ASSUME TypeOK, NEW n \in PsetName, NEW members \in SUBSET Rank,
         pset_name_map' = Register(pset_name_map, n, members)
  PROVE  /\ Registered' \subseteq PsetName
         /\ \A m \in Registered' : pset_name_map'[m] \in SUBSET Rank
BY DEF Register, Registered, TypeOK

LEMMA PsetOpType ==
  ASSUME TypeOK, NEW src \in CR, NEW op, NEW n1 \in Names, NEW n2 \in Names,
         NEW p \in {NoProposal} \cup DOMAIN Proposals, HandlePsetOp(src, op, n1, n2, p)
  PROVE  TypeOK'
<1>. DEFINE known == {n1, n2} \subseteq Registered \cup {Self}
            members == Result(op, Operand(src, n1), Operand(src, n2))
            name == NewName(p)
<1>1. CASE Abort("unsupported_op", {})
  BY <1>1, AbortType DEF Fault
<1>2. CASE /\ sent' = {PsetOpAnswer(src, NoName)}
           /\ UNCHANGED <<crVars, psetVars, rcVars, process_states, next_session_id, phase, fault>>
  <2>1. PsetOpAnswer(src, NoName) \in Message
    BY NamesType DEF PsetOpAnswer, Message
  <2>. QED
    BY <1>2, <2>1, AnswerType
<1>3. CASE /\ known /\ members # {}
           /\ process_states' = AddBackrefs(process_states, name, members)
           /\ pset_name_map' = Register(pset_name_map, name, members)
           /\ next_op' = next_op + 1
           /\ sent' = {PsetOpAnswer(src, name)}
           /\ UNCHANGED <<crVars, rcVars, next_session_id, phase, fault>>
  <2>1. members \in SUBSET Rank
    <3>1. known => /\ Operand(src, n1) \in SUBSET Rank
                   /\ Operand(src, n2) \in SUBSET Rank
      BY CRAssumption DEF Operand, TypeOK
    <3>2. \A A, B \in SUBSET Rank : Result(op, A, B) \in SUBSET Rank
      BY DEF Result
    <3>. QED
      BY <1>3, <3>1, <3>2
  <2>2. name \in PsetName
    BY NewNameType DEF TypeOK
  <2>3. PsetOpAnswer(src, name) \in Message
    BY <2>2 DEF PsetOpAnswer, Message
  <2>. HIDE DEF members, name
  <2>4. process_states' \in [Rank -> ProcessState]
    BY <1>3, <2>1, <2>2, AddBackrefsType DEF TypeOK
  <2>5. /\ Registered' \subseteq PsetName
        /\ \A m \in Registered' : pset_name_map'[m] \in SUBSET Rank
    BY <1>3, <2>1, <2>2, RegisterType
  <2>. QED
    BY <1>3, <2>3, <2>4, <2>5 DEF TypeOK, crVars, rcVars
<1>. QED
  BY <1>1, <1>2, <1>3 DEF HandlePsetOp

\* What HandleRC does to the registry and to the offers, for an add or a sub.
LEMMA OfferType ==
  ASSUME TypeOK, NEW change \in ChangeOf(Rank), change.rc_type # "none", Offer(change)
  PROVE  /\ Registered' \subseteq PsetName
         /\ \A m \in Registered' : pset_name_map'[m] \in SUBSET Rank
         /\ DOMAIN rc_map' \subseteq Nat
         /\ \A t \in DOMAIN rc_map' :
              rc_map'[t] \in [rc_type : RCType \ {"none"}, new_pset_name : PsetName,
                              pset : SUBSET Rank]
         /\ next_rc_tag' \in Nat
         /\ manager' \in ManagerState
         /\ pending_resource_change' \in BOOLEAN
         /\ RcName(next_rc_tag) \in PsetName
<1>1. RcName(next_rc_tag) \in PsetName
  BY NamesType DEF TypeOK
<1>2. change.pset \in SUBSET Rank /\ change.manager \in ManagerState
      /\ change.rc_type \in RCType \ {"none"}
  BY DEF ChangeOf
<1>3. /\ Registered' \subseteq PsetName
      /\ \A m \in Registered' : pset_name_map'[m] \in SUBSET Rank
  BY <1>1, <1>2, RegisterType DEF Offer
<1>. QED
  BY <1>1, <1>2, <1>3 DEF Offer, TypeOK

LEMMA HandleRCType ==
  ASSUME TypeOK, NEW src \in CR, HandleRC(src)
  PROVE  TypeOK'
<1>1. CASE RefuseRC(src)
  <2>1. RcAnswer(src, NoTag, "none", NoName) \in Message
    BY NamesType DEF RcAnswer, Message, NoTag, RCType
  <2>2. manager' \in ManagerState
    <3>1. running_crs \in SUBSET Rank
      BY CRAssumption DEF TypeOK
    <3>2. \A change \in ManagerRC(manager, running_crs) : change.manager \in ManagerState
      BY <3>1, ManagerAssumption DEF TypeOK, ChangeOf
    <3>. QED
      BY <1>1, <3>2 DEF RefuseRC, TypeOK
  <2>. QED
    BY <1>1, <2>1, <2>2 DEF RefuseRC, TypeOK, Registered, crVars, psetVars
<1>2. ASSUME NEW change \in ManagerRC(manager, running_crs), OfferAdd(src, change)
      PROVE  TypeOK'
  <2>1. change \in ChangeOf(Rank)
    BY ManagerAssumption, CRAssumption DEF TypeOK
  <2>2. change.pset \in SUBSET Rank
    BY <2>1 DEF ChangeOf
  <2>3. RcAnswer(src, next_rc_tag + 1, "add", RcName(next_rc_tag)) \in Message
    BY NamesType DEF RcAnswer, Message, RCType, TypeOK
  <2>4. process_states' \in [Rank -> ProcessState]
    BY <1>2, <2>2, NamesType, AddBackrefsType DEF OfferAdd, TypeOK
  <2>5. cr_state' \in [CR -> CrState]
    BY <1>2 DEF OfferAdd, SetState, TypeOK, CrState
  <2>. QED
    BY <1>2, <2>1, <2>3, <2>4, <2>5, OfferType DEF OfferAdd, TypeOK
<1>3. ASSUME NEW change \in ManagerRC(manager, running_crs), OfferSub(src, change)
      PROVE  TypeOK'
  <2>. DEFINE named == AddBackrefs(process_states, RcName(next_rc_tag), change.pset)
  <2>1. change \in ChangeOf(Rank)
    BY ManagerAssumption, CRAssumption DEF TypeOK
  <2>2. change.pset \in SUBSET Rank
    BY <2>1 DEF ChangeOf
  <2>3. CASE Abort("sub_no_state", {})
    BY <2>3, AbortType DEF Fault
  <2>4. CASE ~Abort("sub_no_state", {})
    <3>1. RcAnswer(src, next_rc_tag + 1, "sub", RcName(next_rc_tag)) \in Message
      BY NamesType DEF RcAnswer, Message, RCType, TypeOK
    <3>2. named \in [Rank -> ProcessState]
      BY <2>2, NamesType, AddBackrefsType DEF TypeOK
    <3>. HIDE DEF named
    <3>3. process_states' = [c \in Rank |-> IF c \in change.pset
                               THEN [named[c] EXCEPT !.pending_shutdown = TRUE]
                               ELSE named[c]]
      BY <1>3, <2>4 DEF OfferSub, named
    <3>4. process_states' \in [Rank -> ProcessState]
      BY <3>2, <3>3 DEF ProcessState
    <3>5. cr_state' \in [CR -> CrState]
      BY <1>3, <2>4 DEF OfferSub, SetState, TypeOK, CrState
    <3>. QED
      BY <1>3, <2>1, <2>2, <2>4, <3>1, <3>4, <3>5, OfferType DEF OfferSub, TypeOK
  <2>. QED
    BY <2>3, <2>4
<1>. QED
  BY <1>1, <1>2, <1>3 DEF HandleRC

LEMMA RCAcceptType ==
  ASSUME TypeOK, NEW tag, HandleRCAccept(tag)
  PROVE  TypeOK'
<1>1. CASE \E f \in Fault : Abort(f, {})
  BY <1>1, AbortType
<1>2. CASE /\ ~\E f \in Fault : Abort(f, {})
           /\ tag \in DOMAIN rc_map /\ AcceptAdd(tag)
  <2>. DEFINE starting == rc_map[tag].pset
  <2>1. /\ starting \subseteq CR
        /\ process_states' = Started(process_states, starting, pset_name_map, TRUE, tag)
        /\ running_crs' = running_crs \cup starting
        /\ SetState(starting, "running")
        /\ sent' = StartCommands(starting)
        /\ pending_resource_change' = FALSE
        /\ rc_map' = [t \in DOMAIN rc_map \ {tag} |-> rc_map[t]]
        /\ UNCHANGED <<pending_shutdowns, psetVars, next_rc_tag, manager, next_session_id,
                       phase, fault>>
    BY <1>2 DEF AcceptAdd, Fault
  <2>2. process_states' \in [Rank -> ProcessState]
    <3>1. /\ process_states \in [Rank -> ProcessState]
          /\ DOMAIN pset_name_map \subseteq PsetName
          /\ \A n \in DOMAIN pset_name_map : pset_name_map[n] \in SUBSET Rank
          /\ tag \in Int /\ TRUE \in BOOLEAN
      BY <1>2 DEF TypeOK, Registered
    <3>2. Started(process_states, starting, pset_name_map, TRUE, tag) \in [Rank -> ProcessState]
      BY <3>1, StartedType
    <3>. QED
      BY <2>1, <3>2
  <2>3. cr_state' \in [CR -> CrState]
    BY <2>1 DEF SetState, TypeOK, CrState
  <2>4. sent' \subseteq Message
    BY <2>1 DEF StartCommands, Command, Message
  <2>. QED
    BY <2>1, <2>2, <2>3, <2>4 DEF TypeOK, Registered, psetVars
<1>3. CASE AcceptSub(tag)
  <2>1. cr_state' \in [CR -> CrState]
    BY <1>3 DEF AcceptSub, SetState, TypeOK, CrState
  <2>. QED
    BY <1>3, <2>1 DEF AcceptSub, TypeOK, Registered, psetVars
<1>. QED
  BY <1>1, <1>2, <1>3 DEF HandleRCAccept, Fault

LEMMA ShutdownAllType ==
  ASSUME TypeOK, ShutdownAll
  PROVE  TypeOK'
<1>1. sent' \subseteq Message
  BY DEF ShutdownAll, Command, Message
<1>. QED
  BY <1>1 DEF ShutdownAll, TypeOK, Registered, crVars, psetVars, rcVars

LEMMA TypeStep ==
  ASSUME TypeOK, [Next]_vars
  PROVE  TypeOK'
<1>1. ASSUME NEW src \in CR, Checked(src) PROVE TypeOK'
  BY <1>1, WorkerDoneType, ReadingType DEF Checked
<1>2. ASSUME NEW src \in running_crs, Running(src) PROVE TypeOK'
  <2>1. src \in CR
    BY DEF TypeOK
  <2>2. CASE HandleRC(src)
    BY <2>1, <2>2, HandleRCType
  <2>3. ASSUME NEW op \in SetOps, NEW n1 \in Names, NEW n2 \in Names,
               NEW p \in {NoProposal} \cup DOMAIN Proposals, HandlePsetOp(src, op, n1, n2, p)
        PROVE  TypeOK'
    BY <2>1, <2>3, PsetOpType
  <2>. QED
    BY <1>2, <2>1, <2>2, <2>3, ReadingType DEF Running
<1>3. CASE Anyone
  BY <1>3, PsetFreeType, RCAcceptType DEF Anyone
<1>4. CASE ShutdownAll
  BY <1>4, ShutdownAllType
<1>5. CASE UNCHANGED vars
  BY <1>5 DEF vars, TypeOK, Registered, crVars, psetVars, rcVars
<1>. QED
  BY <1>1, <1>2, <1>3, <1>4, <1>5 DEF Next, Terminated

\* The state of the scheduler and the messages it sends always have their types,
\* for every set of CRs and every manager (scheduler.h:22-37).
THEOREM TypeCorrect == Spec => []TypeOK
BY TypeStep, InitType, PTL DEF Spec

-----------------------------------------------------------------------------
(***************************************************************************)
(* The inductive invariant.                                                *)
(***************************************************************************)
\* BackrefsExact as a relation between process states, a registry and the running
\* CRs, so that the effect of an operator on it can be stated.
Exact(states, map, running) ==
  \A c \in running :
    /\ \A n \in DOMAIN map : c \in map[n] =>
         \E r \in states[c].psets_containing : r.name = n
    /\ \A r \in states[c].psets_containing :
         /\ r.name \in DOMAIN map
         /\ c \in map[r.name]
         /\ r.pset_size = Cardinality(map[r.name])

\* Freeing names takes them from the registry and from the process states alike.
LEMMA DropExact ==
  ASSUME NEW states \in [Rank -> ProcessState], NEW map, NEW running \in SUBSET Rank,
         NEW names, Exact(states, map, running)
  PROVE  Exact(DropBackrefs(states, names), Unregister(map, names), running)
<1>. DEFINE states2 == DropBackrefs(states, names)
            map2 == Unregister(map, names)
<1>1. \A c \in Rank : states2[c].psets_containing =
                        {r \in states[c].psets_containing : r.name \notin names}
  BY DEF DropBackrefs, ProcessState
<1>2. DOMAIN map2 = DOMAIN map \ names /\ \A n \in DOMAIN map2 : map2[n] = map[n]
  BY DEF Unregister
<1>. HIDE DEF states2, map2
<1>3. Exact(states2, map2, running)
  BY <1>1, <1>2 DEF Exact
<1>. QED
  BY <1>3 DEF states2, map2

\* A new name is added to the registry and to its members that run alike.
LEMMA AddExact ==
  ASSUME NEW states \in [Rank -> ProcessState], NEW map, NEW running \in SUBSET Rank,
         NEW n, n \notin DOMAIN map, NEW members \in SUBSET Rank,
         \A c \in Rank : states[c].active <=> c \in running,
         Exact(states, map, running)
  PROVE  Exact(AddBackrefs(states, n, members), Register(map, n, members), running)
<1>. DEFINE ref == [name |-> n, pset_size |-> Cardinality(members)]
            states2 == AddBackrefs(states, n, members)
            map2 == Register(map, n, members)
<1>1. /\ DOMAIN map2 = DOMAIN map \cup {n}
      /\ map2[n] = members
      /\ \A m \in DOMAIN map : map2[m] = map[m]
  BY DEF Register
<1>2. ASSUME NEW c \in running
      PROVE  states2[c].psets_containing =
               IF c \in members THEN states[c].psets_containing \cup {ref}
                                ELSE states[c].psets_containing
  <2>1. c \in Rank /\ states[c].active /\ states[c] \in ProcessState
    OBVIOUS
  <2>2. InsertName(states[c].psets_containing, ref) = states[c].psets_containing \cup {ref}
    BY <1>2 DEF Exact, InsertName
  <2>. QED
    BY <2>1, <2>2 DEF AddBackrefs, ProcessState
<1>. HIDE DEF states2, map2
<1>3. ref.name = n /\ ref.pset_size = Cardinality(members)
  OBVIOUS
<1>. HIDE DEF ref
<1>4. ASSUME NEW c \in running, NEW m \in DOMAIN map2, c \in map2[m]
      PROVE  \E r \in states2[c].psets_containing : r.name = m
  <2>1. CASE m = n
    BY <1>1, <1>2, <1>3, <1>4, <2>1
  <2>2. CASE m # n
    <3>1. m \in DOMAIN map /\ c \in map[m]
      BY <1>1, <1>4, <2>2
    <3>. QED
      BY <1>2, <3>1 DEF Exact
  <2>. QED
    BY <2>1, <2>2
<1>5. ASSUME NEW c \in running, NEW r \in states2[c].psets_containing
      PROVE  /\ r.name \in DOMAIN map2
             /\ c \in map2[r.name]
             /\ r.pset_size = Cardinality(map2[r.name])
  <2>1. CASE r \in states[c].psets_containing
    BY <1>1, <2>1 DEF Exact
  <2>2. CASE r \notin states[c].psets_containing
    <3>1. c \in members /\ r = ref
      BY <1>2, <2>2
    <3>. QED
      BY <1>1, <1>3, <3>1
  <2>. QED
    BY <2>1, <2>2
<1>6. Exact(states2, map2, running)
  BY <1>4, <1>5 DEF Exact
<1>. QED
  BY <1>6 DEF states2, map2

\* A process that starts knows the process sets that already name it.
LEMMA StartExact ==
  ASSUME NEW states \in [Rank -> ProcessState], NEW map, NEW running \in SUBSET Rank,
         NEW S \in SUBSET Rank, NEW dynamic, NEW tag, Exact(states, map, running)
  PROVE  Exact(Started(states, S, map, dynamic, tag), map, running \cup S)
<1>. DEFINE states2 == Started(states, S, map, dynamic, tag)
<1>1. /\ \A c \in S : states2[c].psets_containing = PsetsContaining(c, map)
      /\ \A c \in running \ S : states2[c] = states[c]
  BY DEF Started
<1>2. ASSUME NEW c
      PROVE  /\ \A n \in DOMAIN map : c \in map[n] =>
                  \E r \in PsetsContaining(c, map) : r.name = n
             /\ \A r \in PsetsContaining(c, map) :
                  /\ r.name \in DOMAIN map
                  /\ c \in map[r.name]
                  /\ r.pset_size = Cardinality(map[r.name])
  <2>1. ASSUME NEW n \in DOMAIN map, c \in map[n]
        PROVE  \E r \in PsetsContaining(c, map) : r.name = n
    <3>1. [name |-> n, pset_size |-> Cardinality(map[n])] \in PsetsContaining(c, map)
      BY <2>1 DEF PsetsContaining
    <3>. QED
      BY <3>1
  <2>2. ASSUME NEW r \in PsetsContaining(c, map)
        PROVE  /\ r.name \in DOMAIN map
               /\ c \in map[r.name]
               /\ r.pset_size = Cardinality(map[r.name])
    <3>1. PICK n \in {m \in DOMAIN map : c \in map[m]} :
                r = [name |-> n, pset_size |-> Cardinality(map[n])]
      BY DEF PsetsContaining
    <3>. QED
      BY <3>1
  <2>. QED
    BY <2>1, <2>2
<1>. HIDE DEF states2
<1>3. Exact(states2, map, running \cup S)
  BY <1>1, <1>2 DEF Exact
<1>. QED
  BY <1>3 DEF states2

\* The invariant speaks of these variables only, and of three values of fault.
invVars == <<running_crs, pending_shutdowns, pset_name_map, process_states, rc_map,
             next_rc_tag, next_op>>
Corrupt == {"done_no_state", "done_backrefs", "sub_no_state"}

LEMMA InvKept ==
  ASSUME IInv, UNCHANGED invVars, fault' \notin Corrupt
  PROVE  IInv'
BY DEF IInv, invVars, Corrupt, RunningHaveState, BackrefsExact, PendingShutdownsAgree,
       NamesFresh, OffersAgree, UnstartedMembersOffered, NoCorruption, Registered

LEMMA AbortInv ==
  ASSUME IInv, NEW f, NEW msgs, Abort(f, msgs), f \notin Corrupt
  PROVE  IInv'
BY InvKept DEF Abort, invVars, crVars, psetVars, rcVars

\* Nothing is offered at first, and the processes started know mpi://WORLD.
LEMMA InitInv == Init => IInv
<1>. SUFFICES ASSUME Init PROVE IInv
  OBVIOUS
<1>. DEFINE world(S) == [n \in {World} |-> S]
            nobody == [c \in Rank |-> NoProcess]
<1>1. PICK first \in ManagerInit :
        /\ running_crs = first.pset
        /\ pset_name_map = world(first.pset)
        /\ process_states = Started(nobody, first.pset, world(first.pset), FALSE, NoTag)
  BY DEF Init
<1>2. first.pset \in SUBSET Rank
  BY ManagerAssumption, CRAssumption
<1>3. RunningHaveState
  BY <1>1, <1>2 DEF RunningHaveState, Started, NoProcess
<1>4. BackrefsExact
  <2>1. nobody \in [Rank -> ProcessState]
    BY DEF NoProcess, ProcessState, NoTag
  <2>2. {} \in SUBSET Rank /\ Exact(nobody, pset_name_map, {})
    BY DEF Exact
  <2>. HIDE DEF nobody, world
  <2>3. Exact(process_states, pset_name_map, {} \cup first.pset)
    BY <1>1, <1>2, <2>1, <2>2, StartExact
  <2>4. {} \cup first.pset = running_crs
    BY <1>1
  <2>. QED
    BY <2>3, <2>4 DEF Exact, BackrefsExact, Registered
<1>5. PendingShutdownsAgree
  BY <1>1, <1>2 DEF Init, PendingShutdownsAgree, Started
<1>6. NamesFresh /\ OffersAgree
  BY <1>1 DEF Init, NamesFresh, OffersAgree, Registered, World
<1>7. UnstartedMembersOffered
  BY <1>1 DEF UnstartedMembersOffered, Registered
<1>8. NoCorruption
  BY DEF Init, NoCorruption
<1>. QED
  BY <1>3, <1>4, <1>5, <1>6, <1>7, <1>8 DEF IInv

\* An exit: neither of the two assertions fails, and everything that names the
\* process goes.
LEMMA WorkerDoneInv ==
  ASSUME TypeOK, IInv, NEW src \in CR, HandleWorkerDone(src)
  PROVE  IInv'
<1>. DEFINE names == {r.name : r \in process_states[src].psets_containing}
            freed == names \cap Registered
<1>. USE CRAssumption
<1>1. ASSUME src \in running_crs
      PROVE  process_states[src].active /\ names = freed
  BY <1>1 DEF IInv, RunningHaveState, BackrefsExact
<1>2. CASE src \notin running_crs
  BY <1>2, AbortInv DEF HandleWorkerDone, Corrupt
<1>3. CASE src \in running_crs
  <2>1. /\ pending_shutdowns' = pending_shutdowns \ {src}
        /\ pset_name_map' = Unregister(pset_name_map, freed)
        /\ process_states' = [DropBackrefs(process_states, freed) EXCEPT ![src] = NoProcess]
        /\ running_crs' = running_crs \ {src}
        /\ UNCHANGED <<rc_map, next_rc_tag, next_op, fault>>
    BY <1>1, <1>3 DEF HandleWorkerDone, rcVars
  <2>2. \A c \in Rank \ {src} :
          /\ process_states'[c].active = process_states[c].active
          /\ process_states'[c].pending_shutdown = process_states[c].pending_shutdown
          /\ process_states'[c].psets_containing
               = DropBackrefs(process_states, freed)[c].psets_containing
    BY <2>1 DEF TypeOK, ProcessState, DropBackrefs
  <2>3. ~process_states'[src].active
    BY <2>1 DEF NoProcess, DropBackrefs
  <2>4. running_crs \subseteq Rank
    BY DEF TypeOK
  <2>5. RunningHaveState'
    BY <2>1, <2>2, <2>3, <2>4 DEF IInv, RunningHaveState
  <2>6. BackrefsExact'
    <3>1. Exact(DropBackrefs(process_states, freed), Unregister(pset_name_map, freed),
                running_crs)
      <4>1. Exact(process_states, pset_name_map, running_crs)
        BY DEF IInv, BackrefsExact, Exact, Registered
      <4>2. process_states \in [Rank -> ProcessState]
        BY DEF TypeOK
      <4>. QED
        BY <2>4, <4>1, <4>2, DropExact
    <3>. HIDE DEF freed
    <3>2. \A c \in running_crs' : c \in running_crs /\ c \in Rank \ {src}
      BY <2>1, <2>4
    <3>. QED
      BY <2>1, <2>2, <3>1, <3>2 DEF BackrefsExact, Exact, Registered
  <2>7. PendingShutdownsAgree'
    BY <2>1, <2>2, <2>4 DEF IInv, PendingShutdownsAgree
  <2>8. /\ Registered' = Registered \ freed
        /\ \A n \in Registered' : pset_name_map'[n] = pset_name_map[n]
    BY <2>1 DEF Unregister, Registered
  <2>9. \A n \in Registered' : src \notin pset_name_map'[n]
    BY <1>3, <2>8 DEF IInv, BackrefsExact
  <2>10. NamesFresh' /\ OffersAgree'
    <3>. HIDE DEF freed
    <3>. QED
      BY <2>1, <2>8 DEF IInv, NamesFresh, OffersAgree
  <2>11. UnstartedMembersOffered'
    <3>. HIDE DEF freed
    <3>. QED
      BY <2>1, <2>8, <2>9 DEF IInv, UnstartedMembersOffered
  <2>12. NoCorruption'
    BY <2>1 DEF IInv, NoCorruption
  <2>. QED
    BY <2>5, <2>6, <2>7, <2>10, <2>11, <2>12 DEF IInv
<1>. QED
  BY <1>2, <1>3

LEMMA PsetFreeInv ==
  ASSUME TypeOK, IInv, NEW name, HandlePsetFree(name)
  PROVE  IInv'
<1>. DEFINE freed == {name} \cap Registered
<1>1. /\ pset_name_map' = Unregister(pset_name_map, freed)
      /\ process_states' = DropBackrefs(process_states, freed)
      /\ UNCHANGED <<running_crs, pending_shutdowns, rc_map, next_rc_tag, next_op, fault>>
  BY DEF HandlePsetFree, crVars, rcVars
<1>2. running_crs \subseteq Rank /\ process_states \in [Rank -> ProcessState]
  BY CRAssumption DEF TypeOK
<1>3. \A c \in Rank :
        /\ process_states'[c].active = process_states[c].active
        /\ process_states'[c].pending_shutdown = process_states[c].pending_shutdown
  BY <1>1, <1>2 DEF ProcessState, DropBackrefs
<1>4. /\ Registered' \subseteq Registered
      /\ \A n \in Registered' : pset_name_map'[n] = pset_name_map[n]
  BY <1>1 DEF Unregister, Registered
<1>5. RunningHaveState' /\ PendingShutdownsAgree'
  BY <1>1, <1>2, <1>3 DEF IInv, RunningHaveState, PendingShutdownsAgree
<1>6. BackrefsExact'
  <2>1. Exact(process_states, pset_name_map, running_crs)
    BY DEF IInv, BackrefsExact, Exact, Registered
  <2>2. Exact(DropBackrefs(process_states, freed), Unregister(pset_name_map, freed),
              running_crs)
    BY <1>2, <2>1, DropExact
  <2>. HIDE DEF freed
  <2>. QED
    BY <1>1, <2>2 DEF Exact, BackrefsExact, Registered
<1>7. NamesFresh' /\ OffersAgree' /\ UnstartedMembersOffered' /\ NoCorruption'
  BY <1>1, <1>4 DEF IInv, NamesFresh, OffersAgree, UnstartedMembersOffered, NoCorruption
<1>. QED
  BY <1>5, <1>6, <1>7 DEF IInv

\* A new process set, by an operation or by an offer: the registry and the process
\* states grow alike, and nothing that was registered changes.
LEMMA RegisterInv ==
  ASSUME TypeOK, IInv, NEW n \in PsetName, n \notin Registered, NEW members \in SUBSET Rank,
         pset_name_map' = Register(pset_name_map, n, members),
         UNCHANGED running_crs,
         \E named :
           /\ named = AddBackrefs(process_states, n, members)
           /\ \A c \in Rank :
                /\ process_states'[c].active = named[c].active
                /\ process_states'[c].psets_containing = named[c].psets_containing
  PROVE  /\ RunningHaveState'
         /\ BackrefsExact'
         /\ Registered' = Registered \cup {n}
         /\ pset_name_map'[n] = members
         /\ \A m \in Registered : pset_name_map'[m] = pset_name_map[m]
<1>1. PICK named :
        /\ named = AddBackrefs(process_states, n, members)
        /\ \A c \in Rank :
             /\ process_states'[c].active = named[c].active
             /\ process_states'[c].psets_containing = named[c].psets_containing
  OBVIOUS
<1>2. running_crs \in SUBSET Rank /\ process_states \in [Rank -> ProcessState]
  BY CRAssumption DEF TypeOK
<1>3. \A c \in Rank : named[c].active = process_states[c].active
  BY <1>1, <1>2 DEF AddBackrefs, ProcessState
<1>4. RunningHaveState'
  BY <1>1, <1>3 DEF IInv, RunningHaveState
<1>5. BackrefsExact'
  <2>1. /\ Exact(process_states, pset_name_map, running_crs)
        /\ \A c \in Rank : process_states[c].active <=> c \in running_crs
        /\ n \notin DOMAIN pset_name_map
    BY DEF IInv, BackrefsExact, RunningHaveState, Exact, Registered
  <2>2. Exact(named, Register(pset_name_map, n, members), running_crs)
    BY <1>1, <1>2, <2>1, AddExact
  <2>. QED
    BY <1>1, <1>2, <2>2 DEF Exact, BackrefsExact, Registered
<1>6. /\ Registered' = Registered \cup {n}
      /\ pset_name_map'[n] = members
      /\ \A m \in Registered : pset_name_map'[m] = pset_name_map[m]
  BY DEF Register, Registered
<1>. QED
  BY <1>4, <1>5, <1>6

\* AddBackrefs leaves what it does not add to.
LEMMA AddBackrefsKeeps ==
  ASSUME NEW states \in [Rank -> ProcessState], NEW n, NEW members
  PROVE  \A c \in Rank :
           /\ AddBackrefs(states, n, members)[c].active = states[c].active
           /\ AddBackrefs(states, n, members)[c].pending_shutdown = states[c].pending_shutdown
BY DEF AddBackrefs, ProcessState

LEMMA PsetOpInv ==
  ASSUME TypeOK, IInv, NEW src \in running_crs, NEW op, NEW n1 \in Names, NEW n2 \in Names,
         NEW p \in {NoProposal} \cup DOMAIN Proposals, HandlePsetOp(src, op, n1, n2, p)
  PROVE  IInv'
<1>. DEFINE known == {n1, n2} \subseteq Registered \cup {Self}
            members == Result(op, Operand(src, n1), Operand(src, n2))
            name == NewName(p)
<1>0. src \in CR /\ src \in Rank
  BY CRAssumption DEF TypeOK
<1>1. CASE \/ Abort("unsupported_op", {})
           \/ UNCHANGED <<crVars, psetVars, rcVars, process_states, next_session_id, phase, fault>>
  <2>1. CASE Abort("unsupported_op", {})
    BY <2>1, AbortInv DEF Corrupt
  <2>2. CASE UNCHANGED <<crVars, psetVars, rcVars, process_states, next_session_id, phase, fault>>
    BY <2>2, InvKept DEF invVars, crVars, psetVars, rcVars, Corrupt, IInv, NoCorruption
  <2>. QED
    BY <1>1, <2>1, <2>2
<1>2. CASE /\ known
           /\ process_states' = AddBackrefs(process_states, name, members)
           /\ pset_name_map' = Register(pset_name_map, name, members)
           /\ next_op' = next_op + 1
           /\ UNCHANGED <<running_crs, pending_shutdowns, rc_map, next_rc_tag, fault>>
  <2>1. members \in SUBSET Rank
    <3>1. known => Operand(src, n1) \in SUBSET Rank /\ Operand(src, n2) \in SUBSET Rank
      BY <1>0 DEF Operand, TypeOK
    <3>2. \A A, B \in SUBSET Rank : Result(op, A, B) \in SUBSET Rank
      BY DEF Result
    <3>. QED
      BY <1>2, <3>1, <3>2
  <2>2. \A c \in members \ running_crs : \E m \in Registered : c \in pset_name_map[m]
    <3>1. \A A, B : Result(op, A, B) \subseteq A \cup B
      BY DEF Result
    <3>2. \A m \in {n1, n2} : \A c \in Operand(src, m) \ running_crs :
            m \in Registered /\ c \in pset_name_map[m]
      BY <1>2 DEF Operand
    <3>. QED
      BY <3>1, <3>2
  <2>3. /\ name \in PsetName
        /\ name \notin Registered
        /\ name.kind \in {"op", "proposed"}
        /\ name.kind = "op" => name.id = next_op
    <3>1. OpName(next_op) \notin Registered
      BY DEF IInv, NamesFresh, OpName, TypeOK
    <3>2. name \in PsetName
      BY NewNameType DEF TypeOK
    <3>3. \/ name = OpName(next_op)
          \/ name = Proposed(p) /\ Proposed(p) \notin Registered
      BY DEF NewName
    <3>. HIDE DEF name
    <3>. QED
      BY <3>1, <3>2, <3>3 DEF OpName, Proposed
  <2>. HIDE DEF members, name
  <2>4. /\ RunningHaveState'
        /\ BackrefsExact'
        /\ Registered' = Registered \cup {name}
        /\ pset_name_map'[name] = members
        /\ \A m \in Registered : pset_name_map'[m] = pset_name_map[m]
    BY <1>2, <2>1, <2>3, RegisterInv
  <2>5. PendingShutdownsAgree'
    <3>1. \A c \in running_crs :
            process_states'[c].pending_shutdown = process_states[c].pending_shutdown
      BY <1>2, AddBackrefsKeeps, CRAssumption DEF TypeOK
    <3>. QED
      BY <1>2, <3>1 DEF IInv, PendingShutdownsAgree
  <2>6. NamesFresh'
    BY <1>2, <2>3, <2>4 DEF IInv, NamesFresh, TypeOK, PsetName
  <2>7. OffersAgree'
    <3>1. \A t \in DOMAIN rc_map : rc_map[t].new_pset_name # name
      <4>1. \A i : RcName(i).kind = "rc"
        BY DEF RcName
      <4>2. \A t \in DOMAIN rc_map : rc_map[t].new_pset_name.kind = "rc"
        BY <4>1 DEF IInv, NamesFresh
      <4>. QED
        BY <2>3, <4>2
    <3>. QED
      BY <1>2, <2>3, <2>4, <3>1 DEF IInv, OffersAgree
  <2>8. UnstartedMembersOffered'
    BY <1>2, <2>2, <2>4 DEF IInv, UnstartedMembersOffered
  <2>9. NoCorruption'
    BY <1>2 DEF IInv, NoCorruption
  <2>. QED
    BY <2>4, <2>5, <2>6, <2>7, <2>8, <2>9 DEF IInv
<1>. QED
  BY <1>1, <1>2 DEF HandlePsetOp, crVars, rcVars

\* What the two kinds of offer have in common.
LEMMA OfferInv ==
  ASSUME TypeOK, IInv, NEW change \in ChangeOf(CR), change.rc_type # "none", Offer(change),
         change.rc_type = "sub" => change.pset \subseteq running_crs,
         UNCHANGED <<running_crs, next_op>>,
         \E named :
           /\ named = AddBackrefs(process_states, RcName(next_rc_tag), change.pset)
           /\ \A c \in Rank :
                /\ process_states'[c].active = named[c].active
                /\ process_states'[c].psets_containing = named[c].psets_containing
  PROVE  RunningHaveState' /\ BackrefsExact' /\ NamesFresh' /\ OffersAgree'
         /\ UnstartedMembersOffered'
<1>. DEFINE name == RcName(next_rc_tag)
<1>1. /\ name \in PsetName
      /\ change.pset \in SUBSET Rank
      /\ change.rc_type \in RCType \ {"none"}
      /\ next_rc_tag \in Nat
  BY NamesType, CRAssumption DEF TypeOK, ChangeOf
<1>2. name \notin Registered
  BY <1>1 DEF IInv, OffersAgree, RcName
<1>3. /\ DOMAIN rc_map' = DOMAIN rc_map \cup {next_rc_tag + 1}
      /\ rc_map'[next_rc_tag + 1] = [rc_type |-> change.rc_type, new_pset_name |-> name,
                                     pset |-> change.pset]
      /\ \A t \in DOMAIN rc_map : t # next_rc_tag + 1 /\ rc_map'[t] = rc_map[t]
      /\ \A t \in DOMAIN rc_map : t \in Nat /\ t < next_rc_tag
      /\ next_rc_tag' = next_rc_tag + 2
  BY <1>1 DEF Offer, IInv, OffersAgree, TypeOK
<1>4. name.kind = "rc" /\ name.id = next_rc_tag /\ RcName((next_rc_tag + 1) - 1) = name
  BY <1>1 DEF RcName
<1>. HIDE DEF name
<1>5. /\ RunningHaveState'
      /\ BackrefsExact'
      /\ Registered' = Registered \cup {name}
      /\ pset_name_map'[name] = change.pset
      /\ \A m \in Registered : pset_name_map'[m] = pset_name_map[m]
  BY <1>1, <1>2, RegisterInv DEF Offer, name
<1>6. NamesFresh'
  BY <1>1, <1>3, <1>4, <1>5 DEF IInv, NamesFresh
<1>7. OffersAgree'
  <2>1. ASSUME NEW t \in DOMAIN rc_map', rc_map'[t].new_pset_name \in Registered'
        PROVE  pset_name_map'[rc_map'[t].new_pset_name] = rc_map'[t].pset
    <3>1. CASE t = next_rc_tag + 1
      BY <1>3, <1>5, <3>1
    <3>2. CASE t # next_rc_tag + 1
      <4>1. t \in DOMAIN rc_map /\ rc_map'[t] = rc_map[t]
        BY <1>3, <3>2
      <4>2. rc_map[t].new_pset_name # name
        <5>1. rc_map[t].new_pset_name = RcName(t - 1)
          BY <4>1 DEF IInv, NamesFresh
        <5>2. RcName(t - 1).id = t - 1
          BY DEF RcName
        <5>3. t - 1 # next_rc_tag
          BY <1>1, <1>3, <4>1
        <5>. QED
          BY <1>4, <5>1, <5>2, <5>3
      <4>. QED
        BY <1>5, <2>1, <4>1, <4>2 DEF IInv, OffersAgree
    <3>. QED
      BY <3>1, <3>2
  <2>2. \A t \in DOMAIN rc_map' : t < next_rc_tag'
    BY <1>1, <1>3
  <2>3. \A n \in Registered' : n.kind = "rc" => n.id < next_rc_tag'
    <3>1. \A n \in Registered : n.id \in Nat
      BY DEF TypeOK, PsetName
    <3>. QED
      BY <1>1, <1>3, <1>4, <1>5, <3>1 DEF IInv, OffersAgree
  <2>. QED
    BY <2>1, <2>2, <2>3 DEF OffersAgree
<1>8. UnstartedMembersOffered'
  <2>1. ASSUME NEW n \in Registered', NEW c \in pset_name_map'[n] \ running_crs'
        PROVE  \E t \in DOMAIN rc_map' : rc_map'[t].rc_type = "add" /\ c \in rc_map'[t].pset
    <3>1. CASE n = name
      BY <1>1, <1>3, <1>5, <2>1, <3>1 DEF RCType
    <3>2. CASE n # name
      <4>1. PICK t \in DOMAIN rc_map : rc_map[t].rc_type = "add" /\ c \in rc_map[t].pset
        BY <1>5, <2>1, <3>2 DEF IInv, UnstartedMembersOffered
      <4>. QED
        BY <1>3, <4>1
    <3>. QED
      BY <3>1, <3>2
  <2>. QED
    BY <2>1 DEF UnstartedMembersOffered
<1>. QED
  BY <1>5, <1>6, <1>7, <1>8

LEMMA HandleRCInv ==
  ASSUME TypeOK, IInv, NEW src \in CR, HandleRC(src)
  PROVE  IInv'
<1>. DEFINE Named(change) == AddBackrefs(process_states, RcName(next_rc_tag), change.pset)
<1>. USE CRAssumption
<1>1. CASE RefuseRC(src)
  BY <1>1, InvKept DEF RefuseRC, invVars, crVars, psetVars, Corrupt, IInv, NoCorruption
<1>2. ASSUME NEW change \in ManagerRC(manager, running_crs)
      PROVE  /\ change.rc_type = "add" \/ change.rc_type = "sub" => change \in ChangeOf(CR)
             /\ change.rc_type = "add" => change.pset \subseteq CR \ running_crs
             /\ change.rc_type = "sub" => change.pset \subseteq running_crs
  <2>1. manager \in ManagerState /\ running_crs \in SUBSET CR /\ running_crs \in SUBSET Rank
    BY DEF TypeOK
  <2>2. change \in ChangeOf(Rank)
    BY <2>1, ManagerAssumption
  <2>3. /\ change.rc_type = "add" => change.pset \subseteq CR \ running_crs
        /\ change.rc_type = "sub" => change.pset \subseteq running_crs
    BY <2>1, ManagerPromise
  <2>. QED
    BY <2>1, <2>2, <2>3 DEF ChangeOf
<1>3. ASSUME NEW change \in ManagerRC(manager, running_crs), OfferAdd(src, change)
      PROVE  IInv'
  <2>1. /\ change.rc_type = "add"
        /\ Offer(change)
        /\ process_states' = Named(change)
        /\ UNCHANGED <<running_crs, pending_shutdowns, next_op, fault>>
    BY <1>3 DEF OfferAdd
  <2>2. RunningHaveState' /\ BackrefsExact' /\ NamesFresh' /\ OffersAgree'
        /\ UnstartedMembersOffered'
    BY <1>2, <2>1, OfferInv
  <2>3. PendingShutdownsAgree'
    <3>1. \A c \in running_crs :
            process_states'[c].pending_shutdown = process_states[c].pending_shutdown
      BY <2>1, AddBackrefsKeeps DEF TypeOK
    <3>. QED
      BY <2>1, <3>1 DEF IInv, PendingShutdownsAgree
  <2>. QED
    BY <2>1, <2>2, <2>3 DEF IInv, NoCorruption
<1>4. ASSUME NEW change \in ManagerRC(manager, running_crs), pending_shutdowns = {},
             OfferSub(src, change)
      PROVE  IInv'
  <2>1. change.rc_type = "sub" /\ change.pset \subseteq running_crs /\ change \in ChangeOf(CR)
    BY <1>2, <1>4 DEF OfferSub
  <2>2. \A c \in change.pset : process_states[c].active
    BY <2>1 DEF IInv, RunningHaveState, TypeOK
  <2>3. /\ Offer(change)
        /\ pending_shutdowns' = change.pset
        /\ process_states' = [c \in Rank |-> IF c \in change.pset
                                THEN [Named(change)[c] EXCEPT !.pending_shutdown = TRUE]
                                ELSE Named(change)[c]]
        /\ UNCHANGED <<running_crs, next_op, fault>>
    BY <1>4, <2>2 DEF OfferSub
  <2>4. Named(change) \in [Rank -> ProcessState]
    BY <2>1, NamesType, AddBackrefsType DEF TypeOK, ChangeOf
  <2>5. \A c \in Rank :
          /\ process_states'[c].active = Named(change)[c].active
          /\ process_states'[c].psets_containing = Named(change)[c].psets_containing
          /\ process_states'[c].pending_shutdown =
               (c \in change.pset \/ Named(change)[c].pending_shutdown)
    <3>. DEFINE named == Named(change)
    <3>. HIDE DEF named
    <3>1. process_states' = [c \in Rank |-> IF c \in change.pset
                               THEN [named[c] EXCEPT !.pending_shutdown = TRUE] ELSE named[c]]
          /\ named \in [Rank -> ProcessState]
      BY <2>3, <2>4 DEF named
    <3>2. \A c \in Rank :
            /\ process_states'[c].active = named[c].active
            /\ process_states'[c].psets_containing = named[c].psets_containing
            /\ process_states'[c].pending_shutdown =
                 (c \in change.pset \/ named[c].pending_shutdown)
      BY <3>1 DEF ProcessState
    <3>. QED
      BY <3>2 DEF named
  <2>6. RunningHaveState' /\ BackrefsExact' /\ NamesFresh' /\ OffersAgree'
        /\ UnstartedMembersOffered'
    BY <2>1, <2>3, <2>5, OfferInv
  <2>7. PendingShutdownsAgree'
    <3>1. \A c \in running_crs : ~Named(change)[c].pending_shutdown
      BY <1>4, AddBackrefsKeeps DEF IInv, PendingShutdownsAgree, TypeOK
    <3>2. running_crs \subseteq Rank
      BY DEF TypeOK
    <3>. QED
      BY <2>1, <2>3, <2>5, <3>1, <3>2 DEF PendingShutdownsAgree
  <2>. QED
    BY <2>3, <2>6, <2>7 DEF IInv, NoCorruption
<1>. QED
  BY <1>1, <1>3, <1>4 DEF HandleRC

LEMMA AcceptAddInv ==
  ASSUME TypeOK, IInv, NEW tag \in DOMAIN rc_map, AcceptAdd(tag)
  PROVE  IInv'
<1>. DEFINE starting == rc_map[tag].pset
<1>. USE CRAssumption
<1>1. CASE \E f \in {"start_running", "start_no_rank"} : Abort(f, {})
  BY <1>1, AbortInv DEF Corrupt
<1>2. CASE ~\E f \in {"start_running", "start_no_rank"} : Abort(f, {})
  <2>1. /\ \A c \in starting : c \notin running_crs
        /\ starting \subseteq CR
        /\ process_states' = Started(process_states, starting, pset_name_map, TRUE, tag)
        /\ running_crs' = running_crs \cup starting
        /\ rc_map' = [t \in DOMAIN rc_map \ {tag} |-> rc_map[t]]
        /\ UNCHANGED <<pending_shutdowns, pset_name_map, next_op, next_rc_tag, fault>>
    BY <1>2 DEF AcceptAdd, psetVars
  <2>2. starting \in SUBSET Rank /\ running_crs \in SUBSET Rank
        /\ process_states \in [Rank -> ProcessState]
    BY <2>1 DEF TypeOK
  <2>. HIDE DEF starting
  <2>3. /\ \A c \in starting : /\ process_states'[c].active
                               /\ ~process_states'[c].pending_shutdown
        /\ \A c \in Rank \ starting : process_states'[c] = process_states[c]
    BY <2>1, <2>2 DEF Started
  <2>4. RunningHaveState' /\ PendingShutdownsAgree'
    BY <2>1, <2>2, <2>3 DEF IInv, RunningHaveState, PendingShutdownsAgree
  <2>5. BackrefsExact'
    <3>1. Exact(process_states, pset_name_map, running_crs)
      BY DEF IInv, BackrefsExact, Exact, Registered
    <3>2. Exact(Started(process_states, starting, pset_name_map, TRUE, tag), pset_name_map,
                running_crs \cup starting)
      BY <2>2, <3>1, StartExact
    <3>. QED
      BY <2>1, <3>2 DEF Exact, BackrefsExact, Registered
  <2>6. NamesFresh' /\ OffersAgree' /\ NoCorruption'
    BY <2>1 DEF IInv, NamesFresh, OffersAgree, NoCorruption, Registered
  <2>7. UnstartedMembersOffered'
    <3>1. ASSUME NEW n \in Registered', NEW c \in pset_name_map'[n] \ running_crs'
          PROVE  \E t \in DOMAIN rc_map' : rc_map'[t].rc_type = "add" /\ c \in rc_map'[t].pset
      <4>1. n \in Registered /\ c \in pset_name_map[n] \ running_crs /\ c \notin starting
        BY <2>1, <3>1 DEF Registered
      <4>2. PICK t \in DOMAIN rc_map : rc_map[t].rc_type = "add" /\ c \in rc_map[t].pset
        BY <4>1 DEF IInv, UnstartedMembersOffered
      <4>3. t # tag
        BY <4>1, <4>2 DEF starting
      <4>. QED
        BY <2>1, <4>2, <4>3
    <3>. QED
      BY <3>1 DEF UnstartedMembersOffered
  <2>. QED
    BY <2>4, <2>5, <2>6, <2>7 DEF IInv
<1>. QED
  BY <1>1, <1>2

LEMMA AcceptSubInv ==
  ASSUME TypeOK, IInv, NEW tag \in DOMAIN rc_map, AcceptSub(tag)
  PROVE  IInv'
<1>1. /\ rc_map[tag].rc_type = "sub"
      /\ rc_map' = [t \in DOMAIN rc_map \ {tag} |-> rc_map[t]]
      /\ UNCHANGED <<running_crs, pending_shutdowns, pset_name_map, process_states, next_op,
                     next_rc_tag, fault>>
  BY DEF AcceptSub, psetVars
<1>2. RunningHaveState' /\ BackrefsExact' /\ PendingShutdownsAgree' /\ NamesFresh'
      /\ OffersAgree' /\ NoCorruption'
  BY <1>1 DEF IInv, RunningHaveState, BackrefsExact, PendingShutdownsAgree, NamesFresh,
              OffersAgree, NoCorruption, Registered
<1>3. UnstartedMembersOffered'
  <2>1. ASSUME NEW n \in Registered', NEW c \in pset_name_map'[n] \ running_crs'
        PROVE  \E t \in DOMAIN rc_map' : rc_map'[t].rc_type = "add" /\ c \in rc_map'[t].pset
    <3>1. PICK t \in DOMAIN rc_map : rc_map[t].rc_type = "add" /\ c \in rc_map[t].pset
      BY <1>1, <2>1 DEF IInv, UnstartedMembersOffered, Registered
    <3>2. t # tag
      BY <1>1, <3>1
    <3>. QED
      BY <1>1, <3>1, <3>2
  <2>. QED
    BY <2>1 DEF UnstartedMembersOffered
<1>. QED
  BY <1>2, <1>3 DEF IInv

LEMMA RCAcceptInv ==
  ASSUME TypeOK, IInv, NEW tag, HandleRCAccept(tag)
  PROVE  IInv'
<1>1. CASE \E f \in {"no_pending_change", "invalid_tag"} : Abort(f, {})
  BY <1>1, AbortInv DEF Corrupt
<1>2. CASE tag \in DOMAIN rc_map /\ (AcceptAdd(tag) \/ AcceptSub(tag))
  BY <1>2, AcceptAddInv, AcceptSubInv
<1>. QED
  BY <1>1, <1>2 DEF HandleRCAccept

LEMMA RunningInv ==
  ASSUME TypeOK, IInv, NEW src \in running_crs, Running(src)
  PROVE  IInv'
<1>0. src \in CR
  BY DEF TypeOK
<1>1. CASE \/ HandleSessionCreate(src)
           \/ HandleSessionFinalize(src)
           \/ \E name \in Names : HandlePsetInfo(src, name) \/ HandlePsetLookup(src, name)
  <2>1. UNCHANGED invVars /\ UNCHANGED fault
    BY <1>1 DEF HandleSessionCreate, HandleSessionFinalize, HandlePsetInfo, HandlePsetLookup,
                invVars, crVars, psetVars, rcVars
  <2>. QED
    BY <2>1, InvKept DEF IInv, NoCorruption, Corrupt
<1>2. CASE HandleSchedHints(src)
  BY <1>2, AbortInv DEF HandleSchedHints, Corrupt
<1>3. ASSUME NEW op \in SetOps, NEW n1 \in Names, NEW n2 \in Names,
             NEW p \in {NoProposal} \cup DOMAIN Proposals, HandlePsetOp(src, op, n1, n2, p)
      PROVE  IInv'
  BY <1>3, PsetOpInv
<1>4. CASE HandleRC(src)
  BY <1>0, <1>4, HandleRCInv
<1>. QED
  BY <1>1, <1>2, <1>3, <1>4 DEF Running

LEMMA InvStep ==
  ASSUME TypeOK, IInv, [Next]_vars
  PROVE  IInv'
<1>1. ASSUME NEW src \in CR, Checked(src) PROVE IInv'
  <2>1. CASE HandleWorkerDone(src)
    BY <2>1, WorkerDoneInv
  <2>2. CASE HandleSessionInfo(src) \/ HandleGetPsets(src)
    <3>1. CASE Abort("info_no_state", {}) \/ Abort("get_psets_no_state", {})
      BY <3>1, AbortInv DEF Corrupt
    <3>2. CASE UNCHANGED <<crVars, psetVars, rcVars, process_states, next_session_id,
                           phase, fault>>
      BY <3>2, InvKept DEF invVars, crVars, psetVars, rcVars, IInv, NoCorruption, Corrupt
    <3>. QED
      BY <2>2, <3>1, <3>2 DEF HandleSessionInfo, HandleGetPsets
  <2>. QED
    BY <1>1, <2>1, <2>2 DEF Checked
<1>2. ASSUME NEW src \in running_crs, Running(src) PROVE IInv'
  BY <1>2, RunningInv
<1>3. CASE Anyone
  BY <1>3, PsetFreeInv, RCAcceptInv DEF Anyone
<1>4. CASE ShutdownAll \/ UNCHANGED vars
  <2>1. UNCHANGED invVars /\ UNCHANGED fault
    BY <1>4 DEF ShutdownAll, vars, invVars, crVars, psetVars, rcVars
  <2>. QED
    BY <2>1, InvKept DEF IInv, NoCorruption, Corrupt
<1>. QED
  BY <1>1, <1>2, <1>3, <1>4 DEF Next, Terminated

\* The invariant of the registry, the offers and the process states holds always.
THEOREM Invariance == Spec => [](TypeOK /\ IInv)
BY InvStep, InitInv, TypeCorrect, PTL DEF Spec

\* What a running process is told by get_psets is true, and its exit frees all its
\* process sets, in every run (scheduler.c:52-64, scheduler_handlers.c:18-44).
THEOREM BackrefsAlwaysExact == Spec => []BackrefsExact
BY Invariance, PTL DEF IInv

\* No process set keeps a process that has exited (scheduler_handlers.c:78-83).
THEOREM NoExitedMember == Spec => []UnstartedMembersOffered
BY Invariance, PTL DEF IInv

\* Three assertions of the handlers never fail (scheduler_handlers.c:76, 83, 744).
THEOREM AssertionsHold == Spec => []NoCorruption
BY Invariance, PTL DEF IInv

\* running_crs and process_states, which handlers update at different places
\* (scheduler.h:28), always name the same processes.
THEOREM RecordsAgree == Spec => []RunningHaveState
BY Invariance, PTL DEF IInv

\* Those who are told to leave are those whose exit further changes wait for
\* (scheduler_handlers.c:665, 734).
THEOREM ShutdownsAgree == Spec => []PendingShutdownsAgree
BY Invariance, PTL DEF IInv

\* The scheduler's offers and the process sets made for them never come apart
\* (scheduler_handlers.c:691-732).
THEOREM ChangesAgree == Spec => []OffersAgree
BY Invariance, PTL DEF IInv
=============================================================================
