-------------------------- MODULE SimulationProofs --------------------------
(***************************************************************************)
(* Proofs about the whole simulation, for every number of processes, every *)
(* manager that keeps its promise, every application and every bound; in   *)
(* the last part, about applications that change one at a time.            *)
(***************************************************************************)
EXTENDS SimulationInvariants, SequenceTheorems, FiniteSetTheorems, TLAPS

\* The theorems about the scheduler, for the scheduler of the simulation.
SP == INSTANCE SchedulerProofs

-----------------------------------------------------------------------------
(***************************************************************************)
(* The queue of requests of a process.                                     *)
(***************************************************************************)
\* What is left of a queue when one request is taken out of it.
LEMMA RemoveAtIs ==
  ASSUME NEW T, NEW queue \in Seq(T), NEW i \in DOMAIN queue
  PROVE  /\ RemoveAt(queue, i) \in Seq(T)
         /\ \A j \in DOMAIN RemoveAt(queue, i) :
              \/ j < i /\ j \in DOMAIN queue /\ RemoveAt(queue, i)[j] = queue[j]
              \/ j >= i /\ j + 1 \in DOMAIN queue /\ RemoveAt(queue, i)[j] = queue[j + 1]
         /\ \A j \in DOMAIN queue : j < i => j \in DOMAIN RemoveAt(queue, i)
         /\ \A j \in DOMAIN queue : j > i => j - 1 \in DOMAIN RemoveAt(queue, i)
<1>. DEFINE before == SubSeq(queue, 1, i - 1)
            after == SubSeq(queue, i + 1, Len(queue))
<1>1. i \in 1 .. Len(queue) /\ Len(queue) \in Nat /\ DOMAIN queue = 1 .. Len(queue)
  OBVIOUS
<1>2. /\ before \in Seq(T) /\ Len(before) = i - 1
      /\ \A j \in 1 .. (i - 1) : before[j] = queue[j]
  BY <1>1
<1>3. /\ after \in Seq(T) /\ Len(after) = Len(queue) - i
      /\ \A j \in 1 .. (Len(queue) - i) : after[j] = queue[i + j]
  BY <1>1, SMTT(20)
<1>. HIDE DEF before, after
<1>4. RemoveAt(queue, i) = before \o after
  BY DEF RemoveAt, before, after
<1>5. /\ before \o after \in Seq(T) /\ Len(before \o after) = Len(queue) - 1
      /\ \A j \in 1 .. (Len(queue) - 1) :
           (before \o after)[j] = IF j <= i - 1 THEN before[j] ELSE after[j - (i - 1)]
  <2>1. Len(before) + Len(after) = Len(queue) - 1
    BY <1>1, <1>2, <1>3
  <2>2. /\ before \o after \in Seq(T) /\ Len(before \o after) = Len(before) + Len(after)
        /\ \A j \in 1 .. Len(before) + Len(after) : (before \o after)[j] =
                IF j <= Len(before) THEN before[j] ELSE after[j - Len(before)]
    BY <1>2, <1>3, ConcatProperties
  <2>. QED
    BY <1>2, <2>1, <2>2
<1>. DEFINE rest == RemoveAt(queue, i)
<1>6. rest \in Seq(T) /\ DOMAIN rest = 1 .. (Len(queue) - 1)
  BY <1>4, <1>5
<1>7. ASSUME NEW j \in DOMAIN rest
      PROVE  \/ j < i /\ j \in DOMAIN queue /\ rest[j] = queue[j]
             \/ j >= i /\ j + 1 \in DOMAIN queue /\ rest[j] = queue[j + 1]
  <2>1. j \in 1 .. (Len(queue) - 1) /\ rest[j] = (before \o after)[j]
    BY <1>4, <1>6
  <2>2. CASE j < i
    <3>1. j \in 1 .. (i - 1) /\ j \in DOMAIN queue /\ j <= i - 1
      BY <1>1, <2>1, <2>2
    <3>. QED
      BY <1>2, <1>5, <2>1, <2>2, <3>1
  <2>3. CASE ~(j < i)
    <3>1. j - (i - 1) \in 1 .. (Len(queue) - i) /\ i + (j - (i - 1)) = j + 1
      BY <1>1, <2>1, <2>3
    <3>2. j >= i /\ j + 1 \in DOMAIN queue /\ ~(j <= i - 1)
      BY <1>1, <2>1, <2>3
    <3>3. rest[j] = after[j - (i - 1)]
      BY <1>5, <2>1, <3>2
    <3>. QED
      BY <1>3, <3>1, <3>2, <3>3
  <2>. QED
    BY <2>2, <2>3
<1>. HIDE DEF rest
<1>8. /\ \A j \in DOMAIN queue : j < i => j \in DOMAIN rest
      /\ \A j \in DOMAIN queue : j > i => j - 1 \in DOMAIN rest
  BY <1>1, <1>6
<1>. QED
  BY <1>6, <1>7, <1>8 DEF rest

LEMMA AppendIs ==
  ASSUME NEW T, NEW queue \in Seq(T), NEW r \in T
  PROVE  /\ Append(queue, r) \in Seq(T)
         /\ DOMAIN Append(queue, r) = DOMAIN queue \cup {Len(queue) + 1}
         /\ Len(queue) + 1 \notin DOMAIN queue
         /\ \A j \in DOMAIN queue : Append(queue, r)[j] = queue[j]
         /\ Append(queue, r)[Len(queue) + 1] = r
OBVIOUS

LEMMA AppendOpen ==
  ASSUME NEW T, NEW queue \in Seq(T), NEW r \in T, NoneOpen(queue)
  PROVE  /\ r.tag \in Unwaited => NoneOpen(Append(queue, r))
         /\ OnlyOpen(Append(queue, r), r.tag)
BY AppendIs DEF NoneOpen, OnlyOpen

LEMMA RemoveOpen ==
  ASSUME NEW T, NEW queue \in Seq(T), NEW i \in DOMAIN queue
  PROVE  /\ NoneOpen(queue) => queue[i].tag \in Unwaited /\ NoneOpen(RemoveAt(queue, i))
         /\ \A tag : OnlyOpen(queue, tag) =>
              IF queue[i].tag \in Unwaited
              THEN tag \notin Unwaited => OnlyOpen(RemoveAt(queue, i), tag)
              ELSE queue[i].tag = tag /\ NoneOpen(RemoveAt(queue, i))
<1>. DEFINE rest == RemoveAt(queue, i)
<1>1. /\ \A j \in DOMAIN rest :
           \/ j < i /\ j \in DOMAIN queue /\ rest[j] = queue[j]
           \/ j >= i /\ j + 1 \in DOMAIN queue /\ rest[j] = queue[j + 1]
      /\ \A j \in DOMAIN queue : j < i => j \in DOMAIN rest
      /\ \A j \in DOMAIN queue : j > i => j - 1 \in DOMAIN rest
      /\ DOMAIN queue \subseteq Nat /\ DOMAIN rest \subseteq Nat
  BY RemoveAtIs
<1>. HIDE DEF rest
<1>2. NoneOpen(queue) => queue[i].tag \in Unwaited /\ NoneOpen(rest)
  BY <1>1 DEF NoneOpen
<1>3. ASSUME NEW tag, OnlyOpen(queue, tag), queue[i].tag \in Unwaited, tag \notin Unwaited
      PROVE  OnlyOpen(rest, tag)
  <2>1. PICK k \in DOMAIN queue : /\ queue[k].tag = tag
                                  /\ \A j \in DOMAIN queue \ {k} : queue[j].tag \in Unwaited
    BY <1>3 DEF OnlyOpen
  <2>2. k # i /\ k \in Nat /\ i \in Nat
    BY <1>3, <2>1
  <2>. DEFINE k1 == IF k < i THEN k ELSE k - 1
  <2>3. k1 \in DOMAIN rest /\ rest[k1].tag = tag
    BY <1>1, <2>1, <2>2
  <2>4. ASSUME NEW j \in DOMAIN rest, j # k1 PROVE rest[j].tag \in Unwaited
    BY <1>1, <2>1, <2>2, <2>4
  <2>. QED
    BY <2>3, <2>4 DEF OnlyOpen
<1>4. ASSUME NEW tag, OnlyOpen(queue, tag), queue[i].tag \notin Unwaited
      PROVE  queue[i].tag = tag /\ NoneOpen(rest)
  BY <1>1, <1>4 DEF OnlyOpen, NoneOpen
<1>. QED
  BY <1>2, <1>3, <1>4 DEF rest

-----------------------------------------------------------------------------
(***************************************************************************)
(* The scheduler of the simulation is the one the theorems are about.      *)
(***************************************************************************)
LEMMA SchedulerSame ==
  (S!Init <=> SP!Init) /\ (S!Next <=> SP!Next) /\ S!vars = SP!vars /\ S!vars' = SP!vars'
<1>1. S!vars = SP!vars /\ S!vars' = SP!vars'
  BY DEF S!vars, SP!vars, S!crVars, SP!crVars, S!psetVars, SP!psetVars, S!rcVars, SP!rcVars
<1>2. S!Init <=> SP!Init
  BY DEF S!NoName, SP!NoName, S!Self, SP!Self, S!World, SP!World, S!NoTag, SP!NoTag, S!NoProcess,
         SP!NoProcess, S!Command, SP!Command, S!PsetsContaining, SP!PsetsContaining, S!Started,
         SP!Started, S!StartCommands, SP!StartCommands, S!Init, SP!Init, S!Cardinality,
         SP!Cardinality, S!IsFiniteSet, SP!IsFiniteSet
<1>3. S!Next <=> SP!Next
  BY DEF S!NoName, SP!NoName, S!Self, SP!Self, S!World, SP!World, S!RcName, SP!RcName, S!OpName,
       SP!OpName, S!Proposed, SP!Proposed, S!NoTag, SP!NoTag, S!NoProposal, SP!NoProposal,
       S!NoProcess, SP!NoProcess, S!psetVars, SP!psetVars, S!rcVars, SP!rcVars, S!crVars,
       SP!crVars, S!vars, SP!vars, S!Command, SP!Command, S!SessionCreateAnswer,
       SP!SessionCreateAnswer, S!SessionInfoAnswer, SP!SessionInfoAnswer,
       S!SessionFinalizeAnswer, SP!SessionFinalizeAnswer, S!GetPsetsAnswer, SP!GetPsetsAnswer,
       S!PsetInfoAnswer, SP!PsetInfoAnswer, S!LookupAnswerSize, SP!LookupAnswerSize,
       S!LookupAnswer, SP!LookupAnswer, S!PsetOpAnswer, SP!PsetOpAnswer, S!SchedHintsAnswer,
       SP!SchedHintsAnswer, S!RcAnswer, SP!RcAnswer, S!Registered, SP!Registered, S!InsertName,
       SP!InsertName, S!AddBackrefs, SP!AddBackrefs, S!Register, SP!Register, S!Unregister,
       SP!Unregister, S!DropBackrefs, SP!DropBackrefs, S!IsReserved, SP!IsReserved,
       S!PsetsContaining, SP!PsetsContaining, S!Started, SP!Started, S!StartCommands,
       SP!StartCommands, S!SetState, SP!SetState, S!Init, SP!Init, S!Scheduling, SP!Scheduling,
       S!Abort, SP!Abort, S!HandleWorkerDone, SP!HandleWorkerDone, S!HandleSessionCreate,
       SP!HandleSessionCreate, S!HandleSessionInfo, SP!HandleSessionInfo,
       S!HandleSessionFinalize, SP!HandleSessionFinalize, S!HandleGetPsets, SP!HandleGetPsets,
       S!HandlePsetInfo, SP!HandlePsetInfo, S!HandlePsetLookup, SP!HandlePsetLookup,
       S!HandleSchedHints, SP!HandleSchedHints, S!HandlePsetFree, SP!HandlePsetFree, S!Operand,
       SP!Operand, S!Result, SP!Result, S!NewName, SP!NewName, S!HandlePsetOp, SP!HandlePsetOp,
       S!RefuseRC, SP!RefuseRC, S!Offer, SP!Offer, S!OfferAdd, SP!OfferAdd, S!OfferSub,
       SP!OfferSub, S!HandleRC, SP!HandleRC, S!AcceptAdd, SP!AcceptAdd, S!AcceptSub,
       SP!AcceptSub, S!HandleRCAccept, SP!HandleRCAccept, S!ShutdownAll, SP!ShutdownAll,
       S!Terminated, SP!Terminated, S!Unknown, SP!Unknown, S!Names, SP!Names, S!SetOps,
       SP!SetOps, S!Checked, SP!Checked, S!Running, SP!Running, S!Anyone, SP!Anyone, S!Next,
       SP!Next, S!Cardinality, SP!Cardinality, S!IsFiniteSet, SP!IsFiniteSet
<1>. QED
  BY <1>1, <1>2, <1>3

LEMMA MessageSame == S!Message = SP!Message
BY DEF S!Message, SP!Message, S!Backref, SP!Backref, S!PsetName, SP!PsetName, S!RCType,
       SP!RCType

-----------------------------------------------------------------------------
(***************************************************************************)
(* Every step of the simulation is one of the scheduler's module, or none. *)
(***************************************************************************)
\* Who waits for the handling of a request is where it says, and runs.
LEMMA SenderPlace ==
  ASSUME TypeOK, NEW c \in CR, Place(c), NEW i \in DOMAIN requests[c]
  PROVE  LET tag == requests[c][i].tag
             rest == RemoveAt(requests[c], i)
         IN  IF tag \in Unwaited
             THEN /\ NoneOpen(requests[c]) => NoneOpen(rest)
                  /\ \A t : t \notin Unwaited /\ OnlyOpen(requests[c], t) => OnlyOpen(rest, t)
             ELSE /\ c \in running_crs /\ inbox[c] = {} /\ NoneOpen(rest)
                  /\ \/ tag \in DOMAIN Awaits /\ pc[c] = Awaits[tag]
                     \/ tag = "DONE_RUNNING" /\ pc[c] = Idle
<1>1. requests[c] \in Seq(RequestMessage)
  BY DEF TypeOK
<1>2. /\ NoneOpen(requests[c]) =>
           requests[c][i].tag \in Unwaited /\ NoneOpen(RemoveAt(requests[c], i))
      /\ \A tag : OnlyOpen(requests[c], tag) =>
           IF requests[c][i].tag \in Unwaited
           THEN tag \notin Unwaited => OnlyOpen(RemoveAt(requests[c], i), tag)
           ELSE requests[c][i].tag = tag /\ NoneOpen(RemoveAt(requests[c], i))
  BY <1>1, RemoveOpen
<1>3. CASE requests[c][i].tag \in Unwaited
  BY <1>2, <1>3
<1>4. CASE requests[c][i].tag \notin Unwaited
  <2>1. Asking(c) \/ Leaving(c)
    BY <1>2, <1>4 DEF Place, AtRest, ToStart, InProgram, Answered, LookupAnswered,
                      SelfAnswered, Unanswerable, ToQuit, HasQuit
  <2>. QED
    BY <1>2, <1>4, <2>1 DEF Asking, Leaving
<1>. QED
  BY <1>3, <1>4

\* A name no process set ever has.
LEMMA UnknownIsNot ==
  ASSUME SP!TypeOK, SP!IInv, Bounded
  PROVE  S!Unknown \notin S!Registered /\ S!Unknown # S!Self
<1>1. next_op \in Nat /\ MaxOps \in Nat /\ next_op <= MaxOps
  BY BoundsAssumption DEF SP!TypeOK, Bounded
<1>2. \A n \in S!Registered : n.kind = "op" => n.id < next_op
  BY DEF SP!IInv, SP!NamesFresh, SP!Registered, S!Registered
<1>. QED
  BY <1>1, <1>2 DEF S!Unknown, S!OpName, S!Self

\* A request that comes too late names what is not registered any more.
LEMMA DispatchIsNext ==
  ASSUME SP!TypeOK, SP!IInv, Bounded, NEW c \in CR, NEW r \in RequestMessage, Dispatch(c, r),
         r.tag \notin Unwaited => c \in running_crs
  PROVE  S!Next
<1>1. S!Unknown \notin S!Registered /\ S!Unknown # S!Self
  BY UnknownIsNot
<1>. DEFINE known(n) == IF n \in S!Names THEN n ELSE S!Unknown
<1>2. ASSUME NEW n
      PROVE  /\ known(n) \in S!Names
             /\ known(n) = S!Self <=> n = S!Self
             /\ known(n) \in S!Registered <=> n \in S!Registered
             /\ n \in S!Registered \cup {S!Self} => known(n) = n
  BY <1>1 DEF S!Names
<1>. HIDE DEF known
<1>3. CASE r.tag \in {"DONE_RUNNING", "SESSION_INFO", "GET_PSETS"}
  BY <1>3 DEF Dispatch, S!Next, S!Checked
<1>4. CASE r.tag \in {"SESSION_CREATE", "SESSION_FINALIZE", "SCHED_HINTS", "RC"}
  BY <1>4 DEF Dispatch, S!Next, S!Running, Unwaited
<1>5. CASE r.tag = "PSET_INFO"
  <2>1. S!HandlePsetInfo(c, known(r.name))
    BY <1>2, <1>5 DEF Dispatch, S!HandlePsetInfo
  <2>. QED
    BY <1>2, <1>5, <2>1 DEF S!Next, S!Running, Unwaited
<1>6. CASE r.tag = "PSET_LOOKUP"
  <2>1. S!HandlePsetLookup(c, known(r.name))
    BY <1>2, <1>6 DEF Dispatch, S!HandlePsetLookup
  <2>. QED
    BY <1>2, <1>6, <2>1 DEF S!Next, S!Running, Unwaited
<1>7. CASE r.tag = "PSET_OP"
  <2>1. /\ r.op \in {"union", "intersect", "difference"}
        /\ r.proposal \in {S!NoProposal} \cup DOMAIN Proposals
    BY <1>7 DEF RequestMessage
  <2>2. S!HandlePsetOp(c, r.op, r.name1, r.name2, r.proposal)
    BY <1>7 DEF Dispatch
  <2>3. S!HandlePsetOp(c, r.op, known(r.name1), known(r.name2), r.proposal)
    <3>1. CASE {r.name1, r.name2} \subseteq S!Registered \cup {S!Self}
      <4>1. known(r.name1) = r.name1 /\ known(r.name2) = r.name2
        BY <1>2, <3>1
      <4>. QED
        BY <2>2, <4>1
    <3>2. CASE ~({r.name1, r.name2} \subseteq S!Registered \cup {S!Self})
      <4>1. ~({known(r.name1), known(r.name2)} \subseteq S!Registered \cup {S!Self})
        BY <1>2, <3>2
      <4>. QED
        BY <2>2, <3>2, <4>1 DEF S!HandlePsetOp
    <3>. QED
      BY <3>1, <3>2
  <2>. QED
    BY <1>2, <1>7, <2>1, <2>3 DEF S!Next, S!Running, S!SetOps, Unwaited
<1>8. CASE r.tag = "PSET_FREE"
  <2>1. S!HandlePsetFree(known(r.name))
    <3>1. {r.name} \cap S!Registered = {known(r.name)} \cap S!Registered
      BY <1>2
    <3>. QED
      BY <1>8, <3>1 DEF Dispatch, S!HandlePsetFree
  <2>. QED
    BY <1>2, <2>1 DEF S!Next, S!Anyone
<1>9. CASE r.tag = "RC_ACCEPT"
  <2>1. S!NoTag \notin DOMAIN rc_map
    BY DEF SP!TypeOK, S!NoTag
  <2>2. S!HandleRCAccept(IF r.rc_tag \in DOMAIN rc_map THEN r.rc_tag ELSE S!NoTag)
    BY <1>9, <2>1 DEF Dispatch, S!HandleRCAccept
  <2>. QED
    BY <2>2 DEF S!Next, S!Anyone
<1>10. r.tag \in {"DONE_RUNNING", "SESSION_INFO", "GET_PSETS", "SESSION_CREATE",
                "SESSION_FINALIZE", "SCHED_HINTS", "RC", "PSET_INFO", "PSET_LOOKUP", "PSET_OP",
                "PSET_FREE", "RC_ACCEPT"}
  BY DEF RequestMessage
<1>. QED
  BY <1>3, <1>4, <1>5, <1>6, <1>7, <1>8, <1>9, <1>10

LEMMA StepIsNext ==
  ASSUME SP!TypeOK, SP!IInv, SimInv, [Next]_allVars
  PROVE  [SP!Next]_SP!vars
<1>1. UNCHANGED schedulerVars => UNCHANGED S!vars
  BY DEF schedulerVars, S!vars, S!crVars, S!psetVars, S!rcVars
<1>2. CASE UNCHANGED allVars
  BY <1>1, <1>2, SchedulerSame DEF allVars
<1>3. ASSUME NEW c \in CR, Worker(c) PROVE [SP!Next]_SP!vars
  <2>1. UNCHANGED schedulerVars
    BY <1>3 DEF Worker, Call, Receive, Take, Exit, Send, Request, SessionInit, SessionGetInfo,
                SessionGetPsets, SessionGetPsetInfo, GroupFromSessionPset, PsetCreateOp,
                PsetFree, AddSchedulingHints, SessionFinalize, RCGet, RCAccept
  <2>. QED
    BY <1>1, <2>1, SchedulerSame
<1>4. ASSUME NEW c \in CR, NEW i \in DOMAIN requests[c], HandleRequest(c, i)
      PROVE  [SP!Next]_SP!vars
  <2>1. requests[c][i] \in RequestMessage
    BY DEF SimInv, TypeOK
  <2>2. requests[c][i].tag \notin Unwaited => c \in running_crs
    BY SenderPlace DEF SimInv
  <2>3. S!Next
    BY <1>4, <2>1, <2>2, DispatchIsNext DEF HandleRequest, SimInv
  <2>. QED
    BY <2>3, SchedulerSame
<1>5. CASE Shutdown
  BY <1>5, SchedulerSame DEF Shutdown, S!Next
<1>6. CASE Ended
  BY <1>1, <1>6, SchedulerSame DEF Ended, allVars
<1>. QED
  BY <1>2, <1>3, <1>4, <1>5, <1>6 DEF Next, Handle

-----------------------------------------------------------------------------
(***************************************************************************)
(* What the handling of a request does to those who wait.                  *)
(***************************************************************************)
\* The caller gets its answer, unless the scheduler aborts before it has sent it.
Replied(c, tag) ==
  \/ sent' = {} /\ fault' # "none"
  \/ \E m \in sent' : /\ sent' = {m} /\ m.to = c /\ m.tag = tag
                      /\ tag = "PSET_LOOKUP_ANSWER_SIZE" => m.size = 0
  \/ /\ tag = "PSET_LOOKUP_ANSWER_SIZE"
     /\ \E m, n \in sent' : /\ sent' = {m, n} /\ m.to = c /\ n.to = c
                            /\ m.tag = "PSET_LOOKUP_ANSWER_SIZE" /\ m.size > 0
                            /\ n.tag = "PSET_LOOKUP_ANSWER"
  \/ /\ tag = "PSET_LOOKUP_ANSWER_SIZE" /\ "group_from_self" \in Calls
     /\ \E m \in sent' : sent' = {m} /\ m.to = c /\ m.tag = "PSET_LOOKUP_ANSWER"

LEMMA RepliedTo ==
  ASSUME NEW c, NEW tag, Replied(c, tag)
  PROVE  \A m \in sent' : m.to = c
<1>1. CASE sent' = {} \/ \E m \in sent' : sent' = {m} /\ m.to = c
  BY <1>1
<1>2. CASE \E m, n \in sent' : sent' = {m, n} /\ m.to = c /\ n.to = c
  BY <1>2
<1>. QED
  BY <1>1, <1>2 DEF Replied

LEMMA SizeIsPositive ==
  ASSUME SP!TypeOK, Bounded, NEW n \in S!Registered
  PROVE  S!Cardinality(pset_name_map[n]) \in Nat \ {0}
<1>1. pset_name_map[n] \in SUBSET Rank /\ pset_name_map[n] # {}
  BY DEF SP!TypeOK, Bounded, SP!Registered, S!Registered
<1>2. IsFiniteSet(pset_name_map[n])
  BY <1>1, FS_Subset, RankAssumption
<1>3. Cardinality(pset_name_map[n]) \in Nat \ {0}
  BY <1>1, <1>2, FS_CardinalityType, FS_EmptySet
<1>. QED
  BY <1>3 DEF Cardinality, S!Cardinality

LEMMA QueryReplied ==
  ASSUME SP!TypeOK, SP!IInv, Bounded, NEW c \in CR, NEW r \in RequestMessage, Dispatch(c, r),
         Called(r), r.tag \in DOMAIN Awaits
  PROVE  /\ phase' = phase /\ fault = "none" /\ running_crs' = running_crs
         /\ Replied(c, Awaits[r.tag])
<1>1. CASE r.tag \in {"SESSION_CREATE", "SESSION_INFO", "SESSION_FINALIZE", "GET_PSETS",
                      "PSET_INFO", "SCHED_HINTS"}
  <2>1. /\ phase' = phase /\ fault = "none" /\ running_crs' = running_crs
        /\ \/ sent' = {} /\ fault' # "none"
           \/ \E m \in sent' : sent' = {m} /\ m.to = c /\ m.tag = Awaits[r.tag]
    <3>1. CASE r.tag = "SESSION_CREATE"
      <4>1. S!HandleSessionCreate(c)
        BY <3>1 DEF Dispatch
      <4>2. Awaits[r.tag] = "SESSION_CREATE_ANSWER"
        BY <3>1 DEF Awaits
      <4>. QED
        BY <4>1, <4>2 DEF S!HandleSessionCreate, S!Scheduling, S!Abort, S!crVars,
                          S!SessionCreateAnswer
    <3>2. CASE r.tag = "SESSION_INFO"
      <4>1. S!HandleSessionInfo(c)
        BY <3>2 DEF Dispatch
      <4>2. Awaits[r.tag] = "SESSION_INFO_ANSWER"
        BY <3>2 DEF Awaits
      <4>. QED
        <5>. DEFINE answer == S!SessionInfoAnswer(c, process_states[c])
        <5>1. answer.to = c /\ answer.tag = Awaits[r.tag]
          BY <4>2 DEF S!SessionInfoAnswer
        <5>2. /\ phase' = phase /\ fault = "none" /\ running_crs' = running_crs
              /\ (sent' = {} /\ fault' # "none") \/ sent' = {answer}
          BY <4>1 DEF S!HandleSessionInfo, S!Scheduling, S!Abort, S!crVars
        <5>. QED
          BY <5>1, <5>2
    <3>3. CASE r.tag = "SESSION_FINALIZE"
      <4>1. S!HandleSessionFinalize(c)
        BY <3>3 DEF Dispatch
      <4>2. Awaits[r.tag] = "SESSION_FINALIZE_ANSWER"
        BY <3>3 DEF Awaits
      <4>. QED
        BY <4>1, <4>2 DEF S!HandleSessionFinalize, S!Scheduling, S!Abort, S!crVars,
                          S!SessionFinalizeAnswer
    <3>4. CASE r.tag = "GET_PSETS"
      <4>1. S!HandleGetPsets(c)
        BY <3>4 DEF Dispatch
      <4>2. Awaits[r.tag] = "GET_PSETS_ANSWER"
        BY <3>4 DEF Awaits
      <4>. QED
        <5>. DEFINE answer == S!GetPsetsAnswer(c, process_states[c].psets_containing
                                          \cup {[name |-> S!Self, pset_size |-> 1]})
        <5>1. answer.to = c /\ answer.tag = Awaits[r.tag]
          BY <4>2 DEF S!GetPsetsAnswer
        <5>2. /\ phase' = phase /\ fault = "none" /\ running_crs' = running_crs
              /\ (sent' = {} /\ fault' # "none") \/ sent' = {answer}
          BY <4>1 DEF S!HandleGetPsets, S!Scheduling, S!Abort, S!crVars
        <5>. QED
          BY <5>1, <5>2
    <3>5. CASE r.tag = "PSET_INFO"
      <4>1. S!HandlePsetInfo(c, r.name)
        BY <3>5 DEF Dispatch
      <4>2. Awaits[r.tag] = "PSET_INFO_ANSWER"
        BY <3>5 DEF Awaits
      <4>. QED
        BY <4>1, <4>2 DEF S!HandlePsetInfo, S!Scheduling, S!Abort, S!crVars,
                          S!PsetInfoAnswer
    <3>6. CASE r.tag = "SCHED_HINTS"
      <4>1. S!HandleSchedHints(c)
        BY <3>6 DEF Dispatch
      <4>2. Awaits[r.tag] = "SCHED_HINTS_ANSWER"
        BY <3>6 DEF Awaits
      <4>. QED
        BY <4>1, <4>2 DEF S!HandleSchedHints, S!Scheduling, S!Abort, S!crVars,
                          S!SchedHintsAnswer
    <3>. QED
      BY <1>1, <3>1, <3>2, <3>3, <3>4, <3>5, <3>6
  <2>2. Awaits[r.tag] # "PSET_LOOKUP_ANSWER_SIZE"
    BY <1>1 DEF Awaits
  <2>. QED
    BY <2>1, <2>2 DEF Replied
<1>2. CASE r.tag = "PSET_LOOKUP"
  <2>1. /\ phase' = phase /\ fault = "none" /\ running_crs' = running_crs
        /\ sent' = IF r.name = S!Self THEN {S!LookupAnswer(c, {c})}
                   ELSE IF r.name \in S!Registered
                        THEN {S!LookupAnswerSize(c, S!Cardinality(pset_name_map[r.name])),
                              S!LookupAnswer(c, pset_name_map[r.name])}
                        ELSE {S!LookupAnswerSize(c, 0)}
    BY <1>2 DEF Dispatch, S!HandlePsetLookup, S!Scheduling, S!crVars
  <2>2. Awaits[r.tag] = "PSET_LOOKUP_ANSWER_SIZE"
    BY <1>2 DEF Awaits
  <2>3. CASE r.name = S!Self
    BY <1>2, <2>1, <2>2, <2>3 DEF Replied, S!LookupAnswer, Called
  <2>4. CASE r.name # S!Self /\ r.name \in S!Registered
    <3>. DEFINE size == S!Cardinality(pset_name_map[r.name])
    <3>1. size > 0
      BY <2>4, SizeIsPositive
    <3>2. sent' = {S!LookupAnswerSize(c, size), S!LookupAnswer(c, pset_name_map[r.name])}
      BY <2>1, <2>4
    <3>3. \E m, n \in sent' : /\ sent' = {m, n} /\ m.to = c /\ n.to = c
                              /\ m.tag = "PSET_LOOKUP_ANSWER_SIZE" /\ m.size > 0
                              /\ n.tag = "PSET_LOOKUP_ANSWER"
      <4>1. /\ S!LookupAnswerSize(c, size) \in sent'
            /\ S!LookupAnswer(c, pset_name_map[r.name]) \in sent'
        BY <3>2
      <4>. QED
        BY <3>1, <3>2, <4>1 DEF S!LookupAnswer, S!LookupAnswerSize
    <3>. QED
      BY <2>1, <2>2, <3>3 DEF Replied
  <2>5. CASE r.name # S!Self /\ r.name \notin S!Registered
    BY <2>1, <2>2, <2>5 DEF Replied, S!LookupAnswerSize
  <2>. QED
    BY <2>1, <2>2, <2>3, <2>4, <2>5
<1>3. CASE r.tag = "PSET_OP"
  <2>1. S!HandlePsetOp(c, r.op, r.name1, r.name2, r.proposal)
    BY <1>3 DEF Dispatch
  <2>2. /\ phase' = phase /\ fault = "none" /\ running_crs' = running_crs
        /\ \/ sent' = {} /\ fault' # "none"
           \/ \E n : sent' = {S!PsetOpAnswer(c, n)}
    BY <2>1 DEF S!HandlePsetOp, S!Scheduling, S!Abort, S!crVars
  <2>3. Awaits[r.tag] = "PSET_OP_ANSWER"
    BY <1>3 DEF Awaits
  <2>. QED
    BY <2>2, <2>3 DEF Replied, S!PsetOpAnswer
<1>4. CASE r.tag = "RC"
  <2>1. S!HandleRC(c)
    BY <1>4 DEF Dispatch
  <2>2. /\ phase' = phase /\ fault = "none" /\ running_crs' = running_crs
        /\ \/ sent' = {} /\ fault' # "none"
           \/ \E t, type, n : sent' = {S!RcAnswer(c, t, type, n)}
    BY <2>1 DEF S!HandleRC, S!RefuseRC, S!OfferAdd, S!OfferSub, S!Scheduling, S!Abort, S!crVars
  <2>3. Awaits[r.tag] = "RC_ANSWER"
    BY <1>4 DEF Awaits
  <2>. QED
    BY <2>2, <2>3 DEF Replied, S!RcAnswer
<1>. QED
  BY <1>1, <1>2, <1>3, <1>4 DEF Awaits

\* A worker that has reported the end of its program is taken out, without an abort: it
\* is running, and all its process sets are registered.
LEMMA DoneEffect ==
  ASSUME SP!TypeOK, SP!IInv, NEW c \in CR, c \in running_crs, S!HandleWorkerDone(c)
  PROVE  /\ phase = "scheduling" /\ phase' = phase /\ fault = "none" /\ fault' = "none"
         /\ running_crs' = running_crs \ {c} /\ sent' = {}
<1>. DEFINE names == {r.name : r \in process_states[c].psets_containing}
<1>1. process_states[c].active
  BY RankAssumption DEF SP!IInv, SP!RunningHaveState
<1>2. names = names \cap S!Registered
  BY DEF SP!IInv, SP!BackrefsExact, SP!Registered, S!Registered
<1>. QED
  BY <1>1, <1>2 DEF S!HandleWorkerDone, S!Scheduling, S!rcVars

LEMMA UnwaitedEffect ==
  ASSUME SP!TypeOK, NEW c \in CR, NEW r \in RequestMessage, Dispatch(c, r), r.tag \in Unwaited
  PROVE  /\ phase = "scheduling" /\ phase' = phase /\ fault = "none"
         /\ \E starting \in SUBSET CR :
              /\ starting \cap running_crs = {} /\ running_crs' = running_crs \cup starting
              /\ sent' = S!StartCommands(starting)
<1>1. S!StartCommands({}) = {}
  BY DEF S!StartCommands
<1>2. CASE r.tag = "PSET_FREE"
  <2>1. /\ phase = "scheduling" /\ phase' = phase /\ fault = "none" /\ running_crs' = running_crs /\ sent' = {}
    BY <1>2 DEF Dispatch, S!HandlePsetFree, S!Scheduling, S!crVars
  <2>. QED
    BY <1>1, <2>1
<1>3. CASE r.tag = "RC_ACCEPT"
  <2>1. S!HandleRCAccept(r.rc_tag)
    BY <1>3 DEF Dispatch
  <2>2. /\ phase = "scheduling" /\ phase' = phase /\ fault = "none"
        /\ \/ running_crs' = running_crs /\ sent' = {}
           \/ LET starting == rc_map[r.rc_tag].pset IN
              /\ starting \subseteq CR /\ \A d \in starting : d \notin running_crs
              /\ running_crs' = running_crs \cup starting /\ sent' = S!StartCommands(starting)
    BY <2>1 DEF S!HandleRCAccept, S!AcceptAdd, S!AcceptSub, S!Scheduling, S!Abort, S!crVars
  <2>3. CASE running_crs' = running_crs /\ sent' = {}
    BY <1>1, <2>2, <2>3
  <2>4. CASE ~(running_crs' = running_crs /\ sent' = {})
    BY <2>2, <2>4
  <2>. QED
    BY <2>3, <2>4
<1>. QED
  BY <1>2, <1>3 DEF Unwaited

-----------------------------------------------------------------------------
(***************************************************************************)
(* Types.                                                                  *)
(***************************************************************************)
\* What a call does: it sends a request, and waits for the answer if there will be one.
Asked(c, r, until) ==
  /\ fault = "none" /\ pc[c] = "main"
  /\ Send(c, r, until)
  /\ Called(r)
  /\ \/ r.tag \in DOMAIN Awaits /\ until = Awaits[r.tag]
     \/ r.tag \in Unwaited /\ until = "main"
  /\ \/ offered' = offered
     \/ \E kept \in SUBSET offered[c] : offered' = [offered EXCEPT ![c] = kept]
  /\ r.tag = "RC" => RCGet(c)
  /\ r.tag = "RC_ACCEPT" => RCAccept(c, r.rc_tag)
  /\ r.tag \notin {"RC", "RC_ACCEPT"} => offered' = offered
  /\ \/ sessions' = sessions
     \/ \E kept \in SUBSET sessions[c] : sessions' = [sessions EXCEPT ![c] = kept]

LEMMA NamesArePsetNames ==
  ASSUME SP!TypeOK
  PROVE  S!Names \subseteq S!PsetName
BY BoundsAssumption DEF SP!TypeOK, SP!Registered, S!Registered, SP!PsetName, S!PsetName,
   S!Names, S!Self, S!Unknown, S!OpName

LEMMA CallAsks ==
  ASSUME SP!TypeOK, TypeOK, NEW c \in CR, Call(c)
  PROVE  \E r \in RequestMessage : \E until : Asked(c, r, until)
<1>1. fault = "none" /\ pc[c] = "main"
  BY DEF Call
<1>2. CASE SessionInit(c) \/ SessionGetInfo(c) \/ SessionGetPsets(c)
  BY <1>1, <1>2 DEF SessionInit, SessionGetInfo, SessionGetPsets, Request, Asked, Called, Awaits,
                    RequestMessage
<1>3. CASE "add_scheduling_hints" \in Calls /\ AddSchedulingHints(c)
  BY <1>1, <1>3 DEF AddSchedulingHints, Request, Asked, Called, Awaits, RequestMessage
<1>4. CASE SessionFinalize(c)
  BY <1>1, <1>4 DEF SessionFinalize, Asked, Called, Awaits, RequestMessage
<1>5. CASE RCGet(c)
  BY <1>1, <1>5 DEF RCGet, Asked, Called, Awaits, RequestMessage
<1>6. ASSUME NEW t \in offered[c], RCAccept(c, t)
      PROVE  \E r \in RequestMessage : \E until : Asked(c, r, until)
  <2>1. t \in Nat
    BY BoundsAssumption DEF TypeOK
  <2>2. [tag |-> "RC_ACCEPT", rc_tag |-> t] \in RequestMessage
    BY <2>1 DEF RequestMessage
  <2>. QED
    BY <1>1, <1>6, <2>2 DEF RCAccept, Asked, Called, Awaits, Unwaited
<1>7. ASSUME NEW n \in S!Names, SessionGetPsetInfo(c, n)
      PROVE  \E r \in RequestMessage : \E until : Asked(c, r, until)
  <2>1. [tag |-> "PSET_INFO", name |-> n] \in RequestMessage
    BY NamesArePsetNames DEF RequestMessage
  <2>. QED
    BY <1>1, <1>7, <2>1 DEF SessionGetPsetInfo, Request, Asked, Called, Awaits
<1>8. ASSUME NEW n \in LookupNames, GroupFromSessionPset(c, n)
      PROVE  \E r \in RequestMessage : \E until : Asked(c, r, until)
  <2>1. /\ [tag |-> "PSET_LOOKUP", name |-> n] \in RequestMessage
        /\ n = S!Self => "group_from_self" \in Calls
    BY NamesArePsetNames DEF RequestMessage, LookupNames
  <2>. QED
    BY <1>1, <1>8, <2>1 DEF GroupFromSessionPset, Request, Asked, Called, Awaits
<1>9. ASSUME NEW op \in S!SetOps \ {"unsupported"}, NEW n1 \in S!Names, NEW n2 \in S!Names,
             NEW p \in {S!NoProposal} \cup DOMAIN Proposals, PsetCreateOp(c, op, n1, n2, p)
      PROVE  \E r \in RequestMessage : \E until : Asked(c, r, until)
  <2>1. [tag |-> "PSET_OP", op |-> op, name1 |-> n1, name2 |-> n2, proposal |-> p]
          \in RequestMessage
    BY NamesArePsetNames DEF RequestMessage, S!SetOps
  <2>. QED
    BY <1>1, <1>9, <2>1 DEF PsetCreateOp, Request, Asked, Called, Awaits
<1>10. ASSUME NEW n \in S!Names, PsetFree(c, n)
      PROVE  \E r \in RequestMessage : \E until : Asked(c, r, until)
  <2>1. [tag |-> "PSET_FREE", name |-> n] \in RequestMessage
    BY NamesArePsetNames DEF RequestMessage
  <2>. QED
    BY <1>1, <1>10, <2>1 DEF PsetFree, Request, Asked, Called, Unwaited
<1>. QED
  BY <1>2, <1>3, <1>4, <1>5, <1>6, <1>7, <1>8, <1>9, <1>10 DEF Call

LEMMA SendType ==
  ASSUME TypeOK, NEW c \in CR, NEW r \in RequestMessage, NEW until, Send(c, r, until),
         until \in {"main", Idle} \cup AnswerTag
  PROVE  /\ pc' \in [CR -> {"main", "quit", Idle} \cup AnswerTag]
         /\ requests' \in [CR -> Seq(RequestMessage)]
         /\ inbox' \in [CR -> SUBSET S!Message]
         /\ \A d \in CR : \A m \in inbox'[d] : m.to = d
BY DEF TypeOK, Send

LEMMA AskedTypes ==
  ASSUME SP!TypeOK, SimInv, NEW c \in CR, NEW r \in RequestMessage, NEW until,
         Asked(c, r, until), calls' \in 0 .. MaxCalls
  PROVE  TypeOK'
<1>1. until \in {"main", Idle} \cup AnswerTag
  BY DEF Asked, Awaits, AnswerTag
<1>2. offered' \in [CR -> SUBSET (0 .. MaxRcTag + 1)]
  BY ZenonT(40) DEF Asked, SimInv, TypeOK
<1>3. sessions' \in [CR -> SUBSET (0 .. MaxSessions)]
  BY ZenonT(40) DEF Asked, SimInv, TypeOK
<1>4. Send(c, r, until)
  BY DEF Asked
<1>. QED
  BY <1>1, <1>2, <1>3, <1>4, SendType DEF SimInv, TypeOK

LEMMA WorkerTypes ==
  ASSUME SP!TypeOK, SimInv, NEW c \in CR, Worker(c)
  PROVE  TypeOK'
<1>1. CASE Call(c)
  <2>1. PICK r \in RequestMessage : \E until : Asked(c, r, until)
    BY <1>1, CallAsks DEF SimInv
  <2>2. PICK until : Asked(c, r, until)
    BY <2>1
  <2>3. calls' \in 0 .. MaxCalls
    BY <1>1, CallBoundAssumption DEF Call, SimInv, TypeOK
  <2>. QED
    BY <2>2, <2>3, AskedTypes
<1>2. ASSUME NEW m \in inbox[c], Take(c, m) PROVE TypeOK'
  <2>1. m \in S!Message
    BY DEF SimInv, TypeOK
  <2>2. pc' \in [CR -> {"main", "quit", Idle} \cup AnswerTag]
    BY <1>2 DEF Take, SimInv, TypeOK, AnswerTag
  <2>3. inbox' \in [CR -> SUBSET S!Message] /\ \A d \in CR : \A n \in inbox'[d] : n.to = d
    BY <1>2 DEF Take, SimInv, TypeOK
  <2>4. offered' \in [CR -> SUBSET (0 .. MaxRcTag + 1)]
    <3>1. m.tag = "RC_ANSWER" /\ m.type # "none" => m.rc_tag \in 0 .. MaxRcTag + 1
      <4>1. m.tag = "RC_ANSWER" /\ m.type # "none" => m.rc_tag \in 0 .. next_rc_tag - 1
        BY DEF SimInv, Issued
      <4>. QED
        BY <4>1, BoundsAssumption DEF SimInv, Bounded, SP!TypeOK
    <3>. QED
      BY <1>2, <3>1 DEF Take, SimInv, TypeOK
  <2>5. sessions' \in [CR -> SUBSET (0 .. MaxSessions)]
    <3>1. m.tag = "SESSION_CREATE_ANSWER" => m.session_id \in 0 .. MaxSessions
      <4>1. m.tag = "SESSION_CREATE_ANSWER" =>
              m.session_id < next_session_id /\ m.session_id \in Nat
        BY <2>1 DEF SimInv, Issued, S!Message
      <4>. QED
        BY <4>1, BoundsAssumption DEF SimInv, Bounded, SP!TypeOK
    <3>2. 0 \in 0 .. MaxSessions
      BY BoundsAssumption
    <3>. QED
      BY <1>2, <3>1, <3>2 DEF Take, SimInv, TypeOK
  <2>. QED
    BY <1>2, <2>2, <2>3, <2>4, <2>5 DEF Take, SimInv, TypeOK
<1>3. CASE Exit(c)
  <2>1. [tag |-> "DONE_RUNNING"] \in RequestMessage
    BY DEF RequestMessage
  <2>. QED
    BY <1>3, <2>1, SendType DEF Exit, SimInv, TypeOK
<1>. QED
  BY <1>1, <1>2, <1>3 DEF Worker, Receive

LEMMA DeliverType ==
  ASSUME TypeOK, SP!TypeOK', Deliver
  PROVE  inbox' \in [CR -> SUBSET S!Message] /\ \A d \in CR : \A m \in inbox'[d] : m.to = d
<1>1. sent' \subseteq S!Message
  <2>1. S!Message = SP!Message /\ sent' \subseteq SP!Message'
    BY MessageSame DEF SP!TypeOK
  <2>. QED
    BY <2>1 DEF SP!Message, SP!Backref, SP!PsetName, SP!RCType
<1>. QED
  BY <1>1 DEF Deliver, TypeOK

LEMMA TypeStep ==
  ASSUME SP!TypeOK, SimInv, [Next]_allVars, SP!TypeOK'
  PROVE  TypeOK'
<1>1. ASSUME NEW c \in CR, NEW i \in DOMAIN requests[c], HandleRequest(c, i)
      PROVE  TypeOK'
  <2>1. requests' \in [CR -> Seq(RequestMessage)]
    <3>1. RemoveAt(requests[c], i) \in Seq(RequestMessage)
      BY RemoveAtIs DEF SimInv, TypeOK
    <3>. QED
      BY <1>1, <3>1 DEF HandleRequest, SimInv, TypeOK
  <2>. QED
    BY <1>1, <2>1, DeliverType DEF HandleRequest, SimInv, TypeOK, workerVars
<1>2. CASE Shutdown
  BY <1>2, DeliverType DEF Shutdown, SimInv, TypeOK, workerVars
<1>3. CASE UNCHANGED allVars
  BY <1>3 DEF allVars, workerVars, SimInv, TypeOK
<1>. QED
  BY <1>1, <1>2, <1>3, WorkerTypes DEF Next, Handle, Ended

-----------------------------------------------------------------------------
(***************************************************************************)
(* Counters, tags and ids.                                                 *)
(***************************************************************************)
\* Counters only grow; an id or a tag that is told was not used before and is from now on.
Counted ==
  /\ next_session_id' \in Nat /\ next_session_id' >= next_session_id
  /\ next_rc_tag' \in Nat /\ next_rc_tag' >= next_rc_tag
  /\ \A m \in sent' :
       /\ m.tag = "SESSION_CREATE_ANSWER" =>
            m.session_id = next_session_id /\ next_session_id' = next_session_id + 1
       /\ m.tag = "RC_ANSWER" /\ m.type # "none" =>
            m.rc_tag = next_rc_tag + 1 /\ next_rc_tag' = next_rc_tag + 2

LEMMA NothingCounted ==
  ASSUME SP!TypeOK, Bounded, UNCHANGED <<pset_name_map, rc_map, next_op, next_session_id, next_rc_tag>>,
         \A m \in sent' : m.tag # "SESSION_CREATE_ANSWER" /\ (m.tag = "RC_ANSWER" => m.type = "none")
  PROVE  Bounded' /\ Counted
BY DEF Bounded, Counted, SP!TypeOK, S!Registered

LEMMA OfferCounted ==
  ASSUME SP!TypeOK, Bounded, NEW change, change.pset # {}, next_rc_tag < MaxRcTag, S!Offer(change),
         UNCHANGED <<next_op, next_session_id>>,
         NEW c, NEW type, sent' = {S!RcAnswer(c, next_rc_tag + 1, type, S!RcName(next_rc_tag))}
  PROVE  Bounded' /\ Counted
<1>1. /\ next_rc_tag' = next_rc_tag + 2 /\ next_rc_tag \in Nat /\ next_session_id \in Nat
      /\ MaxRcTag \in Nat
  BY BoundsAssumption DEF SP!TypeOK, S!Offer
<1>2. \A n \in DOMAIN pset_name_map' : pset_name_map'[n] # {}
  BY DEF S!Offer, S!Register, Bounded, S!Registered
<1>3. \A t \in DOMAIN rc_map' : rc_map'[t].pset # {}
  BY DEF S!Offer, Bounded
<1>4. \A m \in sent' : m.tag = "RC_ANSWER" /\ m.rc_tag = next_rc_tag + 1
  BY DEF S!RcAnswer
<1>. QED
  BY <1>1, <1>2, <1>3, <1>4 DEF Bounded, Counted, S!Registered

LEMMA DispatchCounts ==
  ASSUME SP!TypeOK, Bounded, NEW c \in CR, NEW r \in RequestMessage, Dispatch(c, r)
  PROVE  Bounded' /\ Counted
<1>1. CASE r.tag = "SESSION_CREATE"
  BY <1>1, BoundsAssumption DEF Dispatch, S!HandleSessionCreate, Bounded, Counted, SP!TypeOK,
     S!Registered, S!psetVars, S!rcVars, S!SessionCreateAnswer
<1>2. CASE r.tag \in {"SESSION_INFO", "SESSION_FINALIZE", "GET_PSETS", "PSET_INFO",
                      "SCHED_HINTS"}
  <2>1. /\ UNCHANGED <<pset_name_map, rc_map, next_op, next_session_id, next_rc_tag>>
        /\ \A m \in sent' : m.tag \notin {"SESSION_CREATE_ANSWER", "RC_ANSWER"}
    BY <1>2 DEF Dispatch, S!HandleSessionInfo, S!HandleSessionFinalize, S!HandleGetPsets,
                S!HandlePsetInfo, S!HandleSchedHints, S!Abort, S!psetVars, S!rcVars,
                S!SessionInfoAnswer, S!SessionFinalizeAnswer, S!GetPsetsAnswer,
                S!PsetInfoAnswer, S!SchedHintsAnswer
  <2>. QED
    BY <2>1, NothingCounted
<1>3. CASE r.tag = "PSET_LOOKUP"
  <2>1. /\ UNCHANGED <<pset_name_map, rc_map, next_op, next_session_id, next_rc_tag>>
        /\ \A m \in sent' : m.tag \notin {"SESSION_CREATE_ANSWER", "RC_ANSWER"}
    BY <1>3 DEF Dispatch, S!HandlePsetLookup, S!psetVars, S!rcVars,
                S!LookupAnswer, S!LookupAnswerSize
  <2>. QED
    BY <2>1, NothingCounted
<1>4. CASE r.tag \in {"DONE_RUNNING", "PSET_FREE"}
  <2>1. /\ UNCHANGED <<rc_map, next_op, next_session_id, next_rc_tag>> /\ sent' = {}
        /\ \/ pset_name_map' = pset_name_map
           \/ \E names : pset_name_map' = S!Unregister(pset_name_map, names)
    BY <1>4 DEF Dispatch, S!HandleWorkerDone, S!HandlePsetFree, S!Abort, S!psetVars, S!rcVars
  <2>2. \A n \in DOMAIN pset_name_map' : pset_name_map'[n] # {}
    BY <2>1 DEF S!Unregister, Bounded, S!Registered
  <2>. QED
    BY <2>1, <2>2 DEF Bounded, Counted, SP!TypeOK, S!Registered
<1>5. CASE r.tag = "PSET_OP"
  <2>1. S!HandlePsetOp(c, r.op, r.name1, r.name2, r.proposal)
    BY <1>5 DEF Dispatch
  <2>. DEFINE members == S!Result(r.op, S!Operand(c, r.name1), S!Operand(c, r.name2))
              name == S!NewName(r.proposal)
  <2>2. UNCHANGED <<rc_map, next_session_id, next_rc_tag>>
    BY <2>1 DEF S!HandlePsetOp, S!Abort, S!rcVars
  <2>3. \A m \in sent' : m.tag = "PSET_OP_ANSWER"
    BY <2>1 DEF S!HandlePsetOp, S!Abort, S!PsetOpAnswer
  <2>4. \/ UNCHANGED <<pset_name_map, next_op>>
        \/ /\ members # {} /\ next_op < MaxOps /\ next_op' = next_op + 1
           /\ pset_name_map' = S!Register(pset_name_map, name, members)
    BY <2>1 DEF S!HandlePsetOp, S!Abort, S!psetVars
  <2>5. CASE UNCHANGED <<pset_name_map, next_op>>
    BY <2>2, <2>3, <2>5, NothingCounted
  <2>6. CASE /\ members # {} /\ next_op < MaxOps /\ next_op' = next_op + 1
             /\ pset_name_map' = S!Register(pset_name_map, name, members)
    <3>. HIDE DEF members, name
    <3>1. \A n \in DOMAIN pset_name_map' : pset_name_map'[n] # {}
      BY <2>6 DEF S!Register, Bounded, S!Registered
    <3>2. next_op' <= MaxOps
      BY <2>6, BoundsAssumption DEF SP!TypeOK
    <3>. QED
      BY <2>2, <2>3, <3>1, <3>2 DEF Bounded, Counted, SP!TypeOK, S!Registered
  <2>. QED
    BY <2>4, <2>5, <2>6
<1>6. CASE r.tag = "RC"
  <2>1. S!HandleRC(c)
    BY <1>6 DEF Dispatch
  <2>2. CASE S!RefuseRC(c)
    BY <2>2, NothingCounted DEF S!RefuseRC, S!psetVars, S!RcAnswer
  <2>3. ASSUME NEW change \in ManagerRC(manager, running_crs), next_rc_tag < MaxRcTag,
               S!OfferAdd(c, change) \/ S!OfferSub(c, change)
        PROVE  Bounded' /\ Counted
    <3>1. change.pset # {}
      BY <2>3, ManagersPromise DEF S!OfferAdd, S!OfferSub, SP!TypeOK
    <3>2. \/ /\ UNCHANGED <<pset_name_map, rc_map, next_op, next_session_id, next_rc_tag>>
             /\ sent' = {}
          \/ /\ S!Offer(change) /\ UNCHANGED <<next_op, next_session_id>>
             /\ \E type : sent' = {S!RcAnswer(c, next_rc_tag + 1, type, S!RcName(next_rc_tag))}
      BY <2>3 DEF S!OfferAdd, S!OfferSub, S!Abort, S!psetVars, S!rcVars
    <3>. QED
      BY <2>3, <3>1, <3>2, NothingCounted, OfferCounted
  <2>. QED
    BY <2>1, <2>2, <2>3 DEF S!HandleRC
<1>7. CASE r.tag = "RC_ACCEPT"
  <2>1. S!HandleRCAccept(r.rc_tag)
    BY <1>7 DEF Dispatch
  <2>2. /\ UNCHANGED <<pset_name_map, next_op, next_session_id, next_rc_tag>>
        /\ \/ rc_map' = rc_map
           \/ rc_map' = [t \in DOMAIN rc_map \ {r.rc_tag} |-> rc_map[t]]
        /\ \A m \in sent' : m.tag = "IDLE_COMMAND"
    <3>1. CASE \E f : S!Abort(f, {})
      BY <3>1 DEF S!Abort, S!psetVars, S!rcVars
    <3>2. CASE S!AcceptAdd(r.rc_tag) /\ ~\E f : S!Abort(f, {})
      <4>1. /\ UNCHANGED <<S!psetVars, next_session_id, next_rc_tag>>
            /\ rc_map' = [t \in DOMAIN rc_map \ {r.rc_tag} |-> rc_map[t]]
            /\ sent' = S!StartCommands(rc_map[r.rc_tag].pset)
        BY <3>2 DEF S!AcceptAdd
      <4>. QED
        BY <4>1 DEF S!psetVars, S!StartCommands, S!Command
    <3>3. CASE S!AcceptSub(r.rc_tag)
      BY <3>3 DEF S!AcceptSub, S!psetVars
    <3>. QED
      BY <2>1, <3>1, <3>2, <3>3 DEF S!HandleRCAccept
  <2>3. \A t \in DOMAIN rc_map' : rc_map'[t].pset # {}
    BY <2>2 DEF Bounded
  <2>. QED
    BY <2>2, <2>3 DEF Bounded, Counted, SP!TypeOK, S!Registered
<1>8. r.tag \in {"DONE_RUNNING", "SESSION_INFO", "GET_PSETS", "SESSION_CREATE",
                "SESSION_FINALIZE", "SCHED_HINTS", "RC", "PSET_INFO", "PSET_LOOKUP", "PSET_OP",
                "PSET_FREE", "RC_ACCEPT"}
  BY DEF RequestMessage
<1>. QED
  BY <1>1, <1>2, <1>3, <1>4, <1>5, <1>6, <1>7, <1>8

-----------------------------------------------------------------------------
(***************************************************************************)
(* Requests, ids and tags underway.                                        *)
(***************************************************************************)
LEMMA SentUnderway ==
  ASSUME SP!TypeOK, SimInv, NEW c \in CR, NEW r \in RequestMessage, NEW until,
         Send(c, r, until), Called(r),
         \A d \in CR : offered'[d] \subseteq offered[d] /\ sessions'[d] \subseteq sessions[d]
  PROVE  CallsMade' /\ Bounded' /\ Issued'
<1>1. UNCHANGED schedulerVars
  BY DEF Send
<1>2. Bounded'
  BY <1>1 DEF schedulerVars, SimInv, Bounded, S!Registered
<1>3. requests[c] \in Seq(RequestMessage) /\ requests'[c] = Append(requests[c], r)
      /\ \A d \in CR : d # c => requests'[d] = requests[d]
  BY DEF Send, SimInv, TypeOK
<1>4. \A i \in DOMAIN requests'[c] : Called(requests'[c][i])
  BY <1>3, AppendIs DEF SimInv, CallsMade
<1>5. CallsMade'
  BY <1>3, <1>4 DEF SimInv, CallsMade, Called
<1>. QED
  BY <1>1, <1>2, <1>5 DEF schedulerVars, SimInv, Issued, Send

LEMMA AskedUnderway ==
  ASSUME SP!TypeOK, SimInv, NEW c \in CR, NEW r \in RequestMessage, NEW until,
         Asked(c, r, until)
  PROVE  CallsMade' /\ Bounded' /\ Issued'
<1>1. \A d \in CR : offered'[d] \subseteq offered[d] /\ sessions'[d] \subseteq sessions[d]
  BY DEF Asked, SimInv, TypeOK
<1>. QED
  BY <1>1, SentUnderway DEF Asked

LEMMA WorkerUnderway ==
  ASSUME SP!TypeOK, SimInv, NEW c \in CR, Worker(c)
  PROVE  CallsMade' /\ Bounded' /\ Issued'
<1>1. UNCHANGED schedulerVars
  BY DEF Worker, Call, Receive, Take, Exit, Send, Request, SessionInit, SessionGetInfo,
         SessionGetPsets, SessionGetPsetInfo, GroupFromSessionPset, PsetCreateOp,
         PsetFree, AddSchedulingHints, SessionFinalize, RCGet, RCAccept
<1>2. Bounded'
  BY <1>1 DEF schedulerVars, SimInv, Bounded, S!Registered
<1>3. CASE Call(c)
  <2>1. PICK r \in RequestMessage : \E until : Asked(c, r, until)
    BY <1>3, CallAsks DEF SimInv
  <2>. QED
    BY <2>1, AskedUnderway
<1>4. CASE Exit(c)
  <2>1. [tag |-> "DONE_RUNNING"] \in RequestMessage /\ Called([tag |-> "DONE_RUNNING"])
    BY DEF RequestMessage, Called
  <2>2. \A d \in CR : offered'[d] \subseteq offered[d] /\ sessions'[d] \subseteq sessions[d]
    BY <1>4 DEF Exit, SimInv, TypeOK
  <2>. QED
    BY <1>4, <2>1, <2>2, SentUnderway DEF Exit
<1>5. ASSUME NEW m \in inbox[c], Take(c, m) PROVE CallsMade' /\ Issued'
  <2>1. CallsMade'
    BY <1>5 DEF Take, SimInv, CallsMade, Called
  <2>2. m.tag = "SESSION_CREATE_ANSWER" => m.session_id \in Nat /\ 0 < next_session_id
    <3>1. m \in S!Message /\ next_session_id \in Nat
      BY DEF SimInv, TypeOK, SP!TypeOK
    <3>2. m.tag = "SESSION_CREATE_ANSWER" => m.session_id < next_session_id
      BY DEF SimInv, Issued
    <3>3. m.tag = "SESSION_CREATE_ANSWER" => m.session_id \in Nat
      BY <3>1 DEF S!Message
    <3>. QED
      BY <3>1, <3>2, <3>3
  <2>3. \A id \in sessions'[c] : id < next_session_id
    BY <1>5, <2>2 DEF Take, SimInv, TypeOK, Issued
  <2>4. \A t \in offered'[c] : t < next_rc_tag
    <3>1. m.tag = "RC_ANSWER" /\ m.type # "none" => m.rc_tag < next_rc_tag
      BY DEF SimInv, Issued, SP!TypeOK
    <3>. QED
      BY <1>5, <3>1 DEF Take, SimInv, TypeOK, Issued
  <2>5. \A d \in CR : inbox'[d] \subseteq inbox[d]
    BY <1>5 DEF Take, SimInv, TypeOK
  <2>6. \A d \in CR : d # c => sessions'[d] = sessions[d] /\ offered'[d] = offered[d]
    BY <1>5 DEF Take, SimInv, TypeOK
  <2>. QED
    BY <1>1, <2>1, <2>3, <2>4, <2>5, <2>6 DEF schedulerVars, SimInv, Issued
<1>. QED
  BY <1>2, <1>3, <1>4, <1>5 DEF Worker, Receive

LEMMA HandleUnderway ==
  ASSUME SP!TypeOK, SimInv, NEW c \in CR, NEW i \in DOMAIN requests[c], HandleRequest(c, i)
  PROVE  CallsMade' /\ Bounded' /\ Issued'
<1>1. requests[c][i] \in RequestMessage /\ requests[c] \in Seq(RequestMessage)
  BY DEF SimInv, TypeOK
<1>2. Bounded' /\ Counted
  BY <1>1, DispatchCounts DEF HandleRequest, SimInv
<1>3. CallsMade'
  <2>1. requests'[c] = RemoveAt(requests[c], i) /\ \A d \in CR : d # c => requests'[d] = requests[d]
    BY DEF HandleRequest, SimInv, TypeOK
  <2>2. \A j \in DOMAIN requests'[c] : Called(requests'[c][j])
    BY <1>1, <2>1, RemoveAtIs DEF SimInv, CallsMade
  <2>. QED
    BY <2>1, <2>2 DEF SimInv, CallsMade, Called
<1>4. Issued'
  <2>1. ASSUME NEW d \in CR
        PROVE  /\ \A id \in sessions'[d] : id < next_session_id'
               /\ \A t \in offered'[d] : t < next_rc_tag'
    BY <1>2 DEF Counted, HandleRequest, workerVars, SimInv, TypeOK, Issued, SP!TypeOK
  <2>2. ASSUME NEW d \in CR, NEW m \in inbox'[d]
        PROVE  /\ m.tag = "SESSION_CREATE_ANSWER" => m.session_id < next_session_id'
               /\ m.tag = "RC_ANSWER" /\ m.type # "none" => m.rc_tag \in 0 .. next_rc_tag' - 1
    <3>1. CASE m \in inbox[d]
      <4>1. m \in S!Message
        BY <3>1 DEF SimInv, TypeOK
      <4>2. m.tag = "SESSION_CREATE_ANSWER" => m.session_id \in Nat
        BY <4>1 DEF S!Message
      <4>. QED
        BY <1>2, <3>1, <4>2 DEF Counted, SimInv, Issued, SP!TypeOK
    <3>2. CASE m \in sent'
      BY <1>2, <3>2 DEF Counted, SP!TypeOK
    <3>. QED
      BY <3>1, <3>2 DEF HandleRequest, Deliver
  <2>. QED
    BY <2>1, <2>2 DEF Issued
<1>. QED
  BY <1>2, <1>3, <1>4

LEMMA UnderwayStep ==
  ASSUME SP!TypeOK, SimInv, [Next]_allVars
  PROVE  CallsMade' /\ Bounded' /\ Issued'
<1>1. CASE UNCHANGED allVars
  BY <1>1 DEF allVars, schedulerVars, workerVars, SimInv, CallsMade, Called, Bounded, Issued,
              S!Registered
<1>2. CASE Shutdown
  <2>1. /\ UNCHANGED <<requests, sessions, offered, next_op, next_session_id, next_rc_tag,
                      pset_name_map, rc_map>>
        /\ \A d \in CR : \A m \in inbox'[d] : m \in inbox[d] \/ m.tag = "IDLE_COMMAND"
    BY <1>2 DEF Shutdown, S!ShutdownAll, Deliver, workerVars, S!psetVars, S!rcVars, S!Command
  <2>. QED
    BY <2>1 DEF SimInv, CallsMade, Called, Bounded, Issued, S!Registered
<1>. QED
  BY <1>1, <1>2, WorkerUnderway, HandleUnderway DEF Next, Handle, Ended

-----------------------------------------------------------------------------
(***************************************************************************)
(* Every process stays in one of its places.                               *)
(***************************************************************************)
\* A process that a step does not concern.
LEMMA PlaceKept ==
  ASSUME NEW d, Place(d), fault = "none", phase' = phase,
         d \in running_crs' <=> d \in running_crs,
         pc'[d] = pc[d], inbox'[d] = inbox[d], requests'[d] = requests[d]
  PROVE  Place(d)'
BY DEF Place, AtRest, ToStart, InProgram, Asking, Answered, LookupAnswered, SelfAnswered,
       Unanswerable, Leaving, ToQuit, HasQuit, S!Command

LEMMA SendPlace ==
  ASSUME SimInv, NEW c \in CR, NEW r \in RequestMessage, NEW until, Send(c, r, until),
         fault = "none", pc[c] = "main",
         \/ r.tag \in DOMAIN Awaits /\ until = Awaits[r.tag]
         \/ r.tag \in Unwaited /\ until = "main"
         \/ r.tag = "DONE_RUNNING" /\ until = Idle
  PROVE  \A d \in CR : Place(d)'
<1>1. UNCHANGED <<running_crs, phase, inbox>> /\ fault = "none"
  BY DEF Send, schedulerVars
<1>2. ASSUME NEW d \in CR, d # c PROVE Place(d)'
  BY <1>1, <1>2, PlaceKept DEF Send, SimInv, TypeOK
<1>3. InProgram(c)
  BY DEF SimInv, Place, AtRest, ToStart, Asking, Answered, LookupAnswered, SelfAnswered,
         Unanswerable, Leaving, ToQuit, HasQuit, Idle, Awaits, AnswerTag
<1>4. /\ r.tag \in Unwaited => NoneOpen(Append(requests[c], r))
      /\ OnlyOpen(Append(requests[c], r), r.tag)
  BY <1>3, AppendOpen DEF InProgram, SimInv, TypeOK
<1>5. requests'[c] = Append(requests[c], r) /\ pc'[c] = until
  BY DEF Send, SimInv, TypeOK
<1>6. CASE r.tag \in DOMAIN Awaits /\ until = Awaits[r.tag]
  <2>1. Asking(c)'
    BY <1>1, <1>3, <1>4, <1>5, <1>6 DEF Asking, InProgram
  <2>. QED
    BY <1>2, <2>1 DEF Place
<1>7. CASE r.tag \in Unwaited /\ until = "main"
  <2>1. InProgram(c)'
    BY <1>1, <1>3, <1>4, <1>5, <1>7 DEF InProgram
  <2>. QED
    BY <1>2, <2>1 DEF Place
<1>8. CASE r.tag = "DONE_RUNNING" /\ until = Idle
  <2>1. Leaving(c)'
    BY <1>1, <1>3, <1>4, <1>5, <1>8 DEF Leaving, InProgram
  <2>. QED
    BY <1>2, <2>1 DEF Place
<1>. QED
  BY <1>6, <1>7, <1>8

LEMMA TakePlace ==
  ASSUME SimInv, NEW c \in CR, NEW m \in inbox[c], Take(c, m)
  PROVE  \A d \in CR : Place(d)'
<1>1. /\ UNCHANGED <<running_crs, phase, fault, requests>>
      /\ fault = "none" /\ m.tag = pc[c]
  BY DEF Take, schedulerVars
<1>2. ASSUME NEW d \in CR, d # c PROVE Place(d)'
  BY <1>1, <1>2, PlaceKept DEF Take, SimInv, TypeOK
<1>3. /\ inbox'[c] = inbox[c] \ {m}
      /\ pc'[c] = CASE m.tag = Idle /\ m.command = "shutdown" -> "quit"
                    [] m.tag = "PSET_LOOKUP_ANSWER_SIZE" /\ m.size > 0 -> "PSET_LOOKUP_ANSWER"
                    [] OTHER -> "main"
  BY DEF Take, SimInv, TypeOK
<1>4. \/ ToStart(c) \/ Answered(c) \/ LookupAnswered(c) \/ SelfAnswered(c) \/ ToQuit(c)
  BY DEF SimInv, Place, AtRest, InProgram, Asking, Unanswerable, Leaving, HasQuit
<1>5. CASE ToStart(c)
  <2>1. inbox'[c] = {} /\ pc'[c] = "main"
    BY <1>3, <1>5 DEF ToStart, S!Command, Idle
  <2>. QED
    BY <1>1, <1>2, <1>5, <2>1 DEF Place, InProgram, ToStart
<1>6. CASE Answered(c)
  <2>1. inbox'[c] = {} /\ pc'[c] = "main"
    <3>1. inbox[c] = {m} /\ (m.tag = "PSET_LOOKUP_ANSWER_SIZE" => m.size = 0) /\ m.tag # Idle
      BY <1>1, <1>6 DEF Answered, AnswerTag, Idle
    <3>. QED
      BY <1>3, <3>1
  <2>. QED
    BY <1>1, <1>2, <1>6, <2>1 DEF Place, InProgram, Answered
<1>7. CASE LookupAnswered(c)
  <2>1. PICK n \in inbox[c] : /\ n.tag = "PSET_LOOKUP_ANSWER" /\ inbox[c] = {m, n}
                              /\ m.tag = "PSET_LOOKUP_ANSWER_SIZE" /\ m.size > 0
    BY <1>1, <1>7 DEF LookupAnswered
  <2>2. inbox'[c] = {n} /\ pc'[c] = "PSET_LOOKUP_ANSWER"
    BY <1>3, <2>1 DEF Idle
  <2>3. Answered(c)'
    BY <1>1, <1>7, <2>1, <2>2 DEF LookupAnswered, Answered, AnswerTag
  <2>. QED
    BY <1>2, <2>3 DEF Place
<1>8. CASE SelfAnswered(c)
  BY <1>1, <1>8 DEF SelfAnswered
<1>9. CASE ToQuit(c)
  <2>1. inbox'[c] = {} /\ pc'[c] = "quit"
    BY <1>3, <1>9 DEF ToQuit, S!Command, Idle
  <2>. QED
    BY <1>1, <1>2, <1>9, <2>1 DEF Place, HasQuit, ToQuit
<1>. QED
  BY <1>4, <1>5, <1>6, <1>7, <1>8, <1>9

LEMMA HandlePlace ==
  ASSUME SP!TypeOK, SP!IInv, SimInv, NEW c \in CR, NEW i \in DOMAIN requests[c],
         HandleRequest(c, i)
  PROVE  \A d \in CR : Place(d)'
<1>. DEFINE r == requests[c][i]
            rest == RemoveAt(requests[c], i)
<1>1. r \in RequestMessage /\ Called(r) /\ Dispatch(c, r)
  BY DEF SimInv, TypeOK, CallsMade, HandleRequest
<1>2. /\ pc' = pc
      /\ requests'[c] = rest /\ \A d \in CR : d # c => requests'[d] = requests[d]
      /\ \A d \in CR : inbox'[d] = inbox[d] \cup {m \in sent' : m.to = d}
  BY DEF HandleRequest, Deliver, workerVars, SimInv, TypeOK
<1>3. IF r.tag \in Unwaited
      THEN /\ NoneOpen(requests[c]) => NoneOpen(rest)
           /\ \A t : t \notin Unwaited /\ OnlyOpen(requests[c], t) => OnlyOpen(rest, t)
      ELSE /\ c \in running_crs /\ inbox[c] = {} /\ NoneOpen(rest)
           /\ \/ r.tag \in DOMAIN Awaits /\ pc[c] = Awaits[r.tag]
              \/ r.tag = "DONE_RUNNING" /\ pc[c] = Idle
  BY SenderPlace DEF SimInv
<1>. HIDE DEF r, rest
<1>4. CASE r.tag \in DOMAIN Awaits
  <2>1. r.tag \notin Unwaited /\ r.tag # "DONE_RUNNING"
    BY <1>4 DEF Awaits, Unwaited
  <2>2. /\ phase' = phase /\ fault = "none" /\ running_crs' = running_crs
        /\ Replied(c, Awaits[r.tag])
    BY <1>1, <1>4, QueryReplied DEF SimInv
  <2>3. ASSUME NEW d \in CR, d # c PROVE Place(d)'
    <3>1. \A m \in sent' : m.to = c
      BY <2>2, RepliedTo
    <3>2. inbox'[d] = inbox[d]
      <4>1. {m \in sent' : m.to = d} = {}
        BY <2>3, <3>1
      <4>. QED
        BY <1>2, <4>1
    <3>. QED
      BY <1>2, <2>2, <2>3, <3>2, PlaceKept DEF SimInv
  <2>4. /\ c \in running_crs' /\ NoneOpen(requests'[c]) /\ pc'[c] = Awaits[r.tag]
        /\ pc'[c] \in AnswerTag
        /\ inbox'[c] = {m \in sent' : m.to = c}
    BY <1>2, <1>3, <1>4, <2>1, <2>2 DEF Awaits, AnswerTag
  <2>5. CASE sent' = {} /\ fault' # "none"
    <3>1. Unanswerable(c)'
      BY <2>4, <2>5 DEF Unanswerable
    <3>. QED
      BY <2>3, <3>1 DEF Place
  <2>6. CASE \E m \in sent' : /\ sent' = {m} /\ m.to = c /\ m.tag = Awaits[r.tag]
                              /\ Awaits[r.tag] = "PSET_LOOKUP_ANSWER_SIZE" => m.size = 0
    <3>1. Answered(c)'
      BY <2>4, <2>6 DEF Answered
    <3>. QED
      BY <2>3, <3>1 DEF Place
  <2>7. CASE /\ Awaits[r.tag] = "PSET_LOOKUP_ANSWER_SIZE"
             /\ \E m, n \in sent' : /\ sent' = {m, n} /\ m.to = c /\ n.to = c
                                    /\ m.tag = "PSET_LOOKUP_ANSWER_SIZE" /\ m.size > 0
                                    /\ n.tag = "PSET_LOOKUP_ANSWER"
    <3>1. LookupAnswered(c)'
      <4>1. inbox'[c] = sent'
        BY <2>4, <2>7
      <4>. QED
        BY <2>4, <2>7, <4>1 DEF LookupAnswered
    <3>. QED
      BY <2>3, <3>1 DEF Place
  <2>8. CASE /\ Awaits[r.tag] = "PSET_LOOKUP_ANSWER_SIZE" /\ "group_from_self" \in Calls
             /\ \E m \in sent' : sent' = {m} /\ m.to = c /\ m.tag = "PSET_LOOKUP_ANSWER"
    <3>1. SelfAnswered(c)'
      BY <2>4, <2>8 DEF SelfAnswered
    <3>. QED
      BY <2>3, <3>1 DEF Place
  <2>. QED
    BY <2>2, <2>5, <2>6, <2>7, <2>8 DEF Replied
<1>5. CASE r.tag = "DONE_RUNNING"
  <2>1. r.tag \notin Unwaited /\ r.tag \notin DOMAIN Awaits
    BY <1>5 DEF Awaits, Unwaited
  <2>2. /\ phase = "scheduling" /\ phase' = phase /\ fault = "none"
        /\ running_crs' = running_crs \ {c} /\ sent' = {}
    BY <1>1, <1>3, <1>5, <2>1, DoneEffect DEF Dispatch
  <2>3. ASSUME NEW d \in CR, d # c PROVE Place(d)'
    BY <1>2, <2>2, <2>3, PlaceKept DEF SimInv
  <2>4. AtRest(c)'
    BY <1>2, <1>3, <2>1, <2>2 DEF AtRest
  <2>. QED
    BY <2>3, <2>4 DEF Place
<1>6. CASE r.tag \in Unwaited
  <2>1. PICK starting \in SUBSET CR :
          /\ phase = "scheduling" /\ phase' = phase /\ fault = "none"
          /\ starting \cap running_crs = {} /\ running_crs' = running_crs \cup starting
          /\ sent' = S!StartCommands(starting)
    BY <1>1, <1>6, UnwaitedEffect
  <2>2. ASSUME NEW d \in CR
        PROVE  /\ NoneOpen(requests[d]) => NoneOpen(requests'[d])
               /\ \A t : t \notin Unwaited /\ OnlyOpen(requests[d], t) => OnlyOpen(requests'[d], t)
    BY <1>2, <1>3, <1>6
  <2>3. ASSUME NEW d \in starting PROVE Place(d)'
    <3>1. AtRest(d)
      BY <2>1 DEF SimInv, Place, AtRest, ToStart, InProgram, Asking, Answered, LookupAnswered,
                  SelfAnswered, Unanswerable, Leaving, ToQuit, HasQuit
    <3>2. {m \in sent' : m.to = d} = {S!Command(d, "start")}
      BY <2>1 DEF S!StartCommands, S!Command
    <3>3. ToStart(d)'
      BY <1>2, <2>1, <2>2, <3>1, <3>2 DEF ToStart, AtRest, S!Command
    <3>. QED
      BY <3>3 DEF Place
  <2>4. ASSUME NEW d \in CR \ starting PROVE Place(d)'
    <3>1. /\ inbox'[d] = inbox[d] /\ pc'[d] = pc[d] /\ (d \in running_crs' <=> d \in running_crs)
      <4>1. {m \in sent' : m.to = d} = {}
        BY <2>1 DEF S!StartCommands, S!Command
      <4>2. inbox'[d] = inbox[d]
        BY <1>2, <4>1
      <4>. QED
        BY <1>2, <2>1, <4>2
    <3>2. /\ \A tag \in DOMAIN Awaits : tag \notin Unwaited
          /\ "DONE_RUNNING" \notin Unwaited
      BY DEF Awaits, Unwaited
    <3>3. Place(d)
      BY DEF SimInv
    <3>. QED
      BY <2>1, <2>2, <3>1, <3>2, <3>3
         DEF Place, AtRest, ToStart, InProgram, Asking, Answered, LookupAnswered, SelfAnswered,
             Unanswerable, Leaving, ToQuit, HasQuit, S!Command
  <2>. QED
    BY <2>3, <2>4
<1>. QED
  BY <1>3, <1>4, <1>5, <1>6

LEMMA ShutdownPlace ==
  ASSUME SimInv, Shutdown
  PROVE  \A d \in CR : Place(d)'
<1>1. /\ phase = "scheduling" /\ fault = "none" /\ running_crs = {} /\ phase' = "finished"
      /\ UNCHANGED <<running_crs, requests, pc>>
      /\ sent' = {S!Command(d, "shutdown") : d \in CR}
      /\ \A d \in CR : inbox'[d] = inbox[d] \cup {m \in sent' : m.to = d}
  BY DEF Shutdown, S!ShutdownAll, S!crVars, Deliver, workerVars
<1>2. ASSUME NEW d \in CR PROVE ToQuit(d)'
  <2>1. AtRest(d)
    BY <1>1 DEF SimInv, Place, AtRest, ToStart, InProgram, Asking, Answered, LookupAnswered,
                SelfAnswered, Unanswerable, Leaving, ToQuit, HasQuit
  <2>2. {m \in sent' : m.to = d} = {S!Command(d, "shutdown")}
    BY <1>1 DEF S!Command
  <2>. QED
    BY <1>1, <2>1, <2>2 DEF ToQuit, AtRest, S!Command
<1>. QED
  BY <1>2 DEF Place

LEMMA PlaceStep ==
  ASSUME SP!TypeOK, SP!IInv, SimInv, [Next]_allVars
  PROVE  \A d \in CR : Place(d)'
<1>1. ASSUME NEW c \in CR, Call(c) PROVE \A d \in CR : Place(d)'
  <2>1. PICK r \in RequestMessage : \E until : Asked(c, r, until)
    BY <1>1, CallAsks DEF SimInv
  <2>2. PICK until : Asked(c, r, until)
    BY <2>1
  <2>. QED
    BY <2>2, SendPlace DEF Asked
<1>2. ASSUME NEW c \in CR, Exit(c) PROVE \A d \in CR : Place(d)'
  <2>1. [tag |-> "DONE_RUNNING"] \in RequestMessage
    BY DEF RequestMessage
  <2>. QED
    BY <1>2, <2>1, SendPlace DEF Exit
<1>3. CASE UNCHANGED allVars
  BY <1>3 DEF allVars, schedulerVars, workerVars, SimInv, Place, AtRest, ToStart, InProgram,
              Asking, Answered, LookupAnswered, SelfAnswered, Unanswerable, Leaving, ToQuit,
              HasQuit, S!Command
<1>. QED
  BY <1>1, <1>2, <1>3, TakePlace, HandlePlace, ShutdownPlace
     DEF Next, Worker, Receive, Handle, Ended

-----------------------------------------------------------------------------
(***************************************************************************)
(* The invariant of the simulation.                                        *)
(***************************************************************************)
\* What the scheduler's theorems assume of the constants holds in the simulation.
LEMMA RankKnown == SP!IsFiniteSet(Rank) /\ CR \subseteq Rank
BY RankAssumption DEF IsFiniteSet, SP!IsFiniteSet

LEMMA ProposalsKnown ==
  DOMAIN Proposals \subseteq Nat \ {0} /\ Proposals \in [DOMAIN Proposals -> SP!Occurrence]
BY ProposalsAssumption DEF SP!Occurrence, S!Occurrence

LEMMA ManagersKnown ==
  /\ ManagerInit \subseteq [pset : (SUBSET CR) \ {{}}, manager : ManagerState]
  /\ \A m \in ManagerState, running \in SUBSET Rank :
       ManagerRC(m, running) \subseteq SP!ChangeOf(Rank)
BY ManagersAssumption DEF SP!ChangeOf, S!ChangeOf, SP!RCType, S!RCType

LEMMA SchedulerStarts == SP!Init => SP!TypeOK /\ SP!IInv
BY SP!InitType, SP!InitInv, RankKnown, ProposalsKnown, ManagersKnown, ManagersPromise,
   BoundsAssumption

LEMMA SchedulerSteps ==
  ASSUME SP!TypeOK, SP!IInv, [SP!Next]_SP!vars
  PROVE  SP!TypeOK' /\ SP!IInv'
<1>1. SP!TypeOK'
  BY SP!TypeStep, RankKnown, ProposalsKnown, ManagersKnown, ManagersPromise, BoundsAssumption
<1>2. SP!IInv'
  BY SP!InvStep, RankKnown, ProposalsKnown, ManagersKnown, ManagersPromise, BoundsAssumption
<1>. QED
  BY <1>1, <1>2

\* At the start the first processes have their start command, and nothing is asked.
LEMMA SimInit == Init => SP!TypeOK /\ SP!IInv /\ SimInv
<1>. SUFFICES ASSUME Init PROVE SP!TypeOK /\ SP!IInv /\ SimInv
  OBVIOUS
<1>1. SP!TypeOK /\ SP!IInv
  BY SchedulerSame, SchedulerStarts DEF Init
<1>2. PICK first \in SUBSET CR :
        /\ first # {} /\ running_crs = first /\ sent = S!StartCommands(first)
        /\ pset_name_map = [n \in {S!World} |-> first]
  <2>1. PICK f \in ManagerInit :
          /\ running_crs = f.pset /\ sent = S!StartCommands(f.pset)
          /\ pset_name_map = [n \in {S!World} |-> f.pset]
    BY DEF Init, S!Init
  <2>. QED
    BY <2>1, ManagersAssumption
<1>3. /\ next_session_id = 0 /\ next_rc_tag = 0 /\ next_op = 0 /\ phase = "scheduling"
      /\ DOMAIN rc_map = {}
  BY DEF Init, S!Init
<1>4. \A c \in CR : /\ pc[c] = Idle /\ requests[c] = <<>> /\ offered[c] = {} /\ sessions[c] = {}
                    /\ inbox[c] = IF c \in first THEN {S!Command(c, "start")} ELSE {}
  BY <1>2 DEF Init, S!StartCommands, S!Command
<1>5. TypeOK
  <2>1. sent \subseteq S!Message
    BY <1>1, MessageSame DEF SP!TypeOK
  <2>2. inbox \in [CR -> SUBSET S!Message] /\ \A c \in CR : \A m \in inbox[c] : m.to = c
    BY <2>1 DEF Init
  <2>3. requests \in [CR -> Seq(RequestMessage)]
    BY DEF Init
  <2>. QED
    BY <2>2, <2>3, CallBoundAssumption DEF TypeOK, Init
<1>6. \A c \in CR : DOMAIN requests[c] = {}
  <2>1. DOMAIN <<>> = {}
    OBVIOUS
  <2>. QED
    BY <1>4, <2>1
<1>7. \A c \in CR : Place(c)
  BY <1>2, <1>3, <1>4, <1>6 DEF Place, AtRest, ToStart, NoneOpen
<1>8. CallsMade
  BY <1>6 DEF CallsMade
<1>9. Bounded
  BY <1>2, <1>3, BoundsAssumption DEF Bounded, S!Registered
<1>10. Issued
  <2>1. \A c \in CR : \A m \in inbox[c] : m.tag = "IDLE_COMMAND"
    <3>1. \A c \in CR : S!Command(c, "start").tag = "IDLE_COMMAND"
      BY DEF S!Command
    <3>. QED
      BY <1>4, <3>1
  <2>. QED
    BY <1>4, <2>1 DEF Issued
<1>. QED
  BY <1>1, <1>5, <1>7, <1>8, <1>9, <1>10 DEF SimInv

LEMMA SimStep ==
  ASSUME SP!TypeOK, SP!IInv, SimInv, [Next]_allVars
  PROVE  SP!TypeOK' /\ SP!IInv' /\ SimInv'
<1>1. [SP!Next]_SP!vars
  BY StepIsNext
<1>2. SP!TypeOK' /\ SP!IInv'
  BY <1>1, SchedulerSteps
<1>. QED
  BY <1>2, TypeStep, PlaceStep, UnderwayStep DEF SimInv

\* In every state every process is in one of its places: resting, starting, running,
\* waiting for one answer, leaving or quitting, with the messages and requests this allows.
THEOREM SimInvariance == Spec => [](SP!TypeOK /\ SP!IInv /\ SimInv)
BY SimInit, SimStep, PTL DEF Spec

\* The workers' state and the messages between them and the scheduler are well-typed.
THEOREM TypesCorrect == Spec => []TypeOK
BY SimInvariance, PTL DEF SimInv

\* The scheduler is used as its module assumes: its theorems hold in the simulation. What
\* restricts the requests are the workers' loop and the blocking calls (mpidynres_sim.c).
THEOREM SchedulerImplemented == Spec => ImplementsScheduler
<1>1. Init => S!Init
  BY DEF Init
<1>2. ASSUME SP!TypeOK, SP!IInv, SimInv, [Next]_allVars PROVE [S!Next]_S!vars
  BY <1>2, StepIsNext, SchedulerSame
<1>. QED
  BY <1>1, <1>2, SimInvariance, PTL DEF Spec, ImplementsScheduler, S!Spec

LEMMA OneElement == \A x : Cardinality({x}) = 1
BY FS_Singleton

LEMMA PlacesAgree == SimInv => RunningAgree
<1>. SUFFICES ASSUME SimInv, NEW c \in CR
     PROVE  /\ c \in running_crs <=> pc[c] \notin {Idle, "quit"} \/ Started(c) \/ Done(c)
            /\ Started(c) => pc[c] = Idle /\ ~Done(c) /\ Cardinality(inbox[c]) = 1
  BY DEF RunningAgree
<1>1. NoneOpen(requests[c]) => ~Done(c)
  BY DEF NoneOpen, Done, Unwaited
<1>2. CASE AtRest(c) \/ HasQuit(c)
  BY <1>1, <1>2 DEF AtRest, HasQuit, Started
<1>3. CASE ToStart(c)
  <2>1. /\ S!Command(c, "start").tag = Idle /\ S!Command(c, "start").command = "start"
        /\ S!Command(c, "start") \in inbox[c]
    BY <1>3 DEF ToStart, S!Command, Idle
  <2>2. Started(c)
    BY <2>1 DEF Started
  <2>3. Cardinality(inbox[c]) = 1
    BY <1>3, OneElement DEF ToStart
  <2>. QED
    BY <1>1, <1>3, <2>2, <2>3 DEF ToStart
<1>4. CASE ToQuit(c)
  <2>1. \A m \in inbox[c] : m.command = "shutdown"
    BY <1>4 DEF ToQuit, S!Command
  <2>2. ~Started(c)
    BY <2>1 DEF Started
  <2>. QED
    BY <1>1, <1>4, <2>2 DEF ToQuit, Idle
<1>5. CASE InProgram(c) \/ Unanswerable(c)
  BY <1>5 DEF InProgram, Unanswerable, Started, Idle, AnswerTag
<1>6. CASE Answered(c)
  BY <1>6 DEF Answered, Started, Idle, AnswerTag
<1>7. CASE LookupAnswered(c) \/ SelfAnswered(c)
  BY <1>7 DEF LookupAnswered, SelfAnswered, Started, Idle
<1>8. CASE Leaving(c)
  <2>1. Done(c)
    BY <1>8 DEF Leaving, OnlyOpen, Done
  <2>. QED
    BY <1>8, <2>1 DEF Leaving, Started
<1>9. CASE Asking(c)
  <2>1. \A tag \in DOMAIN Awaits : Awaits[tag] \in AnswerTag
    BY DEF Awaits, AnswerTag
  <2>. QED
    BY <1>9, <2>1 DEF Asking, Started, Idle, AnswerTag
<1>. QED
  BY <1>2, <1>3, <1>4, <1>5, <1>6, <1>7, <1>8, <1>9 DEF SimInv, Place

\* A CR runs for the scheduler (running_crs) from its start command to its done message,
\* and a command finds its worker in the idle loop (mpidynres_sim.c:39-77).
THEOREM WorkersAgree == Spec => []RunningAgree
BY SimInvariance, PlacesAgree, PTL

\* Who waits for nothing has asked for nothing; who waits has asked once.
LEMMA NothingAsked == \A c \in CR : NoneOpen(requests[c]) => Asks(c) = {}
BY DEF NoneOpen, Asks, Unwaited, Unanswered

LEMMA LeaverAsksNothing ==
  \A c \in CR : OnlyOpen(requests[c], "DONE_RUNNING") => Asks(c) = {}
BY DEF OnlyOpen, Asks, Unwaited, Unanswered

LEMMA OneAsked ==
  ASSUME NEW c \in CR, NEW tag \in DOMAIN Awaits, OnlyOpen(requests[c], tag)
  PROVE  Cardinality(Asks(c)) = 1
<1>1. PICK i \in DOMAIN requests[c] :
        /\ requests[c][i].tag = tag
        /\ \A j \in DOMAIN requests[c] \ {i} : requests[c][j].tag \in Unwaited
  BY DEF OnlyOpen
<1>2. tag \notin Unanswered
  BY DEF Awaits, Unanswered
<1>3. Asks(c) = {i}
  BY <1>1, <1>2 DEF Asks, Unwaited, Unanswered
<1>. QED
  BY <1>3, OneElement

LEMMA PlacesAwait ==
  ASSUME SimInv, "group_from_self" \notin Calls
  PROVE  AnswerAwaited
<1>. SUFFICES ASSUME NEW c \in CR
     PROVE  IF pc[c] \in AnswerTag
            THEN \/ Cardinality(Asks(c)) = 1 /\ Answers(c) = {}
                 \/ Asks(c) = {} /\ \E m \in Answers(c) : m.tag = pc[c]
                 \/ fault # "none"
            ELSE Asks(c) = {} /\ Answers(c) = {}
  BY DEF AnswerAwaited
<1>1. CASE AtRest(c) \/ InProgram(c) \/ HasQuit(c)
  <2>1. pc[c] \notin AnswerTag /\ Answers(c) = {}
    BY <1>1 DEF AtRest, InProgram, HasQuit, Idle, AnswerTag, Answers
  <2>. QED
    BY <1>1, <2>1, NothingAsked DEF AtRest, InProgram, HasQuit
<1>2. CASE ToStart(c) \/ ToQuit(c)
  <2>1. \A m \in inbox[c] : m.tag = "IDLE_COMMAND"
    BY <1>2 DEF ToStart, ToQuit, S!Command
  <2>2. pc[c] \notin AnswerTag /\ Answers(c) = {}
    BY <1>2, <2>1 DEF ToStart, ToQuit, Idle, AnswerTag, Answers
  <2>. QED
    BY <1>2, <2>2, NothingAsked DEF ToStart, ToQuit
<1>3. CASE Leaving(c)
  <2>1. pc[c] \notin AnswerTag /\ Answers(c) = {}
    BY <1>3 DEF Leaving, Idle, AnswerTag, Answers
  <2>. QED
    BY <1>3, <2>1, LeaverAsksNothing DEF Leaving
<1>4. CASE Asking(c)
  <2>1. Answers(c) = {} /\ Cardinality(Asks(c)) = 1
    BY <1>4, OneAsked DEF Asking, Answers
  <2>2. \A tag \in DOMAIN Awaits : Awaits[tag] \in AnswerTag
    BY DEF Awaits, AnswerTag
  <2>. QED
    BY <1>4, <2>1, <2>2 DEF Asking
<1>5. CASE Answered(c) \/ LookupAnswered(c)
  <2>1. pc[c] \in AnswerTag /\ Asks(c) = {}
    BY <1>5, NothingAsked DEF Answered, LookupAnswered, AnswerTag
  <2>2. \E m \in inbox[c] : m.tag = pc[c]
    BY <1>5 DEF Answered, LookupAnswered
  <2>. QED
    BY <2>1, <2>2 DEF Answers
<1>6. CASE Unanswerable(c)
  BY <1>6 DEF Unanswerable
<1>. QED
  BY <1>1, <1>2, <1>3, <1>4, <1>5, <1>6 DEF SimInv, Place, SelfAnswered

\* Unless the application looks mpi://SELF up, a caller that blocks in MPI_Recv
\* (mpidynres.c) has its one request or its one answer underway, and no other caller's.
THEOREM AnswersAwaited ==
  ASSUME "group_from_self" \notin Calls PROVE Spec => []AnswerAwaited
BY SimInvariance, PlacesAwait, PTL

\* What get_psets tells a process is true at any time: the registry and the lists kept for
\* the processes agree (scheduler_datatypes.c), whatever the application calls.
THEOREM PsetsToldRight == Spec => []PsetsTold
<1>1. SP!IInv => PsetsTold
  BY DEF SP!IInv, PsetsTold, S!BackrefsExact, SP!BackrefsExact, S!Registered, SP!Registered,
         S!World, SP!World, S!Cardinality, SP!Cardinality, S!IsFiniteSet, SP!IsFiniteSet
<1>. QED
  BY <1>1, SimInvariance, PTL

-----------------------------------------------------------------------------
(***************************************************************************)
(* The ids of sessions.                                                    *)
(***************************************************************************)
LEMMA IdIs ==
  \A c, id : id \in Ids(c) <=>
    \/ id \in sessions[c]
    \/ \E m \in inbox[c] : m.tag = "SESSION_CREATE_ANSWER" /\ m.session_id = id
BY DEF Ids

\* A worker gets an id only from a message it already had it from.
LEMMA WorkerIds ==
  ASSUME TellSessions, SP!TypeOK, SimInv, NEW c \in CR, Worker(c), NEW d \in CR
  PROVE  Ids(d)' \subseteq Ids(d)
<1>1. CASE Call(c)
  <2>1. PICK r \in RequestMessage : \E until : Asked(c, r, until)
    BY <1>1, CallAsks DEF SimInv
  <2>2. PICK until : Asked(c, r, until)
    BY <2>1
  <2>3. sessions'[d] \subseteq sessions[d] /\ inbox'[d] = inbox[d]
    BY <2>2 DEF Asked, Send, SimInv, TypeOK
  <2>. QED
    BY <2>3 DEF Ids
<1>2. CASE Exit(c)
  <2>1. sessions'[d] \subseteq sessions[d] /\ inbox'[d] = inbox[d]
    BY <1>2 DEF Exit, Send, SimInv, TypeOK
  <2>. QED
    BY <2>1 DEF Ids
<1>3. ASSUME NEW m \in inbox[c], Take(c, m) PROVE Ids(d)' \subseteq Ids(d)
  <2>1. inbox'[d] \subseteq inbox[d]
    BY <1>3 DEF Take, SimInv, TypeOK
  <2>2. CASE sessions'[d] = sessions[d]
    BY <2>1, <2>2 DEF Ids
  <2>3. CASE /\ d = c /\ m.tag = "SESSION_CREATE_ANSWER"
             /\ sessions'[d] = sessions[d] \cup {m.session_id}
    BY <2>1, <2>3 DEF Ids
  <2>. QED
    BY <1>3, <2>2, <2>3 DEF Take, SimInv, TypeOK
<1>. QED
  BY <1>1, <1>2, <1>3 DEF Worker, Receive

\* The scheduler tells a new id to the one process that asked for it.
LEMMA HandleIds ==
  ASSUME SP!TypeOK, SP!IInv, SimInv, NEW c \in CR, NEW i \in DOMAIN requests[c],
         HandleRequest(c, i), NEW d \in CR
  PROVE  Ids(d)' \subseteq Ids(d) \cup IF d = c THEN {next_session_id} ELSE {}
<1>. DEFINE r == requests[c][i]
<1>1. r \in RequestMessage /\ Called(r) /\ Dispatch(c, r)
  BY DEF HandleRequest, SimInv, TypeOK, CallsMade
<1>2. \A m \in sent' : m.tag = "SESSION_CREATE_ANSWER" => m.session_id = next_session_id
  BY <1>1, DispatchCounts DEF Counted, SimInv
<1>3. \A m \in sent' : m.tag = "SESSION_CREATE_ANSWER" => m.to = c
  <2>1. CASE r.tag \in DOMAIN Awaits
    BY <1>1, <2>1, QueryReplied, RepliedTo DEF SimInv
  <2>2. CASE r.tag \in Unwaited
    BY <1>1, <2>2, UnwaitedEffect DEF S!StartCommands, S!Command
  <2>3. CASE r.tag = "DONE_RUNNING"
    BY <1>1, <2>3 DEF Dispatch, S!HandleWorkerDone, S!Abort
  <2>. QED
    BY <1>1, <2>1, <2>2, <2>3 DEF RequestMessage, Awaits, Unwaited
<1>4. sessions'[d] = sessions[d] /\ inbox'[d] = inbox[d] \cup {m \in sent' : m.to = d}
  BY DEF HandleRequest, workerVars, Deliver
<1>. QED
  BY <1>2, <1>3, <1>4 DEF Ids

LEMMA OldIds ==
  ASSUME SP!TypeOK, SimInv, NEW c \in CR
  PROVE  next_session_id \notin Ids(c)
BY DEF Ids, SimInv, Issued, SP!TypeOK

LEMMA IdsStep ==
  ASSUME TellSessions, SP!TypeOK, SP!IInv, SimInv, IdsDistinct, [Next]_allVars
  PROVE  IdsDistinct'
<1>1. ASSUME \A d \in CR : Ids(d)' \subseteq Ids(d) PROVE IdsDistinct'
  BY <1>1 DEF IdsDistinct
<1>2. CASE UNCHANGED allVars
  BY <1>1, <1>2 DEF allVars, workerVars, Ids
<1>3. CASE Shutdown
  <2>1. /\ UNCHANGED sessions
        /\ \A d \in CR : \A m \in inbox'[d] : m \in inbox[d] \/ m.tag = "IDLE_COMMAND"
    BY <1>3 DEF Shutdown, S!ShutdownAll, Deliver, workerVars, S!Command
  <2>. QED
    BY <1>1, <2>1 DEF Ids
<1>4. ASSUME NEW c \in CR, NEW i \in DOMAIN requests[c], HandleRequest(c, i)
      PROVE  IdsDistinct'
  BY <1>4, HandleIds, OldIds DEF IdsDistinct
<1>. QED
  BY <1>1, <1>2, <1>3, <1>4, WorkerIds DEF Next, Handle, Ended

\* No id of a session (next_session_id, scheduler_handlers.c) is open in two processes,
\* nor told to one while it is open in another.
THEOREM SessionIdsDistinct ==
  ASSUME TellSessions PROVE Spec => []SessionsDistinct
<1>1. Init => IdsDistinct
  <2>. SUFFICES ASSUME Init PROVE IdsDistinct
    OBVIOUS
  <2>1. \A c \in CR : sessions[c] = {} /\ \A m \in inbox[c] : m.tag = "IDLE_COMMAND"
    BY DEF Init, S!Init, S!StartCommands, S!Command
  <2>. QED
    BY <2>1 DEF IdsDistinct, Ids
<1>2. IdsDistinct => SessionsDistinct
  BY DEF IdsDistinct, Ids, SessionsDistinct
<1>. QED
  BY <1>1, <1>2, IdsStep, SimInvariance, PTL DEF Spec

-----------------------------------------------------------------------------
(***************************************************************************)
(* The steps of the workers.                                               *)
(***************************************************************************)
\* Whether an offer stands is up to the scheduler.
LEMMA AcceptableSame ==
  ASSUME UNCHANGED schedulerVars, NEW t, Acceptable(t)
  PROVE  Acceptable(t)'
BY DEF schedulerVars, Acceptable

\* The accepts underway after a process has sent a request.
LEMMA SendAccepts ==
  ASSUME SimInv, NEW c \in CR, NEW r \in RequestMessage, NEW until, Send(c, r, until)
  PROVE  /\ \A d \in CR : d # c => Accepts(d)' = Accepts(d) /\ requests'[d] = requests[d]
         /\ Accepts(c)' = Accepts(c) \cup
              IF r.tag = "RC_ACCEPT" THEN {Len(requests[c]) + 1} ELSE {}
         /\ \A i \in Accepts(c) : requests'[c][i] = requests[c][i]
         /\ requests'[c][Len(requests[c]) + 1] = r
<1>1. requests[c] \in Seq(RequestMessage) /\ requests'[c] = Append(requests[c], r)
      /\ \A d \in CR : d # c => requests'[d] = requests[d]
  BY DEF Send, SimInv, TypeOK
<1>2. /\ DOMAIN requests'[c] = DOMAIN requests[c] \cup {Len(requests[c]) + 1}
      /\ Len(requests[c]) + 1 \notin DOMAIN requests[c]
      /\ \A j \in DOMAIN requests[c] : requests'[c][j] = requests[c][j]
      /\ requests'[c][Len(requests[c]) + 1] = r
  BY <1>1, AppendIs
<1>3. \A d \in CR : d # c => Accepts(d)' = Accepts(d)
  BY <1>1 DEF Accepts
<1>4. ASSUME NEW i PROVE i \in Accepts(c)' <=>
        i \in Accepts(c) \/ (r.tag = "RC_ACCEPT" /\ i = Len(requests[c]) + 1)
  BY <1>2 DEF Accepts
<1>. QED
  BY <1>1, <1>2, <1>3, <1>4 DEF Accepts

\* A request that neither asks for a change nor accepts one, and the end of the program.
LEMMA OtherSendOffers ==
  ASSUME SimInv, OffersInTurn, NEW c \in CR, NEW r \in RequestMessage, NEW until,
         Send(c, r, until), r.tag # "RC_ACCEPT", until # "RC_ANSWER",
         \A d \in CR : offered'[d] \subseteq offered[d]
  PROVE  OffersInTurn'
<1>1. \A d \in CR : /\ Accepts(d)' = Accepts(d)
                    /\ \A i \in Accepts(d) : requests'[d][i] = requests[d][i]
  BY SendAccepts
<1>2. /\ \A d \in CR : pc'[d] = "RC_ANSWER" => pc[d] = "RC_ANSWER"
      /\ UNCHANGED schedulerVars /\ inbox' = inbox /\ fault' = fault
  BY DEF Send, schedulerVars, SimInv, TypeOK
<1>3. OneAsker'
  BY <1>1, <1>2 DEF OffersInTurn, OneAsker
<1>4. OneToAccept' /\ OfferOrAccept' /\ OneAccept'
  BY <1>1 DEF OffersInTurn, OneToAccept, OfferOrAccept, OneAccept
<1>5. OffersStand'
  BY <1>1, <1>2, AcceptableSame DEF OffersInTurn, OffersStand
<1>6. HintsFault'
  BY <1>2 DEF OffersInTurn, HintsFault
<1>. QED
  BY <1>3, <1>4, <1>5, <1>6 DEF OffersInTurn

\* The application waits until the last change is settled before it asks for another.
LEMMA RCGetOffers ==
  ASSUME Synchronised, SimInv, OffersInTurn, NEW c \in CR, RCGet(c)
  PROVE  OffersInTurn'
<1>. DEFINE r == [tag |-> "RC"]
<1>1. r \in RequestMessage /\ Send(c, r, "RC_ANSWER")
  BY DEF RequestMessage, RCGet
<1>2. \A d \in CR : Accepts(d)' = {}
  <2>1. \A d \in CR : Accepts(d) = {}
    BY DEF RCGet, Settled, InFlight, Accepts
  <2>. QED
    BY <1>1, <2>1, SendAccepts
<1>3. \A d \in CR : offered'[d] = {} /\ (pc'[d] = "RC_ANSWER" => d = c)
  BY DEF RCGet, Settled, Send, SimInv, TypeOK
<1>4. UNCHANGED schedulerVars /\ inbox' = inbox /\ fault' = fault
  BY <1>1 DEF Send, schedulerVars
<1>5. OffersStand'
  BY <1>2, <1>3, <1>4, AcceptableSame DEF OffersInTurn, OffersStand
<1>. QED
  BY <1>2, <1>3, <1>4, <1>5 DEF OffersInTurn, OneAsker, OneToAccept, OfferOrAccept, OneAccept, HintsFault

\* The one offer there is becomes the one accept underway.
LEMMA RCAcceptOffers ==
  ASSUME SimInv, OffersInTurn, NEW c \in CR, pc[c] = "main", NEW t, RCAccept(c, t)
  PROVE  OffersInTurn'
<1>. DEFINE r == [tag |-> "RC_ACCEPT", rc_tag |-> t]
            last == Len(requests[c]) + 1
<1>1. t \in offered[c] /\ r \in RequestMessage /\ Send(c, r, "main")
  BY BoundsAssumption DEF RCAccept, RequestMessage, SimInv, TypeOK
<1>2. \A d \in CR : Accepts(d) = {} /\ pc[d] # "RC_ANSWER"
  BY <1>1 DEF OffersInTurn, OfferOrAccept, OneAsker
<1>3. \A d \in CR : offered'[d] = {}
  <2>1. \A d \in CR : offered[d] \subseteq IF d = c THEN {t} ELSE {}
    BY <1>1 DEF OffersInTurn, OneToAccept
  <2>. QED
    BY <2>1 DEF RCAccept, SimInv, TypeOK
<1>4. /\ \A d \in CR : Accepts(d)' = IF d = c THEN {last} ELSE {}
      /\ requests'[c][last] = r
  BY <1>1, <1>2, SendAccepts
<1>5. /\ \A d \in CR : pc'[d] # "RC_ANSWER"
      /\ UNCHANGED schedulerVars /\ inbox' = inbox /\ fault' = fault
  BY <1>1, <1>2 DEF Send, schedulerVars, SimInv, TypeOK
<1>6. Acceptable(t)'
  BY <1>1, <1>5, AcceptableSame DEF OffersInTurn, OffersStand
<1>. HIDE DEF last
<1>7. OffersStand'
  BY <1>3, <1>4, <1>5, <1>6, AcceptableSame DEF OffersInTurn, OffersStand
<1>8. OneAsker' /\ OneToAccept' /\ OfferOrAccept' /\ OneAccept'
  BY <1>3, <1>4, <1>5 DEF OneAsker, OneToAccept, OfferOrAccept, OneAccept
<1>. QED
  BY <1>5, <1>7, <1>8 DEF OffersInTurn, HintsFault

\* The process that asked is told the change it may accept.
LEMMA TakeOffers ==
  ASSUME SimInv, OffersInTurn, NEW c \in CR, NEW m \in inbox[c], Take(c, m)
  PROVE  OffersInTurn'
<1>1. /\ UNCHANGED schedulerVars /\ requests' = requests /\ fault' = fault
      /\ \A d \in CR : inbox'[d] \subseteq inbox[d] /\ Accepts(d)' = Accepts(d)
  BY DEF Take, SimInv, TypeOK, Accepts, schedulerVars
<1>2. \A d \in CR : pc'[d] = "RC_ANSWER" => d # c /\ pc[d] = "RC_ANSWER"
  BY DEF Take, SimInv, TypeOK
<1>3. CASE offered' = offered
  <2>1. OffersStand'
    BY <1>1, <1>3, AcceptableSame DEF OffersInTurn, OffersStand
  <2>. QED
    BY <1>1, <1>2, <1>3, <2>1
       DEF OffersInTurn, OneAsker, OneToAccept, OfferOrAccept, OneAccept, HintsFault
<1>4. CASE /\ m.tag = "RC_ANSWER" /\ m.type # "none"
           /\ offered' = [offered EXCEPT ![c] = @ \cup {m.rc_tag}]
  <2>1. pc[c] = "RC_ANSWER" /\ Acceptable(m.rc_tag)'
    BY <1>1, <1>4, AcceptableSame DEF Take, OffersInTurn, OffersStand
  <2>2. \A d \in CR : /\ Accepts(d) = {} /\ pc'[d] # "RC_ANSWER"
                      /\ offered'[d] = IF d = c THEN {m.rc_tag} ELSE {}
    BY <1>2, <1>4, <2>1 DEF OffersInTurn, OneAsker, SimInv, TypeOK
  <2>3. OffersStand'
    BY <1>1, <2>1, <2>2, AcceptableSame DEF OffersInTurn, OffersStand
  <2>. QED
    BY <1>1, <2>2, <2>3
       DEF OffersInTurn, OneAsker, OneToAccept, OfferOrAccept, OneAccept, HintsFault
<1>. QED
  BY <1>3, <1>4 DEF Take

LEMMA WorkerOffers ==
  ASSUME Synchronised, SP!TypeOK, SimInv, OffersInTurn, NEW c \in CR, Worker(c)
  PROVE  OffersInTurn'
<1>1. CASE Call(c)
  <2>1. PICK r \in RequestMessage : \E until : Asked(c, r, until)
    BY <1>1, CallAsks DEF SimInv
  <2>2. PICK until : Asked(c, r, until)
    BY <2>1
  <2>3. CASE r.tag = "RC"
    BY <2>2, <2>3, RCGetOffers DEF Asked
  <2>4. CASE r.tag = "RC_ACCEPT"
    BY <2>2, <2>4, RCAcceptOffers DEF Asked
  <2>5. CASE r.tag \notin {"RC", "RC_ACCEPT"}
    <3>1. until # "RC_ANSWER"
      BY <2>2, <2>5 DEF Asked, Awaits
    <3>. QED
      BY <2>2, <2>5, <3>1, OtherSendOffers DEF Asked
  <2>. QED
    BY <2>3, <2>4, <2>5
<1>2. CASE Exit(c)
  <2>1. [tag |-> "DONE_RUNNING"] \in RequestMessage
    BY DEF RequestMessage
  <2>2. \A d \in CR : offered'[d] \subseteq offered[d]
    BY <1>2 DEF Exit, SimInv, TypeOK
  <2>. QED
    BY <1>2, <2>1, <2>2, OtherSendOffers DEF Exit, Idle
<1>. QED
  BY <1>1, <1>2, TakeOffers DEF Worker, Receive

-----------------------------------------------------------------------------
(***************************************************************************)
(* The steps of the scheduler.                                             *)
(***************************************************************************)
\* A request of a running process aborts the scheduler only if it is a hint, or the accept
\* of what cannot be carried out.
LEMMA DispatchFault ==
  ASSUME SP!TypeOK, SP!IInv, NEW c \in CR, NEW r \in RequestMessage, Dispatch(c, r), Called(r),
         r.tag \notin Unwaited => c \in running_crs,
         r.tag = "RC_ACCEPT" => Acceptable(r.rc_tag)
  PROVE  HintsFault'
<1>1. /\ fault = "none"
      /\ \A d \in Rank : process_states[d].active <=> d \in running_crs
      /\ CR \subseteq Rank /\ running_crs \subseteq CR
  BY RankAssumption
     DEF SP!IInv, SP!RunningHaveState, SP!TypeOK, Dispatch, S!Scheduling, S!HandleWorkerDone,
         S!HandleSessionCreate, S!HandleSessionInfo, S!HandleSessionFinalize, S!HandleGetPsets,
         S!HandlePsetInfo, S!HandlePsetLookup, S!HandlePsetOp, S!HandlePsetFree,
         S!HandleSchedHints, S!HandleRC, S!HandleRCAccept
<1>2. CASE r.tag = "DONE_RUNNING"
  BY <1>2, DoneEffect DEF Dispatch, Unwaited, HintsFault
<1>3. CASE r.tag \in {"SESSION_INFO", "GET_PSETS"}
  BY <1>1, <1>3 DEF Dispatch, Unwaited, HintsFault, S!HandleSessionInfo, S!HandleGetPsets
<1>4. CASE r.tag \in {"SESSION_CREATE", "SESSION_FINALIZE", "PSET_INFO", "PSET_LOOKUP", "PSET_FREE"}
  BY <1>1, <1>4 DEF Dispatch, HintsFault, S!HandleSessionCreate, S!HandleSessionFinalize,
                    S!HandlePsetInfo, S!HandlePsetLookup, S!HandlePsetFree
<1>5. CASE r.tag = "SCHED_HINTS"
  BY <1>5 DEF Dispatch, HintsFault, S!HandleSchedHints, S!Abort, Called
<1>6. CASE r.tag = "PSET_OP"
  <2>1. r.op \in {"union", "intersect", "difference"}
    BY <1>6 DEF RequestMessage
  <2>. QED
    BY <1>1, <1>6, <2>1 DEF Dispatch, HintsFault, S!HandlePsetOp
<1>7. CASE r.tag = "RC"
  <2>1. ASSUME NEW change \in ManagerRC(manager, running_crs), S!OfferSub(c, change)
        PROVE  fault' = fault
    <3>1. change.pset \subseteq running_crs
      BY <1>1, <2>1, ManagersPromise DEF S!OfferSub, SP!TypeOK
    <3>. QED
      BY <1>1, <2>1, <3>1 DEF S!OfferSub
  <2>2. fault' = fault
    BY <1>7, <2>1 DEF Dispatch, S!HandleRC, S!RefuseRC, S!OfferAdd
  <2>. QED
    BY <1>1, <2>2 DEF HintsFault
<1>8. CASE r.tag = "RC_ACCEPT"
  <2>1. /\ S!HandleRCAccept(r.rc_tag) /\ Acceptable(r.rc_tag)
        /\ S!AcceptAdd(r.rc_tag) => \A d \in rc_map[r.rc_tag].pset :
             d \in CR /\ d \notin running_crs /\ ~process_states[d].active
    BY <1>1, <1>8 DEF Dispatch, Acceptable, S!AcceptAdd
  <2>2. fault' = fault
    BY <2>1 DEF S!HandleRCAccept, S!AcceptAdd, S!AcceptSub, Acceptable
  <2>. QED
    BY <1>1, <2>2 DEF HintsFault
<1>. QED
  BY <1>2, <1>3, <1>4, <1>5, <1>6, <1>7, <1>8 DEF RequestMessage

\* What neither asks for a change nor accepts one leaves the offers as they are.
LEMMA OtherDispatch ==
  ASSUME NEW c \in CR, NEW r \in RequestMessage, Dispatch(c, r), r.tag \notin {"RC", "RC_ACCEPT"}
  PROVE  /\ rc_map' = rc_map /\ pending_resource_change' = pending_resource_change
         /\ running_crs' \subseteq running_crs
         /\ \A m \in sent' : m.tag # "RC_ANSWER"
<1>1. CASE r.tag \in {"DONE_RUNNING", "SESSION_CREATE", "SESSION_INFO", "SESSION_FINALIZE"}
  BY <1>1 DEF Dispatch, S!HandleWorkerDone, S!HandleSessionCreate, S!HandleSessionInfo,
              S!HandleSessionFinalize, S!Abort, S!rcVars, S!crVars, S!SessionCreateAnswer,
              S!SessionInfoAnswer, S!SessionFinalizeAnswer
<1>2. CASE r.tag \in {"GET_PSETS", "PSET_INFO", "SCHED_HINTS"}
  BY <1>2 DEF Dispatch, S!HandleGetPsets, S!HandlePsetInfo, S!HandleSchedHints, S!Abort,
              S!rcVars, S!crVars, S!GetPsetsAnswer, S!PsetInfoAnswer, S!SchedHintsAnswer
<1>3. CASE r.tag \in {"PSET_LOOKUP", "PSET_FREE"}
  BY <1>3 DEF Dispatch, S!HandlePsetLookup, S!HandlePsetFree, S!rcVars, S!crVars,
              S!LookupAnswer, S!LookupAnswerSize
<1>4. CASE r.tag = "PSET_OP"
  BY <1>4 DEF Dispatch, S!HandlePsetOp, S!Abort, S!rcVars, S!crVars, S!PsetOpAnswer
<1>. QED
  BY <1>1, <1>2, <1>3, <1>4 DEF RequestMessage

\* An offer is told only if it can be carried out.
LEMMA OfferStands ==
  ASSUME SP!TypeOK, NEW c \in CR, S!HandleRC(c)
  PROVE  \A m \in sent' : m.tag = "RC_ANSWER" /\ m.type # "none" => Acceptable(m.rc_tag)'
<1>1. CASE S!RefuseRC(c)
  BY <1>1 DEF S!RefuseRC, S!RcAnswer
<1>2. ASSUME NEW change \in ManagerRC(manager, running_crs),
             S!OfferAdd(c, change) \/ S!OfferSub(c, change), sent' # {}
      PROVE  \A m \in sent' : Acceptable(m.rc_tag)'
  <2>1. /\ running_crs \subseteq CR
        /\ change.rc_type = "add" => change.pset \subseteq CR \ running_crs
        /\ change.rc_type = "sub" => change.pset \subseteq running_crs
    BY ManagersPromise DEF SP!TypeOK
  <2>2. /\ S!Offer(change) /\ running_crs' = running_crs
        /\ \A m \in sent' : m.rc_tag = next_rc_tag + 1
        /\ change.rc_type \in {"add", "sub"}
    BY <1>2 DEF S!OfferAdd, S!OfferSub, S!Abort, S!RcAnswer
  <2>. QED
    BY <2>1, <2>2 DEF S!Offer, Acceptable
<1>. QED
  BY <1>1, <1>2 DEF S!HandleRC

\* The accepts underway after a request of a process was handled.
LEMMA HandleAccepts ==
  ASSUME SimInv, NEW c \in CR, NEW i \in DOMAIN requests[c], HandleRequest(c, i)
  PROVE  /\ \A d \in CR : d # c => requests'[d] = requests[d] /\ Accepts(d)' = Accepts(d)
         /\ \A j \in Accepts(c)' :
              LET k == IF j < i THEN j ELSE j + 1 IN
              k \in Accepts(c) \ {i} /\ requests'[c][j] = requests[c][k] /\ j \in Nat
<1>1. requests[c] \in Seq(RequestMessage) /\ requests'[c] = RemoveAt(requests[c], i)
      /\ \A d \in CR : d # c => requests'[d] = requests[d]
  BY DEF HandleRequest, SimInv, TypeOK
<1>2. /\ requests'[c] \in Seq(RequestMessage) /\ i \in Nat
      /\ \A j \in DOMAIN requests'[c] :
           \/ j < i /\ j \in DOMAIN requests[c] /\ requests'[c][j] = requests[c][j]
           \/ j >= i /\ j + 1 \in DOMAIN requests[c] /\ requests'[c][j] = requests[c][j + 1]
  BY <1>1, RemoveAtIs
<1>3. ASSUME NEW j \in DOMAIN requests'[c], requests'[c][j].tag = "RC_ACCEPT"
      PROVE  LET k == IF j < i THEN j ELSE j + 1 IN
             k \in Accepts(c) \ {i} /\ requests'[c][j] = requests[c][k] /\ j \in Nat
  <2>1. j \in Nat
    BY <1>2, <1>3
  <2>. QED
    BY <1>2, <1>3, <2>1 DEF Accepts
<1>. QED
  BY <1>1, <1>3 DEF Accepts

\* Only who asked for a change is told one.
LEMMA AnswerPlace ==
  ASSUME SimInv, NEW d \in CR, NEW m \in inbox[d], m.tag = "RC_ANSWER"
  PROVE  pc[d] = "RC_ANSWER"
<1>1. CASE ToStart(d) \/ ToQuit(d)
  BY <1>1 DEF ToStart, ToQuit, S!Command
<1>2. CASE Answered(d)
  BY <1>2 DEF Answered
<1>3. CASE LookupAnswered(d) \/ SelfAnswered(d)
  BY <1>3 DEF LookupAnswered, SelfAnswered
<1>. QED
  BY <1>1, <1>2, <1>3 DEF SimInv, Place, AtRest, InProgram, Asking, Unanswerable, Leaving, HasQuit

LEMMA HandleOffers ==
  ASSUME SP!TypeOK, SP!IInv, SimInv, OffersInTurn, NEW c \in CR, NEW i \in DOMAIN requests[c],
         HandleRequest(c, i)
  PROVE  OffersInTurn'
<1>. DEFINE r == requests[c][i]
<1>1. r \in RequestMessage /\ Called(r) /\ Dispatch(c, r)
  BY DEF HandleRequest, SimInv, TypeOK, CallsMade
<1>2. /\ pc' = pc /\ offered' = offered
      /\ \A d \in CR : inbox'[d] = inbox[d] \cup {m \in sent' : m.to = d}
  BY DEF HandleRequest, workerVars, Deliver
<1>3. \A d \in CR : Accepts(d) = {} => Accepts(d)' = {}
  BY HandleAccepts
<1>4. OneAsker' /\ OneToAccept' /\ OfferOrAccept'
  BY <1>2, <1>3 DEF OffersInTurn, OneAsker, OneToAccept, OfferOrAccept
<1>5. OneAccept'
  <2>1. ASSUME NEW j \in Accepts(c)', NEW k \in Accepts(c)' PROVE j = k
    <3>1. i \in Nat /\ j \in Nat /\ k \in Nat
      BY HandleAccepts DEF SimInv, TypeOK
    <3>2. (IF j < i THEN j ELSE j + 1) = (IF k < i THEN k ELSE k + 1)
      BY HandleAccepts DEF OffersInTurn, OneAccept
    <3>. QED
      BY <3>1, <3>2
  <2>. QED
    BY <2>1, HandleAccepts DEF OffersInTurn, OneAccept
<1>6. HintsFault'
  <2>1. r.tag \notin Unwaited => c \in running_crs
    BY SenderPlace DEF SimInv
  <2>2. r.tag = "RC_ACCEPT" => Acceptable(r.rc_tag)
    BY DEF OffersInTurn, OffersStand, Accepts
  <2>. QED
    BY <1>1, <2>1, <2>2, DispatchFault
<1>7. CASE r.tag \notin {"RC", "RC_ACCEPT"}
  <2>1. \A t : Acceptable(t) => Acceptable(t)'
    BY <1>1, <1>7, OtherDispatch DEF Acceptable
  <2>2. \A m \in sent' : m.tag # "RC_ANSWER"
    BY <1>1, <1>7, OtherDispatch
  <2>3. \A d \in CR : \A j \in Accepts(d)' : \E k \in Accepts(d) : requests'[d][j] = requests[d][k]
    BY HandleAccepts
  <2>4. OffersStand'
    BY <1>2, <2>1, <2>2, <2>3 DEF OffersInTurn, OffersStand
  <2>. QED
    BY <1>4, <1>5, <1>6, <2>4 DEF OffersInTurn
<1>8. CASE r.tag = "RC"
  <2>1. pc[c] = "RC_ANSWER" /\ inbox[c] = {}
    BY <1>8, SenderPlace DEF SimInv, Unwaited, Awaits
  <2>2. \A d \in CR : /\ Accepts(d)' = {} /\ offered'[d] = {}
                      /\ \A m \in inbox[d] : m.tag # "RC_ANSWER"
    BY <1>2, <1>3, <2>1, AnswerPlace DEF OffersInTurn, OneAsker
  <2>3. \A m \in sent' : m.tag = "RC_ANSWER" /\ m.type # "none" => Acceptable(m.rc_tag)'
    BY <1>1, <1>8, OfferStands DEF Dispatch
  <2>4. OffersStand'
    BY <1>2, <2>2, <2>3 DEF OffersStand
  <2>. QED
    BY <1>4, <1>5, <1>6, <2>4 DEF OffersInTurn
<1>9. CASE r.tag = "RC_ACCEPT"
  <2>1. i \in Accepts(c)
    BY <1>9 DEF Accepts
  <2>2. \A d \in CR : /\ offered'[d] = {} /\ pc[d] # "RC_ANSWER"
                      /\ Accepts(d) \subseteq IF d = c THEN {i} ELSE {}
    BY <1>2, <2>1 DEF OffersInTurn, OneAsker, OfferOrAccept, OneAccept
  <2>3. \A d \in CR : Accepts(d)' = {}
    BY <2>2, HandleAccepts
  <2>4. \A m \in sent' : m.tag # "RC_ANSWER"
    BY <1>1, <1>9, UnwaitedEffect DEF Unwaited, S!StartCommands, S!Command
  <2>5. \A d \in CR : \A m \in inbox'[d] : m.tag # "RC_ANSWER"
    BY <1>2, <2>2, <2>4, AnswerPlace
  <2>6. OffersStand'
    BY <2>2, <2>3, <2>5 DEF OffersStand
  <2>. QED
    BY <1>4, <1>5, <1>6, <2>6 DEF OffersInTurn
<1>. QED
  BY <1>7, <1>8, <1>9

-----------------------------------------------------------------------------
(***************************************************************************)
(* The theorems.                                                           *)
(***************************************************************************)
LEMMA OffersInit == Init => OffersInTurn
<1>. SUFFICES ASSUME Init PROVE OffersInTurn
  OBVIOUS
<1>1. \A c \in CR : /\ pc[c] = Idle /\ requests[c] = <<>> /\ offered[c] = {}
                    /\ \A m \in inbox[c] : m.tag = "IDLE_COMMAND"
  BY DEF Init, S!Init, S!StartCommands, S!Command
<1>2. \A c \in CR : Accepts(c) = {}
  <2>1. DOMAIN <<>> = {}
    OBVIOUS
  <2>. QED
    BY <1>1, <2>1 DEF Accepts
<1>3. OffersStand
  BY <1>1, <1>2 DEF OffersStand
<1>4. fault = "none"
  BY DEF Init, S!Init
<1>. QED
  BY <1>1, <1>2, <1>3, <1>4
     DEF OffersInTurn, OneAsker, OneToAccept, OfferOrAccept, OneAccept, HintsFault, Idle

LEMMA OffersStep ==
  ASSUME Synchronised, SP!TypeOK, SP!IInv, SimInv, OffersInTurn, [Next]_allVars
  PROVE  OffersInTurn'
<1>1. CASE UNCHANGED allVars
  <2>1. \A c \in CR : Accepts(c)' = Accepts(c)
    BY <1>1 DEF allVars, Accepts
  <2>. QED
    BY <1>1, <2>1 DEF allVars, schedulerVars, workerVars, OffersInTurn, OneAsker, OneToAccept,
                      OfferOrAccept, OneAccept, OffersStand, HintsFault, Acceptable
<1>2. CASE Shutdown
  <2>1. /\ UNCHANGED <<requests, pc, offered, fault, pending_resource_change, rc_map, running_crs>>
        /\ \A c \in CR : \A m \in inbox'[c] : m \in inbox[c] \/ m.tag = "IDLE_COMMAND"
    BY <1>2 DEF Shutdown, S!ShutdownAll, Deliver, workerVars, S!rcVars, S!crVars, S!Command
  <2>2. \A c \in CR : Accepts(c)' = Accepts(c)
    BY <2>1 DEF Accepts
  <2>3. OffersStand'
    BY <2>1, <2>2 DEF OffersInTurn, OffersStand, Acceptable
  <2>. QED
    BY <2>1, <2>2, <2>3 DEF OffersInTurn, OneAsker, OneToAccept, OfferOrAccept, OneAccept, HintsFault
<1>. QED
  BY <1>1, <1>2, WorkerOffers, HandleOffers DEF Next, Handle, Ended

\* While a Synchronised application runs, there is at most one process that asks for a
\* change, may accept one or has just accepted one, and that change can be carried out.
THEOREM OffersTurnInvariance == ASSUME Synchronised PROVE Spec => []OffersInTurn
BY OffersInit, OffersStep, SimInvariance, PTL DEF Spec

\* The scheduler of a Synchronised application aborts for a hint only: the assertions of
\* rc_accept and of the start of processes (scheduler_handlers.c) hold.
THEOREM HintsAbort == ASSUME Synchronised PROVE Spec => []OnlyHintsAbort
<1>1. OffersInTurn => OnlyHintsAbort
  BY DEF OffersInTurn, HintsFault, OnlyHintsAbort
<1>. QED
  BY <1>1, OffersTurnInvariance, PTL

\* An application that also gives no hints never makes the scheduler abort.
THEOREM NothingAborts ==
  ASSUME Synchronised, "add_scheduling_hints" \notin Calls PROVE Spec => []FaultFree
<1>1. OffersInTurn => FaultFree
  BY DEF OffersInTurn, HintsFault, FaultFree
<1>. QED
  BY <1>1, OffersTurnInvariance, PTL
=============================================================================
