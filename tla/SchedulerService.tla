-------------------------- MODULE SchedulerService --------------------------
(***************************************************************************)
(* What the scheduler promises an application, without the records it      *)
(* keeps for it: who runs, who is asked to leave, which process sets there *)
(* are, which resource changes are on offer, and that every answer tells   *)
(* the truth about these.  The module SchedulerRefinement shows that       *)
(* Scheduler implements this specification.                                *)
(***************************************************************************)
EXTENDS Integers

CONSTANTS
  CR,                    \* the computing resources
  World, Self, NoName,   \* "mpi://WORLD", "mpi://SELF" and the empty name
  NoTag,                 \* the tag of no resource change
  Size(_)                \* how many members a process set has

VARIABLES
  running,    \* the CRs that run the application
  leaving,    \* those of them that were asked to leave
  origin,     \* origin[c]: the change that started c, NoTag if none did
  psets,      \* psets[n]: the members of the process set n
  offers,     \* offers[t]: the open resource change with tag t
  freshTag,   \* no tag from here on is in use or ever was
  freshId,    \* no session id from here on was ever given to anyone
  serving,    \* FALSE once all were shut down, or the job has aborted
  told        \* the messages the last step sent

state == <<running, leaving, origin, psets, offers, freshTag, freshId, serving>>
vars == <<state, told>>

Commands(S, what) == {[to |-> c, tag |-> "IDLE_COMMAND", command |-> what] : c \in S}

Init ==
  /\ running \in (SUBSET CR) \ {{}}
  /\ leaving = {}
  /\ origin = [c \in running |-> NoTag]
  /\ psets = [n \in {World} |-> running]
  /\ offers = [t \in {} |-> {}]
  /\ freshTag = 0 /\ freshId = 0
  /\ serving = TRUE
  /\ told = Commands(running, "start")

-----------------------------------------------------------------------------
(***************************************************************************)
(* Questions are answered about the state as it is, and change nothing.    *)
(***************************************************************************)
SetsOf(c) == {n \in DOMAIN psets : c \in psets[n]}
Sizes == {Size(psets[n]) : n \in DOMAIN psets}

SessionInfo(c) ==
  [to |-> c, tag |-> "SESSION_INFO_ANSWER", pending_shutdown |-> c \in leaving,
   dynamic_start |-> origin[c] # NoTag, origin_rc_tag |-> origin[c]]

SetsAnswer(c) ==
  [to |-> c, tag |-> "GET_PSETS_ANSWER",
   psets |-> {[name |-> n, pset_size |-> Size(psets[n])] : n \in SetsOf(c)}
               \cup {[name |-> Self, pset_size |-> 1]}]

\* The size of a set, 0 when there is none of that name, comes before its members; the
\* members of mpi://SELF come without it.
LookupAnswers(c) ==
       {{[to |-> c, tag |-> "PSET_LOOKUP_ANSWER_SIZE", size |-> Size(psets[n])],
         [to |-> c, tag |-> "PSET_LOOKUP_ANSWER", pset |-> psets[n]]} : n \in DOMAIN psets}
  \cup {{[to |-> c, tag |-> "PSET_LOOKUP_ANSWER_SIZE", size |-> 0]},
        {[to |-> c, tag |-> "PSET_LOOKUP_ANSWER", pset |-> {c}]}}

Answer(c) ==
  /\ serving
  /\ UNCHANGED state
  /\ \/ told' \in {{[to |-> c, tag |-> "PSET_OP_ANSWER", name |-> NoName]},
                   {[to |-> c, tag |-> "SESSION_FINALIZE_ANSWER"]},
                   {[to |-> c, tag |-> "RC_ANSWER", rc_tag |-> NoTag, type |-> "none",
                     name |-> NoName]}}
     \/ \E k \in Sizes \cup {0, 1} :
          told' = {[to |-> c, tag |-> "PSET_INFO_ANSWER", mpi_size |-> k]}
     \/ told' \in LookupAnswers(c)
     \/ c \in running /\ told' \in {{SessionInfo(c)}, {SetsAnswer(c)}}

OpenSession(c) ==
  /\ serving
  /\ freshId' > freshId
  /\ \E i \in freshId .. freshId' - 1 :
       told' = {[to |-> c, tag |-> "SESSION_CREATE_ANSWER", session_id |-> i]}
  /\ UNCHANGED <<running, leaving, origin, psets, offers, freshTag, serving>>

-----------------------------------------------------------------------------
(***************************************************************************)
(* Process sets.                                                           *)
(***************************************************************************)
Add(n, members) ==
  psets' = [m \in DOMAIN psets \cup {n} |-> IF m = n THEN members ELSE psets[m]]

\* The operands of c: a process set, or c alone.
Operands(c) == {psets[n] : n \in DOMAIN psets} \cup {{c}}

Create(c, n) ==
  /\ serving
  /\ n \notin DOMAIN psets
  /\ \E A, B \in Operands(c) : \E members \in {A \cup B, A \cap B, A \ B} :
       members # {} /\ Add(n, members)
  /\ told' = {[to |-> c, tag |-> "PSET_OP_ANSWER", name |-> n]}
  /\ UNCHANGED <<running, leaving, origin, offers, freshTag, freshId, serving>>

\* A free of an unknown name is taken in silence.
Free(names) ==
  /\ serving
  /\ psets' = [n \in DOMAIN psets \ names |-> psets[n]]
  /\ told' = {}
  /\ UNCHANGED <<running, leaving, origin, offers, freshTag, freshId, serving>>

-----------------------------------------------------------------------------
(***************************************************************************)
(* Who runs.                                                               *)
(***************************************************************************)
\* Every process set that c was in goes with it, and no other.
Exit(c) ==
  /\ serving /\ c \in running
  /\ running' = running \ {c}
  /\ leaving' = leaving \ {c}
  /\ origin' = [d \in running \ {c} |-> origin[d]]
  /\ psets' = [n \in DOMAIN psets \ SetsOf(c) |-> psets[n]]
  /\ told' = {}
  /\ UNCHANGED <<offers, freshTag, freshId, serving>>

\* Nobody is asked to leave, and nobody to start, while others are asked to leave.
Offer(c, t, n, change) ==
  /\ serving /\ leaving = {}
  /\ t \in freshTag .. freshTag' - 1
  /\ n \notin DOMAIN psets
  /\ change.pset # {} /\ change.new_pset_name = n
  /\ \/ change.rc_type = "add" /\ change.pset \subseteq CR \ running /\ leaving' = leaving
     \/ change.rc_type = "sub" /\ change.pset \subseteq running /\ leaving' = change.pset
  /\ Add(n, change.pset)
  /\ offers' = [u \in DOMAIN offers \cup {t} |-> IF u = t THEN change ELSE offers[u]]
  /\ told' = {[to |-> c, tag |-> "RC_ANSWER", rc_tag |-> t, type |-> change.rc_type,
               name |-> n]}
  /\ UNCHANGED <<running, origin, freshId, serving>>

\* Exactly those that were offered start, and they can tell which change they are of.
Accept(t) ==
  /\ serving /\ t \in DOMAIN offers
  /\ offers' = [u \in DOMAIN offers \ {t} |-> offers[u]]
  /\ \/ /\ offers[t].rc_type = "add" /\ offers[t].pset \subseteq CR \ running
        /\ running' = running \cup offers[t].pset
        /\ origin' = [c \in running \cup offers[t].pset |->
                        IF c \in offers[t].pset THEN t ELSE origin[c]]
        /\ told' = Commands(offers[t].pset, "start")
     \/ /\ offers[t].rc_type = "sub" /\ told' = {}
        /\ UNCHANGED <<running, origin>>
  /\ UNCHANGED <<leaving, psets, freshTag, freshId, serving>>

\* All are told to quit when nobody runs; or the job aborts.
End ==
  /\ serving /\ serving' = FALSE
  /\ \/ running = {} /\ told' = Commands(CR, "shutdown")
     \/ told' = {}
  /\ UNCHANGED <<running, leaving, origin, psets, offers, freshTag, freshId>>

Next ==
  \/ \E c \in CR :
       \/ Answer(c) \/ OpenSession(c) \/ Exit(c)
       \/ \E n \in DOMAIN psets' : Create(c, n)
       \/ \E t \in DOMAIN offers' : Offer(c, t, offers'[t].new_pset_name, offers'[t])
  \/ Free(DOMAIN psets \ DOMAIN psets')
  \/ \E t \in DOMAIN offers : Accept(t)
  \/ End

Spec == Init /\ [][Next]_vars
=============================================================================
