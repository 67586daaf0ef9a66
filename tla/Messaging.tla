----------------------------- MODULE Messaging -----------------------------
(***************************************************************************)
(* What the client library and the scheduler's handlers expect of the      *)
(* messages between them: a request arrives whole, once, and before any    *)
(* later one of the same kind from the same client, and a call returns     *)
(* what was answered to it.                                                *)
(***************************************************************************)
EXTENDS Naturals, SequencesExt

CONSTANTS
  Client,
  Request,       \* records with a field kind
  Answers(_)     \* what a request may be answered, {} if its caller does not wait

VARIABLES
  asked,         \* asked[c]: the requests of c that were not served yet
  waiting,       \* waiting[c]: c is in a call that returns an answer
  served,        \* what was just served, as its handler got it
  answer,        \* answer[c]: the answer on its way to c
  returned       \* returned[c]: what the last call of c returned

vars == <<asked, waiting, served, answer, returned>>

Nothing == [nothing |-> TRUE]

Init ==
  /\ asked = [c \in Client |-> <<>>]
  /\ waiting = [c \in Client |-> FALSE]
  /\ served = Nothing
  /\ answer = [c \in Client |-> Nothing]
  /\ returned = [c \in Client |-> Nothing]

Ask(c, r) ==
  /\ ~waiting[c]
  /\ asked' = [asked EXCEPT ![c] = Append(@, r)]
  /\ waiting' = [waiting EXCEPT ![c] = Answers(r) # {}]
  /\ served' = Nothing /\ returned' = [returned EXCEPT ![c] = Nothing]
  /\ UNCHANGED answer

Serve(c, i) ==
  LET r == asked[c][i] IN
  /\ \A j \in 1 .. (i - 1) : asked[c][j].kind # r.kind
  /\ served' = [from |-> c, request |-> r]
  /\ asked' = [asked EXCEPT ![c] = RemoveAt(@, i)]
  /\ IF Answers(r) = {} THEN answer' = answer
     ELSE \E a \in Answers(r) : answer' = [answer EXCEPT ![c] = a]
  /\ UNCHANGED <<waiting, returned>>

Take(c) ==
  /\ answer[c] # Nothing
  /\ returned' = [returned EXCEPT ![c] = answer[c]]
  /\ answer' = [answer EXCEPT ![c] = Nothing]
  /\ waiting' = [waiting EXCEPT ![c] = FALSE]
  /\ served' = Nothing
  /\ UNCHANGED asked

Next ==
  \E c \in Client :
    \/ \E r \in Request : Ask(c, r)
    \/ \E i \in DOMAIN asked[c] : Serve(c, i)
    \/ Take(c)

Spec == Init /\ [][Next]_vars
=============================================================================
