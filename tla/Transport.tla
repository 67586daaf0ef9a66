----------------------------- MODULE Transport -----------------------------
(***************************************************************************)
(* The messages between the client library and the scheduler, one MPI      *)
(* message at a time.  A request is a header for which the scheduler has a *)
(* receive posted, followed, for some kinds, by a name or an info object   *)
(* that the handler of the header receives; an info object is a message    *)
(* with the size of its serialization and one with the serialization       *)
(* itself, and MPI_INFO_NULL the size SIZE_MAX alone.                      *)
(*                                                                         *)
(* Rank 0 runs the scheduler.  Left out are the done message, whose header *)
(* is all of it, and scheduling hints, which end in an abort.              *)
(***************************************************************************)
EXTENDS Integers, SequencesExt

CONSTANTS
  Client,        \* the ranks of the simulated processes
  Request,       \* the calls they make
  InfoAnswer,    \* info objects the scheduler answers with
  MaxCalls       \* bound: how many calls all of them make together

Kind == {"SESSION_CREATE", "SESSION_INFO", "SESSION_FINALIZE", "GET_PSETS", "PSET_INFO",
         "PSET_LOOKUP", "PSET_OP", "PSET_FREE", "RC", "RC_ACCEPT"}

\* What a call passes: a name, an info object and the tag of a change, if it has any.
\* MPI_INFO_NULL is <<>>, any other info object <<pairs>>.
Call(kind, name, info, rc_tag) == [kind |-> kind, name |-> name, info |-> info, rc_tag |-> rc_tag]
Plain(kind) == Call(kind, <<>>, <<>>, 0)

\* Strings end with the character 0.
Text == Seq(1 .. 255)
InfoObject(info) == info \in Seq(Seq(Text \X Text)) /\ Len(info) <= 1

\* What a call has no parameter for is empty.
ASSUME RequestAssumption ==
  \A r \in Request :
    /\ r.kind \in Kind /\ r.name \in Text /\ InfoObject(r.info)
    /\ r = Call(r.kind,
                IF r.kind \in {"PSET_INFO", "PSET_LOOKUP", "PSET_OP", "PSET_FREE"}
                THEN r.name ELSE <<>>,
                IF r.kind \in {"GET_PSETS", "PSET_OP", "RC_ACCEPT"} THEN r.info ELSE <<>>,
                IF r.kind = "RC_ACCEPT" THEN r.rc_tag ELSE 0)
\* The answers to some calls are never MPI_INFO_NULL.
ASSUME InfoAnswerAssumption ==
  (\A i \in InfoAnswer : InfoObject(i)) /\ \E i \in InfoAnswer : i # <<>>
ASSUME ClientAssumption == Client \subseteq Nat \ {0} /\ MaxCalls \in Nat

VARIABLES
  rendezvous,    \* whether MPI_Send waits until its message is received
  up, down,      \* up[c], down[c]: messages from c to rank 0 and back
  slot,          \* slot[k]: 0 while the receive for k is posted, then who sent the header
  buffer,        \* the variables of MPIDYNRES_scheduler_schedule the headers go to
  handler,       \* the handler that runs: kind, from, head, stage
  todo,          \* todo[p]: the sends and receives the call or handler still has to do
  got,           \* got[p]: what they have received
  calls,         \* how many calls are still to be made
  asked, waiting, served, answer, returned    \* history: see Messaging

net == <<up, down>>
scheduler == <<slot, buffer, handler>>
history == <<asked, waiting, served, answer, returned>>
vars == <<rendezvous, net, scheduler, todo, got, calls, history>>

-----------------------------------------------------------------------------
(***************************************************************************)
(* Strings are sequences of characters that are not 0.  An info object is  *)
(* a sequence of pairs of strings, and its serialization a buffer of bytes *)
(* with a word at its start, for the number of strings, and one for each   *)
(* string, for its offset; then come the strings.  A word fills 8 bytes;   *)
(* its value stands in the first.                                          *)
(***************************************************************************)
Word == 8
Terminated(s) == Append(s, 0)
Strings(info) ==
  [i \in 1 .. 2 * Len(info) |-> info[(i + 1) \div 2][IF i % 2 = 1 THEN 1 ELSE 2]]
Bytes(strings) == FlattenSeq([i \in DOMAIN strings |-> Terminated(strings[i])])

Serialize(info) ==
  LET strings == Strings(info)
      base == Word * (1 + Len(strings))
      Offset(i) == base + Len(Bytes(SubSeq(strings, 1, i - 1)))
      word == [i \in 0 .. Len(strings) |-> IF i = 0 THEN Len(strings) ELSE Offset(i)]
  IN  [b \in 1 .. base |-> IF b % Word = 1 THEN word[b \div Word] ELSE 0] \o Bytes(strings)

StringAt(buf, offset) ==
  LET end == CHOOSE e \in offset .. Len(buf) - 1 :
               buf[e + 1] = 0 /\ \A b \in offset .. e - 1 : buf[b + 1] # 0
  IN  SubSeq(buf, offset + 1, end)

Deserialize(buf) ==
  LET String(i) == StringAt(buf, buf[Word * i + 1])
  IN  [i \in 1 .. buf[1] \div 2 |-> <<String(2 * i - 1), String(2 * i)>>]

-----------------------------------------------------------------------------
(***************************************************************************)
(* What a call and a handler do, as sequences of sends and receives.       *)
(***************************************************************************)
SIZE_MAX == -1

Send(tag, data) == <<[do |-> "send", tag |-> tag, data |-> data, sync |-> rendezvous]>>
Ssend(tag, data) == <<[do |-> "send", tag |-> tag, data |-> data, sync |-> TRUE]>>
Recv(tag) == <<[do |-> "recv", tag |-> tag]>>
RecvData(tag, size) == <<[do |-> "recv_data", tag |-> tag, size |-> size]>>
RecvInfoData(tag, size) == <<[do |-> "recv_info_data", tag |-> tag, size |-> size]>>

Size(tag) == Append(tag, "size")

\* Mutant: nothing is sent for MPI_INFO_NULL.
MutSendInfo(tag, info) ==
  IF info = <<>> THEN <<>>
  ELSE Send(Size(tag), <<Len(Serialize(info[1]))>>) \o Send(tag, Serialize(info[1]))

SendInfo(tag, info) ==
  IF info = <<>> THEN Send(Size(tag), <<SIZE_MAX>>)
  ELSE Send(Size(tag), <<Len(Serialize(info[1]))>>) \o Send(tag, Serialize(info[1]))
RecvInfo(tag) == <<[do |-> "recv_info", tag |-> tag]>>

\* Mutant: the ids are sent even if there are none.
MutSendIds(tag, ids) == Send(Size(tag), <<Len(ids)>>) \o Send(tag, ids)

\* The ids of a process set, or the size 0 alone.
SendIds(tag, ids) ==
  Send(Size(tag), <<Len(ids)>>) \o IF ids = <<>> THEN <<>> ELSE Send(tag, ids)
RecvIds(tag) == <<[do |-> "recv_ids", tag |-> tag]>>

\* What the header of a request holds: the length of a name that follows, names, a tag,
\* or the session, for which c stands.
Header(c, r) == CASE r.kind \in {"PSET_INFO", "PSET_LOOKUP"} -> <<Len(r.name) + 1>>
                  [] r.kind \in {"PSET_OP", "PSET_FREE"} -> r.name
                  [] r.kind = "RC_ACCEPT" -> <<r.rc_tag>>
                  [] OTHER -> <<c>>

\* A call of the library sends its request
CallSends(c, r) ==
  (IF r.kind = "PSET_OP" THEN Ssend(<<r.kind>>, Header(c, r)) ELSE Send(<<r.kind>>, Header(c, r)))
  \o (CASE r.kind \in {"PSET_INFO", "PSET_LOOKUP"} -> Send(<<r.kind, "name">>, Terminated(r.name))
        [] r.kind \in {"GET_PSETS", "PSET_OP", "RC_ACCEPT"} -> SendInfo(<<r.kind, "info">>, r.info)
        [] OTHER -> <<>>)

\* and receives the answer.
CallRecvs(kind) ==
  LET answer_tag == <<kind, "answer">> IN
  CASE kind \in {"SESSION_INFO", "GET_PSETS", "PSET_INFO"} -> RecvInfo(answer_tag)
    [] kind = "PSET_LOOKUP" -> RecvIds(answer_tag)
    [] kind = "RC" -> RecvInfo(<<"RC", "info">>) \o Recv(answer_tag)
    [] kind \in {"PSET_FREE", "RC_ACCEPT"} -> <<>>
    [] OTHER -> Recv(answer_tag)

CallSteps(c, r) == CallSends(c, r) \o CallRecvs(r.kind)

\* A handler first receives what follows the header,
HandlerRecvs(h) ==
  CASE h.kind \in {"PSET_INFO", "PSET_LOOKUP"} -> RecvData(<<h.kind, "name">>, h.head[1])
    [] h.kind \in {"GET_PSETS", "PSET_OP", "RC_ACCEPT"} -> RecvInfo(<<h.kind, "info">>)
    [] OTHER -> <<>>

\* from which it knows what was asked, the session apart,
Understood(h, parts) ==
  Call(h.kind,
       CASE h.kind \in {"PSET_INFO", "PSET_LOOKUP"} -> StringAt(parts[1].data, 0)
         [] h.kind \in {"PSET_OP", "PSET_FREE"} -> h.head
         [] OTHER -> <<>>,
       IF h.kind \in {"GET_PSETS", "PSET_OP", "RC_ACCEPT"} THEN parts[1].info ELSE <<>>,
       IF h.kind = "RC_ACCEPT" THEN h.head[1] ELSE 0)

\* and then sends the answer a.
HandlerSends(kind, a) ==
  LET answer_tag == <<kind, "answer">> IN
  CASE kind \in {"SESSION_INFO", "GET_PSETS", "PSET_INFO"} -> SendInfo(answer_tag, a.info)
    [] kind = "PSET_LOOKUP" -> SendIds(answer_tag, a.ids)
    [] kind = "RC" -> SendInfo(<<"RC", "info">>, a.info) \o Send(answer_tag, <<a.int>>)
    [] kind \in {"PSET_FREE", "RC_ACCEPT"} -> <<>>
    [] OTHER -> Send(answer_tag, <<a.int>>)

\* What a handler may answer, and what the caller makes of the parts it received.
Answer(info, ids, int) == [info |-> info, ids |-> ids, int |-> int]
Answers(r) ==
  CASE r.kind \in {"SESSION_INFO", "GET_PSETS"} -> {Answer(i, <<>>, 0) : i \in InfoAnswer \ {<<>>}}
    [] r.kind = "PSET_INFO" -> {Answer(i, <<>>, 0) : i \in InfoAnswer}
    [] r.kind = "PSET_LOOKUP" -> {Answer(<<>>, ids, 0) : ids \in {<<>>, <<1, 2>>}}
    [] r.kind = "RC" -> {Answer(i, <<>>, 1) : i \in InfoAnswer}
    [] r.kind \in {"PSET_FREE", "RC_ACCEPT"} -> {}
    [] OTHER -> {Answer(<<>>, <<>>, 1)}
M == INSTANCE Messaging

Result(kind, parts) ==
  CASE kind \in {"SESSION_INFO", "GET_PSETS", "PSET_INFO"} -> Answer(parts[1].info, <<>>, 0)
    [] kind = "PSET_LOOKUP" -> Answer(<<>>, parts[1].data, 0)
    [] kind = "RC" -> Answer(parts[1].info, <<>>, parts[2].data[1])
    [] OTHER -> Answer(<<>>, <<>>, parts[1].data[1])

-----------------------------------------------------------------------------
(***************************************************************************)
(* Sending and receiving.  MPI matches the messages of one source with one *)
(* tag in the order they were sent.                                        *)
(***************************************************************************)
NoHandler == [stage |-> "none"]

Init ==
  /\ rendezvous \in BOOLEAN
  /\ up = [c \in Client |-> <<>>]
  /\ down = [c \in Client |-> <<>>]
  /\ slot = [k \in Kind |-> 0]
  /\ buffer = [k \in Kind |-> <<>>]
  /\ handler = NoHandler
  /\ todo = [p \in Client \cup {0} |-> <<>>]
  /\ got = [p \in Client \cup {0} |-> <<>>]
  /\ calls = MaxCalls
  /\ M!Init

IsFirst(channel, i, tag) ==
  channel[i].tag = tag /\ \A j \in 1 .. (i - 1) : channel[j].tag # tag

\* A synchronous send returns when its message is received.
Blocked(p) == \E c \in IF p = 0 THEN Client ELSE {p} :
                \E m \in Range(IF p = 0 THEN down[c] ELSE up[c]) : m.sync

SendNext(p) ==
  /\ todo[p] # <<>> /\ Head(todo[p]).do = "send" /\ ~Blocked(p)
  /\ LET s == Head(todo[p])
         m == [tag |-> s.tag, data |-> s.data, sync |-> s.sync]
     IN IF p = 0 THEN down' = [down EXCEPT ![handler.from] = Append(@, m)] /\ up' = up
                 ELSE up' = [up EXCEPT ![p] = Append(@, m)] /\ down' = down
  /\ todo' = [todo EXCEPT ![p] = Tail(@)]
  /\ UNCHANGED <<rendezvous, scheduler, got, calls, history>>

\* What the receive s makes of the data d: the parts it yields and what is to be received
\* next.  Buffers come from calloc.
Padded(d, size) == [i \in 1 .. size |-> IF i \in DOMAIN d THEN d[i] ELSE 0]
Parts(data, info) == [parts |-> <<[data |-> data, info |-> info]>>, next |-> <<>>]
More(next) == [parts |-> <<>>, next |-> next]
Received(s, d) ==
  CASE s.do = "recv" -> Parts(d, <<>>)
    [] s.do = "recv_data" -> Parts(Padded(d, s.size), <<>>)
    [] s.do = "recv_info" -> IF d = <<SIZE_MAX>> THEN Parts(<<>>, <<>>)
                             ELSE More(RecvInfoData(s.tag, d[1]))
    [] s.do = "recv_info_data" -> Parts(<<>>, <<Deserialize(d)>>)
    [] s.do = "recv_ids" -> IF d = <<0>> THEN Parts(<<>>, <<>>)
                            ELSE More(RecvData(s.tag, d[1]))

\* The call of c is over: what it returns.
Return(c, r) ==
  /\ returned' = [returned EXCEPT ![c] = r]
  /\ answer' = [answer EXCEPT ![c] = M!Nothing]
  /\ waiting' = [waiting EXCEPT ![c] = FALSE]
  /\ served' = M!Nothing
  /\ UNCHANGED asked

RecvNext(p) ==
  /\ todo[p] # <<>> /\ Head(todo[p]).do # "send" /\ ~Blocked(p)
  /\ LET s == Head(todo[p])
         tag == IF s.do \in {"recv_info", "recv_ids"} THEN Size(s.tag) ELSE s.tag
         channel == IF p = 0 THEN up[handler.from] ELSE down[p]
     IN \E i \in DOMAIN channel :
          LET received == Received(s, channel[i].data)
              parts == got[p] \o received.parts
              rest == received.next \o Tail(todo[p])
          IN
          /\ IsFirst(channel, i, tag)
          /\ s.do \in {"recv_data", "recv_info_data"} => Len(channel[i].data) <= s.size
          /\ IF p = 0 THEN up' = [up EXCEPT ![handler.from] = RemoveAt(@, i)] /\ down' = down
                      ELSE down' = [down EXCEPT ![p] = RemoveAt(@, i)] /\ up' = up
          /\ todo' = [todo EXCEPT ![p] = rest]
          /\ got' = [got EXCEPT ![p] = parts]
          /\ IF p # 0 /\ rest = <<>> THEN Return(p, Result(s.tag[1], parts))
                                     ELSE UNCHANGED history
  /\ UNCHANGED <<rendezvous, scheduler, calls>>

-----------------------------------------------------------------------------
(***************************************************************************)
(* The calls of the clients.                                               *)
(***************************************************************************)
Invoke(c) ==
  /\ calls > 0 /\ todo[c] = <<>> /\ ~Blocked(c)
  /\ \E r \in Request :
       /\ todo' = [todo EXCEPT ![c] = CallSteps(c, r)]
       /\ asked' = [asked EXCEPT ![c] = Append(@, r)]
       /\ waiting' = [waiting EXCEPT ![c] = Answers(r) # {}]
  /\ got' = [got EXCEPT ![c] = <<>>]
  /\ calls' = calls - 1
  /\ served' = M!Nothing /\ returned' = [returned EXCEPT ![c] = M!Nothing]
  /\ UNCHANGED <<rendezvous, net, scheduler, answer>>

(***************************************************************************)
(* The scheduler's loop.                                                   *)
(***************************************************************************)
\* Mutant: the headers of two ints share one variable, too.
MutBufferOf(k) ==
  IF k \in {"PSET_INFO", "PSET_LOOKUP", "RC_ACCEPT"} THEN "PSET_INFO" ELSE k

\* The headers that hold nothing but a session id share one variable.
BufferOf(k) ==
  IF k \in {"SESSION_INFO", "SESSION_FINALIZE", "GET_PSETS", "RC"} THEN "SESSION_INFO" ELSE k

\* A posted receive completes, whatever the scheduler does.
Match(k, c) ==
  /\ slot[k] = 0
  /\ \E i \in DOMAIN up[c] :
       /\ IsFirst(up[c], i, <<k>>)
       /\ buffer' = [buffer EXCEPT ![BufferOf(k)] = up[c][i].data]
       /\ up' = [up EXCEPT ![c] = RemoveAt(@, i)]
  /\ slot' = [slot EXCEPT ![k] = c]
  /\ UNCHANGED <<rendezvous, down, handler, todo, got, calls, history>>

Waitany(k) ==
  /\ handler = NoHandler /\ slot[k] # 0
  /\ handler' = [stage |-> "receiving", kind |-> k, from |-> slot[k], head |-> buffer[BufferOf(k)]]
  /\ todo' = [todo EXCEPT ![0] = HandlerRecvs(handler')]
  /\ got' = [got EXCEPT ![0] = <<>>]
  /\ UNCHANGED <<rendezvous, net, slot, buffer, calls, history>>

\* The handler has the whole request and answers it.
Reply ==
  /\ handler.stage = "receiving" /\ todo[0] = <<>>
  /\ LET r == Understood(handler, got[0])
         c == handler.from
         first == SelectInSeq(asked[c], LAMBDA q : q.kind = r.kind)
     IN
     /\ served' = [from |-> c, request |-> r]
     /\ asked' = [asked EXCEPT ![c] = RemoveAt(@, first)]
     /\ IF Answers(r) = {} THEN UNCHANGED <<todo, answer>>
        ELSE \E a \in Answers(r) :
               /\ todo' = [todo EXCEPT ![0] = HandlerSends(r.kind, a)]
               /\ answer' = [answer EXCEPT ![c] = a]
  /\ handler' = [handler EXCEPT !.stage = "sending"]
  /\ UNCHANGED <<rendezvous, net, slot, buffer, got, calls, waiting, returned>>

\* The handler returns, and the loop posts the receive again.
Repost ==
  /\ handler.stage = "sending" /\ todo[0] = <<>> /\ ~Blocked(0)
  /\ handler' = NoHandler
  /\ slot' = [slot EXCEPT ![handler.kind] = 0]
  /\ UNCHANGED <<rendezvous, net, buffer, todo, got, calls, history>>

AllDone ==
  /\ handler = NoHandler /\ \A k \in Kind : slot[k] = 0
  /\ \A c \in Client : todo[c] = <<>> /\ asked[c] = <<>> /\ ~Blocked(c)

Ended == AllDone /\ UNCHANGED vars

ClientStep(c) == Invoke(c) \/ SendNext(c) \/ RecvNext(c)
Rank0 == SendNext(0) \/ RecvNext(0) \/ Reply \/ Repost \/ \E k \in Kind : Waitany(k)
Progress == \E k \in Kind, c \in Client : Match(k, c)

Next == (\E c \in Client : ClientStep(c)) \/ Rank0 \/ Progress \/ Ended

Spec == Init /\ [][Next]_vars

\* Every rank runs on, and MPI delivers what was sent.
FairSpec ==
  /\ Spec
  /\ WF_vars(Rank0) /\ WF_vars(Progress)
  /\ \A c \in Client : WF_vars(SendNext(c)) /\ WF_vars(RecvNext(c))

-----------------------------------------------------------------------------
(***************************************************************************)
(* Properties.                                                             *)
(***************************************************************************)
\* The parts of a request and of an answer find each other, in whatever order the
\* requests of several clients are received and handled: every handler gets what one
\* call passed, whole, once and in order of its kind, and every call returns what was
\* answered to it.
ImplementsMessaging == M!Spec

\* Every call returns, whether MPI buffers what is sent or not: nobody waits for a
\* message that is not sent, or in turn for each other.
EveryCallReturns == \A c \in Client : waiting[c] ~> ~waiting[c]

\* When nothing is left to do nothing is left on its way, where a later call would take
\* it for its own.
NothingLeft == AllDone => \A c \in Client : up[c] = <<>> /\ down[c] = <<>>
=============================================================================
