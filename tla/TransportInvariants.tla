------------------------- MODULE TransportInvariants -------------------------
(***************************************************************************)
(* What is underway in Transport: which parts of which requests and        *)
(* answers, and how far the call and the handler that receive them have    *)
(* come.                                                                   *)
(***************************************************************************)
EXTENDS Transport

NameSent == {"PSET_INFO", "PSET_LOOKUP"}
InfoSent == {"GET_PSETS", "PSET_OP", "RC_ACCEPT"}
InfoAnswered == {"SESSION_INFO", "GET_PSETS", "PSET_INFO", "RC"}
OwnBuffer == Kind \ {"SESSION_INFO", "SESSION_FINALIZE", "GET_PSETS", "RC"}

\* A sequence of whatever it holds.
IsSequence(s) == Len(s) \in Nat /\ s = [i \in 1 .. Len(s) |-> s[i]]
Over(f, S) == f = [x \in S |-> f[x]]

TypeOK ==
  /\ Over(up, Client) /\ \A c \in Client : IsSequence(up[c])
  /\ Over(down, Client) /\ \A c \in Client : IsSequence(down[c])
  /\ slot \in [Kind -> Client \cup {0}]
  /\ Over(buffer, Kind)
  /\ Over(todo, Client \cup {0}) /\ \A p \in Client \cup {0} : IsSequence(todo[p])
  /\ Over(got, Client \cup {0}) /\ \A p \in Client \cup {0} : IsSequence(got[p])
  /\ asked \in [Client -> Seq(Request)]
  /\ waiting \in [Client -> BOOLEAN]
  /\ Over(answer, Client)
  /\ Over(returned, Client)

-----------------------------------------------------------------------------
(***************************************************************************)
(* The parts of the requests.                                              *)
(***************************************************************************)
NumParts(c, i) == Len(CallSends(c, asked[c][i]))

\* The sends that are left to a client are those of its last request.
Unsent(c) ==
  IF todo[c] = <<>> \/ Head(todo[c]).do # "send" THEN 0
  ELSE Len(todo[c]) - Len(CallRecvs(asked[c][Len(asked[c])].kind))

Sent(c, i) == NumParts(c, i) - IF i = Len(asked[c]) THEN Unsent(c) ELSE 0

\* Requests of one kind are received one after the other.
IsFirstAsked(c, i) == \A j \in 1 .. (i - 1) : asked[c][j].kind # asked[c][i].kind

Taken(c, i) ==
  LET k == asked[c][i].kind IN
  IF slot[k] # c \/ ~IsFirstAsked(c, i) THEN 0
  ELSE IF handler.stage = "none" THEN 1
  ELSE IF handler.kind # k THEN 1
  ELSE IF handler.stage = "sending" THEN 0
  ELSE IF todo[0] = <<>> THEN NumParts(c, i)
  ELSE IF Head(todo[0]).do = "recv_info_data" THEN 2 ELSE 1

Underway(c) ==
  {p \in (1 .. Len(asked[c])) \X (1 .. 3) : Taken(c, p[1]) < p[2] /\ p[2] <= Sent(c, p[1])}

Before(p, q) == p[1] < q[1] \/ (p[1] = q[1] /\ p[2] < q[2])

SamePart(m, s) == m.tag = s.tag /\ m.data = s.data

\* up[c] holds the parts that are underway, in the order of the requests: the x-th message is
\* the part part[x].
Lists(c, part) ==
  /\ \A x, y \in 1 .. Len(up[c]) : x < y => Before(part[x], part[y])
  /\ \A p \in Underway(c) : \E x \in 1 .. Len(up[c]) : part[x] = p
  /\ \A x \in 1 .. Len(up[c]) :
       SamePart(up[c][x], CallSends(c, asked[c][part[x][1]])[part[x][2]])

UnderwayOf(c) ==
  /\ \E part \in [1 .. Len(up[c]) -> Underway(c)] : Lists(c, part)
  /\ \A i \in 1 .. Len(asked[c]) : Taken(c, i) <= Sent(c, i)

RequestsUnderway == \A c \in Client : UnderwayOf(c)

-----------------------------------------------------------------------------
(***************************************************************************)
(* The scheduler.                                                          *)
(***************************************************************************)
\* A header that was received is that of the first request of its kind.
HeaderOf(k) ==
  (slot[k] # 0 /\ (handler.stage = "sending" => handler.kind # k)) =>
    \E i \in 1 .. Len(asked[slot[k]]) :
      /\ asked[slot[k]][i].kind = k /\ IsFirstAsked(slot[k], i)
      /\ k \in OwnBuffer => buffer[k] = Header(slot[k], asked[slot[k]][i])

HeadersReceived == \A k \in Kind : HeaderOf(k)

Part(data, info) == <<[data |-> data, info |-> info]>>

\* How far the handler h has come with the request r: what is left to do, and the parts it
\* has received.
Receiving(h, r, left, parts) ==
  \/ left = HandlerRecvs(h) /\ parts = <<>>
  \/ /\ r.kind \in InfoSent /\ r.info # <<>> /\ parts = <<>>
     /\ left = RecvInfoData(<<r.kind, "info">>, Len(Serialize(r.info[1])))
  \/ left = <<>> /\ r.kind \in NameSent /\ parts = Part(Terminated(r.name), <<>>)
  \/ left = <<>> /\ r.kind \in InfoSent /\ parts = Part(<<>>, r.info)

Idle == handler = NoHandler /\ todo[0] = <<>>

HandlerAt(stage) ==
  /\ handler = [stage |-> stage, kind |-> handler.kind, from |-> handler.from,
                head |-> handler.head]
  /\ handler.kind \in Kind /\ handler.from \in Client /\ slot[handler.kind] = handler.from

\* The handler receives the request i.
Receives(i) ==
  LET r == asked[handler.from][i] IN
  /\ r.kind = handler.kind /\ IsFirstAsked(handler.from, i)
  /\ handler.kind \in OwnBuffer => handler.head = Header(handler.from, r)
  /\ Receiving(handler, r, todo[0], got[0])

HandlerInv ==
  \/ Idle
  \/ HandlerAt("receiving") /\ \E i \in 1 .. Len(asked[handler.from]) : Receives(i)
  \/ HandlerAt("sending") /\ \A i \in 1 .. Len(todo[0]) : todo[0][i].do = "send"

-----------------------------------------------------------------------------
(***************************************************************************)
(* The clients.                                                            *)
(***************************************************************************)
\* What the handler has still to send to c.
Unsaid(c) == IF handler.stage = "sending" THEN IF handler.from = c THEN todo[0] ELSE <<>> ELSE <<>>

NotAnswered(c) == answer[c] = M!Nothing /\ down[c] = <<>> /\ Unsaid(c) = <<>>

AtRest(c) == todo[c] = <<>> /\ ~waiting[c] /\ NotAnswered(c)

Asking(c) ==
  LET n == Len(asked[c])
      steps == CallSteps(c, asked[c][n])
  IN
  /\ n > 0 /\ todo[c] # <<>> /\ got[c] = <<>>
  /\ \E s \in 1 .. NumParts(c, n) + 1 : todo[c] = SubSeq(steps, s, Len(steps))
  /\ waiting[c] = (Answers(asked[c][n]) # {})
  /\ NotAnswered(c)

\* A call of the kind k has received t parts of the answer a.
HasReceived(k, a, t, left, parts) ==
  \/ t = 0 /\ left = CallRecvs(k) /\ parts = <<>>
  \/ /\ t = 1 /\ k \in InfoAnswered /\ a.info # <<>> /\ parts = <<>>
     /\ left = RecvInfoData(CallRecvs(k)[1].tag, Len(Serialize(a.info[1]))) \o Tail(CallRecvs(k))
  \/ /\ t = 1 /\ k = "PSET_LOOKUP" /\ a.ids # <<>> /\ parts = <<>>
     /\ left = RecvData(CallRecvs(k)[1].tag, Len(a.ids))
  \/ /\ t = Len(HandlerSends(k, a)) - 1 /\ t > 0 /\ k = "RC"
     /\ left = Tail(CallRecvs(k)) /\ parts = Part(<<>>, a.info)

\* The parts of the answer that c has not received are on their way or still to be sent.
Answered(c) ==
  /\ waiting[c]
  /\ \E k \in Kind, t \in 0 .. 2 :
       LET sends == HandlerSends(k, answer[c]) IN
       /\ answer[c] \in Answers(Plain(k))
       /\ HasReceived(k, answer[c], t, todo[c], got[c])
       /\ t < Len(sends)
       /\ t + Len(down[c]) + Len(Unsaid(c)) = Len(sends)
       /\ \A x \in 1 .. Len(down[c]) : SamePart(down[c][x], sends[t + x])
       /\ \A x \in 1 .. Len(Unsaid(c)) : Unsaid(c)[x] = sends[t + Len(down[c]) + x]

\* Only the last request of a client can be one whose answer it waits for.
LastWaits(c) ==
  \A i \in 1 .. Len(asked[c]) :
    Answers(asked[c][i]) # {} => i = Len(asked[c]) /\ waiting[c] /\ answer[c] = M!Nothing

ClientOf(c) == LastWaits(c) /\ (AtRest(c) \/ Asking(c) \/ Answered(c))

ClientInv == \A c \in Client : ClientOf(c)

\* Every part of a request or an answer is where it belongs: on its way behind the parts
\* sent before it, in the hands of the handler or call it is for, or still to be sent.
TransportInv == TypeOK /\ RequestsUnderway /\ HeadersReceived /\ HandlerInv /\ ClientInv
=============================================================================
