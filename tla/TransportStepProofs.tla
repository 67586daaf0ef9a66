------------------------ MODULE TransportStepProofs ------------------------
(***************************************************************************)
(* Proofs about the steps of Transport: that every one keeps the parts of  *)
(* the requests and answers where they belong, that nothing is left when   *)
(* all is done, and that the messages do what Messaging asks of them.      *)
(***************************************************************************)
EXTENDS TransportProofs

\* u is the rest of the steps t from the s-th of p on.
IsRest(p, q, t, s, u) ==
  /\ IsSequence(u) /\ Len(u) = (Len(p) + 1 - s) + Len(q)
  /\ s <= Len(p) => u # <<>> /\ Head(u) = p[s] /\ Tail(u) = SubSeq(t, s + 1, Len(t))
  /\ s = Len(p) + 1 => u = q
  /\ s = 1 => u = t

\* What is left of the steps p and then q.
LEMMA StepsFrom ==
  ASSUME NEW p, NEW q, IsSequence(p), IsSequence(q), NEW t, t = p \o q,
         NEW s \in 1 .. Len(p) + 1,
         NEW u, u = SubSeq(t, s, Len(t))
  PROVE  IsRest(p, q, t, s, u)
<1>1. PICK m \in Nat : m = Len(p)
  BY DEF IsSequence
<1>2. PICK n \in Nat : n = Len(q)
  BY DEF IsSequence
<1>3. IsSequence(t)
  BY ConcatIs
<1>4. Len(t) = m + n
  BY <1>1, <1>2, ConcatIs
<1>5. \A i \in 1 .. m : t[i] = p[i]
  BY <1>1, ConcatIs
<1>6. \A i \in 1 .. n : t[m + i] = q[i]
  BY <1>1, <1>2, ConcatIs
<1>7. /\ IsSequence(u) /\ Len(u) = (m + n + 1) - s
      /\ \A i \in 1 .. (m + n + 1) - s : u[i] = t[s + i - 1]
  <2>1. s \in 1 .. Len(t) + 1
    BY <1>1, <1>2, <1>4
  <2>2. /\ IsSequence(u) /\ Len(u) = (Len(t) + 1) - s
        /\ \A i \in 1 .. (Len(t) + 1) - s : u[i] = t[s + i - 1]
    BY ONLY <1>3, <2>1, SubSeqIs, u = SubSeq(t, s, Len(t))
  <2>. QED
    BY ONLY <1>4, <2>2
<1>8. ASSUME s <= m PROVE u # <<>> /\ Head(u) = p[s] /\ Tail(u) = SubSeq(t, s + 1, Len(t))
  <2>1. Len(u) > 0
    BY <1>1, <1>2, <1>7, <1>8
  <2>2. u # <<>>
    BY ONLY <2>1, EmptyIs
  <2>3. Head(u) = u[1] /\ IsSequence(Tail(u)) /\ Len(Tail(u)) = Len(u) - 1
        /\ \A i \in 1 .. Len(u) - 1 : Tail(u)[i] = u[i + 1]
    BY <1>7, <2>2, TailIs
  <2>. DEFINE v == SubSeq(t, s + 1, Len(t))
  <2>4. /\ IsSequence(v) /\ Len(v) = (m + n + 1) - (s + 1)
        /\ \A i \in 1 .. (m + n + 1) - (s + 1) : v[i] = t[(s + 1) + i - 1]
    <3>1. s + 1 \in 1 .. Len(t) + 1
      BY <1>1, <1>2, <1>4, <1>8
    <3>2. /\ IsSequence(v) /\ Len(v) = (Len(t) + 1) - (s + 1)
          /\ \A i \in 1 .. (Len(t) + 1) - (s + 1) : v[i] = t[(s + 1) + i - 1]
      BY ONLY <1>3, <3>1, SubSeqIs
    <3>. HIDE DEF v
    <3>. QED
      BY ONLY <1>4, <3>2
  <2>. HIDE DEF v
  <2>. DEFINE w == Tail(u)
  <2>5. IsSequence(w) /\ Len(w) = (m + n) - s /\ \A i \in 1 .. (m + n) - s : w[i] = t[s + i]
    <3>1. Len(u) - 1 = (m + n) - s
      BY <1>1, <1>2, <1>7
    <3>2. \A i \in 1 .. (m + n) - s : i + 1 \in 1 .. (m + n + 1) - s /\ s + (i + 1) - 1 = s + i
      BY <1>1, <1>2
    <3>. QED
      BY <1>7, <2>3, <3>1, <3>2
  <2>6. Len(v) = (m + n) - s /\ \A i \in 1 .. (m + n) - s : v[i] = t[s + i]
    <3>1. /\ (m + n + 1) - (s + 1) = (m + n) - s
          /\ \A i \in 1 .. (m + n) - s : (s + 1) + i - 1 = s + i
      BY <1>1, <1>2
    <3>. QED
      BY <2>4, <3>1
  <2>. HIDE DEF w
  <2>7. w = v
    BY ONLY <2>4, <2>5, <2>6, SequenceEqual
  <2>8. u[1] = t[s]
    <3>1. 1 \in 1 .. (m + n + 1) - s /\ s + 1 - 1 = s
      BY <1>1, <1>2, <1>8
    <3>. QED
      BY ONLY <1>7, <3>1
  <2>. QED
    BY <1>1, <1>5, <1>8, <2>2, <2>3, <2>7, <2>8 DEF v, w
<1>9. ASSUME s = m + 1 PROVE u = q
  <2>1. Len(u) = n
    BY <1>1, <1>2, <1>7, <1>9
  <2>2. \A i \in 1 .. n : u[i] = q[i]
    <3>1. \A i \in 1 .. n : s + i - 1 = m + i /\ i \in 1 .. (m + n + 1) - s
      BY <1>1, <1>2, <1>9
    <3>. QED
      BY <1>6, <1>7, <3>1
  <2>. QED
    BY <1>2, <1>7, <2>1, <2>2, SequenceEqual
<1>10. ASSUME s = 1 PROVE u = t
  <2>1. Len(u) = m + n
    BY <1>1, <1>2, <1>7, <1>10
  <2>2. \A i \in 1 .. m + n : u[i] = t[i]
    <3>1. \A i \in 1 .. m + n : s + i - 1 = i /\ i \in 1 .. (m + n + 1) - s
      BY <1>1, <1>2, <1>10
    <3>. QED
      BY <1>7, <3>1
  <2>. QED
    BY <1>3, <1>4, <1>7, <2>1, <2>2, SequenceEqual
<1>11. Len(u) = (m + 1 - s) + n
  BY <1>1, <1>2, <1>7
<1>. QED
  BY <1>1, <1>2, <1>7, <1>8, <1>9, <1>10, <1>11 DEF IsRest

\* The parts that TransportInvariants speaks of, with tags and data spelled out.
LEMMA UnderwayIs ==
  \A c : (/\ asked[c] \in Seq(Request)
          /\ \A i \in 1 .. Len(asked[c]) : Sent(c, i) <= Count(asked[c][i])
          /\ \A i \in 1 .. Len(asked[c]) : Sent(c, i) \in Int) =>
    (UnderwayOf(c) <=>
       /\ Listing(c, up[c], asked[c], TakenOf(c), SentOf(c))
       /\ \A i \in 1 .. Len(asked[c]) : Taken(c, i) <= Sent(c, i))
<1>. SUFFICES ASSUME NEW c, asked[c] \in Seq(Request),
                     \A i \in 1 .. Len(asked[c]) : Sent(c, i) <= Count(asked[c][i]),
                     \A i \in 1 .. Len(asked[c]) : Sent(c, i) \in Int
     PROVE  UnderwayOf(c) <=>
              /\ Listing(c, up[c], asked[c], TakenOf(c), SentOf(c))
              /\ \A i \in 1 .. Len(asked[c]) : Taken(c, i) <= Sent(c, i)
  OBVIOUS
<1>. DEFINE rs == asked[c]
            ms == up[c]
            U == Missing(rs, TakenOf(c), SentOf(c))
<1>1. U = Underway(c)
  BY DEF Missing, Underway, TakenOf, SentOf
<1>2. \A p \in U : /\ rs[p[1]] \in Request /\ p[2] \in 1 .. 3 /\ p[1] \in 1 .. Len(rs)
                   /\ p[2] <= Sent(c, p[1])
  BY DEF Missing, SentOf
<1>. HIDE DEF U
<1>3. \A p \in U : \A m : SamePart(m, CallSends(c, rs[p[1]])[p[2]]) <=> IsPart(m, c, rs[p[1]], p[2])
  <2>1. SUFFICES ASSUME NEW p \in U, NEW m
        PROVE  SamePart(m, CallSends(c, rs[p[1]])[p[2]]) <=> IsPart(m, c, rs[p[1]], p[2])
    OBVIOUS
  <2>2. PICK r, j : r \in Request /\ r = rs[p[1]] /\ j = p[2]
    BY <1>2
  <2>3. Count(r) \in 1 .. 3
    BY ONLY <2>2, CallSendsAre
  <2>4. j \in 1 .. 3 /\ j <= Count(r)
    <3>1. PICK i : i = p[1]
      OBVIOUS
    <3>2. i \in 1 .. Len(asked[c]) /\ r = asked[c][i] /\ j \in 1 .. 3 /\ j <= Sent(c, i)
      BY <1>2, <2>2, <3>1
    <3>3. Sent(c, i) \in Int /\ Sent(c, i) <= Count(r)
      BY <3>2
    <3>. QED
      BY ONLY <2>3, <3>2, <3>3
  <2>5. PICK sends : sends = CallSends(c, r)
    OBVIOUS
  <2>6. j \in 1 .. Count(r)
    BY ONLY <2>3, <2>4
  <2>7. sends[j].tag = PartTag(r.kind, j) /\ sends[j].data = PartData(c, r, j)
    BY ONLY <2>2, <2>5, <2>6, CallSendsAre
  <2>. QED
    BY <2>2, <2>5, <2>7 DEF SamePart, IsPart
<1>4. \A part \in [1 .. Len(ms) -> U] :
        Lists(c, part) <=> AreParts(c, ms, rs, part) /\ Covers(ms, part, U)
  <2>1. SUFFICES ASSUME NEW part \in [1 .. Len(ms) -> U]
        PROVE  Lists(c, part) <=> AreParts(c, ms, rs, part) /\ Covers(ms, part, U)
    OBVIOUS
  <2>2. \A x \in 1 .. Len(ms) : SamePart(ms[x], CallSends(c, rs[part[x][1]])[part[x][2]])
                                <=> IsPart(ms[x], c, rs[part[x][1]], part[x][2])
    BY <1>3
  <2>. QED
    BY <1>1, <2>2 DEF Lists, AreParts, Covers
<1>5. Listing(c, ms, rs, TakenOf(c), SentOf(c)) <=> \E part \in [1 .. Len(ms) -> U] : Lists(c, part)
  BY <1>4 DEF Listing, U
<1>. QED
  BY <1>1, <1>5 DEF UnderwayOf

LEMMA UnderwayIsNext ==
  (\A c : (/\ asked[c] \in Seq(Request)
           /\ \A i \in 1 .. Len(asked[c]) : Sent(c, i) <= Count(asked[c][i])
           /\ \A i \in 1 .. Len(asked[c]) : Sent(c, i) \in Int) =>
    (UnderwayOf(c) <=>
       /\ Listing(c, up[c], asked[c], TakenOf(c), SentOf(c))
       /\ \A i \in 1 .. Len(asked[c]) : Taken(c, i) <= Sent(c, i)))'
BY UnderwayIs, PTL

\* The s-th step of the last request of c is its next.
AtStep(c, s) ==
  LET n == Len(asked[c])
      r == asked[c][n]
      steps == CallSteps(c, r)
  IN
  /\ n \in Nat \ {0} /\ r \in Request
  /\ s \in 1 .. Count(r) + 1
  /\ todo[c] = SubSeq(steps, s, Len(steps)) /\ todo[c] # <<>>
  /\ Unsent(c) = (Count(r) + 1) - s
  /\ s <= Count(r) => /\ Head(todo[c]) = CallSends(c, r)[s]
                      /\ Tail(todo[c]) = SubSeq(steps, s + 1, Len(steps))
  /\ s = Count(r) + 1 => todo[c] = CallRecvs(r.kind) /\ Head(todo[c]).do # "send"

\* A client that is asking is at one of the steps of its last request.
LEMMA AskingIs ==
  ASSUME NEW c, asked[c] \in Seq(Request), Asking(c)
  PROVE  \E s : AtStep(c, s)
<1>. DEFINE n == Len(asked[c])
            r == asked[c][n]
            p == CallSends(c, r)
            q == CallRecvs(r.kind)
            steps == CallSteps(c, r)
<1>1. n \in Nat \ {0} /\ r \in Request /\ r.kind \in Kind
  <2>1. n \in Nat \ {0}
    BY DEF Asking
  <2>2. r \in Request
    BY <2>1
  <2>. QED
    BY <2>1, <2>2, RequestAssumption
<1>2. /\ IsSequence(p) /\ Len(p) = Count(r) /\ Count(r) \in 1 .. 3
      /\ \A j \in 1 .. Count(r) : p[j].do = "send"
  BY <1>1, CallSendsAre
<1>3. IsSequence(q) /\ Len(q) \in 0 .. 2 /\ \A j \in 1 .. Len(q) : q[j].do # "send"
  BY <1>1, CallRecvsAre
<1>4. PICK s \in 1 .. Count(r) + 1 : todo[c] = SubSeq(steps, s, Len(steps))
  BY <1>2 DEF Asking, NumParts
<1>5. todo[c] # <<>>
  BY DEF Asking
<1>6. steps = p \o q
  BY DEF CallSteps
<1>. HIDE DEF p, q, steps
<1>7. /\ Len(todo[c]) = (Count(r) + 1 - s) + Len(q)
      /\ s <= Count(r) => Head(todo[c]) = p[s] /\ Tail(todo[c]) = SubSeq(steps, s + 1, Len(steps))
      /\ s = Count(r) + 1 => todo[c] = q
  <2>1. /\ Len(todo[c]) = (Len(p) + 1 - s) + Len(q)
        /\ s <= Len(p) => Head(todo[c]) = p[s] /\ Tail(todo[c]) = SubSeq(steps, s + 1, Len(steps))
        /\ s = Len(p) + 1 => todo[c] = q
    <3>1. s \in 1 .. Len(p) + 1
      BY <1>2, <1>4
    <3>2. IsRest(p, q, steps, s, todo[c])
      BY ONLY <1>2, <1>3, <1>4, <1>6, <3>1, StepsFrom
    <3>. QED
      BY ONLY <3>2 DEF IsRest
  <2>. QED
    BY <1>2, <2>1
<1>8. CASE s <= Count(r)
  <2>1. s \in 1 .. Count(r)
    BY <1>2, <1>4, <1>8
  <2>2. Head(todo[c]).do = "send"
    BY <1>2, <1>7, <1>8, <2>1
  <2>3. Unsent(c) = Len(todo[c]) - Len(q)
    BY <1>5, <2>2 DEF Unsent, q
  <2>4. Unsent(c) = (Count(r) + 1) - s
    BY <1>2, <1>3, <1>7, <2>3
  <2>5. AtStep(c, s)
    <3>1. ~(s = Count(r) + 1)
      BY <1>2, <1>8
    <3>2. /\ s <= Count(r) =>
               /\ Head(todo[c]) = CallSends(c, r)[s]
               /\ Tail(todo[c]) = SubSeq(CallSteps(c, r), s + 1, Len(CallSteps(c, r)))
          /\ todo[c] = SubSeq(CallSteps(c, r), s, Len(CallSteps(c, r)))
      BY <1>4, <1>7 DEF p, steps
    <3>. QED
      BY ONLY <1>1, <1>4, <1>5, <2>4, <3>1, <3>2 DEF AtStep
  <2>. QED
    BY <2>5
<1>9. CASE s = Count(r) + 1
  <2>1. todo[c] = q /\ Head(q) = q[1] /\ Len(q) \in Nat \ {0}
    BY <1>3, <1>5, <1>7, <1>9, TailIs
  <2>2. Head(todo[c]).do # "send"
    BY <1>3, <2>1
  <2>3. Unsent(c) = 0
    BY <2>2 DEF Unsent
  <2>4. AtStep(c, s)
    <3>1. ~(s <= Count(r)) /\ Unsent(c) = (Count(r) + 1) - s
      BY <1>2, <1>9, <2>3
    <3>2. /\ todo[c] = CallRecvs(r.kind)
          /\ todo[c] = SubSeq(CallSteps(c, r), s, Len(CallSteps(c, r)))
      BY <1>4, <2>1 DEF q, steps
    <3>. QED
      BY ONLY <1>1, <1>4, <1>5, <2>2, <3>1, <3>2 DEF AtStep
  <2>. QED
    BY <2>4
<1>. QED
  BY <1>2, <1>4, <1>8, <1>9

\* A client that is not asking has sent its requests.
LEMMA AnsweredIs ==
  ASSUME NEW c, Answered(c)
  PROVE  \E k \in Kind, t \in 0 .. 2 :
           LET sends == HandlerSends(k, answer[c]) IN
           /\ answer[c] \in Answers(Plain(k)) /\ answer[c] # M!Nothing
           /\ HasReceived(k, answer[c], t, todo[c], got[c])
           /\ TakesNext(k, answer[c], t, todo[c], got[c])
           /\ t < Len(sends)
           /\ t + Len(down[c]) + Len(Unsaid(c)) = Len(sends)
           /\ \A x \in 1 .. Len(down[c]) : SamePart(down[c][x], sends[t + x])
           /\ \A x \in 1 .. Len(Unsaid(c)) : Unsaid(c)[x] = sends[t + Len(down[c]) + x]
<1>1. PICK k \in Kind, t \in 0 .. 2 :
           LET sends == HandlerSends(k, answer[c]) IN
           /\ answer[c] \in Answers(Plain(k))
           /\ HasReceived(k, answer[c], t, todo[c], got[c])
           /\ t < Len(sends)
           /\ t + Len(down[c]) + Len(Unsaid(c)) = Len(sends)
           /\ \A x \in 1 .. Len(down[c]) : SamePart(down[c][x], sends[t + x])
           /\ \A x \in 1 .. Len(Unsaid(c)) : Unsaid(c)[x] = sends[t + Len(down[c]) + x]
  BY DEF Answered
<1>2. TakesNext(k, answer[c], t, todo[c], got[c])
  BY <1>1, TakesNextHolds
<1>3. answer[c] # M!Nothing
  BY <1>1, AnswersAre
<1>. QED
  BY <1>1, <1>2, <1>3

LEMMA NotAskingIs ==
  ASSUME NEW c, AtRest(c) \/ Answered(c)
  PROVE  Unsent(c) = 0 /\ (todo[c] # <<>> => Head(todo[c]).do # "send")
<1>1. CASE AtRest(c)
  BY <1>1 DEF AtRest, Unsent
<1>2. CASE Answered(c)
  BY <1>2, AnsweredIs DEF TakesNext, Unsent
<1>. QED
  BY <1>1, <1>2

LEMMA NotAskingIsNext ==
  (\A c : AtRest(c) \/ Answered(c) => Unsent(c) = 0)'
<1>1. \A c : AtRest(c) \/ Answered(c) => Unsent(c) = 0
  BY NotAskingIs
<1>. QED
  BY <1>1, PTL

\* What TransportInv says of the requests of a client.
LEMMA StateIs ==
  TransportInv =>
    \A c \in Client :
      /\ IsSequence(up[c]) /\ asked[c] \in Seq(Request) /\ Len(asked[c]) \in Nat
      /\ Unsent(c) \in Nat
      /\ \A i \in 1 .. Len(asked[c]) :
           /\ asked[c][i] \in Request /\ asked[c][i].kind \in Kind
           /\ NumParts(c, i) = Count(asked[c][i]) /\ Count(asked[c][i]) \in 1 .. 3
           /\ Taken(c, i) \in 0 .. 3
           /\ Sent(c, i) \in Int /\ Sent(c, i) <= Count(asked[c][i])
           /\ i < Len(asked[c]) => Sent(c, i) = Count(asked[c][i])
           /\ i = Len(asked[c]) => Sent(c, i) = Count(asked[c][i]) - Unsent(c)
      /\ SentWhole(asked[c], SentOf(c))
      /\ TakenOf(c) \in [1 .. Len(asked[c]) -> Int] /\ SentOf(c) \in [1 .. Len(asked[c]) -> Int]
      /\ Listing(c, up[c], asked[c], TakenOf(c), SentOf(c))
      /\ \A i \in 1 .. Len(asked[c]) : Taken(c, i) <= Sent(c, i)
<1>. SUFFICES ASSUME TransportInv, NEW c \in Client
     PROVE
      /\ IsSequence(up[c]) /\ asked[c] \in Seq(Request) /\ Len(asked[c]) \in Nat
      /\ Unsent(c) \in Nat
      /\ \A i \in 1 .. Len(asked[c]) :
           /\ asked[c][i] \in Request /\ asked[c][i].kind \in Kind
           /\ NumParts(c, i) = Count(asked[c][i]) /\ Count(asked[c][i]) \in 1 .. 3
           /\ Taken(c, i) \in 0 .. 3
           /\ Sent(c, i) \in Int /\ Sent(c, i) <= Count(asked[c][i])
           /\ i < Len(asked[c]) => Sent(c, i) = Count(asked[c][i])
           /\ i = Len(asked[c]) => Sent(c, i) = Count(asked[c][i]) - Unsent(c)
      /\ SentWhole(asked[c], SentOf(c))
      /\ TakenOf(c) \in [1 .. Len(asked[c]) -> Int] /\ SentOf(c) \in [1 .. Len(asked[c]) -> Int]
      /\ Listing(c, up[c], asked[c], TakenOf(c), SentOf(c))
      /\ \A i \in 1 .. Len(asked[c]) : Taken(c, i) <= Sent(c, i)
  OBVIOUS
<1>. DEFINE n == Len(asked[c])
<1>1. IsSequence(up[c]) /\ asked[c] \in Seq(Request) /\ n \in Nat
  BY DEF TransportInv, TypeOK
<1>2. \A i \in 1 .. n : asked[c][i] \in Request
  BY <1>1
<1>. HIDE DEF n
<1>3. \A i \in 1 .. n : /\ NumParts(c, i) = Count(asked[c][i]) /\ Count(asked[c][i]) \in 1 .. 3
                        /\ asked[c][i].kind \in Kind
  BY <1>2, CallSendsAre, RequestAssumption DEF NumParts
<1>4. Unsent(c) \in Nat /\ (n > 0 => Unsent(c) <= Count(asked[c][n]))
  <2>1. CASE Asking(c)
    <3>1. PICK s : AtStep(c, s)
      BY <1>1, <2>1, AskingIs
    <3>. DEFINE N == Count(asked[c][n])
    <3>2. n > 0 /\ s \in 1 .. N + 1 /\ Unsent(c) = (N + 1) - s
      BY <1>1, <3>1 DEF AtStep, n
    <3>3. N \in 1 .. 3
      BY <1>1, <1>3, <3>2
    <3>. HIDE DEF N
    <3>4. Unsent(c) \in Nat /\ Unsent(c) <= N
      BY ONLY <3>2, <3>3
    <3>. QED
      BY <3>4 DEF N
  <2>2. CASE AtRest(c) \/ Answered(c)
    <3>1. Unsent(c) = 0
      BY <2>2, NotAskingIs
    <3>2. n > 0 => Count(asked[c][n]) \in 1 .. 3
      BY <1>1, <1>3
    <3>. QED
      BY <3>1, <3>2
  <2>. QED
    BY <2>1, <2>2 DEF TransportInv, ClientInv, ClientOf
<1>5. \A i \in 1 .. n : Taken(c, i) \in 0 .. 3
  BY <1>3 DEF Taken
<1>6. \A i \in 1 .. n : /\ i < n => Sent(c, i) = Count(asked[c][i])
                        /\ i = n => Sent(c, i) = Count(asked[c][i]) - Unsent(c)
  BY <1>1, <1>3, <1>4 DEF Sent, n
<1>7. \A i \in 1 .. n : Sent(c, i) \in Int /\ Sent(c, i) <= Count(asked[c][i])
  BY <1>1, <1>3, <1>4, <1>6
<1>8. SentWhole(asked[c], SentOf(c))
  BY <1>1, <1>6, <1>7 DEF SentWhole, SentOf, n
<1>9. TakenOf(c) \in [1 .. n -> Int] /\ SentOf(c) \in [1 .. n -> Int]
  BY <1>5, <1>7 DEF TakenOf, SentOf, n
<1>10. UnderwayOf(c)
  BY DEF TransportInv, RequestsUnderway
<1>11. /\ Listing(c, up[c], asked[c], TakenOf(c), SentOf(c))
       /\ \A i \in 1 .. n : Taken(c, i) <= Sent(c, i)
  BY <1>1, <1>7, <1>10, UnderwayIs DEF n
<1>. QED
  BY <1>1, <1>2, <1>3, <1>4, <1>5, <1>6, <1>7, <1>8, <1>9, <1>11 DEF n

\* A function over S with one value replaced.
Replaced(f, S, x, e) == [y \in S |-> IF y = x THEN e ELSE f[y]]

LEMMA ReplacedIs ==
  ASSUME NEW f, NEW S, NEW x \in S, NEW e, NEW g, g = Replaced(f, S, x, e)
  PROVE  Over(g, S) /\ g[x] = e /\ \A y \in S : y # x => g[y] = f[y]
BY DEF Replaced, Over

-----------------------------------------------------------------------------
(***************************************************************************)
(* What a step leaves alone.                                               *)
(***************************************************************************)
LEMMA SentSame ==
  ASSUME rendezvous' = rendezvous, NEW c, asked'[c] = asked[c], todo'[c] = todo[c]
  PROVE  \A i : Sent(c, i)' = Sent(c, i) /\ NumParts(c, i)' = NumParts(c, i)
<1>1. \A i : NumParts(c, i)' = NumParts(c, i)
  BY SendsSame DEF NumParts
<1>. QED
  BY <1>1 DEF Sent, Unsent

\* The handler of c moves on only by what it receives.
LEMMA TakenSame ==
  ASSUME rendezvous' = rendezvous, NEW c, asked'[c] = asked[c],
         slot' = slot, handler' = handler, todo'[0] = todo[0] \/ handler.stage = "sending"
  PROVE  \A i : Taken(c, i)' = Taken(c, i)
<1>1. \A i : NumParts(c, i)' = NumParts(c, i)
  BY SendsSame DEF NumParts
<1>. QED
  BY <1>1 DEF Taken, IsFirstAsked

\* How UnderwayOf is shown after a step.
LEMMA UnderwayFrom ==
  ASSUME NEW c, asked'[c] \in Seq(Request),
         NEW taken \in [1 .. Len(asked'[c]) -> Int], NEW sent \in [1 .. Len(asked'[c]) -> Int],
         \A i \in 1 .. Len(asked'[c]) :
           /\ Taken(c, i)' = taken[i] /\ Sent(c, i)' = sent[i]
           /\ taken[i] <= sent[i] /\ sent[i] <= Count(asked'[c][i]),
         Listing(c, up'[c], asked'[c], taken, sent)
  PROVE  UnderwayOf(c)'
<1>1. TakenOf(c)' = taken /\ SentOf(c)' = sent
  BY DEF TakenOf, SentOf
<1>. QED
  BY <1>1, UnderwayIsNext

LEMMA UnderwaySame ==
  ASSUME TransportInv, NEW c \in Client, up'[c] = up[c], asked'[c] = asked[c],
         \A i : Taken(c, i)' = Taken(c, i), \A i : Sent(c, i)' = Sent(c, i)
  PROVE  UnderwayOf(c)'
<1>. DEFINE taken == TakenOf(c)
            sent == SentOf(c)
<1>1. /\ asked'[c] \in Seq(Request)
      /\ taken \in [1 .. Len(asked'[c]) -> Int] /\ sent \in [1 .. Len(asked'[c]) -> Int]
      /\ Listing(c, up'[c], asked'[c], taken, sent)
  BY StateIs
<1>2. \A i \in 1 .. Len(asked'[c]) :
           /\ Taken(c, i)' = taken[i] /\ Sent(c, i)' = sent[i]
           /\ taken[i] <= sent[i] /\ sent[i] <= Count(asked'[c][i])
  BY StateIs DEF TakenOf, SentOf
<1>. HIDE DEF taken, sent
<1>. QED
  BY <1>1, <1>2, UnderwayFrom

LEMMA HasReceivedSame ==
  ASSUME rendezvous' = rendezvous
  PROVE  \A k, a, t, l, p : HasReceived(k, a, t, l, p)' <=> HasReceived(k, a, t, l, p)
<1>1. \A k, a : HandlerSends(k, a)' = HandlerSends(k, a)
  BY SendsSame
<1>2. ASSUME NEW k, NEW a, NEW t, NEW l, NEW p
      PROVE  HasReceived(k, a, t, l, p)' <=> HasReceived(k, a, t, l, p)
  <2>1. Len(HandlerSends(k, a))' = Len(HandlerSends(k, a))
    BY <1>1
  <2>. QED
    BY <2>1 DEF HasReceived
<1>. QED
  BY <1>2

\* The parts ms are on their way and us are still to be sent, the others were received.
OnTheWay(sends, t, ms, us) ==
  /\ t < Len(sends) /\ t + Len(ms) + Len(us) = Len(sends)
  /\ \A x \in 1 .. Len(ms) : SamePart(ms[x], sends[t + x])
  /\ \A x \in 1 .. Len(us) : us[x] = sends[t + Len(ms) + x]

\* How Answered is shown after a step.
LEMMA AnsweredIsNext ==
  ASSUME NEW c, waiting'[c], rendezvous' = rendezvous,
         NEW k \in Kind, NEW a \in Answers(Plain(k)), answer'[c] = a,
         NEW t \in 0 .. 2, HasReceived(k, a, t, todo'[c], got'[c]),
         OnTheWay(HandlerSends(k, a), t, down'[c], Unsaid(c)')
  PROVE  Answered(c)'
<1>1. HandlerSends(k, a)' = HandlerSends(k, a)
  BY SendsSame
<1>2. HandlerSends(k, answer[c])' = HandlerSends(k, a)
  BY <1>1
<1>3. PICK l, p : l = todo'[c] /\ p = got'[c]
  OBVIOUS
<1>4. HasReceived(k, a, t, l, p)'
  BY <1>3, HasReceivedSame
<1>5. HasReceived(k, answer[c], t, todo[c], got[c])'
  BY <1>3, <1>4, Zenon DEF HasReceived
<1>. QED
  BY <1>2, <1>5, Zenon DEF Answered, SamePart, OnTheWay

LEMMA ClientSame ==
  ASSUME TransportInv, rendezvous' = rendezvous, NEW c \in Client,
         asked'[c] = asked[c], waiting'[c] = waiting[c], answer'[c] = answer[c],
         down'[c] = down[c], todo'[c] = todo[c], got'[c] = got[c], Unsaid(c)' = Unsaid(c)
  PROVE  ClientOf(c)'
<1>1. LastWaits(c)'
  BY DEF LastWaits, TransportInv, ClientInv, ClientOf
<1>2. CASE AtRest(c)
  BY <1>1, <1>2 DEF ClientOf, AtRest, NotAnswered
<1>3. CASE Asking(c)
  <2>1. \A i : NumParts(c, i)' = NumParts(c, i)
    BY SendsSame DEF NumParts
  <2>2. \A i : CallSteps(c, asked[c][i])' = CallSteps(c, asked[c][i])
    BY SendsSame
  <2>3. Asking(c)'
    BY <1>3, <2>1, <2>2 DEF Asking, NotAnswered
  <2>. QED
    BY <1>1, <2>3 DEF ClientOf
<1>4. CASE Answered(c)
  <2>1. PICK k \in Kind, t \in 0 .. 2 :
           LET sends == HandlerSends(k, answer[c]) IN
           /\ answer[c] \in Answers(Plain(k))
           /\ HasReceived(k, answer[c], t, todo[c], got[c])
           /\ t < Len(sends)
           /\ t + Len(down[c]) + Len(Unsaid(c)) = Len(sends)
           /\ \A x \in 1 .. Len(down[c]) : SamePart(down[c][x], sends[t + x])
           /\ \A x \in 1 .. Len(Unsaid(c)) : Unsaid(c)[x] = sends[t + Len(down[c]) + x]
    BY <1>4 DEF Answered
  <2>2. PICK a \in Answers(Plain(k)) : a = answer[c]
    BY <2>1
  <2>3. OnTheWay(HandlerSends(k, a), t, down'[c], Unsaid(c)')
    BY <2>1, <2>2 DEF OnTheWay
  <2>4. HasReceived(k, a, t, todo'[c], got'[c]) /\ answer'[c] = a
    BY <2>1, <2>2
  <2>5. waiting'[c]
    BY <1>4 DEF Answered
  <2>6. Answered(c)'
    BY <2>3, <2>4, <2>5, AnsweredIsNext
  <2>. QED
    BY <1>1, <2>6 DEF ClientOf
<1>. QED
  BY <1>2, <1>3, <1>4 DEF TransportInv, ClientInv, ClientOf

\* The requests of c are as before, or there is one more.
Kept(c) == /\ Len(asked[c]) \in Nat /\ Len(asked'[c]) \in Nat /\ Len(asked[c]) <= Len(asked'[c])
           /\ \A i \in 1 .. Len(asked[c]) : asked'[c][i] = asked[c][i]

LEMMA FirstKept ==
  ASSUME NEW c, Kept(c), NEW i \in 1 .. Len(asked[c])
  PROVE  /\ i \in 1 .. Len(asked'[c]) /\ asked'[c][i] = asked[c][i]
         /\ IsFirstAsked(c, i)' = IsFirstAsked(c, i)
<1>1. i \in 1 .. Len(asked'[c]) /\ \A j \in 1 .. i - 1 : asked'[c][j] = asked[c][j]
  BY DEF Kept
<1>2. IsFirstAsked(c, i)' <=> IsFirstAsked(c, i)
  BY <1>1 DEF IsFirstAsked, Kept
<1>. QED
  BY <1>1, <1>2 DEF Kept, IsFirstAsked

LEMMA HandlerSame ==
  ASSUME TransportInv, \A c \in Client : Kept(c),
         handler' = handler, todo'[0] = todo[0], got'[0] = got[0],
         \A stage : HandlerAt(stage) => slot'[handler.kind] = slot[handler.kind]
  PROVE  HandlerInv'
<1>1. CASE Idle
  BY <1>1 DEF HandlerInv, Idle
<1>2. CASE HandlerAt("receiving") /\ \E i \in 1 .. Len(asked[handler.from]) : Receives(i)
  <2>1. PICK i \in 1 .. Len(asked[handler.from]) : Receives(i)
    BY <1>2
  <2>2. handler.from \in Client
    BY <1>2 DEF HandlerAt
  <2>3. i \in 1 .. Len(asked'[handler.from]) /\ Receives(i)'
    BY <2>1, <2>2, FirstKept DEF Receives
  <2>4. HandlerAt("receiving")'
    BY <1>2 DEF HandlerAt
  <2>. QED
    BY <2>3, <2>4 DEF HandlerInv
<1>3. CASE HandlerAt("sending") /\ \A i \in 1 .. Len(todo[0]) : todo[0][i].do = "send"
  BY <1>3 DEF HandlerInv, HandlerAt
<1>. QED
  BY <1>1, <1>2, <1>3 DEF TransportInv, HandlerInv

LEMMA HeaderSame ==
  ASSUME TransportInv, \A c \in Client : Kept(c), NEW k \in Kind, slot'[k] = slot[k],
         buffer'[k] = buffer[k] \/ k \notin OwnBuffer,
         (handler.stage = "sending" /\ handler.kind = k) =>
            slot[k] = 0 \/ (handler'.stage = "sending" /\ handler'.kind = k)
  PROVE  HeaderOf(k)'
<1>1. CASE slot[k] = 0
  BY <1>1 DEF HeaderOf
<1>2. CASE slot[k] # 0 /\ (handler'.stage = "sending" => handler'.kind # k)
  <2>1. slot[k] \in Client
    BY <1>2 DEF TransportInv, TypeOK
  <2>2. PICK i \in 1 .. Len(asked[slot[k]]) :
          /\ asked[slot[k]][i].kind = k /\ IsFirstAsked(slot[k], i)
          /\ k \in OwnBuffer => buffer[k] = Header(slot[k], asked[slot[k]][i])
    BY <1>2 DEF TransportInv, HeadersReceived, HeaderOf
  <2>3. /\ i \in 1 .. Len(asked'[slot[k]]) /\ asked'[slot[k]][i] = asked[slot[k]][i]
        /\ IsFirstAsked(slot[k], i)'
    BY <2>1, <2>2, FirstKept
  <2>. QED
    BY <2>2, <2>3 DEF HeaderOf
<1>. QED
  BY <1>1, <1>2 DEF HeaderOf

\* What a handler sends.
LEMMA HandlerSendsAre ==
  ASSUME NEW k \in Kind, NEW a \in Answers(Plain(k))
  PROVE  /\ IsSequence(HandlerSends(k, a)) /\ Len(HandlerSends(k, a)) \in 1 .. 3
         /\ \A i \in 1 .. Len(HandlerSends(k, a)) : HandlerSends(k, a)[i].do = "send"
<1>. DEFINE Are(s, n) == IsSequence(s) /\ Len(s) = n /\ \A i \in 1 .. n : s[i].do = "send"
            s == HandlerSends(k, a)
            tag == <<k, "answer">>
<1>1. \A t, d : Are(Send(t, d), 1)
  BY SendIs, OneIs, MessageIs
<1>. HIDE DEF s
<1>2. ASSUME NEW m1, NEW m2, NEW n1, n1 \in {1, 2}, Are(m1, n1), Are(m2, 1)
      PROVE  Are(m1 \o m2, n1 + 1)
  <2>1. /\ IsSequence(m1 \o m2) /\ Len(m1 \o m2) = n1 + 1
        /\ \A i \in 1 .. n1 : (m1 \o m2)[i] = m1[i]
        /\ \A i \in 1 .. 1 : (m1 \o m2)[n1 + i] = m2[i]
    <3>1. IsSequence(m1) /\ IsSequence(m2)
      BY <1>2 DEF Are
    <3>2. Len(m1) = n1 /\ Len(m2) = 1
      BY <1>2 DEF Are
    <3>3. IsSequence(m1 \o m2)
      BY ONLY <3>1, ConcatIs
    <3>4. Len(m1 \o m2) = Len(m1) + Len(m2)
      BY ONLY <3>1, ConcatIs
    <3>5. \A i \in 1 .. Len(m1) : (m1 \o m2)[i] = m1[i]
      BY ONLY <3>1, ConcatIs
    <3>6. \A i \in 1 .. Len(m2) : (m1 \o m2)[Len(m1) + i] = m2[i]
      BY ONLY <3>1, ConcatIs
    <3>. QED
      BY ONLY <3>2, <3>3, <3>4, <3>5, <3>6
  <2>2. \A i \in 1 .. n1 + 1 : i \in 1 .. n1 \/ i = n1 + 1
    BY <1>2
  <2>. QED
    BY <1>2, <2>1, <2>2
<1>. HIDE DEF Are
<1>3. ASSUME NEW t, NEW i PROVE Are(SendInfo(t, i), 1) \/ Are(SendInfo(t, i), 2)
  <2>1. \A d1, d2 : Are(Send(Size(t), d1) \o Send(t, d2), 2)
    <3>1. \A d1, d2 : Are(Send(Size(t), d1) \o Send(t, d2), 1 + 1)
      BY <1>1, <1>2
    <3>2. 1 + 1 = 2
      OBVIOUS
    <3>. QED
      BY <3>1, <3>2
  <2>. QED
    BY <1>1, <2>1 DEF SendInfo
<1>4. ASSUME NEW t, NEW ids PROVE Are(SendIds(t, ids), 1) \/ Are(SendIds(t, ids), 2)
  <2>1. \A d1, d2 : Are(Send(Size(t), d1) \o Send(t, d2), 2)
    <3>1. \A d1, d2 : Are(Send(Size(t), d1) \o Send(t, d2), 1 + 1)
      BY <1>1, <1>2
    <3>2. 1 + 1 = 2
      OBVIOUS
    <3>. QED
      BY <3>1, <3>2
  <2>2. \A d1 : Are(Send(Size(t), d1) \o <<>>, 1)
    <3>1. \A d1 : Send(Size(t), d1) \o <<>> = Send(Size(t), d1)
      BY SendIs, OneMore
    <3>. QED
      BY <1>1, <3>1
  <2>. QED
    BY <2>1, <2>2 DEF SendIds
<1>5. \E n \in 1 .. 3 : Are(s, n)
  <2>1. CASE k \in {"SESSION_INFO", "GET_PSETS", "PSET_INFO"}
    <3>1. s = SendInfo(tag, a.info)
      BY <2>1 DEF HandlerSends, s
    <3>. QED
      BY <1>3, <3>1
  <2>2. CASE k = "PSET_LOOKUP"
    <3>1. s = SendIds(tag, a.ids)
      BY <2>2 DEF HandlerSends, s
    <3>. QED
      BY <1>4, <3>1
  <2>3. CASE k = "RC"
    <3>. DEFINE p == SendInfo(<<"RC", "info">>, a.info)
                q == Send(tag, <<a.int>>)
    <3>1. s = p \o q
      BY <2>3 DEF HandlerSends, s
    <3>2. PICK n \in {1, 2} : Are(p, n)
      BY <1>3
    <3>3. Are(q, 1)
      BY <1>1
    <3>. HIDE DEF p, q
    <3>4. Are(p \o q, n + 1) /\ n + 1 \in 1 .. 3
      BY <1>2, <3>2, <3>3
    <3>. QED
      BY <3>1, <3>4
  <2>4. CASE k \notin {"SESSION_INFO", "GET_PSETS", "PSET_INFO", "PSET_LOOKUP", "RC"}
    <3>1. k \notin {"PSET_FREE", "RC_ACCEPT"}
      BY AnswersAre
    <3>2. s = Send(tag, <<a.int>>)
      BY <2>4, <3>1 DEF HandlerSends, s
    <3>. QED
      BY <1>1, <3>2
  <2>. QED
    BY <2>1, <2>2, <2>3, <2>4
<1>. QED
  BY <1>5 DEF Are, s

\* u is what is left of the steps of a call from the s-th on.
IsCallRest(c, r, s, u) ==
  LET recvs == CallRecvs(r.kind)
      steps == CallSteps(c, r)
  IN
  /\ Count(r) \in 1 .. 3 /\ IsSequence(u) /\ Len(recvs) \in 0 .. 2
  /\ Len(u) = (Count(r) + 1 - s) + Len(recvs)
  /\ s <= Count(r) => /\ u # <<>> /\ Head(u) = CallSends(c, r)[s] /\ Head(u).do = "send"
                      /\ Tail(u) = SubSeq(steps, s + 1, Len(steps))
  /\ s = Count(r) + 1 => u = recvs /\ (u # <<>> => Head(u).do # "send")
  /\ s = 1 => u = steps

LEMMA CallRest ==
  ASSUME NEW c, NEW r \in Request, NEW s \in 1 .. Count(r) + 1,
         NEW u, u = SubSeq(CallSteps(c, r), s, Len(CallSteps(c, r)))
  PROVE  IsCallRest(c, r, s, u)
<1>. DEFINE p == CallSends(c, r)
            q == CallRecvs(r.kind)
            steps == CallSteps(c, r)
<1>1. r.kind \in Kind
  BY RequestAssumption
<1>2. /\ IsSequence(p) /\ Len(p) = Count(r) /\ Count(r) \in 1 .. 3
      /\ \A j \in 1 .. Count(r) : p[j].do = "send"
  BY CallSendsAre
<1>3. IsSequence(q) /\ Len(q) \in 0 .. 2 /\ \A j \in 1 .. Len(q) : q[j].do # "send"
  BY <1>1, CallRecvsAre
<1>4. steps = p \o q
  BY DEF CallSteps
<1>. HIDE DEF p, q, steps
<1>5. IsRest(p, q, steps, s, u)
  <2>1. s \in 1 .. Len(p) + 1
    BY <1>2
  <2>2. u = SubSeq(steps, s, Len(steps))
    BY DEF steps
  <2>. QED
    BY ONLY <1>2, <1>3, <1>4, <2>1, <2>2, StepsFrom
<1>6. s <= Count(r) => p[s].do = "send"
  BY <1>2
<1>7. q # <<>> => Head(q).do # "send"
  BY <1>3, TailIs
<1>. QED
  BY <1>2, <1>3, <1>5, <1>6, <1>7 DEF IsCallRest, IsRest, p, q, steps

\* The handler that has something to receive can receive it.
LEMMA ReceivesNext ==
  ASSUME TransportInv, HandlerAt("receiving"), todo[0] # <<>>,
         NEW i \in 1 .. Len(asked[handler.from]), Receives(i)
  PROVE  HandlerTakesNext(handler, handler.from, asked[handler.from][i], todo[0], got[0])
<1>. DEFINE f == handler.from
            r == asked[f][i]
<1>1. f \in Client /\ r \in Request
  BY StateIs DEF HandlerAt
<1>2. KnowsHeader(handler, f, r) /\ Receiving(handler, r, todo[0], got[0])
  BY DEF Receives, KnowsHeader
<1>3. r.kind \in NameSent \cup InfoSent
  <2>1. handler.kind = r.kind
    BY <1>2 DEF KnowsHeader
  <2>. QED
    BY <1>2, <2>1, HandlerRecvsAre DEF Receiving
<1>. HIDE DEF r, f
<1>4. HandlerTakesNext(handler, f, r, todo[0], got[0])
  BY <1>1, <1>2, <1>3, HandlerTakesName, HandlerTakesInfo
<1>. QED
  BY <1>4 DEF r, f

\* What a step changes of the calls and the handler.
Rank == Client \cup {0}

LEMMA RankZero ==
  ASSUME NEW f, NEW e, NEW g, g = Replaced(f, Rank, 0, e)
  PROVE  Over(g, Client \cup {0}) /\ g[0] = e /\ \A c \in Client : g[c] = f[c]
<1>1. 0 \in Rank /\ 0 \notin Client
  BY ClientAssumption DEF Rank
<1>2. Over(g, Rank) /\ g[0] = e /\ \A c \in Rank : c # 0 => g[c] = f[c]
  BY <1>1 DEF Replaced, Over
<1>. QED
  BY <1>1, <1>2 DEF Rank

LEMMA RankOf ==
  ASSUME NEW c \in Client, NEW f, NEW e, NEW g, g = Replaced(f, Rank, c, e)
  PROVE  /\ Over(g, Client \cup {0}) /\ g[c] = e /\ g[0] = f[0]
         /\ \A d \in Client : d # c => g[d] = f[d]
<1>1. c \in Rank /\ c # 0
  BY ClientAssumption DEF Rank
<1>2. Over(g, Rank) /\ g[c] = e /\ \A d \in Rank : d # c => g[d] = f[d]
  BY <1>1, ReplacedIs
<1>. QED
  BY <1>1, <1>2 DEF Rank

LEMMA AskingIsNext ==
  ASSUME NEW c, rendezvous' = rendezvous,
         NEW n \in Nat \ {0}, n = Len(asked'[c]), NEW r \in Request, r = asked'[c][n],
         NEW s \in 1 .. Count(r) + 1, todo'[c] = SubSeq(CallSteps(c, r), s, Len(CallSteps(c,
         r))),
         todo'[c] # <<>>, got'[c] = <<>>, waiting'[c] = (Answers(r) # {}), NotAnswered(c)'
  PROVE  Asking(c)'
<1>1. CallSteps(c, asked[c][Len(asked[c])])' = CallSteps(c, r)
  <2>1. CallSteps(c, r)' = CallSteps(c, r)
    BY SendsSame
  <2>. QED
    BY <2>1
<1>2. NumParts(c, Len(asked[c]))' = Count(r)
  BY SendsSame, CallSendsAre DEF NumParts
<1>3. Len(asked'[c]) > 0
  OBVIOUS
<1>4. \E z \in 1 .. Count(r) + 1 : todo'[c] = SubSeq(CallSteps(c, r), z, Len(CallSteps(c, r)))
  OBVIOUS
<1>5. waiting'[c] = (Answers(asked'[c][Len(asked'[c])]) # {})
  OBVIOUS
<1>. QED
  BY <1>1, <1>2, <1>3, <1>4, <1>5 DEF Asking

-----------------------------------------------------------------------------
(***************************************************************************)
(* The steps of the scheduler.                                             *)
(***************************************************************************)
LEMMA HandlerSendsNext ==
  ASSUME TransportInv, SendNext(0)
  PROVE  TransportInv'
<1>. PICK f : f = handler.from
  OBVIOUS
<1>. DEFINE s == Head(todo[0])
            m == [tag |-> s.tag, data |-> s.data, sync |-> s.sync]
<1>1. /\ todo[0] # <<>> /\ s.do = "send"
      /\ down' = [down EXCEPT ![f] = Append(@, m)] /\ up' = up
      /\ todo' = [todo EXCEPT ![0] = Tail(@)]
      /\ UNCHANGED <<rendezvous, scheduler, got, calls, history>>
  BY DEF SendNext
<1>2. 0 \notin Client
  BY ClientAssumption
<1>3. TypeOK /\ HandlerInv
  BY DEF TransportInv
<1>4. HandlerAt("sending") /\ \A i \in 1 .. Len(todo[0]) : todo[0][i].do = "send"
  <2>1. ASSUME HandlerAt("receiving"), NEW i \in 1 .. Len(asked[f]), Receives(i) PROVE FALSE
    <3>1. HandlerTakesNext(handler, f, asked[f][i], todo[0], got[0])
      BY <1>1, <2>1, ReceivesNext
    <3>. QED
      BY <1>1, <3>1, Zenon DEF HandlerTakesNext
  <2>. QED
    BY <1>1, <1>3, <2>1, Zenon DEF HandlerInv, Idle
<1>5. f \in Client /\ handler.stage = "sending"
  BY <1>4 DEF HandlerAt
<1>6. IsSequence(todo[0]) /\ IsSequence(down[f])
  BY <1>3, <1>5 DEF TypeOK
<1>7. /\ s = todo[0][1] /\ Len(todo[0]) \in Nat \ {0} /\ IsSequence(Tail(todo[0]))
      /\ Len(Tail(todo[0])) = Len(todo[0]) - 1
      /\ \A i \in 1 .. Len(todo[0]) - 1 : Tail(todo[0])[i] = todo[0][i + 1]
  BY <1>1, <1>6, TailIs
<1>8. /\ IsSequence(Append(down[f], m)) /\ Len(Append(down[f], m)) = Len(down[f]) + 1
      /\ Len(down[f]) \in Nat
      /\ \A x \in 1 .. Len(down[f]) : Append(down[f], m)[x] = down[f][x]
      /\ Append(down[f], m)[Len(down[f]) + 1] = m
  BY <1>6, AppendIs
<1>. HIDE DEF m, s
<1>9. /\ Over(todo', Client \cup {0}) /\ todo'[0] = Tail(todo[0])
      /\ \A c \in Client : todo'[c] = todo[c]
  <2>1. todo' = Replaced(todo, Rank, 0, Tail(todo[0]))
    BY <1>1, <1>3 DEF TypeOK, Over, Replaced, Rank
  <2>. QED
    BY <2>1, RankZero
<1>10. /\ Over(down', Client) /\ down'[f] = Append(down[f], m)
       /\ \A c \in Client : c # f => down'[c] = down[c]
  <2>1. down' = Replaced(down, Client, f, Append(down[f], m))
    BY <1>1, <1>3 DEF TypeOK, Over, Replaced
  <2>. QED
    BY <1>5, <2>1 DEF Replaced, Over
<1>11. TypeOK'
  <2>1. \A p \in Client \cup {0} : IsSequence(todo'[p])
    BY <1>3, <1>7, <1>9 DEF TypeOK
  <2>2. \A c \in Client : IsSequence(down'[c])
    BY <1>3, <1>8, <1>10 DEF TypeOK
  <2>. QED
    BY <1>1, <1>3, <1>9, <1>10, <2>1, <2>2 DEF TypeOK, scheduler, history
<1>12. ASSUME NEW c \in Client PROVE UnderwayOf(c)'
  <2>1. asked' = asked /\ rendezvous' = rendezvous /\ slot' = slot /\ handler' = handler
    BY <1>1 DEF scheduler, history
  <2>2. \A i : Taken(c, i)' = Taken(c, i)
    BY <1>5, <2>1, TakenSame
  <2>3. \A i : Sent(c, i)' = Sent(c, i)
    BY <1>9, <2>1, SentSame
  <2>. QED
    BY <1>1, <2>1, <2>2, <2>3, UnderwaySame
<1>13. \A c \in Client : Kept(c)
  BY <1>1, StateIs DEF Kept, history
<1>14. ASSUME NEW k \in Kind PROVE HeaderOf(k)'
  BY <1>1, <1>13, HeaderSame DEF scheduler
<1>15. HandlerInv'
  <2>1. HandlerAt("sending")'
    BY <1>1, <1>4 DEF HandlerAt, scheduler
  <2>2. \A i \in 1 .. Len(todo'[0]) : todo'[0][i].do = "send"
    <3>1. \A i \in 1 .. Len(todo[0]) - 1 : i + 1 \in 1 .. Len(todo[0])
      BY <1>7
    <3>. QED
      BY <1>4, <1>7, <1>9, <3>1
  <2>. QED
    BY <2>1, <2>2 DEF HandlerInv
<1>16. ASSUME NEW c \in Client, c # f PROVE ClientOf(c)'
  <2>1. Unsaid(c) = <<>> /\ Unsaid(c)' = <<>>
    BY <1>1, <1>5, <1>16 DEF Unsaid, scheduler
  <2>. QED
    BY <1>1, <1>9, <1>10, <1>16, <2>1, ClientSame DEF history
<1>17. ClientOf(f)'
  <2>1. Unsaid(f) = todo[0] /\ Unsaid(f)' = Tail(todo[0])
    BY <1>1, <1>5, <1>9 DEF Unsaid, scheduler
  <2>2. Answered(f) /\ LastWaits(f)
    BY <1>1, <1>5, <2>1 DEF TransportInv, ClientInv, ClientOf, AtRest, Asking, NotAnswered
  <2>3. PICK k \in Kind, t \in 0 .. 2 :
           LET sends == HandlerSends(k, answer[f]) IN
           /\ answer[f] \in Answers(Plain(k))
           /\ HasReceived(k, answer[f], t, todo[f], got[f])
           /\ t < Len(sends)
           /\ t + Len(down[f]) + Len(Unsaid(f)) = Len(sends)
           /\ \A x \in 1 .. Len(down[f]) : SamePart(down[f][x], sends[t + x])
           /\ \A x \in 1 .. Len(Unsaid(f)) : Unsaid(f)[x] = sends[t + Len(down[f]) + x]
    BY <2>2 DEF Answered
  <2>4. PICK l \in Nat : l = Len(down[f])
    BY <1>8
  <2>5. PICK u \in Nat \ {0} : u = Len(todo[0])
    BY <1>7
  <2>6. PICK sends : sends = HandlerSends(k, answer[f])
    OBVIOUS
  <2>7. /\ answer[f] \in Answers(Plain(k)) /\ t < Len(sends) /\ t + l + u = Len(sends)
        /\ HasReceived(k, answer[f], t, todo[f], got[f])
        /\ \A x \in 1 .. l : SamePart(down[f][x], sends[t + x])
        /\ \A x \in 1 .. u : todo[0][x] = sends[t + l + x]
    BY <2>1, <2>3, <2>4, <2>5, <2>6
  <2>8. sends[t + l + 1] = s /\ SamePart(m, s)
    BY <1>7, <2>5, <2>7 DEF SamePart, m
  <2>9. Len(down'[f]) = l + 1 /\ Len(Unsaid(f)') = u - 1 /\ t + (l + 1) + (u - 1) = Len(sends)
    <3>1. Len(down'[f]) = l + 1
      BY <1>8, <1>10, <2>4
    <3>2. Len(Unsaid(f)') = u - 1
      BY <1>7, <2>1, <2>5
    <3>3. t + (l + 1) + (u - 1) = t + l + u
      OBVIOUS
    <3>. QED
      BY <2>7, <3>1, <3>2, <3>3
  <2>10. \A x \in 1 .. l + 1 : SamePart(down'[f][x], sends[t + x])
    <3>1. SUFFICES ASSUME NEW x \in 1 .. l + 1 PROVE SamePart(down'[f][x], sends[t + x])
      OBVIOUS
    <3>2. CASE x = l + 1
      <4>1. t + x = t + l + 1
        BY <3>2
      <4>. QED
        BY <1>8, <1>10, <2>4, <2>8, <3>2, <4>1
    <3>3. CASE x \in 1 .. l
      BY <1>8, <1>10, <2>4, <2>7, <3>3
    <3>. QED
      BY <3>2, <3>3
  <2>11. \A x \in 1 .. u - 1 : Unsaid(f)'[x] = sends[t + (l + 1) + x]
    <3>1. \A x \in 1 .. u - 1 : x + 1 \in 1 .. u /\ t + l + (x + 1) = t + (l + 1) + x
      OBVIOUS
    <3>2. \A x \in 1 .. u - 1 : Unsaid(f)'[x] = todo[0][x + 1]
      BY <1>7, <2>1, <2>5
    <3>3. \A x \in 1 .. u - 1 : todo[0][x + 1] = sends[t + l + (x + 1)]
      BY <2>7, <3>1
    <3>. QED
      BY <3>1, <3>2, <3>3
  <2>12. Answered(f)'
    <3>1. waiting'[f] /\ answer'[f] = answer[f] /\ got'[f] = got[f] /\ rendezvous' = rendezvous
      BY <1>1, <2>2 DEF Answered, history
    <3>2. todo'[f] = todo[f]
      BY <1>5, <1>9
    <3>. DEFINE d == down'[f]
                w == Unsaid(f)'
    <3>3. t + Len(d) + Len(w) = Len(sends) /\ answer'[f] \in Answers(Plain(k)) /\ t < Len(sends)
      BY <2>7, <2>9, <3>1
    <3>4. \A x \in 1 .. Len(d) : SamePart(d[x], sends[t + x])
      BY <2>9, <2>10
    <3>5. \A x \in 1 .. Len(w) : w[x] = sends[t + Len(d) + x]
      BY <2>9, <2>11
    <3>6. HasReceived(k, answer'[f], t, todo'[f], got'[f])
      BY <2>7, <3>1, <3>2
    <3>7. OnTheWay(sends, t, d, w)
      BY ONLY <3>3, <3>4, <3>5 DEF OnTheWay
    <3>8. OnTheWay(HandlerSends(k, answer'[f]), t, down'[f], Unsaid(f)')
      BY <2>6, <3>1, <3>7
    <3>9. PICK a : a = answer'[f]
      OBVIOUS
    <3>. QED
      BY <3>1, <3>3, <3>6, <3>8, <3>9, AnsweredIsNext
  <2>13. LastWaits(f)'
    BY <1>1, <2>2 DEF LastWaits, history
  <2>. QED
    BY <2>12, <2>13 DEF ClientOf
<1>. QED
  BY <1>11, <1>12, <1>14, <1>15, <1>16, <1>17
     DEF TransportInv, RequestsUnderway, HeadersReceived, ClientInv

\* A header becomes a handler, which has received nothing yet.
LEMMA WaitanyTakes ==
  ASSUME TransportInv, NEW k \in Kind, Waitany(k)
  PROVE  TransportInv'
<1>. PICK f : f = slot[k]
  OBVIOUS
<1>. DEFINE h == [stage |-> "receiving", kind |-> k, from |-> f, head |-> buffer[BufferOf(k)]]
<1>1. /\ handler = NoHandler /\ f # 0 /\ handler' = h
      /\ todo' = [todo EXCEPT ![0] = HandlerRecvs(handler')] /\ got' = [got EXCEPT ![0] = <<>>]
      /\ UNCHANGED <<rendezvous, net, slot, buffer, calls, history>>
  BY DEF Waitany
<1>2. 0 \notin Client
  BY ClientAssumption
<1>3. TypeOK /\ HandlerInv
  BY DEF TransportInv
<1>4. handler.stage = "none" /\ todo[0] = <<>>
  <2>1. handler.stage = "none"
    BY <1>1 DEF NoHandler
  <2>. QED
    BY <1>3, <2>1 DEF HandlerInv, Idle, HandlerAt
<1>5. f \in Client
  BY <1>1, <1>3 DEF TypeOK
<1>6. /\ handler'.stage = "receiving" /\ handler'.kind = k /\ handler'.from = f
      /\ handler'.head = buffer[BufferOf(k)]
  BY <1>1
<1>. HIDE DEF h
<1>7. /\ Over(todo', Client \cup {0}) /\ todo'[0] = HandlerRecvs(handler')
      /\ \A c \in Client : todo'[c] = todo[c]
  <2>1. todo' = Replaced(todo, Rank, 0, HandlerRecvs(handler'))
    BY <1>1, <1>3 DEF TypeOK, Over, Replaced, Rank
  <2>. QED
    BY <2>1, RankZero
<1>8. /\ Over(got', Client \cup {0}) /\ got'[0] = <<>> /\ \A c \in Client : got'[c] = got[c]
  <2>1. got' = Replaced(got, Rank, 0, <<>>)
    BY <1>1, <1>3 DEF TypeOK, Over, Replaced, Rank
  <2>. QED
    BY <1>2, <2>1 DEF Replaced, Over, Rank
<1>9. /\ IsSequence(todo'[0])
      /\ k \notin NameSent \cup InfoSent => todo'[0] = <<>>
      /\ k \in NameSent \cup InfoSent => todo'[0] # <<>> /\ Head(todo'[0]).do # "recv_info_data"
  BY <1>6, <1>7, HandlerRecvsAre, OneIs, OneMore, EmptyIs
<1>10. TypeOK'
  BY <1>1, <1>3, <1>7, <1>8, <1>9, EmptyIs DEF TypeOK, net, history
<1>11. ASSUME NEW c \in Client PROVE UnderwayOf(c)'
  <2>1. asked' = asked /\ rendezvous' = rendezvous /\ slot' = slot /\ up' = up
    BY <1>1 DEF net, history
  <2>2. \A i : Sent(c, i)' = Sent(c, i)
    BY <1>7, <2>1, SentSame
  <2>3. ASSUME NEW i \in 1 .. Len(asked[c]) PROVE Taken(c, i)' = Taken(c, i)
    <3>. DEFINE kk == asked[c][i].kind
    <3>1. IsFirstAsked(c, i)' = IsFirstAsked(c, i) /\ asked'[c][i].kind = kk
      BY <2>1 DEF IsFirstAsked
    <3>2. CASE slot[kk] # c \/ ~IsFirstAsked(c, i)
      BY <2>1, <3>1, <3>2 DEF Taken
    <3>3. CASE slot[kk] = c /\ IsFirstAsked(c, i)
      <4>1. Taken(c, i) = 1
        BY <1>4, <3>3 DEF Taken
      <4>2. CASE kk # k
        BY <1>6, <2>1, <3>1, <3>3, <4>1, <4>2 DEF Taken
      <4>3. CASE kk = k /\ k \in NameSent \cup InfoSent
        BY <1>6, <1>9, <2>1, <3>1, <3>3, <4>1, <4>3 DEF Taken
      <4>4. CASE kk = k /\ k \notin NameSent \cup InfoSent
        <5>1. NumParts(c, i)' = NumParts(c, i)
          BY <2>1, SendsSame DEF NumParts
        <5>2. NumParts(c, i) = 1
          BY <4>4, StateIs DEF Count
        <5>. QED
          BY <1>6, <1>9, <2>1, <3>1, <3>3, <4>1, <4>4, <5>1, <5>2 DEF Taken
      <4>. QED
        BY <4>2, <4>3, <4>4
    <3>. QED
      BY <3>2, <3>3
  <2>. DEFINE taken == TakenOf(c)
              sent == SentOf(c)
  <2>4. /\ asked'[c] \in Seq(Request)
        /\ taken \in [1 .. Len(asked'[c]) -> Int] /\ sent \in [1 .. Len(asked'[c]) -> Int]
        /\ Listing(c, up'[c], asked'[c], taken, sent)
    BY <2>1, StateIs
  <2>5. \A i \in 1 .. Len(asked'[c]) :
           /\ Taken(c, i)' = taken[i] /\ Sent(c, i)' = sent[i]
           /\ taken[i] <= sent[i] /\ sent[i] <= Count(asked'[c][i])
    BY <2>1, <2>2, <2>3, StateIs DEF TakenOf, SentOf
  <2>. HIDE DEF taken, sent
  <2>. QED
    BY <2>4, <2>5, UnderwayFrom
<1>12. \A c \in Client : Kept(c)
  BY <1>1, StateIs DEF Kept, history
<1>13. ASSUME NEW k2 \in Kind PROVE HeaderOf(k2)'
  BY <1>1, <1>4, <1>12, HeaderSame
<1>14. HandlerInv'
  <2>1. HandlerAt("receiving")'
    BY <1>1, <1>5 DEF HandlerAt, h
  <2>2. PICK i \in 1 .. Len(asked[f]) :
          /\ asked[f][i].kind = k /\ IsFirstAsked(f, i)
          /\ k \in OwnBuffer => buffer[k] = Header(f, asked[f][i])
    BY <1>1, <1>4 DEF TransportInv, HeadersReceived, HeaderOf
  <2>3. k \in OwnBuffer => BufferOf(k) = k
    BY DEF OwnBuffer, BufferOf
  <2>4. IsFirstAsked(f, i)' /\ asked' = asked
    BY <1>1, <2>2 DEF IsFirstAsked, history
  <2>5. Receiving(handler', asked'[f][i], todo'[0], got'[0])
    BY <1>7, <1>8 DEF Receiving
  <2>6. Receives(i)'
    BY <1>6, <2>2, <2>3, <2>4, <2>5 DEF Receives, Receiving
  <2>. QED
    BY <1>6, <2>1, <2>4, <2>6 DEF HandlerInv
<1>15. ASSUME NEW c \in Client PROVE ClientOf(c)'
  <2>1. Unsaid(c) = <<>> /\ Unsaid(c)' = <<>>
    BY <1>4, <1>6 DEF Unsaid
  <2>. QED
    BY <1>1, <1>7, <1>8, <2>1, ClientSame DEF net, history
<1>. QED
  BY <1>10, <1>11, <1>13, <1>14, <1>15
     DEF TransportInv, RequestsUnderway, HeadersReceived, ClientInv

\* The handler is done: the next header of its kind may come from anyone.
LEMMA RepostPosts ==
  ASSUME TransportInv, Repost
  PROVE  TransportInv'
<1>. PICK k : k = handler.kind
  OBVIOUS
<1>1. /\ handler.stage = "sending" /\ todo[0] = <<>> /\ handler' = NoHandler
      /\ slot' = [slot EXCEPT ![k] = 0]
      /\ UNCHANGED <<rendezvous, net, buffer, todo, got, calls, history>>
  BY DEF Repost
<1>2. 0 \notin Client
  BY ClientAssumption
<1>3. TypeOK /\ HandlerAt("sending")
  BY <1>1 DEF TransportInv, HandlerInv, Idle, HandlerAt, NoHandler
<1>4. k \in Kind /\ handler'.stage = "none"
  BY <1>1, <1>3 DEF HandlerAt, NoHandler
<1>5. /\ slot' \in [Kind -> Client \cup {0}] /\ slot'[k] = 0
      /\ \A k2 \in Kind : k2 # k => slot'[k2] = slot[k2]
  BY <1>1, <1>3, <1>4 DEF TypeOK
<1>6. TypeOK'
  BY <1>1, <1>3, <1>5 DEF TypeOK, net, history
<1>7. ASSUME NEW c \in Client PROVE UnderwayOf(c)'
  <2>1. asked' = asked /\ rendezvous' = rendezvous /\ up' = up /\ todo' = todo
    BY <1>1 DEF net, history
  <2>2. \A i : Sent(c, i)' = Sent(c, i)
    BY <2>1, SentSame
  <2>3. ASSUME NEW i \in 1 .. Len(asked[c]) PROVE Taken(c, i)' = Taken(c, i)
    <3>. DEFINE kk == asked[c][i].kind
    <3>1. IsFirstAsked(c, i)' = IsFirstAsked(c, i) /\ asked'[c][i].kind = kk /\ kk \in Kind
      BY <2>1, StateIs DEF IsFirstAsked
    <3>2. CASE kk = k
      BY <1>1, <1>2, <1>4, <1>5, <3>1, <3>2 DEF Taken
    <3>3. CASE kk # k
      BY <1>1, <1>4, <1>5, <3>1, <3>3 DEF Taken
    <3>. QED
      BY <3>2, <3>3
  <2>. DEFINE taken == TakenOf(c)
              sent == SentOf(c)
  <2>4. /\ asked'[c] \in Seq(Request)
        /\ taken \in [1 .. Len(asked'[c]) -> Int] /\ sent \in [1 .. Len(asked'[c]) -> Int]
        /\ Listing(c, up'[c], asked'[c], taken, sent)
    BY <2>1, StateIs
  <2>5. \A i \in 1 .. Len(asked'[c]) :
           /\ Taken(c, i)' = taken[i] /\ Sent(c, i)' = sent[i]
           /\ taken[i] <= sent[i] /\ sent[i] <= Count(asked'[c][i])
    BY <2>1, <2>2, <2>3, StateIs DEF TakenOf, SentOf
  <2>. HIDE DEF taken, sent
  <2>. QED
    BY <2>4, <2>5, UnderwayFrom
<1>8. \A c \in Client : Kept(c)
  BY <1>1, StateIs DEF Kept, history
<1>9. ASSUME NEW k2 \in Kind PROVE HeaderOf(k2)'
  <2>1. CASE k2 = k
    BY <1>5, <2>1 DEF HeaderOf
  <2>2. CASE k2 # k
    BY <1>1, <1>5, <1>8, <2>2, HeaderSame
  <2>. QED
    BY <2>1, <2>2
<1>10. HandlerInv'
  BY <1>1 DEF HandlerInv, Idle
<1>11. ASSUME NEW c \in Client PROVE ClientOf(c)'
  <2>1. Unsaid(c) = <<>> /\ Unsaid(c)' = <<>>
    BY <1>1, <1>4 DEF Unsaid
  <2>. QED
    BY <1>1, <2>1, ClientSame DEF net, history
<1>. QED
  BY <1>6, <1>7, <1>9, <1>10, <1>11
     DEF TransportInv, RequestsUnderway, HeadersReceived, ClientInv

-----------------------------------------------------------------------------
(***************************************************************************)
(* The steps of the clients.                                               *)
(***************************************************************************)
Alone(c) ==
  /\ UNCHANGED <<rendezvous, scheduler>> /\ todo'[0] = todo[0] /\ got'[0] = got[0]
  /\ \A d \in Client : d # c =>
       /\ up'[d] = up[d] /\ down'[d] = down[d] /\ todo'[d] = todo[d] /\ got'[d] = got[d]
       /\ asked'[d] = asked[d] /\ waiting'[d] = waiting[d] /\ answer'[d] = answer[d]
  /\ Kept(c)

\* A step of c that only c takes part in is a matter of c.
LEMMA AloneIs ==
  ASSUME TransportInv, NEW c \in Client, Alone(c), TypeOK', UnderwayOf(c)', ClientOf(c)'
  PROVE  TransportInv'
<1>1. rendezvous' = rendezvous /\ slot' = slot /\ buffer' = buffer /\ handler' = handler
  BY DEF Alone, scheduler
<1>2. ASSUME NEW d \in Client, d # c PROVE UnderwayOf(d)' /\ ClientOf(d)' /\ Kept(d)
  <2>1. /\ up'[d] = up[d] /\ down'[d] = down[d] /\ todo'[d] = todo[d] /\ got'[d] = got[d]
        /\ asked'[d] = asked[d] /\ waiting'[d] = waiting[d] /\ answer'[d] = answer[d]
        /\ todo'[0] = todo[0]
    BY <1>2 DEF Alone
  <2>2. UnderwayOf(d)'
    BY <1>1, <2>1, TakenSame, SentSame, UnderwaySame
  <2>3. Unsaid(d)' = Unsaid(d)
    BY <1>1, <2>1 DEF Unsaid
  <2>4. ClientOf(d)'
    BY <1>1, <2>1, <2>3, ClientSame
  <2>. QED
    BY <2>1, <2>2, <2>4, StateIs DEF Kept
<1>3. \A d \in Client : Kept(d)
  BY <1>2 DEF Alone
<1>4. HandlerInv'
  BY <1>1, <1>3, HandlerSame DEF Alone
<1>5. ASSUME NEW k \in Kind PROVE HeaderOf(k)'
  BY <1>1, <1>3, HeaderSame
<1>. QED
  BY <1>2, <1>4, <1>5 DEF TransportInv, RequestsUnderway, HeadersReceived, ClientInv

\* A client asks only when it knows and waits for nothing.
LEMMA InvokeAsks ==
  ASSUME TransportInv, NEW c \in Client, Invoke(c)
  PROVE  TransportInv'
<1>1. PICK r \in Request :
        /\ todo[c] = <<>>
        /\ todo' = [todo EXCEPT ![c] = CallSteps(c, r)]
        /\ asked' = [asked EXCEPT ![c] = Append(@, r)]
        /\ waiting' = [waiting EXCEPT ![c] = Answers(r) # {}]
        /\ got' = [got EXCEPT ![c] = <<>>]
        /\ returned' = [returned EXCEPT ![c] = M!Nothing]
        /\ UNCHANGED <<rendezvous, net, scheduler, answer>>
  BY DEF Invoke
<1>2. TypeOK /\ ClientOf(c)
  BY DEF TransportInv, ClientInv
<1>3. AtRest(c) /\ LastWaits(c)
  <2>1. ~Asking(c) /\ ~Answered(c)
    BY <1>1, AnsweredIs DEF Asking, TakesNext
  <2>. QED
    BY <1>2, <2>1 DEF ClientOf
<1>4. Over(todo', Client \cup {0}) /\ todo'[c] = CallSteps(c, r) /\ todo'[0] = todo[0]
      /\ \A d \in Client : d # c => todo'[d] = todo[d]
  <2>1. todo' = Replaced(todo, Rank, c, CallSteps(c, r))
    BY <1>1, <1>2 DEF TypeOK, Over, Replaced, Rank
  <2>. QED
    BY <2>1, RankOf
<1>5. Over(got', Client \cup {0}) /\ got'[c] = <<>> /\ got'[0] = got[0]
      /\ \A d \in Client : d # c => got'[d] = got[d]
  <2>1. got' = Replaced(got, Rank, c, <<>>)
    BY <1>1, <1>2 DEF TypeOK, Over, Replaced, Rank
  <2>2. PICK e : e = <<>>
    OBVIOUS
  <2>3. got' = Replaced(got, Rank, c, e)
    BY <2>1, <2>2
  <2>4. Over(got', Client \cup {0}) /\ got'[c] = e /\ got'[0] = got[0]
        /\ \A d \in Client : d # c => got'[d] = got[d]
    BY ONLY <2>3, RankOf, c \in Client
  <2>. QED
    BY <2>2, <2>4
<1>6. PICK n \in Nat : n = Len(asked[c])
  BY StateIs
<1>7. /\ asked' \in [Client -> Seq(Request)] /\ asked'[c] = Append(asked[c], r)
      /\ \A d \in Client : d # c => asked'[d] = asked[d]
  BY <1>1, <1>2 DEF TypeOK
<1>8. /\ asked'[c] \in Seq(Request) /\ Len(asked'[c]) = n + 1 /\ asked'[c][n + 1] = r
      /\ \A i \in 1 .. n : asked'[c][i] = asked[c][i]
  BY <1>2, <1>6, <1>7 DEF TypeOK
<1>9. /\ waiting' \in [Client -> BOOLEAN] /\ waiting'[c] = (Answers(r) # {})
      /\ \A d \in Client : d # c => waiting'[d] = waiting[d]
  BY <1>1, <1>2 DEF TypeOK
<1>10. r.kind \in Kind /\ Count(r) \in 1 .. 3 /\ NumParts(c, n + 1)' = Count(r)
  <2>1. CallSends(c, r)' = CallSends(c, r)
    BY <1>1, SendsSame
  <2>2. NumParts(c, n + 1)' = Len(CallSends(c, r))
    BY <1>8, <2>1 DEF NumParts
  <2>. QED
    BY <2>2, CallSendsAre, RequestAssumption
<1>11. PICK steps : steps = CallSteps(c, r)
  OBVIOUS
<1>12. /\ IsSequence(steps) /\ steps # <<>> /\ Head(steps).do = "send"
       /\ steps = SubSeq(steps, 1, Len(steps))
       /\ Len(steps) = Count(r) + Len(CallRecvs(r.kind)) /\ Len(CallRecvs(r.kind)) \in 0 .. 2
  <2>1. PICK s \in 1 .. Count(r) + 1 : s = 1
    BY <1>10
  <2>2. PICK u : u = SubSeq(CallSteps(c, r), s, Len(CallSteps(c, r)))
    OBVIOUS
  <2>3. s <= Count(r) /\ (Count(r) + 1) - s = Count(r)
    BY <1>10, <2>1
  <2>4. /\ IsSequence(u) /\ u # <<>> /\ Head(u).do = "send" /\ u = CallSteps(c, r)
        /\ Len(u) = Count(r) + Len(CallRecvs(r.kind)) /\ Len(CallRecvs(r.kind)) \in 0 .. 2
    <3>1. IsCallRest(c, r, s, u)
      BY <2>2, CallRest
    <3>. QED
      BY <2>1, <2>3, <3>1 DEF IsCallRest
  <2>. QED
    BY <1>11, <2>1, <2>2, <2>4
<1>13. TypeOK'
  <2>1. \A p \in Client \cup {0} : IsSequence(todo'[p]) /\ IsSequence(got'[p])
    BY <1>2, <1>4, <1>5, <1>11, <1>12, EmptyIs DEF TypeOK
  <2>2. Over(returned', Client)
    BY <1>1, <1>2 DEF TypeOK, Over
  <2>. QED
    BY <1>1, <1>2, <1>4, <1>5, <1>7, <1>9, <2>1, <2>2 DEF TypeOK, net, scheduler
<1>14. Kept(c)
  BY <1>6, <1>8 DEF Kept
<1>15. Alone(c)
  BY <1>1, <1>4, <1>5, <1>7, <1>9, <1>14 DEF Alone, net
<1>16. /\ \A i \in 1 .. n : Sent(c, i) = Count(asked[c][i]) /\ Sent(c, i)' = Count(asked[c][i])
       /\ Sent(c, n + 1)' = 0
  <2>1. Unsent(c) = 0 /\ Unsent(c)' = Count(r)
    <3>1. Unsent(c) = 0
      BY <1>1 DEF Unsent
    <3>2. Unsent(c)' = Len(steps) - Len(CallRecvs(r.kind))
      BY <1>4, <1>8, <1>11, <1>12 DEF Unsent
    <3>. QED
      BY <1>10, <1>12, <3>1, <3>2
  <2>2. ASSUME NEW i \in 1 .. n
        PROVE  Sent(c, i) = Count(asked[c][i]) /\ Sent(c, i)' = Count(asked[c][i])
    <3>1. NumParts(c, i)' = NumParts(c, i)
      BY <1>1, <1>8, SendsSame DEF NumParts
    <3>2. NumParts(c, i) = Count(asked[c][i]) /\ Count(asked[c][i]) \in 1 .. 3
      BY <1>6, StateIs
    <3>. QED
      BY <1>6, <1>8, <2>1, <3>1, <3>2 DEF Sent
  <2>3. Sent(c, n + 1)' = 0
    BY <1>8, <1>10, <2>1 DEF Sent
  <2>. QED
    BY <2>2, <2>3
<1>17. /\ \A i \in 1 .. n : Taken(c, i)' = Taken(c, i)
       /\ Taken(c, n + 1)' = 0
  <2>1. slot' = slot /\ handler' = handler /\ todo'[0] = todo[0]
    BY <1>1, <1>4 DEF scheduler
  <2>2. ASSUME NEW i \in 1 .. n PROVE Taken(c, i)' = Taken(c, i)
    <3>1. asked'[c][i] = asked[c][i] /\ IsFirstAsked(c, i)' = IsFirstAsked(c, i)
      BY <1>6, <1>14, FirstKept
    <3>2. NumParts(c, i)' = NumParts(c, i)
      BY <1>1, <1>8, SendsSame DEF NumParts
    <3>. QED
      BY <2>1, <3>1, <3>2 DEF Taken
  <2>3. ASSUME slot[r.kind] = c, IsFirstAsked(c, n + 1)'
        PROVE  handler.stage = "sending" /\ handler.kind = r.kind
    <3>1. SUFFICES ASSUME ~(handler.stage = "sending" /\ handler.kind = r.kind) PROVE FALSE
      OBVIOUS
    <3>2. slot[r.kind] # 0
      BY <2>3, ClientAssumption
    <3>3. PICK i \in 1 .. n : asked[c][i].kind = r.kind
      BY <1>6, <1>10, <2>3, <3>1, <3>2 DEF TransportInv, HeadersReceived, HeaderOf
    <3>4. asked'[c][i].kind # asked'[c][n + 1].kind
      BY <2>3 DEF IsFirstAsked
    <3>. QED
      BY <1>8, <3>3, <3>4
  <2>4. Taken(c, n + 1)' = 0
    <3>1. CASE slot[r.kind] = c /\ IsFirstAsked(c, n + 1)'
      BY <1>8, <2>1, <2>3, <3>1 DEF Taken
    <3>2. CASE ~(slot[r.kind] = c /\ IsFirstAsked(c, n + 1)')
      BY <1>8, <2>1, <3>2 DEF Taken
    <3>. QED
      BY <3>1, <3>2
  <2>. QED
    BY <2>2, <2>4
<1>18. UnderwayOf(c)'
  <2>. DEFINE taken == [i \in 1 .. n + 1 |-> IF i = n + 1 THEN 0 ELSE Taken(c, i)]
              sent == [i \in 1 .. n + 1 |-> IF i = n + 1 THEN 0 ELSE Sent(c, i)]
  <2>1. \A i \in 1 .. n : Taken(c, i) \in Int /\ Sent(c, i) \in Int /\ Taken(c, i) <= Sent(c, i)
    BY <1>6, StateIs
  <2>2. /\ taken \in [1 .. n + 1 -> Int] /\ sent \in [1 .. n + 1 -> Int]
        /\ \A i \in 1 .. n : taken[i] = TakenOf(c)[i] /\ sent[i] = SentOf(c)[i]
        /\ taken[n + 1] = 0 /\ sent[n + 1] = 0
    BY <1>6, <2>1 DEF TakenOf, SentOf
  <2>3. \A i \in 1 .. n + 1 :
          /\ Taken(c, i)' = taken[i] /\ Sent(c, i)' = sent[i]
          /\ taken[i] <= sent[i] /\ sent[i] <= Count(asked'[c][i])
    <3>1. SUFFICES ASSUME NEW i \in 1 .. n + 1
          PROVE  /\ Taken(c, i)' = taken[i] /\ Sent(c, i)' = sent[i]
                 /\ taken[i] <= sent[i] /\ sent[i] <= Count(asked'[c][i])
      OBVIOUS
    <3>2. CASE i = n + 1
      BY <1>8, <1>10, <1>16, <1>17, <3>2
    <3>3. CASE i \in 1 .. n
      <4>1. taken[i] = Taken(c, i) /\ sent[i] = Sent(c, i)
        BY <3>3
      <4>2. Sent(c, i) <= Count(asked[c][i])
        BY <1>6, <3>3, StateIs
      <4>. HIDE DEF taken, sent
      <4>. QED
        BY <1>8, <1>16, <1>17, <2>1, <3>3, <4>1, <4>2
    <3>. QED
      BY <3>2, <3>3
  <2>. HIDE DEF taken, sent
  <2>4. up' = up /\ IsSequence(up[c]) /\ asked[c] \in Seq(Request)
        /\ Listing(c, up[c], asked[c], TakenOf(c), SentOf(c))
    BY <1>1, StateIs DEF net
  <2>5. Listing(c, up[c], Append(asked[c], r), taken, sent)
    <3>1. PICK ms, rs, t0, s0 : ms = up[c] /\ rs = asked[c] /\ t0 = TakenOf(c) /\ s0 = SentOf(c)
      OBVIOUS
    <3>2. IsSequence(ms) /\ rs \in Seq(Request) /\ Listing(c, ms, rs, t0, s0) /\ n = Len(rs)
      BY <1>6, <2>4, <3>1
    <3>3. Extended(t0, taken, n) /\ Extended(s0, sent, n)
      BY <2>2, <3>1 DEF Extended
    <3>4. Listing(c, ms, Append(rs, r), taken, sent)
      BY ONLY <2>2, <3>2, <3>3, ListingAsked, r \in Request, n \in Nat
    <3>. QED
      BY <3>1, <3>4
  <2>. QED
    BY <1>7, <1>8, <2>2, <2>3, <2>4, <2>5, UnderwayFrom
<1>19. ClientOf(c)'
  <2>1. Unsaid(c)' = Unsaid(c)
    BY <1>1, <1>4 DEF Unsaid, scheduler
  <2>2. NotAnswered(c)'
    BY <1>1, <1>3, <2>1 DEF AtRest, NotAnswered, net
  <2>3. LastWaits(c)'
    <3>1. \A i \in 1 .. n : Answers(asked[c][i]) = {}
      BY <1>3, <1>6 DEF LastWaits, AtRest
    <3>2. SUFFICES ASSUME NEW i \in 1 .. n + 1, Answers(asked'[c][i]) # {}
          PROVE  i = n + 1 /\ waiting'[c] /\ answer'[c] = M!Nothing
      BY <1>8 DEF LastWaits
    <3>3. i = n + 1
      <4>1. SUFFICES ASSUME i \in 1 .. n PROVE FALSE
        BY <3>2
      <4>2. asked'[c][i] = asked[c][i]
        BY <1>8, <4>1
      <4>3. Answers(asked'[c][i]) = Answers(asked[c][i])
        BY <4>2
      <4>. QED
        BY <3>1, <3>2, <4>1, <4>3
    <3>. QED
      BY <1>1, <1>3, <1>8, <1>9, <3>2, <3>3 DEF AtRest, NotAnswered
  <2>4. Asking(c)'
    <3>1. CallSteps(c, asked[c][Len(asked[c])])' = steps
      BY <1>1, <1>8, <1>11, SendsSame
    <3>2. todo'[c] = steps /\ 1 \in 1 .. NumParts(c, n + 1)' + 1
      BY <1>4, <1>10, <1>11
    <3>. QED
      BY <1>5, <1>8, <1>9, <1>12, <2>2, <3>1, <3>2 DEF Asking
  <2>. QED
    BY <2>3, <2>4 DEF ClientOf
<1>. QED
  BY <1>13, <1>15, <1>18, <1>19, AloneIs

\* A client sends the next part of its last request.
LEMMA ClientSendsNext ==
  ASSUME TransportInv, NEW c \in Client, SendNext(c)
  PROVE  TransportInv'
<1>. DEFINE x == Head(todo[c])
            m == [tag |-> x.tag, data |-> x.data, sync |-> x.sync]
<1>1. /\ todo[c] # <<>> /\ x.do = "send"
      /\ up' = [up EXCEPT ![c] = Append(@, m)] /\ down' = down
      /\ todo' = [todo EXCEPT ![c] = Tail(@)]
      /\ UNCHANGED <<rendezvous, scheduler, got, calls, history>>
  <2>1. c # 0
    BY ClientAssumption
  <2>. QED
    BY <2>1 DEF SendNext
<1>2. TypeOK /\ ClientOf(c)
  BY DEF TransportInv, ClientInv
<1>3. Asking(c) /\ LastWaits(c)
  BY <1>1, <1>2, NotAskingIs DEF ClientOf
<1>4. asked[c] \in Seq(Request) /\ IsSequence(up[c])
  BY <1>2 DEF TypeOK
<1>5. PICK s : AtStep(c, s)
  BY <1>3, <1>4, AskingIs
<1>6. PICK n \in Nat \ {0}, r \in Request : n = Len(asked[c]) /\ r = asked[c][n]
  BY <1>5 DEF AtStep
<1>7. PICK steps : steps = CallSteps(c, r)
  OBVIOUS
<1>8. PICK v : v = SubSeq(steps, s + 1, Len(steps))
  OBVIOUS
<1>9. /\ s \in 1 .. Count(r) + 1 /\ Unsent(c) = (Count(r) + 1) - s
      /\ s <= Count(r) => x = CallSends(c, r)[s] /\ Tail(todo[c]) = v
      /\ s = Count(r) + 1 => x.do # "send"
  BY <1>5, <1>6, <1>7, <1>8 DEF AtStep
<1>10. Count(r) \in 1 .. 3 /\ r.kind \in Kind
  BY CallSendsAre, RequestAssumption
<1>11. /\ s \in 1 .. 3 /\ s \in 1 .. Count(r) /\ s <= Count(r) /\ s + 1 \in 1 .. Count(r) + 1
       /\ x = CallSends(c, r)[s] /\ Tail(todo[c]) = v
  BY <1>1, <1>9, <1>10
<1>12. IsPart(m, c, r, s)
  BY <1>11, CallSendsAre DEF IsPart
<1>13. IsCallRest(c, r, s + 1, v)
  BY <1>7, <1>8, <1>11, CallRest
<1>14. /\ IsSequence(v) /\ Len(CallRecvs(r.kind)) \in 0 .. 2
       /\ Len(v) = (Count(r) + 1 - (s + 1)) + Len(CallRecvs(r.kind))
       /\ s + 1 <= Count(r) => v # <<>> /\ Head(v).do = "send"
       /\ s + 1 = Count(r) + 1 => (v # <<>> => Head(v).do # "send")
  BY <1>13 DEF IsCallRest
<1>. HIDE DEF x, m
<1>15. Over(todo', Client \cup {0}) /\ todo'[c] = v /\ todo'[0] = todo[0]
       /\ \A d \in Client : d # c => todo'[d] = todo[d]
  <2>1. todo' = Replaced(todo, Rank, c, v)
    BY <1>1, <1>2, <1>11 DEF TypeOK, Over, Replaced, Rank
  <2>. QED
    BY <2>1, RankOf
<1>16. /\ Over(up', Client) /\ up'[c] = Append(up[c], m)
       /\ \A d \in Client : d # c => up'[d] = up[d]
  <2>1. up' = Replaced(up, Client, c, Append(up[c], m))
    BY <1>1, <1>2 DEF TypeOK, Over, Replaced
  <2>. QED
    BY <2>1 DEF Replaced, Over
<1>17. TypeOK'
  <2>1. \A p \in Client \cup {0} : IsSequence(todo'[p])
    BY <1>2, <1>14, <1>15 DEF TypeOK
  <2>2. IsSequence(Append(up[c], m))
    BY <1>4, AppendIs
  <2>3. \A d \in Client : IsSequence(up'[d])
    BY <1>2, <1>16, <2>2 DEF TypeOK
  <2>. QED
    BY <1>1, <1>2, <1>15, <1>16, <2>1, <2>3 DEF TypeOK, scheduler, history
<1>18. Alone(c)
  <2>1. Kept(c)
    BY <1>1, <1>6 DEF Kept, history
  <2>. QED
    BY <1>1, <1>15, <1>16, <2>1 DEF Alone, history
<1>19. Unsent(c)' = Count(r) - s
  <2>1. asked'[c] = asked[c]
    BY <1>1 DEF history
  <2>2. Unsent(c)' = IF v = <<>> \/ Head(v).do # "send" THEN 0 ELSE Len(v) - Len(CallRecvs(r.kind))
    BY <1>6, <1>15, <2>1 DEF Unsent
  <2>3. CASE s + 1 <= Count(r)
    BY <1>10, <1>11, <1>14, <2>2, <2>3
  <2>4. CASE ~(s + 1 <= Count(r))
    <3>1. s + 1 = Count(r) + 1 /\ Count(r) - s = 0
      BY <1>10, <1>11, <2>4
    <3>2. v = <<>> \/ Head(v).do # "send"
      BY <1>14, <3>1
    <3>. QED
      BY <2>2, <3>1, <3>2
  <2>. QED
    BY <2>3, <2>4
<1>20. UnderwayOf(c)'
  <2>. DEFINE taken == TakenOf(c)
              sent == SentOf(c)
              new == [sent EXCEPT ![n] = s]
  <2>1. /\ rendezvous' = rendezvous /\ asked'[c] = asked[c] /\ slot' = slot
        /\ handler' = handler
        /\ todo'[0] = todo[0]
    BY <1>1, <1>15 DEF scheduler, history
  <2>2. \A i : Taken(c, i)' = Taken(c, i)
    BY <2>1, TakenSame
  <2>3. /\ taken \in [1 .. n -> Int] /\ sent \in [1 .. n -> Int]
        /\ Listing(c, up[c], asked[c], taken, sent)
        /\ \A i \in 1 .. n : /\ taken[i] = Taken(c, i) /\ sent[i] = Sent(c, i)
                             /\ Taken(c, i) <= Sent(c, i) /\ Sent(c, i) <= Count(asked[c][i])
    BY <1>6, StateIs DEF TakenOf, SentOf
  <2>4. \A i \in 1 .. n : /\ NumParts(c, i)' = Count(asked[c][i])
                          /\ Count(asked[c][i]) \in 1 .. 3
                          /\ i # n => Sent(c, i) = Count(asked[c][i])
    <3>1. \A i : NumParts(c, i)' = NumParts(c, i)
      BY <2>1, SendsSame DEF NumParts
    <3>. QED
      BY <1>6, <3>1, StateIs
  <2>5. sent[n] = s - 1 /\ taken[n] <= s - 1
    <3>1. n \in 1 .. n
      OBVIOUS
    <3>2. Sent(c, n) = Count(r) - Unsent(c)
      BY <1>6, <3>1, StateIs
    <3>. QED
      BY <1>9, <1>10, <2>3, <3>1, <3>2
  <2>. HIDE DEF taken, sent
  <2>6. new \in [1 .. n -> Int] /\ new[n] = s /\ \A i \in 1 .. n : i # n => new[i] = sent[i]
    BY <1>11, <2>3
  <2>7. Listing(c, up'[c], asked[c], taken, new)
    <3>1. PICK ms, rs : ms = up[c] /\ rs = asked[c]
      OBVIOUS
    <3>2. /\ IsSequence(ms) /\ rs \in Seq(Request) /\ n = Len(rs) /\ IsPart(m, c, rs[n], s)
          /\ Listing(c, ms, rs, taken, sent)
      BY <1>4, <1>6, <1>12, <2>3, <3>1
    <3>3. Listing(c, Append(ms, m), rs, taken, [sent EXCEPT ![n] = s])
      BY <1>11, <2>3, <2>5, <3>2, ListingSend
    <3>. QED
      BY <1>16, <3>1, <3>3
  <2>. HIDE DEF new
  <2>8. \A i \in 1 .. n : /\ Taken(c, i)' = taken[i] /\ Sent(c, i)' = new[i]
                          /\ taken[i] <= new[i] /\ new[i] <= Count(asked[c][i])
    <3>1. SUFFICES ASSUME NEW i \in 1 .. n
          PROVE  /\ Taken(c, i)' = taken[i] /\ Sent(c, i)' = new[i]
                 /\ taken[i] <= new[i] /\ new[i] <= Count(asked[c][i])
      OBVIOUS
    <3>2. Sent(c, i)' = NumParts(c, i)' - IF i = n THEN Unsent(c)' ELSE 0
      BY <1>6, <2>1 DEF Sent
    <3>3. CASE i = n
      <4>1. Count(asked[c][i]) = Count(r)
        BY <1>6, <3>3
      <4>2. Sent(c, i)' = Count(r) - (Count(r) - s)
        BY <1>19, <2>4, <3>2, <3>3, <4>1
      <4>3. Sent(c, i)' = s
        BY <1>10, <1>11, <4>2
      <4>4. taken[i] <= s
        BY <1>11, <2>3, <2>5, <3>3
      <4>. QED
        BY <1>11, <2>2, <2>3, <2>6, <3>3, <4>1, <4>3, <4>4
    <3>4. CASE i # n
      BY <2>2, <2>3, <2>4, <2>6, <3>2, <3>4
    <3>. QED
      BY <3>3, <3>4
  <2>. QED
    BY <1>4, <1>6, <2>1, <2>3, <2>6, <2>7, <2>8, UnderwayFrom
<1>21. ClientOf(c)'
  <2>1. /\ asked'[c] = asked[c] /\ waiting'[c] = waiting[c] /\ answer' = answer /\ got' = got
        /\ rendezvous' = rendezvous
    BY <1>1 DEF history
  <2>2. Unsaid(c)' = Unsaid(c)
    BY <1>1, <1>15 DEF Unsaid, scheduler
  <2>3. NotAnswered(c)'
    BY <1>1, <1>3, <2>1, <2>2 DEF NotAnswered, Asking
  <2>4. LastWaits(c)'
    BY <1>3, <2>1 DEF LastWaits
  <2>5. waiting[c] = (Answers(r) # {}) /\ got[c] = <<>>
    BY <1>3, <1>6 DEF Asking
  <2>6. CASE v = <<>>
    <3>1. Len(CallRecvs(r.kind)) = 0
      <4>1. Len(v) = 0
        BY <2>6, EmptyIs
      <4>. QED
        BY <1>10, <1>11, <1>14, <4>1
    <3>2. CallRecvs(r.kind) = <<>>
      BY <1>10, <3>1, CallRecvsAre, EmptyIs
    <3>3. Answers(r) = {}
      BY <1>10, <3>2, CallRecvsAre, AnswersAre
    <3>4. AtRest(c)'
      BY <1>15, <2>1, <2>3, <2>5, <2>6, <3>3 DEF AtRest
    <3>. QED
      BY <2>4, <3>4 DEF ClientOf
  <2>7. CASE v # <<>>
    <3>1. n = Len(asked'[c]) /\ r = asked'[c][n] /\ todo'[c] = v /\ got'[c] = <<>>
      BY <1>6, <1>15, <2>1, <2>5
    <3>2. todo'[c] = SubSeq(CallSteps(c, r), s + 1, Len(CallSteps(c, r)))
      BY <1>7, <1>8, <3>1
    <3>3. PICK z \in 1 .. Count(r) + 1 : z = s + 1
      BY <1>11
    <3>4. Asking(c)'
      BY <2>1, <2>3, <2>5, <2>7, <3>1, <3>2, <3>3, AskingIsNext
    <3>. QED
      BY <2>4, <3>4 DEF ClientOf
  <2>. QED
    BY <2>6, <2>7
<1>. QED
  BY <1>17, <1>18, <1>20, <1>21, AloneIs

\* c receives the part t + 1 of the answer, of the kind k, and then knows the parts known.
Takes(c, k, t, rest, known) ==
  LET sends == HandlerSends(k, answer[c]) IN
  /\ waiting[c] /\ answer[c] \in Answers(Plain(k))
  /\ OnTheWay(sends, t, down[c], Unsaid(c))
  /\ down[c] # <<>> /\ IsSequence(rest) /\ IsSequence(known)
  /\ down' = [down EXCEPT ![c] = RemoveAt(@, 1)]
  /\ todo' = [todo EXCEPT ![c] = rest] /\ got' = [got EXCEPT ![c] = known]
  /\ UNCHANGED <<rendezvous, up, scheduler, calls>>
  /\ IF rest = <<>> THEN t + 1 = Len(sends) /\ Return(c, answer[c])
     ELSE /\ t + 1 < Len(sends) /\ HasReceived(k, answer[c], t + 1, rest, known)
          /\ UNCHANGED history

\* What a client receives is always the next part of its answer.
LEMMA ClientTakes ==
  ASSUME TransportInv, NEW c \in Client, RecvNext(c)
  PROVE  \E k \in Kind, t \in 0 .. 2 : \E rest, known : Takes(c, k, t, rest, known)
<1>. DEFINE s == Head(todo[c])
            tag == RecvTag(s)
            Received1(i) == Received(s, down[c][i].data)
            Rest(i) == Received1(i).next \o Tail(todo[c])
            Known(i) == got[c] \o Received1(i).parts
<1>1. PICK i \in DOMAIN down[c] :
        /\ todo[c] # <<>> /\ s.do # "send" /\ IsFirst(down[c], i, tag)
        /\ down' = [down EXCEPT ![c] = RemoveAt(@, i)] /\ up' = up
        /\ todo' = [todo EXCEPT ![c] = Rest(i)] /\ got' = [got EXCEPT ![c] = Known(i)]
        /\ IF Rest(i) = <<>> THEN Return(c, Result(s.tag[1], Known(i))) ELSE UNCHANGED history
        /\ UNCHANGED <<rendezvous, scheduler, calls>>
  <2>1. c # 0
    BY ClientAssumption
  <2>. QED
    BY <2>1, Zenon DEF RecvNext, RecvTag
<1>2. IsSequence(down[c]) /\ asked[c] \in Seq(Request) /\ ClientOf(c)
  BY DEF TransportInv, TypeOK, ClientInv
<1>3. i \in 1 .. Len(down[c]) /\ Len(down[c]) \in Nat /\ down[c] # <<>>
  <2>1. i \in 1 .. Len(down[c]) /\ Len(down[c]) \in Nat
    BY <1>1, <1>2 DEF IsSequence
  <2>. QED
    BY <2>1, EmptyIs
<1>4. Answered(c)
  <2>1. ~AtRest(c) /\ ~Asking(c)
    BY <1>1, <1>3 DEF AtRest, Asking, NotAnswered
  <2>. QED
    BY <1>2, <2>1 DEF ClientOf
<1>5. PICK k \in Kind, t \in 0 .. 2 :
           LET sends == HandlerSends(k, answer[c]) IN
           /\ answer[c] \in Answers(Plain(k)) /\ answer[c] # M!Nothing
           /\ HasReceived(k, answer[c], t, todo[c], got[c])
           /\ TakesNext(k, answer[c], t, todo[c], got[c])
           /\ t < Len(sends)
           /\ t + Len(down[c]) + Len(Unsaid(c)) = Len(sends)
           /\ \A x \in 1 .. Len(down[c]) : SamePart(down[c][x], sends[t + x])
           /\ \A x \in 1 .. Len(Unsaid(c)) : Unsaid(c)[x] = sends[t + Len(down[c]) + x]
  BY <1>4, AnsweredIs
<1>. DEFINE sends == HandlerSends(k, answer[c])
<1>6. SamePart(down[c][1], sends[t + 1])
  <2>1. 1 \in 1 .. Len(down[c])
    BY <1>3
  <2>. QED
    BY <1>5, <2>1
<1>7. /\ sends[t + 1].tag = tag /\ s.tag[1] = k
      /\ LET received == Received(s, sends[t + 1].data)
             rest == received.next \o Tail(todo[c])
             known == got[c] \o received.parts
         IN /\ IsSequence(rest) /\ IsSequence(known)
            /\ IF rest = <<>> THEN t + 1 = Len(sends) /\ Result(k, known) = answer[c]
               ELSE t + 1 < Len(sends) /\ HasReceived(k, answer[c], t + 1, rest, known)
  BY <1>5 DEF TakesNext
<1>8. i = 1
  <2>1. SUFFICES ASSUME i # 1 PROVE FALSE
    OBVIOUS
  <2>2. 1 \in 1 .. i - 1
    BY <1>3, <2>1
  <2>3. down[c][1].tag # tag
    BY <1>1, <2>2 DEF IsFirst
  <2>. QED
    BY <1>6, <1>7, <2>3 DEF SamePart
<1>9. Received(s, sends[t + 1].data) = Received1(1)
  BY <1>6 DEF SamePart
<1>10. /\ IsSequence(Rest(1)) /\ IsSequence(Known(1))
       /\ IF Rest(1) = <<>> THEN t + 1 = Len(sends) /\ Result(k, Known(1)) = answer[c]
          ELSE t + 1 < Len(sends) /\ HasReceived(k, answer[c], t + 1, Rest(1), Known(1))
  BY <1>7, <1>9
<1>11. OnTheWay(sends, t, down[c], Unsaid(c))
  BY <1>5 DEF OnTheWay
<1>12. waiting[c]
  BY <1>4 DEF Answered
<1>. HIDE DEF Rest, Known, sends, Received1
<1>13. PICK rest, known : rest = Rest(1) /\ known = Known(1)
  OBVIOUS
<1>14. down' = [down EXCEPT ![c] = RemoveAt(@, 1)]
  BY <1>1, <1>8
<1>15. Takes(c, k, t, rest, known)
  BY <1>1, <1>3, <1>5, <1>7, <1>8, <1>10, <1>11, <1>12, <1>13, <1>14 DEF Takes, sends
<1>. QED
  BY <1>15

\* A client receives: another part of the answer, or its end.
LEMMA ClientReceivesNext ==
  ASSUME TransportInv, NEW c \in Client, RecvNext(c)
  PROVE  TransportInv'
<1>1. PICK k \in Kind, t \in 0 .. 2 : \E rest, known : Takes(c, k, t, rest, known)
  BY ClientTakes
<1>2. PICK rest, known : Takes(c, k, t, rest, known)
  BY <1>1
<1>3. PICK a, sends : a = answer[c] /\ sends = HandlerSends(k, a)
  OBVIOUS
<1>4. /\ waiting[c] /\ a \in Answers(Plain(k)) /\ OnTheWay(sends, t, down[c], Unsaid(c))
      /\ down[c] # <<>> /\ IsSequence(rest) /\ IsSequence(known)
      /\ down' = [down EXCEPT ![c] = RemoveAt(@, 1)]
      /\ todo' = [todo EXCEPT ![c] = rest] /\ got' = [got EXCEPT ![c] = known]
      /\ UNCHANGED <<rendezvous, up, scheduler, calls>>
  BY <1>2, <1>3 DEF Takes
<1>5. /\ rest = <<>> => t + 1 = Len(sends) /\ Return(c, a)
      /\ rest # <<>> => /\ t + 1 < Len(sends) /\ HasReceived(k, a, t + 1, rest, known)
                        /\ UNCHANGED history
  BY <1>2, <1>3 DEF Takes
<1>6. TypeOK /\ ClientOf(c) /\ IsSequence(down[c]) /\ asked[c] \in Seq(Request)
  BY DEF TransportInv, ClientInv, TypeOK
<1>7. a # M!Nothing /\ Len(sends) \in 1 .. 3
  BY <1>3, <1>4, AnswersAre, HandlerSendsAre
<1>8. Answered(c) /\ LastWaits(c)
  BY <1>3, <1>4, <1>6, <1>7 DEF ClientOf, AtRest, Asking, NotAnswered
<1>9. Over(todo', Client \cup {0}) /\ todo'[c] = rest /\ todo'[0] = todo[0]
      /\ \A d \in Client : d # c => todo'[d] = todo[d]
  <2>1. todo' = Replaced(todo, Rank, c, rest)
    BY <1>4, <1>6 DEF TypeOK, Over, Replaced, Rank
  <2>. QED
    BY <2>1, RankOf
<1>10. Over(got', Client \cup {0}) /\ got'[c] = known /\ got'[0] = got[0]
      /\ \A d \in Client : d # c => got'[d] = got[d]
  <2>1. got' = Replaced(got, Rank, c, known)
    BY <1>4, <1>6 DEF TypeOK, Over, Replaced, Rank
  <2>. QED
    BY <2>1, RankOf
<1>11. PICK l \in Nat \ {0} : l = Len(down[c])
  BY <1>4, <1>6, TailIs
<1>12. PICK ms : ms = RemoveAt(down[c], 1)
  OBVIOUS
<1>13. IsSequence(ms) /\ Len(ms) = l - 1 /\ \A x \in 1 .. l - 1 : ms[x] = down[c][x + 1]
  <2>1. PICK i \in 1 .. Len(down[c]) : i = 1
    BY <1>11
  <2>2. /\ IsSequence(ms) /\ Len(ms) = l - 1
        /\ \A x \in 1 .. l - 1 : ms[x] = IF x < i THEN down[c][x] ELSE down[c][x + 1]
    BY <1>6, <1>11, <1>12, <2>1, RemoveAtIs
  <2>. QED
    BY <2>1, <2>2
<1>14. Over(down', Client) /\ down'[c] = ms /\ \A d \in Client : d # c => down'[d] = down[d]
  <2>1. down' = Replaced(down, Client, c, ms)
    BY <1>4, <1>6, <1>12 DEF TypeOK, Over, Replaced
  <2>. QED
    BY <2>1 DEF Replaced, Over
<1>15. asked' = asked /\ Over(answer', Client) /\ Over(returned', Client)
       /\ waiting' \in [Client -> BOOLEAN]
       /\ \A d \in Client : d # c => waiting'[d] = waiting[d] /\ answer'[d] = answer[d]
  <2>1. CASE rest = <<>>
    BY <1>5, <1>6, <2>1 DEF Return, TypeOK, Over
  <2>2. CASE rest # <<>>
    BY <1>5, <1>6, <2>2 DEF history, TypeOK
  <2>. QED
    BY <2>1, <2>2
<1>16. TypeOK'
  <2>1. \A p \in Client \cup {0} : IsSequence(todo'[p]) /\ IsSequence(got'[p])
    BY <1>4, <1>6, <1>9, <1>10 DEF TypeOK
  <2>2. \A d \in Client : IsSequence(down'[d])
    BY <1>6, <1>13, <1>14 DEF TypeOK
  <2>. QED
    BY <1>4, <1>6, <1>9, <1>10, <1>14, <1>15, <2>1, <2>2 DEF TypeOK, scheduler
<1>17. Alone(c)
  <2>1. Kept(c)
    BY <1>15, StateIs DEF Kept
  <2>. QED
    BY <1>4, <1>9, <1>10, <1>14, <1>15, <2>1 DEF Alone
<1>18. Unsaid(c)' = Unsaid(c)
  BY <1>4, <1>9 DEF Unsaid, scheduler
<1>19. LastWaits(c)'
  <2>1. \A i \in 1 .. Len(asked[c]) : Answers(asked[c][i]) = {}
    BY <1>3, <1>7, <1>8 DEF LastWaits
  <2>. QED
    BY <1>15, <2>1 DEF LastWaits
<1>20. PICK u : u = Unsaid(c)
  OBVIOUS
<1>21. /\ t < Len(sends) /\ t + l + Len(u) = Len(sends)
       /\ \A x \in 1 .. l : SamePart(down[c][x], sends[t + x])
       /\ \A x \in 1 .. Len(u) : u[x] = sends[t + l + x]
  BY <1>4, <1>11, <1>20 DEF OnTheWay
<1>22. IsSequence(u) /\ Len(u) \in Nat
  <2>1. IsSequence(todo[0]) /\ IsSequence(<<>>)
    BY <1>6, EmptyIs DEF TypeOK
  <2>2. IsSequence(u)
    BY <1>20, <2>1 DEF Unsaid
  <2>. QED
    BY <2>2 DEF IsSequence
<1>23. ClientOf(c)' /\ (AtRest(c)' \/ Answered(c)')
  <2>1. CASE rest = <<>>
    <3>1. Return(c, a) /\ t + 1 = Len(sends)
      BY <1>5, <2>1
    <3>2. waiting'[c] = FALSE /\ answer'[c] = M!Nothing
      BY <1>6, <3>1 DEF Return, TypeOK, Over
    <3>3. l = 1 /\ Len(u) = 0
      BY <1>21, <1>22, <3>1
    <3>4. ms = <<>> /\ u = <<>>
      BY <1>13, <1>22, <3>3, EmptyIs
    <3>5. AtRest(c)'
      BY <1>9, <1>14, <1>18, <1>20, <2>1, <3>2, <3>4 DEF AtRest, NotAnswered
    <3>. QED
      BY <1>19, <3>5 DEF ClientOf
  <2>2. CASE rest # <<>>
    <3>1. /\ t + 1 < Len(sends) /\ HasReceived(k, a, t + 1, rest, known)
          /\ waiting'[c] /\ answer'[c] = a /\ rendezvous' = rendezvous
      BY <1>3, <1>4, <1>5, <2>2 DEF history
    <3>2. PICK z \in 0 .. 2 : z = t + 1
      <4>1. PICK n \in 1 .. 3 : n = Len(sends)
        BY <1>7
      <4>2. t + 1 < n
        BY <3>1, <4>1
      <4>3. t + 1 \in 0 .. 2
        BY ONLY <4>2, n \in 1 .. 3, t \in 0 .. 2
      <4>. QED
        BY ONLY <4>3
    <3>3. /\ (t + 1) + (l - 1) = t + l
          /\ \A x \in 1 .. l - 1 : x + 1 \in 1 .. l /\ t + (x + 1) = (t + 1) + x
      OBVIOUS
    <3>4. \A x \in 1 .. l - 1 : SamePart(ms[x], sends[z + x])
      BY <1>13, <1>21, <3>2, <3>3
    <3>5. OnTheWay(sends, z, ms, u)
      BY <1>13, <1>21, <1>22, <3>1, <3>2, <3>3, <3>4 DEF OnTheWay
    <3>6. OnTheWay(HandlerSends(k, a), z, down'[c], Unsaid(c)')
      BY <1>3, <1>14, <1>18, <1>20, <3>5
    <3>7. HasReceived(k, a, z, todo'[c], got'[c])
      BY <1>9, <1>10, <3>1, <3>2
    <3>8. Answered(c)'
      BY <1>4, <3>1, <3>6, <3>7, AnsweredIsNext
    <3>. QED
      BY <1>19, <3>8 DEF ClientOf
  <2>. QED
    BY <2>1, <2>2
<1>24. UnderwayOf(c)'
  <2>1. \A i : Taken(c, i)' = Taken(c, i)
    BY <1>4, <1>9, <1>15, TakenSame DEF scheduler
  <2>2. Unsent(c) = 0
    BY <1>8, NotAskingIs
  <2>3. Unsent(c)' = 0
    BY <1>23, NotAskingIsNext
  <2>4. \A i : Sent(c, i)' = Sent(c, i)
    <3>1. \A i : NumParts(c, i)' = NumParts(c, i)
      BY <1>4, <1>15, SendsSame DEF NumParts
    <3>. QED
      BY <1>15, <2>2, <2>3, <3>1 DEF Sent
  <2>. QED
    BY <1>4, <1>15, <2>1, <2>4, UnderwaySame
<1>. QED
  BY <1>16, <1>17, <1>23, <1>24, AloneIs

\* The handler receives the next part of its request, and nothing else.
LEMMA HandlerReceivesNext ==
  ASSUME TransportInv, RecvNext(0)
  PROVE  TransportInv'
<1>. PICK f : f = handler.from
  OBVIOUS
<1>. DEFINE s == Head(todo[0])
            Next1(x) == Received(s, up[f][x].data).next \o Tail(todo[0])
            Known(x) == got[0] \o Received(s, up[f][x].data).parts
<1>1. PICK x \in DOMAIN up[f] :
        /\ todo[0] # <<>> /\ s.do # "send" /\ IsFirst(up[f], x, RecvTag(s))
        /\ up' = [up EXCEPT ![f] = RemoveAt(@, x)] /\ down' = down
        /\ todo' = [todo EXCEPT ![0] = Next1(x)] /\ got' = [got EXCEPT ![0] = Known(x)]
        /\ UNCHANGED <<rendezvous, scheduler, calls, history>>
  BY Zenon DEF RecvNext, RecvTag
<1>. HIDE DEF s, Next1, Known
<1>2. TypeOK /\ HandlerInv
  BY DEF TransportInv
<1>3. HandlerAt("receiving") /\ \E i \in 1 .. Len(asked[f]) : Receives(i)
  <2>1. ASSUME \A i \in 1 .. Len(todo[0]) : todo[0][i].do = "send" PROVE FALSE
    <3>1. IsSequence(todo[0])
      BY <1>2 DEF TypeOK
    <3>2. s = todo[0][1] /\ Len(todo[0]) \in Nat \ {0}
      BY <1>1, <3>1, TailIs DEF s
    <3>3. 1 \in 1 .. Len(todo[0])
      BY <3>2
    <3>. QED
      BY <1>1, <2>1, <3>2, <3>3
  <2>. QED
    BY <1>1, <1>2, <2>1 DEF HandlerInv, Idle
<1>4. PICK i \in 1 .. Len(asked[f]) : Receives(i)
  BY <1>3
<1>5. PICK n \in Nat : n = Len(asked[f])
  BY <1>3, StateIs DEF HandlerAt
<1>6. PICK r \in Request : r = asked[f][i]
  BY <1>3, <1>4, StateIs DEF HandlerAt
<1>7. /\ f \in Client /\ handler.kind = r.kind /\ slot[r.kind] = f /\ IsFirstAsked(f, i)
      /\ handler.stage = "receiving" /\ KnowsHeader(handler, f, r)
      /\ r.kind \in Kind
  <2>1. handler.kind = r.kind /\ IsFirstAsked(f, i) /\ KnowsHeader(handler, f, r)
    BY <1>4, <1>6 DEF Receives, KnowsHeader
  <2>. QED
    BY <1>3, <2>1 DEF HandlerAt
<1>8. HandlerTakesNext(handler, f, r, todo[0], got[0])
  BY <1>1, <1>3, <1>4, <1>6, ReceivesNext DEF s
<1>9. PICK j : j = IF s.do = "recv_info_data" THEN 3 ELSE 2
  BY Zenon
<1>10. j \in 2 .. Count(r) /\ PartTag(r.kind, j) = RecvTag(s) /\ j \in 1 .. 3
  <2>1. j \in 2 .. Count(r) /\ PartTag(r.kind, j) = RecvTag(s)
    BY <1>8, <1>9, Zenon DEF HandlerTakesNext, s
  <2>2. j \in 1 .. 3
    BY <1>9
  <2>. QED
    BY <2>1, <2>2
<1>11. Taken(f, i) = j - 1
  <2>1. Taken(f, i) = IF s.do = "recv_info_data" THEN 2 ELSE 1
    BY <1>1, <1>6, <1>7 DEF Taken, s
  <2>. QED
    BY <1>9, <2>1
<1>12. IsSequence(up[f]) /\ x \in 1 .. Len(up[f])
  <2>1. IsSequence(up[f])
    BY <1>2, <1>7 DEF TypeOK
  <2>. QED
    BY <2>1 DEF IsSequence
<1>. DEFINE taken == TakenOf(f)
            sent == SentOf(f)
            new == [taken EXCEPT ![i] = j]
<1>13. /\ taken \in [1 .. n -> Int] /\ sent \in [1 .. n -> Int] /\ asked[f] \in Seq(Request)
       /\ Listing(f, up[f], asked[f], taken, sent) /\ SentWhole(asked[f], sent)
       /\ \A y \in 1 .. n : /\ taken[y] = Taken(f, y) /\ sent[y] = Sent(f, y)
                            /\ Taken(f, y) <= Sent(f, y) /\ Sent(f, y) <= Count(asked[f][y])
  BY <1>5, <1>7, StateIs DEF TakenOf, SentOf
<1>. HIDE DEF taken, sent
<1>14. /\ up[f][x].data = PartData(f, r, j) /\ j <= sent[i]
       /\ Listing(f, RemoveAt(up[f], x), asked[f], new, sent)
  <2>1. PICK ms, rs : ms = up[f] /\ rs = asked[f]
    OBVIOUS
  <2>2. /\ IsSequence(ms) /\ rs \in Seq(Request) /\ Listing(f, ms, rs, taken, sent)
        /\ SentWhole(rs, sent)
        /\ taken \in [1 .. Len(rs) -> Int] /\ sent \in [1 .. Len(rs) -> Int]
    BY <1>5, <1>12, <1>13, <2>1
  <2>3. i \in 1 .. Len(rs) /\ rs[i] = r /\ \A h \in 1 .. (i - 1) : rs[h].kind # rs[i].kind
    BY <1>6, <1>7, <2>1 DEF IsFirstAsked
  <2>4. /\ taken[i] = j - 1 /\ j <= Count(rs[i]) /\ x \in 1 .. Len(ms)
        /\ IsFirst(ms, x, PartTag(rs[i].kind, j)) /\ j \in 1 .. 3
    <3>1. taken[i] = j - 1 /\ j <= Count(r)
      BY <1>5, <1>10, <1>11, <1>13
    <3>2. x \in 1 .. Len(ms) /\ IsFirst(ms, x, PartTag(r.kind, j))
      BY <1>1, <1>10, <1>12, <2>1
    <3>. QED
      BY <1>10, <2>3, <3>1, <3>2
  <2>5. /\ ms[x].data = PartData(f, rs[i], j) /\ j <= sent[i]
        /\ Listing(f, RemoveAt(ms, x), rs, [taken EXCEPT ![i] = j], sent)
    BY ONLY <2>2, <2>3, <2>4, ListingTake
  <2>. QED
    BY <2>1, <2>3, <2>5
<1>15. PICK rest, known : rest = Next1(x) /\ known = Known(x)
  OBVIOUS
<1>16. /\ IsSequence(rest) /\ IsSequence(known) /\ Receiving(handler, r, rest, known)
       /\ rest = <<>> => j = Count(r)
       /\ rest # <<>> => j = 2 /\ Head(rest).do = "recv_info_data"
  BY <1>8, <1>9, <1>14, <1>15, Zenon DEF HandlerTakesNext, s, Next1, Known
<1>17. /\ todo' = [todo EXCEPT ![0] = rest] /\ got' = [got EXCEPT ![0] = known]
       /\ up' = [up EXCEPT ![f] = RemoveAt(@, x)]
       /\ UNCHANGED <<rendezvous, down, scheduler, calls, history>>
  BY <1>1, <1>15
<1>18. Over(todo', Client \cup {0}) /\ todo'[0] = rest /\ \A c \in Client : todo'[c] = todo[c]
  <2>1. todo' = Replaced(todo, Rank, 0, rest)
    BY <1>2, <1>17 DEF TypeOK, Over, Replaced, Rank
  <2>. QED
    BY <2>1, ClientAssumption DEF Replaced, Over, Rank
<1>19. Over(got', Client \cup {0}) /\ got'[0] = known /\ \A c \in Client : got'[c] = got[c]
  <2>1. got' = Replaced(got, Rank, 0, known)
    BY <1>2, <1>17 DEF TypeOK, Over, Replaced, Rank
  <2>. QED
    BY <2>1, ClientAssumption DEF Replaced, Over, Rank
<1>20. /\ Over(up', Client) /\ up'[f] = RemoveAt(up[f], x)
       /\ \A c \in Client : c # f => up'[c] = up[c]
  <2>1. up' = Replaced(up, Client, f, RemoveAt(up[f], x))
    BY <1>2, <1>17 DEF TypeOK, Over, Replaced
  <2>. QED
    BY <1>7, <2>1 DEF Replaced, Over
<1>21. /\ asked' = asked /\ rendezvous' = rendezvous /\ slot' = slot /\ buffer' = buffer
       /\ handler' = handler /\ down' = down /\ waiting' = waiting /\ answer' = answer
       /\ returned' = returned
  BY <1>17 DEF scheduler, history
<1>22. TypeOK'
  <2>1. \A p \in Client \cup {0} : IsSequence(todo'[p]) /\ IsSequence(got'[p])
    BY <1>2, <1>16, <1>18, <1>19 DEF TypeOK
  <2>2. IsSequence(RemoveAt(up[f], x))
    BY <1>12, RemoveAtIs
  <2>3. \A c \in Client : IsSequence(up'[c])
    BY <1>2, <1>20, <2>2 DEF TypeOK
  <2>. QED
    BY <1>2, <1>18, <1>19, <1>20, <1>21, <2>1, <2>3 DEF TypeOK
<1>23. /\ \A c \in Client \ {f} : \A y \in 1 .. Len(asked[c]) : Taken(c, y)' = Taken(c, y)
       /\ \A y \in 1 .. n : y # i => Taken(f, y)' = Taken(f, y)
       /\ Taken(f, i)' = j
  <2>1. ASSUME NEW c \in Client, NEW y,
               asked[c][y].kind # r.kind \/ slot[r.kind] # c \/ ~IsFirstAsked(c, y)
        PROVE  Taken(c, y)' = Taken(c, y)
    <3>1. IsFirstAsked(c, y)' = IsFirstAsked(c, y)
      BY <1>21 DEF IsFirstAsked
    <3>. QED
      BY <1>7, <1>21, <2>1, <3>1 DEF Taken
  <2>2. ASSUME NEW y \in 1 .. n, y # i PROVE asked[f][y].kind # r.kind \/ ~IsFirstAsked(f, y)
    <3>1. CASE y < i
      BY <1>5, <1>6, <1>7, <3>1 DEF IsFirstAsked
    <3>2. CASE i < y
      BY <1>5, <1>6, <3>2 DEF IsFirstAsked
    <3>. QED
      BY <1>5, <2>2, <3>1, <3>2
  <2>3. Taken(f, i)' = j
    <3>1. IsFirstAsked(f, i)' /\ asked'[f][i] = r
      BY <1>6, <1>7, <1>21 DEF IsFirstAsked
    <3>2. NumParts(f, i)' = Count(r)
      BY <1>6, <1>21, SendsSame, CallSendsAre DEF NumParts
    <3>3. CASE rest = <<>>
      BY <1>7, <1>16, <1>18, <1>21, <3>1, <3>2, <3>3 DEF Taken
    <3>4. CASE rest # <<>>
      BY <1>7, <1>16, <1>18, <1>21, <3>1, <3>4 DEF Taken
    <3>. QED
      BY <3>3, <3>4
  <2>. QED
    BY <1>7, <2>1, <2>2, <2>3
<1>24. \A c \in Client : \A y : Sent(c, y)' = Sent(c, y)
  BY <1>18, <1>21, SentSame
<1>25. UnderwayOf(f)'
  <2>1. new \in [1 .. n -> Int] /\ new[i] = j /\ \A y \in 1 .. n : y # i => new[y] = taken[y]
    BY <1>5, <1>10, <1>13
  <2>2. \A y \in 1 .. n : /\ Taken(f, y)' = new[y] /\ Sent(f, y)' = sent[y]
                          /\ new[y] <= sent[y] /\ sent[y] <= Count(asked[f][y])
    <3>1. SUFFICES ASSUME NEW y \in 1 .. n
          PROVE  /\ Taken(f, y)' = new[y] /\ Sent(f, y)' = sent[y]
                 /\ new[y] <= sent[y] /\ sent[y] <= Count(asked[f][y])
      OBVIOUS
    <3>. HIDE DEF new
    <3>2. CASE y = i
      BY <1>7, <1>13, <1>14, <1>23, <1>24, <2>1, <3>2
    <3>3. CASE y # i
      BY <1>7, <1>13, <1>23, <1>24, <2>1, <3>3
    <3>. QED
      BY <3>2, <3>3
  <2>. HIDE DEF new
  <2>3. /\ asked'[f] \in Seq(Request) /\ Len(asked'[f]) = n
        /\ Listing(f, up'[f], asked'[f], new, sent)
    BY <1>5, <1>13, <1>14, <1>20, <1>21 DEF new
  <2>4. /\ new \in [1 .. Len(asked'[f]) -> Int] /\ sent \in [1 .. Len(asked'[f]) -> Int]
        /\ \A y \in 1 .. Len(asked'[f]) : /\ Taken(f, y)' = new[y] /\ Sent(f, y)' = sent[y]
                                          /\ new[y] <= sent[y] /\ sent[y] <= Count(asked'[f][y])
    BY <1>13, <1>21, <2>1, <2>2, <2>3
  <2>. QED
    BY <2>3, <2>4, UnderwayFrom
<1>26. ASSUME NEW c \in Client, c # f PROVE UnderwayOf(c)'
  <2>. DEFINE taken1 == TakenOf(c)
              sent1 == SentOf(c)
  <2>1. /\ asked'[c] \in Seq(Request) /\ up'[c] = up[c]
        /\ taken1 \in [1 .. Len(asked'[c]) -> Int] /\ sent1 \in [1 .. Len(asked'[c]) -> Int]
        /\ Listing(c, up[c], asked'[c], taken1, sent1)
    BY <1>20, <1>21, <1>26, StateIs
  <2>2. \A y \in 1 .. Len(asked'[c]) :
           /\ Taken(c, y)' = taken1[y] /\ Sent(c, y)' = sent1[y]
           /\ taken1[y] <= sent1[y] /\ sent1[y] <= Count(asked'[c][y])
    BY <1>21, <1>23, <1>24, <1>26, StateIs DEF TakenOf, SentOf
  <2>. HIDE DEF taken1, sent1
  <2>. QED
    BY <2>1, <2>2, UnderwayFrom
<1>27. \A c \in Client : Kept(c)
  BY <1>21, StateIs DEF Kept
<1>28. ASSUME NEW k \in Kind PROVE HeaderOf(k)'
  BY <1>21, <1>27, HeaderSame
<1>29. HandlerInv'
  <2>1. HandlerAt("receiving")'
    BY <1>3, <1>21 DEF HandlerAt
  <2>2. Receives(i)'
    <3>1. IsFirstAsked(f, i)'
      BY <1>7, <1>21 DEF IsFirstAsked
    <3>. QED
      BY <1>6, <1>7, <1>16, <1>18, <1>19, <1>21, <3>1 DEF Receives, KnowsHeader, Receiving
  <2>. QED
    BY <1>21, <2>1, <2>2 DEF HandlerInv
<1>30. ASSUME NEW c \in Client PROVE ClientOf(c)'
  <2>1. Unsaid(c)' = <<>> /\ Unsaid(c) = <<>>
    BY <1>7, <1>21 DEF Unsaid
  <2>. QED
    BY <1>18, <1>19, <1>21, <2>1, ClientSame
<1>. QED
  BY <1>7, <1>22, <1>25, <1>26, <1>28, <1>29, <1>30
     DEF TransportInv, RequestsUnderway, HeadersReceived, ClientInv

LEMMA Smallest ==
  ASSUME NEW S \in SUBSET Nat, S # {}
  PROVE  \E m \in S : \A x \in S : m <= x
<1>. DEFINE T == {n \in Nat : \A x \in S : n <= x}
<1>1. SUFFICES ASSUME \A m \in S : \E x \in S : ~(m <= x) PROVE FALSE
  OBVIOUS
<1>2. 0 \in T
  OBVIOUS
<1>3. ASSUME NEW n \in T PROVE n + 1 \in T
  <2>1. n \notin S
    BY <1>1, <1>3
  <2>. QED
    BY <1>3, <2>1
<1>4. T = Nat
  <2>. HIDE DEF T
  <2>1. T \subseteq Nat
    BY DEF T
  <2>. QED
    BY <1>2, <1>3, <2>1, SetInduction
<1>5. PICK x \in S : x \in Nat
  OBVIOUS
<1>6. x + 1 \in T
  <2>. HIDE DEF T
  <2>. QED
    BY <1>4, <1>5
<1>. QED
  BY <1>5, <1>6

\* A header on its way is that of the first request of its kind.
LEMMA HeaderFound ==
  ASSUME NEW c, NEW ms, NEW rs \in Seq(Request), NEW taken, NEW sent, Listing(c, ms, rs,
         taken, sent),
         NEW k \in Kind, NEW x \in 1 .. Len(ms), ms[x].tag = <<k>>
  PROVE  \E i \in 1 .. Len(rs) : rs[i].kind = k /\ \A h \in 1 .. i - 1 : rs[h].kind # k
<1>1. PICK part \in [1 .. Len(ms) -> Missing(rs, taken, sent)] : AreParts(c, ms, rs, part)
  BY DEF Listing
<1>2. PICK n \in Nat : n = Len(rs)
  OBVIOUS
<1>. DEFINE p == part[x]
<1>3. p \in Missing(rs, taken, sent) /\ IsPart(ms[x], c, rs[p[1]], p[2])
  BY <1>1 DEF AreParts
<1>4. p[1] \in 1 .. n /\ p[2] \in 1 .. 3
  BY <1>2, <1>3 DEF Missing
<1>5. rs[p[1]].kind = k
  <2>1. ms[x].tag = PartTag(rs[p[1]].kind, p[2])
    BY <1>3 DEF IsPart
  <2>2. PartTag(rs[p[1]].kind, p[2]) = PartTag(k, 1)
    <3>1. PartTag(k, 1) = <<k>>
      BY DEF PartTag
    <3>. QED
      BY <2>1, <3>1
  <2>3. rs[p[1]].kind \in Kind /\ 1 \in 1 .. 3
    BY <1>2, <1>4, RequestAssumption
  <2>. QED
    BY <1>4, <2>2, <2>3, TagsDiffer
<1>. DEFINE S == {i \in 1 .. n : rs[i].kind = k}
<1>6. p[1] \in S /\ S \in SUBSET Nat
  BY <1>4, <1>5
<1>7. PICK i \in S : \A h \in S : i <= h
  BY <1>6, Smallest
<1>8. \A h \in 1 .. i - 1 : rs[h].kind # k
  <2>1. \A h \in 1 .. i - 1 : h \in 1 .. n /\ ~(i <= h)
    BY <1>7
  <2>. QED
    BY <1>7, <2>1
<1>. QED
  BY <1>2, <1>7, <1>8

\* A header is received: it is that of the first request of its kind.
LEMMA MatchTakes ==
  ASSUME TransportInv, NEW k \in Kind, NEW c \in Client, Match(k, c)
  PROVE  TransportInv'
<1>1. PICK x \in DOMAIN up[c] :
        /\ slot[k] = 0 /\ IsFirst(up[c], x, <<k>>)
        /\ buffer' = [buffer EXCEPT ![BufferOf(k)] = up[c][x].data]
        /\ up' = [up EXCEPT ![c] = RemoveAt(@, x)] /\ slot' = [slot EXCEPT ![k] = c]
        /\ UNCHANGED <<rendezvous, down, handler, todo, got, calls, history>>
  BY DEF Match
<1>2. TypeOK /\ c # 0
  BY ClientAssumption DEF TransportInv
<1>3. IsSequence(up[c]) /\ x \in 1 .. Len(up[c])
  <2>1. IsSequence(up[c])
    BY <1>2 DEF TypeOK
  <2>. QED
    BY <2>1 DEF IsSequence
<1>. DEFINE taken == TakenOf(c)
            sent == SentOf(c)
<1>4. PICK n \in Nat : n = Len(asked[c])
  BY StateIs
<1>5. /\ taken \in [1 .. n -> Int] /\ sent \in [1 .. n -> Int] /\ asked[c] \in Seq(Request)
      /\ Listing(c, up[c], asked[c], taken, sent) /\ SentWhole(asked[c], sent)
      /\ \A y \in 1 .. n : /\ taken[y] = Taken(c, y) /\ sent[y] = Sent(c, y)
                           /\ Taken(c, y) <= Sent(c, y) /\ Sent(c, y) <= Count(asked[c][y])
                           /\ asked[c][y] \in Request /\ asked[c][y].kind \in Kind
  BY <1>4, StateIs DEF TakenOf, SentOf
<1>. HIDE DEF taken, sent
<1>6. PICK i \in 1 .. n : asked[c][i].kind = k /\ \A h \in 1 .. i - 1 : asked[c][h].kind # k
  <2>1. up[c][x].tag = <<k>>
    BY <1>1 DEF IsFirst
  <2>2. PICK ms, rs : ms = up[c] /\ rs = asked[c]
    OBVIOUS
  <2>3. /\ rs \in Seq(Request) /\ Listing(c, ms, rs, taken, sent)
        /\ x \in 1 .. Len(ms) /\ ms[x].tag = <<k>> /\ n = Len(rs)
    BY <1>3, <1>4, <1>5, <2>1, <2>2
  <2>4. \E y \in 1 .. Len(rs) : rs[y].kind = k /\ \A h \in 1 .. y - 1 : rs[h].kind # k
    <3>1. PICK ta, se : ta = taken /\ se = sent
      OBVIOUS
    <3>2. /\ rs \in Seq(Request) /\ Listing(c, ms, rs, ta, se)
          /\ x \in 1 .. Len(ms) /\ ms[x].tag = <<k>>
      BY <2>3, <3>1
    <3>. QED
      BY ONLY <3>2, HeaderFound, k \in Kind
  <2>. QED
    BY <2>2, <2>3, <2>4
<1>7. PICK r \in Request : r = asked[c][i]
  BY <1>5
<1>8. r.kind = k /\ IsFirstAsked(c, i) /\ Count(r) \in 1 .. 3 /\ slot[k] # c
  BY <1>1, <1>2, <1>6, <1>7, CallSendsAre DEF IsFirstAsked
<1>. DEFINE new == [taken EXCEPT ![i] = 1]
<1>9. Taken(c, i) = 0
  BY <1>7, <1>8 DEF Taken
<1>10. /\ up[c][x].data = Header(c, r) /\ 1 <= sent[i]
       /\ Listing(c, RemoveAt(up[c], x), asked[c], new, sent)
  <2>1. PICK ms, rs : ms = up[c] /\ rs = asked[c]
    OBVIOUS
  <2>2. PICK j \in 1 .. 3 : j = 1
    OBVIOUS
  <2>3. ms = up[c] /\ rs = asked[c] /\ j = 1
    BY <2>1, <2>2
  <2>4. /\ IsSequence(ms) /\ rs \in Seq(Request) /\ Listing(c, ms, rs, taken, sent)
        /\ SentWhole(rs, sent)
        /\ taken \in [1 .. Len(rs) -> Int] /\ sent \in [1 .. Len(rs) -> Int]
    BY <1>3, <1>4, <1>5, <2>3
  <2>5. i \in 1 .. Len(rs) /\ rs[i] = r /\ \A h \in 1 .. (i - 1) : rs[h].kind # rs[i].kind
    BY <1>4, <1>6, <1>7, <2>3
  <2>6. PartTag(k, j) = <<k>> /\ PartData(c, r, j) = Header(c, r)
    BY <2>3 DEF PartTag, PartData
  <2>7. /\ taken[i] = j - 1 /\ j <= Count(rs[i]) /\ x \in 1 .. Len(ms)
        /\ IsFirst(ms, x, PartTag(rs[i].kind, j))
    BY <1>1, <1>3, <1>5, <1>8, <1>9, <2>3, <2>5, <2>6
  <2>8. /\ ms[x].data = PartData(c, rs[i], j) /\ j <= sent[i]
        /\ Listing(c, RemoveAt(ms, x), rs, [taken EXCEPT ![i] = j], sent)
    BY <2>4, <2>5, <2>7, ListingTake
  <2>. QED
    BY <2>3, <2>5, <2>6, <2>8
<1>11. /\ Over(up', Client) /\ up'[c] = RemoveAt(up[c], x)
       /\ \A d \in Client : d # c => up'[d] = up[d]
  <2>1. up' = Replaced(up, Client, c, RemoveAt(up[c], x))
    BY <1>1, <1>2 DEF TypeOK, Over, Replaced
  <2>. QED
    BY <2>1 DEF Replaced, Over
<1>12. /\ slot' \in [Kind -> Client \cup {0}] /\ slot'[k] = c
       /\ \A k2 \in Kind : k2 # k => slot'[k2] = slot[k2]
  BY <1>1, <1>2 DEF TypeOK
<1>13. /\ Over(buffer', Kind) /\ (k \in OwnBuffer => buffer'[k] = Header(c, r))
       /\ \A k2 \in Kind : k2 # k => buffer'[k2] = buffer[k2] \/ k2 \notin OwnBuffer
  <2>1. /\ k \in OwnBuffer => BufferOf(k) = k
        /\ k \notin OwnBuffer => BufferOf(k) \notin OwnBuffer
        /\ BufferOf(k) \in Kind
    BY DEF OwnBuffer, BufferOf, Kind
  <2>2. PICK d : d = up[c][x].data
    OBVIOUS
  <2>3. buffer' = Replaced(buffer, Kind, BufferOf(k), d)
    BY <1>1, <1>2, <2>2 DEF TypeOK, Over, Replaced
  <2>. QED
    BY <1>10, <2>1, <2>2, <2>3 DEF Replaced, Over
<1>14. /\ asked' = asked /\ rendezvous' = rendezvous /\ handler' = handler /\ down' = down
       /\ waiting' = waiting /\ answer' = answer /\ returned' = returned /\ todo' = todo
       /\ got' = got
  BY <1>1 DEF history
<1>15. \A stage : HandlerAt(stage) => handler.kind # k /\ handler.kind \in Kind
  BY <1>1, <1>2, ClientAssumption DEF HandlerAt
<1>16. handler.stage = "none" \/ handler.kind # k
  <2>1. Idle => handler.stage = "none"
    BY DEF Idle, NoHandler
  <2>. QED
    BY <1>15, <2>1 DEF TransportInv, HandlerInv
<1>17. TypeOK'
  <2>1. IsSequence(RemoveAt(up[c], x))
    BY <1>3, RemoveAtIs
  <2>2. \A d \in Client : IsSequence(up'[d])
    BY <1>2, <1>11, <2>1 DEF TypeOK
  <2>. QED
    BY <1>2, <1>11, <1>12, <1>13, <1>14, <2>2 DEF TypeOK
<1>18. ASSUME NEW d \in Client, NEW y \in 1 .. Len(asked[d]), d # c \/ y # i
       PROVE  Taken(d, y)' = Taken(d, y)
  <2>1. /\ IsFirstAsked(d, y)' = IsFirstAsked(d, y) /\ NumParts(d, y)' = NumParts(d, y)
        /\ asked[d][y].kind \in Kind
    BY <1>14, SendsSame, StateIs DEF IsFirstAsked, NumParts
  <2>2. CASE asked[d][y].kind # k
    BY <1>12, <1>14, <2>1, <2>2 DEF Taken
  <2>3. CASE asked[d][y].kind = k /\ d # c
    <3>1. slot[k] # d /\ slot'[k] # d
      BY <1>1, <1>12, <2>3, ClientAssumption
    <3>. QED
      BY <1>14, <2>3, <3>1 DEF Taken
  <2>4. CASE asked[d][y].kind = k /\ d = c
    <3>1. ~(y < i)
      BY <1>4, <1>6, <2>4
    <3>2. i \in 1 .. y - 1
      BY <1>4, <1>18, <2>4, <3>1
    <3>3. ~IsFirstAsked(d, y)
      BY <1>6, <2>4, <3>2 DEF IsFirstAsked
    <3>. QED
      BY <1>14, <2>1, <3>3 DEF Taken
  <2>. QED
    BY <2>2, <2>3, <2>4
<1>19. Taken(c, i)' = 1
  <2>1. IsFirstAsked(c, i)' /\ asked'[c][i].kind = k
    BY <1>7, <1>8, <1>14 DEF IsFirstAsked
  <2>. QED
    BY <1>12, <1>14, <1>16, <2>1 DEF Taken
<1>20. \A d \in Client : \A y : Sent(d, y)' = Sent(d, y)
  BY <1>14, SentSame
<1>21. UnderwayOf(c)'
  <2>1. new \in [1 .. n -> Int] /\ new[i] = 1 /\ \A y \in 1 .. n : y # i => new[y] = taken[y]
    BY <1>5
  <2>2. \A y \in 1 .. n : /\ Taken(c, y)' = new[y] /\ Sent(c, y)' = sent[y]
                          /\ new[y] <= sent[y] /\ sent[y] <= Count(asked[c][y])
    <3>1. SUFFICES ASSUME NEW y \in 1 .. n
          PROVE  /\ Taken(c, y)' = new[y] /\ Sent(c, y)' = sent[y]
                 /\ new[y] <= sent[y] /\ sent[y] <= Count(asked[c][y])
      OBVIOUS
    <3>. HIDE DEF new
    <3>2. CASE y = i
      BY <1>5, <1>10, <1>19, <1>20, <2>1, <3>2
    <3>3. CASE y # i
      BY <1>4, <1>5, <1>18, <1>20, <2>1, <3>3
    <3>. QED
      BY <3>2, <3>3
  <2>. HIDE DEF new
  <2>3. asked'[c] \in Seq(Request) /\ Listing(c, up'[c], asked'[c], new, sent)
    BY <1>5, <1>10, <1>11, <1>14 DEF new
  <2>4. /\ new \in [1 .. Len(asked'[c]) -> Int] /\ sent \in [1 .. Len(asked'[c]) -> Int]
        /\ \A y \in 1 .. Len(asked'[c]) : /\ Taken(c, y)' = new[y] /\ Sent(c, y)' = sent[y]
                                          /\ new[y] <= sent[y] /\ sent[y] <= Count(asked'[c][y])
    BY <1>4, <1>5, <1>14, <2>1, <2>2
  <2>. QED
    BY <2>3, <2>4, UnderwayFrom
<1>22. ASSUME NEW d \in Client, d # c PROVE UnderwayOf(d)'
  <2>. DEFINE taken1 == TakenOf(d)
              sent1 == SentOf(d)
  <2>1. /\ asked'[d] \in Seq(Request) /\ up'[d] = up[d]
        /\ taken1 \in [1 .. Len(asked'[d]) -> Int] /\ sent1 \in [1 .. Len(asked'[d]) -> Int]
        /\ Listing(d, up[d], asked'[d], taken1, sent1)
    BY <1>11, <1>14, <1>22, StateIs
  <2>2. \A y \in 1 .. Len(asked'[d]) :
           /\ Taken(d, y)' = taken1[y] /\ Sent(d, y)' = sent1[y]
           /\ taken1[y] <= sent1[y] /\ sent1[y] <= Count(asked'[d][y])
    BY <1>14, <1>18, <1>20, <1>22, StateIs DEF TakenOf, SentOf
  <2>. HIDE DEF taken1, sent1
  <2>. QED
    BY <2>1, <2>2, UnderwayFrom
<1>23. \A d \in Client : Kept(d)
  BY <1>14, StateIs DEF Kept
<1>24. ASSUME NEW k2 \in Kind PROVE HeaderOf(k2)'
  <2>1. CASE k2 = k
    <3>1. IsFirstAsked(c, i)' /\ asked'[c][i].kind = k /\ asked'[c][i] = r
      BY <1>7, <1>8, <1>14 DEF IsFirstAsked
    <3>2. i \in 1 .. Len(asked'[c])
      BY <1>4, <1>14
    <3>. QED
      BY <1>12, <1>13, <2>1, <3>1, <3>2 DEF HeaderOf
  <2>2. CASE k2 # k
    BY <1>12, <1>13, <1>14, <1>23, <2>2, HeaderSame
  <2>. QED
    BY <2>1, <2>2
<1>25. HandlerInv'
  BY <1>12, <1>14, <1>15, <1>23, HandlerSame
<1>26. ASSUME NEW d \in Client PROVE ClientOf(d)'
  <2>1. Unsaid(d)' = Unsaid(d)
    BY <1>14 DEF Unsaid
  <2>. QED
    BY <1>14, <2>1, ClientSame
<1>. QED
  BY <1>17, <1>21, <1>22, <1>24, <1>25, <1>26
     DEF TransportInv, RequestsUnderway, HeadersReceived, ClientInv

\* rs2 is rs without the request i.
Without(rs2, rs, n, i) == \A j \in 1 .. n - 1 : rs2[j] = IF j < i THEN rs[j] ELSE rs[j + 1]

\* No request before y is of its kind.
FirstIn(rs, y) == \A h \in 1 .. y - 1 : rs[h].kind # rs[y].kind

LEMMA ServedLeaves ==
  ASSUME NEW rs \in Seq(Request), NEW n \in Nat, n = Len(rs), NEW i \in 1 .. n, NEW rs2,
         rs2 = RemoveAt(rs, i)
  PROVE  rs2 \in Seq(Request) /\ Len(rs2) = n - 1 /\ Without(rs2, rs, n, i)
<1>1. IsSequence(rs)
  BY IsSequenceIs
<1>2. /\ Len(rs2) = n - 1 /\ \A S : rs \in Seq(S) => rs2 \in Seq(S)
      /\ \A j \in 1 .. n - 1 : rs2[j] = IF j < i THEN rs[j] ELSE rs[j + 1]
  BY <1>1, RemoveAtIs
<1>. QED
  BY <1>2 DEF Without

LEMMA ServedFirst ==
  ASSUME NEW rs, NEW rs2, NEW n \in Nat, NEW i \in 1 .. n,
         Without(rs2, rs, n, i),
         NEW y \in 1 .. n, rs[y].kind # rs[i].kind, NEW j, j = IF y < i THEN y ELSE y - 1
  PROVE  j \in 1 .. n - 1 /\ rs2[j] = rs[y] /\ (FirstIn(rs2, j) <=> FirstIn(rs, y))
<1>1. /\ y # i
      /\ \A h \in 1 .. n - 1 : rs2[h] = IF h < i THEN rs[h] ELSE rs[h + 1]
  BY DEF Without
<1>2. j \in 1 .. n - 1 /\ rs2[j] = rs[y]
  <2>1. CASE y < i
    BY <1>1, <2>1
  <2>2. CASE i < y
    <3>1. j = y - 1 /\ j \in 1 .. n - 1 /\ ~(j < i) /\ j + 1 = y
      BY <2>2
    <3>. QED
      BY <1>1, <3>1
  <2>. QED
    BY <1>1, <2>1, <2>2
<1>3. ASSUME \A h \in 1 .. j - 1 : rs2[h].kind # rs2[j].kind, NEW h \in 1 .. y - 1
      PROVE  rs[h].kind # rs[y].kind
  <2>1. CASE h < i
    <3>1. h < j \/ h = i
      BY <2>1, <1>1
    <3>2. h < j
      BY <2>1, <3>1
    <3>3. h \in 1 .. j - 1 /\ h \in 1 .. n - 1
      BY <3>2, <1>2
    <3>. QED
      BY <1>1, <1>2, <1>3, <2>1, <3>3
  <2>2. CASE h = i
    BY <2>2
  <2>3. CASE i < h
    <3>1. h - 1 \in 1 .. j - 1 /\ h - 1 \in 1 .. n - 1 /\ ~(h - 1 < i) /\ (h - 1) + 1 = h
      BY <1>2, <2>3
    <3>2. rs2[h - 1] = rs[h]
      BY <1>1, <3>1
    <3>. QED
      BY <1>2, <1>3, <3>1, <3>2
  <2>. QED
    BY <2>1, <2>2, <2>3
<1>4. ASSUME \A h \in 1 .. y - 1 : rs[h].kind # rs[y].kind, NEW h \in 1 .. j - 1
      PROVE  rs2[h].kind # rs2[j].kind
  <2>1. CASE h < i
    <3>1. h \in 1 .. y - 1 /\ h \in 1 .. n - 1
      BY <1>2
    <3>. QED
      BY <1>1, <1>2, <1>4, <2>1, <3>1
  <2>2. CASE ~(h < i)
    <3>1. h + 1 \in 1 .. y - 1 /\ h \in 1 .. n - 1
      BY <1>2, <2>2
    <3>. QED
      BY <1>1, <1>2, <1>4, <2>2, <3>1
  <2>. QED
    BY <2>1, <2>2
<1>. QED
  BY <1>2, <1>3, <1>4 DEF FirstIn

\* The handler answers r, the request i of the n requests of f.
Serves(f, n, i, r) ==
  /\ HandlerAt("receiving") /\ handler.from = f /\ handler.kind = r.kind /\ todo[0] = <<>>
  /\ n = Len(asked[f]) /\ r = asked[f][i] /\ IsFirstAsked(f, i)
  /\ served' = [from |-> f, request |-> r]
  /\ asked' = [asked EXCEPT ![f] = RemoveAt(@, i)]
  /\ IF Answers(r) = {} THEN UNCHANGED <<todo, answer>>
     ELSE \E a \in Answers(r) : /\ todo' = [todo EXCEPT ![0] = HandlerSends(r.kind, a)]
                                /\ answer' = [answer EXCEPT ![f] = a]
  /\ handler' = [handler EXCEPT !.stage = "sending"]
  /\ UNCHANGED <<rendezvous, net, slot, buffer, got, calls, waiting, returned>>

\* The request that is served is the one its handler received.
LEMMA SelectFirst ==
  ASSUME NEW rs, NEW n \in Nat, n = Len(rs), NEW i \in 1 .. n,
         \A h \in 1 .. i - 1 : rs[h].kind # rs[i].kind, NEW k, k = rs[i].kind
  PROVE  LET S == {h \in 1 .. Len(rs) : rs[h].kind = k} IN S # {} /\ Min(S) = i
<1>. DEFINE S == {h \in 1 .. Len(rs) : rs[h].kind = k}
<1>1. i \in S /\ \A h \in S : i <= h
  <2>1. ASSUME NEW h \in S, ~(i <= h) PROVE FALSE
    <3>1. h \in 1 .. i - 1 /\ rs[h].kind = rs[i].kind
      BY <2>1
    <3>. QED
      BY <3>1
  <2>. QED
    BY <2>1
<1>2. \A m \in S : (\A h \in S : m <= h) => m = i
  <2>1. S \subseteq Int
    OBVIOUS
  <2>. HIDE DEF S
  <2>. QED
    BY <1>1, <2>1
<1>3. Min(S) = i
  <2>. HIDE DEF S
  <2>. QED
    BY <1>1, <1>2 DEF Min
<1>. QED
  BY <1>1, <1>3

\* Reply serves the request that was asked, as it was asked.
LEMMA HandlerServes ==
  ASSUME TransportInv, Reply
  PROVE  \E f \in Client, n \in Nat, r \in Request : \E i \in 1 .. n : Serves(f, n, i, r)
<1>. PICK f : f = handler.from
  OBVIOUS
<1>1. handler.stage = "receiving" /\ todo[0] = <<>>
  BY DEF Reply
<1>2. HandlerAt("receiving") /\ \E i \in 1 .. Len(asked[f]) : Receives(i)
  BY <1>1 DEF TransportInv, HandlerInv, Idle, NoHandler, HandlerAt
<1>3. f \in Client
  BY <1>2 DEF HandlerAt
<1>4. PICK i \in 1 .. Len(asked[f]) : Receives(i)
  BY <1>2
<1>5. PICK n \in Nat : n = Len(asked[f])
  BY <1>3, StateIs
<1>6. PICK r \in Request : r = asked[f][i]
  BY <1>3, <1>4, StateIs
<1>7. /\ handler.kind = r.kind /\ IsFirstAsked(f, i) /\ KnowsHeader(handler, f, r)
      /\ Receiving(handler, r, todo[0], got[0])
  BY <1>4, <1>6 DEF Receives, KnowsHeader
<1>8. Understood(handler, got[0]) = r
  <2>1. Receiving(handler, r, <<>>, got[0])
    BY <1>1, <1>7
  <2>2. PICK h, parts : h = handler /\ parts = got[0]
    OBVIOUS
  <2>3. KnowsHeader(h, f, r) /\ Receiving(h, r, <<>>, parts)
    BY <1>7, <2>1, <2>2
  <2>4. Understood(h, parts) = r
    BY ONLY <2>3, UnderstoodIs, r \in Request
  <2>. QED
    BY <2>2, <2>4
<1>. DEFINE S == {h \in 1 .. Len(asked[f]) : asked[f][h].kind = r.kind}
<1>9. S # {} /\ Min(S) = i
  <2>1. i \in 1 .. n /\ \A h \in 1 .. (i - 1) : asked[f][h].kind # asked[f][i].kind
    BY <1>5, <1>7 DEF IsFirstAsked
  <2>. QED
    BY <1>5, <1>6, <2>1, SelectFirst
<1>10. /\ served' = [from |-> f, request |-> r]
       /\ asked' = [asked EXCEPT ![f] = RemoveAt(@, i)]
       /\ IF Answers(r) = {} THEN UNCHANGED <<todo, answer>>
          ELSE \E a \in Answers(r) : /\ todo' = [todo EXCEPT ![0] = HandlerSends(r.kind, a)]
                                     /\ answer' = [answer EXCEPT ![f] = a]
       /\ handler' = [handler EXCEPT !.stage = "sending"]
       /\ UNCHANGED <<rendezvous, net, slot, buffer, got, calls, waiting, returned>>
  <2>1. (IF S # {} THEN Min(S) ELSE 0) = i
    BY <1>9
  <2>. QED
    BY <1>8, <2>1 DEF Reply, SelectInSeq
<1>. QED
  BY <1>1, <1>2, <1>3, <1>5, <1>6, <1>7, <1>10 DEF Serves

\* What a step that serves a request changes, value by value.
ServesIs(f, n, i, r) ==
  /\ handler.stage = "receiving" /\ handler.kind = r.kind /\ handler.from = f
  /\ slot[r.kind] = f
  /\ todo[0] = <<>> /\ n = Len(asked[f]) /\ i \in 1 .. n /\ r = asked[f][i]
  /\ IsFirstAsked(f, i)
  /\ asked' \in [Client -> Seq(Request)] /\ Len(asked'[f]) = n - 1
  /\ Without(asked'[f], asked[f], n, i)
  /\ asked'[f] = RemoveAt(asked[f], i)
  /\ \A c \in Client : c # f => asked'[c] = asked[c] /\ answer'[c] = answer[c]
  /\ Over(answer', Client) /\ Over(todo', Client \cup {0}) /\ IsSequence(todo'[0])
  /\ \A c \in Client : todo'[c] = todo[c]
  /\ IF Answers(r) = {} THEN todo'[0] = <<>> /\ answer'[f] = answer[f]
     ELSE answer'[f] \in Answers(r) /\ todo'[0] = HandlerSends(r.kind, answer'[f])
  /\ handler'.stage = "sending" /\ handler'.kind = r.kind /\ handler'.from = f
  /\ HandlerAt("sending")'
  /\ UNCHANGED <<rendezvous, up, down, slot, buffer, got, waiting, returned>>

LEMMA ServesChanges ==
  ASSUME TransportInv, NEW f \in Client, NEW n \in Nat, NEW r \in Request, NEW i \in 1 .. n,
         Serves(f, n, i, r)
  PROVE  ServesIs(f, n, i, r)
<1>1. TypeOK /\ r.kind \in Kind /\ rendezvous' = rendezvous
  BY RequestAssumption DEF TransportInv, Serves
<1>2. /\ handler.stage = "receiving" /\ handler.kind = r.kind /\ handler.from = f
      /\ slot[r.kind] = f
      /\ todo[0] = <<>> /\ n = Len(asked[f]) /\ r = asked[f][i] /\ IsFirstAsked(f, i)
      /\ UNCHANGED <<rendezvous, up, down, slot, buffer, got, waiting, returned>>
  BY DEF Serves, HandlerAt, net
<1>3. /\ handler'.stage = "sending" /\ handler'.kind = r.kind /\ handler'.from = f
      /\ HandlerAt("sending")'
  <2>1. PICK h : h = handler.head
    OBVIOUS
  <2>2. handler = [stage |-> "receiving", kind |-> r.kind, from |-> f, head |-> h]
    BY <1>2, <2>1 DEF Serves, HandlerAt
  <2>3. handler' = [stage |-> "sending", kind |-> r.kind, from |-> f, head |-> h]
    BY <2>2 DEF Serves
  <2>. QED
    BY <1>1, <1>2, <2>3 DEF HandlerAt
<1>4. /\ asked' \in [Client -> Seq(Request)] /\ asked'[f] = RemoveAt(asked[f], i)
      /\ Len(asked'[f]) = n - 1 /\ Without(asked'[f], asked[f], n, i)
      /\ \A c \in Client : c # f => asked'[c] = asked[c]
  <2>1. PICK rs \in Seq(Request) : rs = asked[f]
    BY <1>1 DEF TypeOK
  <2>2. PICK rs2 : rs2 = RemoveAt(rs, i)
    OBVIOUS
  <2>3. rs2 \in Seq(Request) /\ Len(rs2) = n - 1 /\ Without(rs2, rs, n, i)
    BY <1>2, <2>1, <2>2, ServedLeaves
  <2>4. asked' = [asked EXCEPT ![f] = rs2] /\ asked \in [Client -> Seq(Request)]
    BY <1>1, <2>1, <2>2 DEF Serves, TypeOK
  <2>. QED
    BY <2>1, <2>2, <2>3, <2>4, SMTT(20)
<1>5. CASE Answers(r) = {}
  <2>1. todo' = todo /\ answer' = answer
    BY <1>5 DEF Serves
  <2>2. IsSequence(todo'[0])
    BY <1>1, <2>1 DEF TypeOK
  <2>3. Over(answer', Client) /\ Over(todo', Client \cup {0})
    BY <1>1, <2>1 DEF TypeOK
  <2>. QED
    BY <1>2, <1>3, <1>4, <1>5, <2>1, <2>2, <2>3 DEF ServesIs
<1>6. CASE Answers(r) # {}
  <2>1. PICK a \in Answers(r) : /\ todo' = [todo EXCEPT ![0] = HandlerSends(r.kind, a)]
                                /\ answer' = [answer EXCEPT ![f] = a]
    BY <1>6 DEF Serves
  <2>2. PICK sends : sends = HandlerSends(r.kind, a)
    OBVIOUS
  <2>3. todo' = Replaced(todo, Rank, 0, sends) /\ answer' = Replaced(answer, Client, f, a)
    BY <1>1, <2>1, <2>2 DEF TypeOK, Over, Replaced, Rank
  <2>4. /\ Over(todo', Client \cup {0}) /\ todo'[0] = sends
        /\ \A c \in Client : todo'[c] = todo[c]
        /\ Over(answer', Client) /\ answer'[f] = a
        /\ \A c \in Client : c # f => answer'[c] = answer[c]
    BY <2>3, ClientAssumption DEF Replaced, Over, Rank
  <2>5. IsSequence(todo'[0])
    <3>1. a \in Answers(Plain(r.kind))
      BY <2>1, AnswersAre
    <3>. QED
      BY <1>1, <2>2, <2>4, <3>1, HandlerSendsAre
  <2>. QED
    BY <1>2, <1>3, <1>4, <1>6, <2>1, <2>2, <2>4, <2>5 DEF ServesIs
<1>. QED
  BY <1>5, <1>6

\* The served request had arrived whole; what of the others has arrived does not change.
LEMMA ServesTaken ==
  ASSUME TransportInv, NEW f \in Client, NEW n \in Nat, NEW r \in Request, NEW i \in 1 .. n,
         ServesIs(f, n, i, r)
  PROVE  /\ \A c \in Client : c # f => \A y : Taken(c, y)' = Taken(c, y)
         /\ Taken(f, i) = Count(r)
         /\ \A j \in 1 .. n - 1 : Taken(f, j)' = Taken(f, IF j < i THEN j ELSE j + 1)
<1>1. ASSUME NEW c \in Client, c # f, NEW y PROVE Taken(c, y)' = Taken(c, y)
  <2>1. IsFirstAsked(c, y)' = IsFirstAsked(c, y) /\ asked'[c] = asked[c]
    BY <1>1 DEF IsFirstAsked, ServesIs
  <2>2. CASE asked[c][y].kind = r.kind
    BY <1>1, <2>1, <2>2 DEF Taken, ServesIs
  <2>3. CASE asked[c][y].kind # r.kind
    BY <1>1, <2>1, <2>3 DEF Taken, ServesIs
  <2>. QED
    BY <2>2, <2>3
<1>2. Taken(f, i) = Count(r)
  <2>1. NumParts(f, i) = Count(r)
    BY CallSendsAre DEF NumParts, ServesIs
  <2>. QED
    BY <2>1, ClientAssumption DEF Taken, ServesIs
<1>3. ASSUME NEW j \in 1 .. n - 1, NEW y, y = IF j < i THEN j ELSE j + 1
      PROVE  Taken(f, j)' = Taken(f, y)
  <2>1. y \in 1 .. n /\ y # i /\ j = IF y < i THEN y ELSE y - 1
    BY <1>3
  <2>2. asked'[f][j] = asked[f][y]
    BY <1>3 DEF ServesIs, Without
  <2>3. CASE asked[f][y].kind = r.kind
    <3>1. ~IsFirstAsked(f, y)
      <4>1. i < y
        BY <2>1, <2>3 DEF ServesIs, IsFirstAsked
      <4>. QED
        BY <2>1, <2>3, <4>1 DEF ServesIs, IsFirstAsked
    <3>2. Taken(f, y) = 0
      BY <3>1 DEF Taken
    <3>3. Taken(f, j)' = 0
      BY <2>2, <2>3 DEF Taken, ServesIs
    <3>. QED
      BY <3>2, <3>3
  <2>4. CASE asked[f][y].kind # r.kind
    <3>1. IsFirstAsked(f, j)' <=> IsFirstAsked(f, y)
      <4>1. PICK rs, rs2 : rs = asked[f] /\ rs2 = asked'[f]
        OBVIOUS
      <4>2. Without(rs2, rs, n, i) /\ rs[y].kind # rs[i].kind
        BY <2>4, <4>1 DEF ServesIs
      <4>3. FirstIn(rs2, j) <=> FirstIn(rs, y)
        BY ONLY <2>1, <4>2, n \in Nat, i \in 1 .. n, ServedFirst
      <4>. QED
        BY <4>1, <4>3 DEF IsFirstAsked, FirstIn
    <3>2. /\ slot'[asked[f][y].kind] = slot[asked[f][y].kind]
          /\ handler.stage = "receiving" /\ handler'.stage = "sending"
          /\ handler.kind # asked[f][y].kind /\ handler'.kind # asked[f][y].kind
      BY <2>4 DEF ServesIs
    <3>3. Taken(f, y) = IF slot[asked[f][y].kind] # f \/ ~IsFirstAsked(f, y) THEN 0 ELSE 1
      BY <3>2 DEF Taken
    <3>4. Taken(f, j)' = IF slot'[asked[f][y].kind] # f \/ ~IsFirstAsked(f, j)' THEN 0 ELSE 1
      BY <2>2, <3>2 DEF Taken
    <3>. QED
      BY <3>1, <3>2, <3>3, <3>4
  <2>. QED
    BY <2>3, <2>4
<1>. QED
  BY <1>1, <1>2, <1>3

\* The served request had been sent whole.
LEMMA ServesAnswered ==
  ASSUME TransportInv, NEW f \in Client, NEW n \in Nat, NEW r \in Request, NEW i \in 1 .. n,
         ServesIs(f, n, i, r)
  PROVE  Sent(f, i) = Count(r) /\ (i = n => Unsent(f) = 0)
<1>1. /\ Taken(f, i) <= Sent(f, i) /\ Sent(f, i) <= Count(r)
      /\ Sent(f, i) \in Int /\ Count(r) \in 1 .. 3
      /\ i = n => Sent(f, i) = Count(r) - Unsent(f)
      /\ Unsent(f) \in Nat
  BY StateIs DEF ServesIs
<1>2. Taken(f, i) = Count(r)
  BY ServesTaken
<1>. QED
  BY <1>1, <1>2

\* A request whose answer is waited for is the last of its client.
LEMMA ServesLast ==
  ASSUME TransportInv, NEW f \in Client, NEW n \in Nat, NEW r \in Request, NEW i \in 1 .. n,
         ServesIs(f, n, i, r)
  PROVE  LastWaits(f)' /\ (Answers(r) # {} => i = n /\ waiting[f] /\ answer[f] = M!Nothing)
<1>1. LastWaits(f) /\ n = Len(asked[f]) /\ r = asked[f][i] /\ waiting'[f] = waiting[f]
      /\ Len(asked'[f]) = n - 1 /\ Without(asked'[f], asked[f], n, i)
  BY DEF TransportInv, ClientInv, ClientOf, ServesIs
<1>2. Answers(r) # {} => i = n /\ waiting[f] /\ answer[f] = M!Nothing
  BY <1>1 DEF LastWaits
<1>3. ASSUME NEW j \in 1 .. n - 1, Answers(asked'[f][j]) # {}
      PROVE  j = n - 1 /\ waiting'[f] /\ answer'[f] = M!Nothing
  <2>1. PICK y \in 1 .. n : y = IF j < i THEN j ELSE j + 1
    OBVIOUS
  <2>2. asked'[f][j] = asked[f][y]
    BY <1>1, <2>1 DEF Without
  <2>3. y = n /\ waiting[f] /\ answer[f] = M!Nothing
    BY <1>1, <1>3, <2>2 DEF LastWaits
  <2>4. j = n - 1 /\ i # n
    BY <2>1, <2>3
  <2>5. answer'[f] = answer[f]
    BY <1>2, <2>4 DEF ServesIs
  <2>. QED
    BY <1>1, <2>3, <2>4, <2>5
<1>. QED
  BY <1>1, <1>2, <1>3 DEF LastWaits

\* The call of f that is served knows nothing of it, or its answer is on its way.
LEMMA ServesClient ==
  ASSUME TransportInv, NEW f \in Client, NEW n \in Nat, NEW r \in Request, NEW i \in 1 .. n,
         ServesIs(f, n, i, r)
  PROVE  ClientOf(f)' /\ Unsent(f)' = Unsent(f)
<1>1. /\ rendezvous' = rendezvous /\ down'[f] = down[f] /\ got'[f] = got[f]
      /\ todo'[f] = todo[f]
      /\ waiting'[f] = waiting[f] /\ Unsaid(f)' = todo'[0] /\ Unsaid(f) = <<>>
      /\ n = Len(asked[f]) /\ r = asked[f][i] /\ Len(asked'[f]) = n - 1
      /\ asked'[f] \in Seq(Request)
      /\ Without(asked'[f], asked[f], n, i) /\ asked[f] \in Seq(Request)
  BY DEF ServesIs, Unsaid, TransportInv, TypeOK
<1>2. /\ LastWaits(f)' /\ (Answers(r) # {} => i = n /\ waiting[f] /\ answer[f] = M!Nothing)
      /\ i = n => Unsent(f) = 0
  BY ServesLast, ServesAnswered
<1>3. ClientOf(f) /\ r.kind \in Kind
  BY RequestAssumption DEF TransportInv, ClientInv
<1>4. CASE Answers(r) # {}
  <2>1. Asking(f) /\ i = n
    <3>1. ~AtRest(f)
      BY <1>2, <1>4 DEF AtRest
    <3>2. ~Answered(f)
      BY <1>2, <1>4, AnsweredIs
    <3>. QED
      BY <1>2, <1>3, <1>4, <3>1, <3>2 DEF ClientOf
  <2>2. PICK s : AtStep(f, s)
    BY <1>1, <2>1, AskingIs
  <2>3. todo[f] = CallRecvs(r.kind)
    <3>1. Count(r) \in 1 .. 3 /\ Unsent(f) = 0
      BY <1>2, <2>1, CallSendsAre
    <3>2. s \in 1 .. Count(r) + 1 /\ Unsent(f) = (Count(r) + 1) - s
          /\ (s = Count(r) + 1 => todo[f] = CallRecvs(r.kind))
      BY <1>1, <2>1, <2>2 DEF AtStep
    <3>3. s = Count(r) + 1
      BY <3>1, <3>2
    <3>. QED
      BY <3>2, <3>3
  <2>4. got[f] = <<>> /\ down[f] = <<>>
    BY <2>1 DEF Asking, NotAnswered
  <2>5. PICK a \in Answers(Plain(r.kind)) : answer'[f] = a /\ todo'[0] = HandlerSends(r.kind, a)
    BY <1>4, AnswersAre DEF ServesIs
  <2>6. PICK t \in 0 .. 2 : t = 0
    OBVIOUS
  <2>7. HasReceived(r.kind, a, t, todo'[f], got'[f])
    BY <1>1, <2>3, <2>4, <2>6 DEF HasReceived
  <2>8. OnTheWay(HandlerSends(r.kind, a), t, down'[f], Unsaid(f)')
    <3>1. PICK sends : sends = HandlerSends(r.kind, a)
      OBVIOUS
    <3>2. PICK l \in 1 .. 3 : l = Len(sends)
      BY <1>3, <3>1, HandlerSendsAre
    <3>3. PICK ms : ms = <<>> /\ Len(ms) = 0
      BY EmptyIs
    <3>4. OnTheWay(sends, t, ms, sends)
      BY <2>6, <3>2, <3>3 DEF OnTheWay
    <3>. QED
      BY <1>1, <2>4, <2>5, <3>1, <3>3, <3>4
  <2>9. Answered(f)'
    <3>1. waiting'[f]
      BY <1>1, <1>2, <1>4
    <3>. QED
      BY <1>1, <1>3, <2>5, <2>7, <2>8, <3>1, AnsweredIsNext
  <2>. QED
    BY <1>2, <2>1, <2>9, NotAskingIsNext DEF ClientOf
<1>5. CASE Answers(r) = {}
  <2>1. todo'[0] = <<>> /\ answer'[f] = answer[f]
    BY <1>5 DEF ServesIs
  <2>2. CASE AtRest(f)
    <3>1. AtRest(f)'
      BY <1>1, <2>1, <2>2 DEF AtRest, NotAnswered
    <3>. QED
      BY <1>2, <2>2, <3>1, NotAskingIs, NotAskingIsNext DEF ClientOf
  <2>3. CASE Answered(f)
    <3>1. PICK k \in Kind, t \in 0 .. 2 :
            LET sends == HandlerSends(k, answer[f]) IN
            /\ answer[f] \in Answers(Plain(k)) /\ answer[f] # M!Nothing
            /\ HasReceived(k, answer[f], t, todo[f], got[f])
            /\ TakesNext(k, answer[f], t, todo[f], got[f])
            /\ t < Len(sends)
            /\ t + Len(down[f]) + Len(Unsaid(f)) = Len(sends)
            /\ \A x \in 1 .. Len(down[f]) : SamePart(down[f][x], sends[t + x])
            /\ \A x \in 1 .. Len(Unsaid(f)) : Unsaid(f)[x] = sends[t + Len(down[f]) + x]
      BY <2>3, AnsweredIs
    <3>2. PICK a : a = answer[f]
      OBVIOUS
    <3>3. /\ a = answer[f] /\ a \in Answers(Plain(k))
          /\ HasReceived(k, a, t, todo[f], got[f])
          /\ OnTheWay(HandlerSends(k, a), t, down[f], Unsaid(f))
      BY <3>1, <3>2 DEF OnTheWay
    <3>4. waiting'[f]
      BY <1>1, <2>3 DEF Answered
    <3>5. answer'[f] = a /\ HasReceived(k, a, t, todo'[f], got'[f])
      BY <1>1, <2>1, <3>3
    <3>6. OnTheWay(HandlerSends(k, a), t, down'[f], Unsaid(f)')
      BY <1>1, <2>1, <3>3
    <3>7. Answered(f)'
      BY <1>1, <3>3, <3>4, <3>5, <3>6, AnsweredIsNext
    <3>. QED
      BY <1>2, <2>3, <3>7, NotAskingIs, NotAskingIsNext DEF ClientOf
  <2>4. CASE Asking(f)
    <3>1. PICK s : AtStep(f, s)
      BY <1>1, <2>4, AskingIs
    <3>2. PICK q \in Request : q = asked[f][n]
      BY <1>1, <3>1 DEF AtStep
    <3>3. /\ s \in 1 .. Count(q) + 1 /\ Count(q) \in 1 .. 3
          /\ todo[f] = SubSeq(CallSteps(f, q), s, Len(CallSteps(f, q))) /\ todo[f] # <<>>
          /\ Unsent(f) = (Count(q) + 1) - s
          /\ s = Count(q) + 1 => todo[f] = CallRecvs(q.kind)
      BY <1>1, <3>1, <3>2, CallSendsAre DEF AtStep
    <3>4. i # n
      <4>1. ASSUME i = n PROVE FALSE
        <5>1. s = Count(q) + 1 /\ q = r
          BY <1>1, <1>2, <3>2, <3>3, <4>1
        <5>2. CallRecvs(r.kind) = <<>>
          BY <1>3, <1>5, AnswersAre, CallRecvsAre
        <5>. QED
          BY <3>3, <5>1, <5>2
      <4>. QED
        BY <4>1
    <3>5. PICK m \in Nat \ {0} : m = n - 1
      BY <3>4
    <3>6. m = Len(asked'[f]) /\ asked'[f][m] = q
      <4>1. m \in 1 .. n - 1 /\ ~(m < i) /\ m + 1 = n
        BY <3>4, <3>5
      <4>2. asked'[f][m] = asked[f][n]
        BY <1>1, <4>1 DEF Without
      <4>. QED
        BY <1>1, <3>2, <3>5, <4>2
    <3>7. /\ got'[f] = <<>> /\ waiting'[f] = (Answers(q) # {}) /\ NotAnswered(f)'
      BY <1>1, <2>1, <2>4, <3>2 DEF Asking, NotAnswered
    <3>8. Asking(f)'
      BY <1>1, <3>3, <3>5, <3>6, <3>7, AskingIsNext
    <3>9. Unsent(f)' = Unsent(f)
      BY <1>1, <3>2, <3>6 DEF Unsent
    <3>. QED
      BY <1>2, <3>8, <3>9 DEF ClientOf
  <2>. QED
    BY <1>3, <2>2, <2>3, <2>4 DEF ClientOf
<1>. QED
  BY <1>4, <1>5

\* The parts that are underway are those of the other requests.
LEMMA ServesUnderway ==
  ASSUME TransportInv, NEW f \in Client, NEW n \in Nat, NEW r \in Request, NEW i \in 1 .. n,
         ServesIs(f, n, i, r)
  PROVE  UnderwayOf(f)'
<1>. DEFINE taken == TakenOf(f)
            sent == SentOf(f)
            Old(j) == IF j < i THEN j ELSE j + 1
            taken2 == [j \in 1 .. n - 1 |-> taken[Old(j)]]
            sent2 == [j \in 1 .. n - 1 |-> sent[Old(j)]]
<1>1. /\ rendezvous' = rendezvous /\ up'[f] = up[f] /\ n = Len(asked[f]) /\ r = asked[f][i]
      /\ asked'[f] \in Seq(Request) /\ Len(asked'[f]) = n - 1
      /\ Without(asked'[f], asked[f], n, i) /\ asked'[f] = RemoveAt(asked[f], i)
  BY DEF ServesIs
<1>2. /\ taken \in [1 .. n -> Int] /\ sent \in [1 .. n -> Int] /\ asked[f] \in Seq(Request)
      /\ Listing(f, up[f], asked[f], taken, sent) /\ IsSequence(up[f])
      /\ \A y \in 1 .. n : /\ taken[y] = Taken(f, y) /\ sent[y] = Sent(f, y)
                           /\ taken[y] <= sent[y] /\ sent[y] <= Count(asked[f][y])
                           /\ NumParts(f, y) = Count(asked[f][y])
                           /\ Count(asked[f][y]) \in 1 .. 3
                           /\ (y < n => sent[y] = Count(asked[f][y]))
                           /\ (y = n => sent[y] = Count(asked[f][y]) - Unsent(f))
  BY <1>1, StateIs DEF TakenOf, SentOf
<1>. HIDE DEF taken, sent
<1>3. /\ sent[i] = Count(r) /\ taken[i] = Count(r) /\ Unsent(f)' = Unsent(f)
      /\ (i = n => Unsent(f) = 0)
  BY <1>2, ServesTaken, ServesAnswered, ServesClient
<1>4. ASSUME NEW j \in 1 .. n - 1
      PROVE  /\ Old(j) \in 1 .. n /\ asked'[f][j] = asked[f][Old(j)]
             /\ Taken(f, j)' = taken[Old(j)] /\ Sent(f, j)' = sent[Old(j)]
  <2>1. PICK y \in 1 .. n : y = Old(j)
    OBVIOUS
  <2>2. asked'[f][j] = asked[f][y]
    BY <1>1, <2>1 DEF Without
  <2>3. Taken(f, j)' = Taken(f, y)
    BY <2>1, ServesTaken
  <2>4. NumParts(f, j)' = Count(asked[f][y])
    <3>1. NumParts(f, j)' = Len(CallSends(f, asked[f][y]))
      BY <1>1, <2>2, SendsSame DEF NumParts
    <3>. QED
      BY <1>2, <3>1 DEF NumParts
  <2>5. Sent(f, j)' = sent[y]
    <3>1. CASE j = n - 1 /\ i = n
      <4>1. y < n
        BY <2>1, <3>1
      <4>. QED
        BY <1>1, <1>2, <1>3, <2>4, <3>1, <4>1 DEF Sent
    <3>2. CASE j = n - 1 /\ i # n
      <4>1. y = n
        BY <2>1, <3>2
      <4>. QED
        BY <1>1, <1>2, <1>3, <2>4, <3>2, <4>1 DEF Sent
    <3>3. CASE j # n - 1
      <4>1. y < n
        BY <2>1, <3>3
      <4>. QED
        BY <1>1, <1>2, <2>4, <3>3, <4>1 DEF Sent
    <3>. QED
      BY <3>1, <3>2, <3>3
  <2>. QED
    BY <1>2, <2>1, <2>2, <2>3, <2>5
<1>5. Listing(f, up[f], RemoveAt(asked[f], i), taken2, sent2)
  <2>1. PICK ms, rs, t0, s0, t2, s2 :
          ms = up[f] /\ rs = asked[f] /\ t0 = taken /\ s0 = sent /\ t2 = taken2 /\ s2 = sent2
    OBVIOUS
  <2>2. /\ IsSequence(ms) /\ rs \in Seq(Request) /\ n = Len(rs) /\ Listing(f, ms, rs, t0, s0)
        /\ t0 \in [1 .. n -> Int] /\ s0 \in [1 .. n -> Int] /\ s0[i] <= t0[i]
    BY <1>1, <1>2, <1>3, <2>1
  <2>3. \A j \in 1 .. n : j < i => t2[j] = t0[j] /\ s2[j] = s0[j]
    <3>1. \A j \in 1 .. n : j < i => j \in 1 .. n - 1 /\ Old(j) = j
      OBVIOUS
    <3>. QED
      BY <2>1, <3>1
  <2>4. \A j \in 1 .. n : i < j => t2[j - 1] = t0[j] /\ s2[j - 1] = s0[j]
    <3>1. \A j \in 1 .. n : i < j => j - 1 \in 1 .. n - 1 /\ Old(j - 1) = j
      OBVIOUS
    <3>. HIDE DEF Old
    <3>. QED
      BY <2>1, <3>1
  <2>5. Listing(f, ms, RemoveAt(rs, i), t2, s2)
    BY ONLY <2>2, <2>3, <2>4, n \in Nat, i \in 1 .. n, ListingServed
  <2>. QED
    BY <2>1, <2>5
<1>6. /\ taken2 \in [1 .. Len(asked'[f]) -> Int] /\ sent2 \in [1 .. Len(asked'[f]) -> Int]
      /\ \A j \in 1 .. Len(asked'[f]) :
           /\ Taken(f, j)' = taken2[j] /\ Sent(f, j)' = sent2[j]
           /\ taken2[j] <= sent2[j] /\ sent2[j] <= Count(asked'[f][j])
  <2>1. \A j \in 1 .. n - 1 : Old(j) \in 1 .. n
    BY <1>4
  <2>2. taken2 \in [1 .. n - 1 -> Int] /\ sent2 \in [1 .. n - 1 -> Int]
    <3>. HIDE DEF Old
    <3>. QED
      BY <1>2, <2>1
  <2>3. ASSUME NEW j \in 1 .. n - 1
        PROVE  /\ Taken(f, j)' = taken2[j] /\ Sent(f, j)' = sent2[j]
               /\ taken2[j] <= sent2[j] /\ sent2[j] <= Count(asked'[f][j])
    <3>. HIDE DEF Old
    <3>. QED
      BY <1>2, <1>4
  <2>. HIDE DEF taken2, sent2
  <2>. QED
    BY <1>1, <2>2, <2>3
<1>. HIDE DEF taken2, sent2
<1>. QED
  BY <1>1, <1>5, <1>6, UnderwayFrom

\* The headers that were received are those of other requests.
LEMMA ServesHeader ==
  ASSUME TransportInv, NEW f \in Client, NEW n \in Nat, NEW r \in Request, NEW i \in 1 .. n,
         ServesIs(f, n, i, r), NEW k \in Kind
  PROVE  HeaderOf(k)'
<1>1. CASE k = r.kind
  BY <1>1 DEF HeaderOf, ServesIs
<1>2. CASE k # r.kind
  <2>1. SUFFICES ASSUME slot[k] # 0 PROVE HeaderOf(k)'
    BY DEF HeaderOf, ServesIs
  <2>2. PICK c \in Client : c = slot[k] /\ c = slot'[k]
    BY <2>1 DEF TransportInv, TypeOK, ServesIs
  <2>3. PICK y \in 1 .. Len(asked[c]) :
          /\ asked[c][y].kind = k /\ IsFirstAsked(c, y)
          /\ k \in OwnBuffer => buffer[k] = Header(c, asked[c][y])
    BY <1>2, <2>1, <2>2 DEF TransportInv, HeadersReceived, HeaderOf, ServesIs
  <2>4. \E z \in 1 .. Len(asked'[c]) :
          /\ asked'[c][z].kind = k /\ IsFirstAsked(c, z)'
          /\ k \in OwnBuffer => buffer[k] = Header(c, asked'[c][z])
    <3>1. CASE c # f
      <4>1. asked'[c] = asked[c]
        BY <3>1 DEF ServesIs
      <4>2. y \in 1 .. Len(asked'[c]) /\ asked'[c][y] = asked[c][y] /\ IsFirstAsked(c, y)'
        BY <2>3, <4>1 DEF IsFirstAsked
      <4>. QED
        BY <2>3, <4>2
    <3>2. CASE c = f
      <4>1. PICK rs, rs2 : rs = asked[f] /\ rs2 = asked'[f]
        OBVIOUS
      <4>2. /\ Without(rs2, rs, n, i) /\ y \in 1 .. n /\ rs[y].kind # rs[i].kind
            /\ Len(rs2) = n - 1 /\ FirstIn(rs, y)
        BY <1>2, <2>3, <3>2, <4>1 DEF ServesIs, IsFirstAsked, FirstIn
      <4>3. PICK j : j = IF y < i THEN y ELSE y - 1
        OBVIOUS
      <4>4. j \in 1 .. n - 1 /\ rs2[j] = rs[y] /\ FirstIn(rs2, j)
        BY ONLY <4>2, <4>3, n \in Nat, i \in 1 .. n, ServedFirst
      <4>5. j \in 1 .. Len(asked'[f]) /\ asked'[f][j] = asked[f][y] /\ IsFirstAsked(f, j)'
        BY <4>1, <4>2, <4>4 DEF FirstIn, IsFirstAsked
      <4>. QED
        BY <2>3, <3>2, <4>5
    <3>. QED
      BY <3>1, <3>2
  <2>5. PICK z \in 1 .. Len(asked'[c]) :
          /\ asked'[c][z].kind = k /\ IsFirstAsked(c, z)'
          /\ k \in OwnBuffer => buffer[k] = Header(c, asked'[c][z])
    BY <2>4
  <2>6. buffer' = buffer
    BY DEF ServesIs
  <2>. QED
    BY <2>2, <2>5, <2>6 DEF HeaderOf
<1>. QED
  BY <1>1, <1>2

\* A request is served.
LEMMA ReplyServes ==
  ASSUME TransportInv, Reply
  PROVE  TransportInv'
<1>1. PICK f \in Client, n \in Nat, r \in Request : \E i \in 1 .. n : Serves(f, n, i, r)
  BY HandlerServes
<1>2. PICK i \in 1 .. n : Serves(f, n, i, r)
  BY <1>1
<1>3. ServesIs(f, n, i, r)
  BY <1>2, ServesChanges
<1>4. TypeOK /\ r.kind \in Kind
  BY RequestAssumption DEF TransportInv
<1>5. /\ UNCHANGED <<rendezvous, up, down, slot, buffer, got, waiting, returned>>
      /\ \A c \in Client : c # f => asked'[c] = asked[c] /\ answer'[c] = answer[c]
      /\ \A c \in Client : todo'[c] = todo[c]
      /\ Over(answer', Client) /\ Over(todo', Client \cup {0}) /\ IsSequence(todo'[0])
      /\ asked' \in [Client -> Seq(Request)]
      /\ handler'.stage = "sending" /\ handler'.from = f /\ HandlerAt("sending")'
      /\ handler.stage = "receiving"
  BY <1>3 DEF ServesIs
<1>6. TypeOK'
  <2>1. \A p \in Client \cup {0} : IsSequence(todo'[p])
    BY <1>4, <1>5 DEF TypeOK
  <2>. QED
    BY <1>4, <1>5, <2>1 DEF TypeOK
<1>7. ASSUME NEW c \in Client, c # f PROVE UnderwayOf(c)' /\ ClientOf(c)'
  <2>1. /\ up'[c] = up[c] /\ asked'[c] = asked[c] /\ todo'[c] = todo[c]
        /\ answer'[c] = answer[c]
        /\ waiting'[c] = waiting[c] /\ down'[c] = down[c] /\ got'[c] = got[c]
    BY <1>5, <1>7
  <2>2. UnderwayOf(c)'
    BY <1>3, <1>5, <1>7, <2>1, ServesTaken, SentSame, UnderwaySame
  <2>3. Unsaid(c)' = Unsaid(c)
    BY <1>5, <1>7 DEF Unsaid
  <2>. QED
    BY <1>5, <2>1, <2>2, <2>3, ClientSame
<1>8. UnderwayOf(f)' /\ ClientOf(f)'
  BY <1>3, ServesUnderway, ServesClient
<1>9. \A k \in Kind : HeaderOf(k)'
  BY <1>3, ServesHeader
<1>10. \A x \in 1 .. Len(todo'[0]) : todo'[0][x].do = "send"
  <2>1. CASE Answers(r) = {}
    BY <1>3, <2>1 DEF ServesIs
  <2>2. CASE Answers(r) # {}
    <3>1. PICK a \in Answers(Plain(r.kind)) : todo'[0] = HandlerSends(r.kind, a)
      BY <1>3, <2>2, AnswersAre DEF ServesIs
    <3>. QED
      BY <1>4, <3>1, HandlerSendsAre
  <2>. QED
    BY <2>1, <2>2
<1>11. HandlerInv'
  BY <1>5, <1>10 DEF HandlerInv
<1>. QED
  BY <1>6, <1>7, <1>8, <1>9, <1>11
     DEF TransportInv, RequestsUnderway, HeadersReceived, ClientInv

-----------------------------------------------------------------------------
(***************************************************************************)
(* The invariant.                                                          *)
(***************************************************************************)
LEMMA TransportStarts ==
  Init => TransportInv
<1>. SUFFICES ASSUME Init PROVE TransportInv
  OBVIOUS
<1>1. \A c \in Client : /\ up[c] = <<>> /\ down[c] = <<>> /\ todo[c] = <<>> /\ got[c] = <<>>
                        /\ asked[c] = <<>> /\ ~waiting[c] /\ answer[c] = M!Nothing
  BY DEF Init, M!Init
<1>2. /\ todo[0] = <<>> /\ got[0] = <<>> /\ handler = NoHandler
      /\ \A k \in Kind : slot[k] = 0
  BY DEF Init
<1>3. TypeOK
  <2>1. IsSequence(<<>>)
    BY EmptyIs
  <2>2. \A p \in Client \cup {0} : IsSequence(todo[p]) /\ IsSequence(got[p])
    BY <1>1, <1>2, <2>1
  <2>3. Over(up, Client) /\ Over(down, Client) /\ Over(buffer, Kind)
    BY DEF Init, Over
  <2>4. Over(todo, Client \cup {0}) /\ Over(got, Client \cup {0})
    BY DEF Init, Over
  <2>5. Over(answer, Client) /\ Over(returned, Client)
    BY DEF Init, M!Init, Over
  <2>6. slot \in [Kind -> Client \cup {0}] /\ asked \in [Client -> Seq(Request)]
    BY DEF Init, M!Init
  <2>7. waiting \in [Client -> BOOLEAN]
    BY DEF Init, M!Init
  <2>. QED
    BY <1>1, <2>1, <2>2, <2>3, <2>4, <2>5, <2>6, <2>7 DEF TypeOK
<1>4. ASSUME NEW c \in Client PROVE UnderwayOf(c)
  <2>1. Len(up[c]) = 0 /\ Len(asked[c]) = 0
    BY <1>1, EmptyIs
  <2>2. Underway(c) = {}
    BY <2>1 DEF Underway
  <2>3. PICK part : part = [x \in 1 .. Len(up[c]) |-> <<1, 1>>]
    OBVIOUS
  <2>4. part \in [1 .. Len(up[c]) -> Underway(c)] /\ Lists(c, part)
    BY <2>1, <2>2, <2>3 DEF Lists
  <2>5. \A i \in 1 .. Len(asked[c]) : Taken(c, i) <= Sent(c, i)
    BY <2>1
  <2>. QED
    BY <2>4, <2>5 DEF UnderwayOf
<1>5. HeadersReceived /\ HandlerInv
  BY <1>2 DEF HeadersReceived, HeaderOf, HandlerInv, Idle
<1>6. ASSUME NEW c \in Client PROVE ClientOf(c)
  <2>1. Len(asked[c]) = 0
    BY <1>1, EmptyIs
  <2>2. Unsaid(c) = <<>>
    BY <1>2 DEF Unsaid, NoHandler
  <2>. QED
    BY <1>1, <2>1, <2>2 DEF ClientOf, LastWaits, AtRest, NotAnswered
<1>. QED
  BY <1>3, <1>4, <1>5, <1>6 DEF TransportInv, RequestsUnderway, ClientInv

\* No step breaks the invariant.
LEMMA TransportStays ==
  TransportInv /\ UNCHANGED vars => TransportInv'
<1>. SUFFICES ASSUME TransportInv, UNCHANGED vars PROVE TransportInv'
  OBVIOUS
<1>1. UNCHANGED <<rendezvous, up, down, slot, buffer, handler, todo, got, asked, waiting,
                  answer, returned>>
  BY DEF vars, net, scheduler, history
<1>2. TypeOK'
  BY <1>1 DEF TransportInv, TypeOK
<1>3. \A c \in Client : Kept(c)
  BY <1>1, StateIs DEF Kept
<1>4. ASSUME NEW c \in Client PROVE UnderwayOf(c)' /\ ClientOf(c)'
  <2>1. Unsaid(c)' = Unsaid(c)
    BY <1>1 DEF Unsaid
  <2>. QED
    BY <1>1, <2>1, TakenSame, SentSame, UnderwaySame, ClientSame
<1>5. HandlerInv' /\ \A k \in Kind : HeaderOf(k)'
  BY <1>1, <1>3, HandlerSame, HeaderSame
<1>. QED
  BY <1>2, <1>4, <1>5 DEF TransportInv, RequestsUnderway, HeadersReceived, ClientInv

LEMMA TransportNext ==
  TransportInv /\ [Next]_vars => TransportInv'
<1>. SUFFICES ASSUME TransportInv, [Next]_vars PROVE TransportInv'
  OBVIOUS
<1>1. ASSUME NEW c \in Client, ClientStep(c) PROVE TransportInv'
  BY <1>1, InvokeAsks, ClientSendsNext, ClientReceivesNext DEF ClientStep
<1>2. CASE Rank0
  BY <1>2, HandlerSendsNext, HandlerReceivesNext, ReplyServes, RepostPosts, WaitanyTakes
     DEF Rank0
<1>3. CASE Progress
  BY <1>3, MatchTakes DEF Progress
<1>4. CASE UNCHANGED vars
  BY <1>4, TransportStays
<1>. QED
  BY <1>1, <1>2, <1>3, <1>4 DEF Next, Ended

\* Every part of a request or an answer is where it belongs, in every reachable state: this
\* is what the two loops of messages in mpidynres.c and scheduler_handlers.c rely on.
THEOREM TransportInvariance == Spec => []TransportInv
<1>. QED
  BY TransportStarts, TransportNext, PTL DEF Spec

\* No message is without a request or a call that waits for it.
LEMMA NothingIsOnItsWay ==
  TransportInv => NothingLeft
<1>. SUFFICES ASSUME TransportInv, AllDone, NEW c \in Client PROVE up[c] = <<>> /\ down[c] = <<>>
  BY DEF NothingLeft
<1>1. todo[c] = <<>> /\ asked[c] = <<>>
  BY DEF AllDone
<1>2. up[c] = <<>>
  <2>1. IsSequence(up[c]) /\ Listing(c, up[c], asked[c], TakenOf(c), SentOf(c))
    BY StateIs
  <2>2. PICK ms : ms = up[c]
    OBVIOUS
  <2>3. Missing(asked[c], TakenOf(c), SentOf(c)) = {}
    BY <1>1, EmptyIs DEF Missing
  <2>4. \E part : part \in [1 .. Len(ms) -> {}]
    BY <2>1, <2>2, <2>3 DEF Listing
  <2>5. Len(ms) = 0
    BY <2>1, <2>2, <2>4 DEF IsSequence
  <2>. QED
    BY <2>1, <2>2, <2>5, EmptyIs
<1>3. down[c] = <<>>
  <2>1. ~Asking(c) /\ ~Answered(c)
    BY <1>1, AnsweredIs DEF Asking, TakesNext
  <2>. QED
    BY <2>1 DEF TransportInv, ClientInv, ClientOf, AtRest, NotAnswered
<1>. QED
  BY <1>2, <1>3

\* When every call has returned and every handler too, no message is left that a later call
\* would take for its own.
THEOREM NothingIsLeft == Spec => []NothingLeft
<1>. QED
  BY TransportInvariance, NothingIsOnItsWay, PTL

-----------------------------------------------------------------------------
(***************************************************************************)
(* What the messages are for.                                              *)
(***************************************************************************)
LEMMA InvokeIsAsk ==
  ASSUME TransportInv, NEW c \in Client, Invoke(c)
  PROVE  M!Next
<1>1. ~waiting[c]
  <2>1. todo[c] = <<>>
    BY DEF Invoke
  <2>2. ~Asking(c) /\ ~Answered(c)
    BY <2>1, AnsweredIs DEF Asking, TakesNext
  <2>. QED
    BY <2>2 DEF TransportInv, ClientInv, ClientOf, AtRest
<1>2. PICK r \in Request : M!Ask(c, r)
  BY <1>1 DEF Invoke, M!Ask, M!Nothing
<1>. QED
  BY <1>2 DEF M!Next

\* The steps of Messaging: a request is served,
LEMMA ReplyIsServe ==
  ASSUME TransportInv, Reply
  PROVE  M!Next
<1>1. PICK f \in Client, n \in Nat, r \in Request : \E i \in 1 .. n : Serves(f, n, i, r)
  BY HandlerServes
<1>2. PICK i \in 1 .. n : Serves(f, n, i, r)
  BY <1>1
<1>3. asked[f] \in Seq(Request) /\ n = Len(asked[f]) /\ r = asked[f][i]
  BY <1>2 DEF Serves, TransportInv, TypeOK
<1>4. i \in DOMAIN asked[f]
  BY <1>3
<1>5. M!Serve(f, i)
  <2>1. \A j \in 1 .. (i - 1) : asked[f][j].kind # asked[f][i].kind
    BY <1>2 DEF Serves, IsFirstAsked
  <2>2. /\ served' = [from |-> f, request |-> asked[f][i]]
        /\ asked' = [asked EXCEPT ![f] = RemoveAt(@, i)]
        /\ UNCHANGED <<waiting, returned>>
    BY <1>2, <1>3 DEF Serves
  <2>3. IF Answers(asked[f][i]) = {} THEN answer' = answer
        ELSE \E a \in Answers(asked[f][i]) : answer' = [answer EXCEPT ![f] = a]
    <3>1. IF Answers(r) = {} THEN answer' = answer
          ELSE \E a \in Answers(r) : answer' = [answer EXCEPT ![f] = a]
      BY <1>2 DEF Serves
    <3>. QED
      BY <1>3, <3>1
  <2>. QED
    BY <2>1, <2>2, <2>3 DEF M!Serve, RemoveAt, M!RemoveAt
<1>. QED
  BY <1>4, <1>5 DEF M!Next

\* an answer is returned, or a part of it is received.
LEMMA ReturnIsTake ==
  ASSUME TransportInv, NEW c \in Client, RecvNext(c)
  PROVE  M!Next \/ UNCHANGED history
<1>1. PICK k \in Kind, t \in 0 .. 2 : \E rest, known : Takes(c, k, t, rest, known)
  BY ClientTakes
<1>2. PICK rest, known : Takes(c, k, t, rest, known)
  BY <1>1
<1>3. CASE rest = <<>>
  <2>1. answer[c] # M!Nothing /\ Return(c, answer[c])
    BY <1>2, <1>3, AnswersAre DEF Takes
  <2>2. M!Take(c)
    BY <2>1 DEF Return, M!Take
  <2>. QED
    BY <2>2 DEF M!Next
<1>4. CASE rest # <<>>
  BY <1>2, <1>4 DEF Takes
<1>. QED
  BY <1>3, <1>4

LEMMA MessagingNext ==
  TransportInv /\ [Next]_vars => [M!Next]_(M!vars)
<1>. SUFFICES ASSUME TransportInv, [Next]_vars PROVE M!Next \/ UNCHANGED history
  BY DEF history, M!vars
<1>1. ASSUME NEW c \in Client, ClientStep(c) PROVE M!Next \/ UNCHANGED history
  <2>1. CASE Invoke(c)
    BY <2>1, InvokeIsAsk
  <2>2. CASE SendNext(c)
    BY <2>2 DEF SendNext
  <2>3. CASE RecvNext(c)
    BY <2>3, ReturnIsTake
  <2>. QED
    BY <1>1, <2>1, <2>2, <2>3 DEF ClientStep
<1>2. CASE Rank0
  <2>1. CASE SendNext(0)
    BY <2>1, Zenon DEF SendNext
  <2>2. CASE RecvNext(0)
    BY <2>2, Zenon DEF RecvNext
  <2>3. CASE Reply
    BY <2>3, ReplyIsServe
  <2>4. CASE Repost
    BY <2>4, Zenon DEF Repost
  <2>5. CASE \E k \in Kind : Waitany(k)
    BY <2>5, Zenon DEF Waitany
  <2>. QED
    BY <1>2, <2>1, <2>2, <2>3, <2>4, <2>5 DEF Rank0
<1>3. CASE Progress
  BY <1>3 DEF Progress, Match
<1>4. CASE Ended
  BY <1>4 DEF Ended, vars
<1>5. CASE UNCHANGED vars
  BY <1>5 DEF vars
<1>. QED
  BY <1>1, <1>2, <1>3, <1>4, <1>5 DEF Next

\* The messages of the client library and of the scheduler do what both expect of them, for
\* all requests and info objects, all ranks, and whether MPI buffers what is sent or not.
THEOREM MessagingImplemented == Spec => ImplementsMessaging
<1>1. Init => M!Init
  BY DEF Init
<1>. QED
  BY <1>1, TransportInvariance, MessagingNext, PTL DEF Spec, ImplementsMessaging, M!Spec
=============================================================================
