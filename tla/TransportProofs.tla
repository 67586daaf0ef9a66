--------------------------- MODULE TransportProofs ---------------------------
(***************************************************************************)
(* Proofs about Transport: that an info object survives its serialization, *)
(* whatever it holds, and that requests and answers of several messages    *)
(* are put together right, whatever else is underway.                      *)
(***************************************************************************)
EXTENDS TransportInvariants, SequenceTheorems, WellFoundedInduction, TLAPS

-----------------------------------------------------------------------------
(***************************************************************************)
(* Induction.  The theorems of the library that take a predicate are not   *)
(* used; a set and the least number outside of it serve as well.           *)
(***************************************************************************)
LEMMA LessThanPairs ==
  ASSUME NEW x \in Nat, NEW y \in Nat, x < y
  PROVE  <<x, y>> \in OpToRel(<, Nat)
BY DEF OpToRel

LEMMA SetInduction ==
  ASSUME NEW T \in SUBSET Nat, 0 \in T, \A n \in T : n + 1 \in T
  PROVE  T = Nat
<1>. DEFINE R == OpToRel(<, Nat)
            B == Nat \ T
<1>1. IsWellFoundedOn(R, Nat)
  BY NatLessThanWellFounded
<1>2. SUFFICES ASSUME B # {} PROVE FALSE
  OBVIOUS
<1>3. \A x, y \in Nat : x < y => <<x, y>> \in R
  BY LessThanPairs
<1>4. B \subseteq Nat
  OBVIOUS
<1>. HIDE DEF R, B
<1>5. PICK x \in B : \A y \in B : <<y, x>> \notin R
  BY <1>1, <1>2, <1>4, WFMin
<1>. USE DEF B
<1>6. x \in Nat /\ x # 0
  OBVIOUS
<1>7. x - 1 \in Nat /\ x - 1 < x
  BY <1>6
<1>8. x - 1 \in T
  BY <1>3, <1>5, <1>6, <1>7
<1>9. (x - 1) + 1 \in T
  BY <1>8
<1>. QED
  BY <1>6, <1>9

-----------------------------------------------------------------------------
(***************************************************************************)
(* Serialization.                                                          *)
(***************************************************************************)
\* The concatenations of the first sequences of a sequence of them.
LEMMA Concatenations ==
  ASSUME NEW S, NEW seqs \in Seq(Seq(S))
  PROVE  \E g \in [0 .. Len(seqs) -> Seq(S)] :
           g[0] = <<>> /\ \A i \in 1 .. Len(seqs) : g[i] = g[i - 1] \o seqs[i]
<1>. DEFINE Concat(n, g) == /\ g \in [0 .. n -> Seq(S)]
                            /\ g[0] = <<>>
                            /\ \A i \in 1 .. n : g[i] = g[i - 1] \o seqs[i]
            T == {n \in Nat : n <= Len(seqs) => \E g : Concat(n, g)}
<1>. Len(seqs) \in Nat /\ \A i \in 1 .. Len(seqs) : seqs[i] \in Seq(S)
  OBVIOUS
<1>1. 0 \in T
  <2>. DEFINE g == [i \in 0 .. 0 |-> <<>>]
  <2>1. Concat(0, g)
    OBVIOUS
  <2>. QED
    BY <2>1
<1>2. ASSUME NEW n \in Nat, n + 1 <= Len(seqs), NEW g, Concat(n, g)
      PROVE  \E h : Concat(n + 1, h)
  <2>. DEFINE h == [i \in 0 .. n + 1 |-> IF i <= n THEN g[i] ELSE g[n] \o seqs[n + 1]]
  <2>1. seqs[n + 1] \in Seq(S) /\ g[n] \in Seq(S)
    BY <1>2
  <2>2. h \in [0 .. n + 1 -> Seq(S)]
    BY <1>2, <2>1
  <2>3. \A i \in 0 .. n : h[i] = g[i]
    OBVIOUS
  <2>4. h[n + 1] = g[n] \o seqs[n + 1]
    <3>1. n + 1 \in 0 .. n + 1 /\ ~(n + 1 <= n)
      OBVIOUS
    <3>. QED
      BY ONLY <3>1 DEF h
  <2>. HIDE DEF h
  <2>5. h[0] = <<>>
    BY <1>2, <2>3, SMTT(20)
  <2>6. ASSUME NEW i \in 1 .. n + 1 PROVE h[i] = h[i - 1] \o seqs[i]
    <3>1. CASE i <= n
      <4>1. i \in 0 .. n /\ i - 1 \in 0 .. n /\ i \in 1 .. n
        BY <3>1
      <4>. QED
        BY <1>2, <2>3, <4>1
    <3>2. CASE i = n + 1
      <4>1. i - 1 = n /\ n \in 0 .. n
        BY <3>2
      <4>. QED
        BY <2>3, <2>4, <3>2, <4>1
    <3>3. i <= n \/ i = n + 1
      OBVIOUS
    <3>. QED
      BY <3>1, <3>2, <3>3, Zenon
  <2>. QED
    BY <2>2, <2>5, <2>6
<1>. HIDE DEF Concat
<1>3. T = Nat
  <2>1. T \in SUBSET Nat
    OBVIOUS
  <2>2. ASSUME NEW n \in T PROVE n + 1 \in T
    <3>1. n \in Nat /\ n + 1 \in Nat /\ (n + 1 <= Len(seqs) => n <= Len(seqs))
      OBVIOUS
    <3>2. n + 1 <= Len(seqs) => \E g : Concat(n + 1, g)
      BY <1>2, <3>1
    <3>. QED
      BY <3>1, <3>2
  <2>. HIDE DEF T
  <2>. QED
    BY <1>1, <2>1, <2>2, SetInduction
<1>. QED
  <2>1. Len(seqs) \in T
    <3>. HIDE DEF T
    <3>. QED
      BY <1>3
  <2>2. \E g : Concat(Len(seqs), g)
    BY <2>1
  <2>. QED
    BY <2>2 DEF Concat

\* FlattenSeq makes the last of them.
LEMMA FlattenIs ==
  ASSUME NEW S, NEW seqs \in Seq(Seq(S)), NEW g \in [0 .. Len(seqs) -> Seq(S)],
         g[0] = <<>>, \A i \in 1 .. Len(seqs) : g[i] = g[i - 1] \o seqs[i]
  PROVE  FlattenSeq(seqs) = g[Len(seqs)]
<1>. Len(seqs) \in Nat /\ \A i \in 1 .. Len(seqs) : seqs[i] \in Seq(S)
  OBVIOUS
<1>1. CASE Len(seqs) = 0
  BY <1>1 DEF FlattenSeq
<1>2. CASE Len(seqs) # 0
  <2>. DEFINE Step(h) == [i \in 1 .. Len(seqs) |-> IF i = 1 THEN seqs[i] ELSE h[i - 1] \o seqs[i]]
              f == CHOOSE h : h = Step(h)
              gg == [i \in 1 .. Len(seqs) |-> g[i]]
              T == {n \in Nat : n + 1 <= Len(seqs) => f[n + 1] = g[n + 1]}
  <2>1. g[1] = seqs[1]
    <3>1. 1 \in 1 .. Len(seqs) /\ 1 - 1 = 0
      BY <1>2
    <3>2. g[1] = g[1 - 1] \o seqs[1] /\ seqs[1] \in Seq(S)
      BY ONLY <3>1, \A i \in 1 .. Len(seqs) : g[i] = g[i - 1] \o seqs[i],
         \A i \in 1 .. Len(seqs) : seqs[i] \in Seq(S)
    <3>. QED
      BY <3>1, <3>2, ConcatEmptySeq
  <2>2. gg = Step(gg)
    <3>1. ASSUME NEW i \in 1 .. Len(seqs)
          PROVE  gg[i] = IF i = 1 THEN seqs[i] ELSE gg[i - 1] \o seqs[i]
      <4>1. CASE i = 1
        BY <2>1, <4>1
      <4>2. CASE i # 1
        <5>1. gg[i] = g[i] /\ gg[i - 1] = g[i - 1]
          BY <4>2
        <5>. QED
          BY <4>2, <5>1
      <4>. QED
        BY <4>1, <4>2
    <3>. QED
      BY <3>1
  <2>3. f = Step(f)
    <3>. HIDE DEF gg, Step
    <3>. QED
      BY <2>2
  <2>4. \A i \in 1 .. Len(seqs) : f[i] = IF i = 1 THEN seqs[i] ELSE f[i - 1] \o seqs[i]
    <3>. HIDE DEF f
    <3>. QED
      BY <2>3
  <2>5. FlattenSeq(seqs) = f[Len(seqs)]
    BY <1>2 DEF FlattenSeq
  <2>. HIDE DEF f, gg, Step
  <2>6. 0 \in T
    <3>1. f[1] = seqs[1]
      BY <1>2, <2>4
    <3>. QED
      BY <2>1, <3>1
  <2>7. ASSUME NEW n \in T PROVE n + 1 \in T
    <3>1. n \in Nat
      OBVIOUS
    <3>2. SUFFICES ASSUME n + 2 <= Len(seqs) PROVE f[n + 2] = g[n + 2]
      BY <3>1
    <3>3. f[n + 1] = g[n + 1]
      BY <3>1, <3>2
    <3>4. n + 2 \in 1 .. Len(seqs) /\ n + 2 # 1 /\ (n + 2) - 1 = n + 1
      BY <3>1, <3>2
    <3>5. f[n + 2] = f[n + 1] \o seqs[n + 2] /\ g[n + 2] = g[n + 1] \o seqs[n + 2]
      BY <2>4, <3>4
    <3>. QED
      BY <3>3, <3>5
  <2>8. T \in SUBSET Nat
    OBVIOUS
  <2>9. T = Nat
    <3>. HIDE DEF T
    <3>. QED
      BY <2>6, <2>7, <2>8, SetInduction
  <2>10. Len(seqs) - 1 \in T
    <3>. HIDE DEF T
    <3>. QED
      BY <1>2, <2>9
  <2>. QED
    BY <1>2, <2>5, <2>10
<1>. QED
  BY <1>1, <1>2

\* The bytes of the first strings: those of one fewer, then one more string.
LEMMA BytesOfPrefixes ==
  ASSUME NEW strings \in Seq(Text)
  PROVE  \E g \in [0 .. Len(strings) -> Seq(0 .. 255)] :
           /\ g[0] = <<>>
           /\ \A i \in 1 .. Len(strings) : g[i] = g[i - 1] \o Terminated(strings[i])
           /\ \A n \in 0 .. Len(strings) : Bytes(SubSeq(strings, 1, n)) = g[n]
<1>. DEFINE B == 0 .. 255
            seqs == [i \in 1 .. Len(strings) |-> Terminated(strings[i])]
<1>1. Len(strings) \in Nat /\ \A i \in 1 .. Len(strings) : strings[i] \in Text
  OBVIOUS
<1>2. \A s \in Text : Terminated(s) \in Seq(B)
  <2>1. ASSUME NEW s \in Text PROVE Terminated(s) \in Seq(B)
    <3>1. s \in Seq(B) /\ 0 \in B
      BY SeqMonotonic DEF Text
    <3>. QED
      BY <3>1 DEF Terminated
  <2>. QED
    BY <2>1
<1>3. seqs \in Seq(Seq(B)) /\ Len(seqs) = Len(strings)
  BY <1>1, <1>2
<1>4. \A i \in 1 .. Len(strings) : seqs[i] = Terminated(strings[i])
  OBVIOUS
<1>. HIDE DEF B
<1>5. PICK g \in [0 .. Len(seqs) -> Seq(B)] :
        g[0] = <<>> /\ \A i \in 1 .. Len(seqs) : g[i] = g[i - 1] \o seqs[i]
  <2>. HIDE DEF seqs
  <2>. QED
    BY <1>3, Concatenations
<1>6. ASSUME NEW n \in 0 .. Len(strings) PROVE Bytes(SubSeq(strings, 1, n)) = g[n]
  <2>. DEFINE part == SubSeq(strings, 1, n)
              s == [i \in DOMAIN part |-> Terminated(part[i])]
              h == [i \in 0 .. n |-> g[i]]
  <2>1. n \in Nat /\ n <= Len(strings)
    BY <1>1
  <2>2. /\ Len(part) = n /\ DOMAIN part = 1 .. n
        /\ \A i \in 1 .. n : part[i] = strings[i]
    BY <1>1, <2>1
  <2>3. \A i \in 1 .. n : i \in 1 .. Len(strings) /\ s[i] = seqs[i]
    BY <1>1, <1>4, <2>1, <2>2
  <2>4. s \in Seq(Seq(B)) /\ Len(s) = n
    <3>. HIDE DEF part
    <3>1. \A i \in 1 .. n : Terminated(part[i]) \in Seq(B)
      BY <1>1, <1>2, <2>2, <2>3
    <3>. QED
      BY <2>1, <2>2, <3>1, IsASeq
  <2>5. h \in [0 .. n -> Seq(B)] /\ h[0] = <<>>
    BY <1>3, <1>5, <2>1, SMTT(30)
  <2>6. \A i \in 0 .. n : h[i] = g[i]
    OBVIOUS
  <2>. HIDE DEF s, part, seqs, h
  <2>7. \A i \in 1 .. n : h[i] = h[i - 1] \o s[i]
    <3>1. ASSUME NEW i \in 1 .. n PROVE h[i] = h[i - 1] \o s[i]
      <4>1. i \in 1 .. Len(seqs) /\ i - 1 \in 0 .. n /\ i \in 0 .. n
        BY <1>3, <2>1
      <4>2. g[i] = g[i - 1] \o seqs[i]
        BY <1>5, <4>1
      <4>. QED
        BY <2>3, <2>6, <4>1, <4>2
    <3>. QED
      BY <3>1
  <2>8. FlattenSeq(s) = h[n]
    BY <2>4, <2>5, <2>7, FlattenIs
  <2>9. n \in 0 .. n
    BY <2>1
  <2>. QED
    BY <2>6, <2>8, <2>9 DEF Bytes, s, part
<1>. QED
  BY <1>3, <1>4, <1>5, <1>6 DEF B

LEMMA ConcatAt ==
  ASSUME NEW S, NEW s \in Seq(S), NEW t \in Seq(S)
  PROVE  /\ s \o t \in Seq(S) /\ Len(s \o t) = Len(s) + Len(t)
         /\ \A b \in 1 .. Len(s) : (s \o t)[b] = s[b]
         /\ \A b \in 1 .. Len(t) : (s \o t)[Len(s) + b] = t[b]
<1>1. Len(s) \in Nat /\ Len(t) \in Nat
  OBVIOUS
<1>2. ASSUME NEW b \in 1 .. Len(t) PROVE (s \o t)[Len(s) + b] = t[b]
  BY <1>1
<1>3. ASSUME NEW b \in 1 .. Len(s) PROVE (s \o t)[b] = s[b]
  BY <1>1
<1>. QED
  BY <1>2, <1>3

LEMMA TerminatedIs ==
  ASSUME NEW s \in Text
  PROVE  /\ Len(s) \in Nat
         /\ Terminated(s) \in Seq(0 .. 255) /\ Len(Terminated(s)) = Len(s) + 1
         /\ \A b \in 1 .. Len(s) : Terminated(s)[b] = s[b] /\ s[b] # 0
         /\ Terminated(s)[Len(s) + 1] = 0
<1>. DEFINE C == 1 .. 255
            B == 0 .. 255
<1>1. s \in Seq(C) /\ C \subseteq B /\ 0 \in B /\ \A x \in C : x # 0
  BY DEF Text
<1>. HIDE DEF B, C
<1>2. Len(s) \in Nat /\ \A b \in 1 .. Len(s) : s[b] # 0
  BY <1>1, ElementOfSeq, LenProperties
<1>3. s \in Seq(B)
  BY <1>1, SeqMonotonic
<1>4. /\ Terminated(s) \in Seq(B) /\ Len(Terminated(s)) = Len(s) + 1
      /\ \A b \in 1 .. Len(s) : Terminated(s)[b] = s[b]
      /\ Terminated(s)[Len(s) + 1] = 0
  BY <1>1, <1>3, AppendProperties DEF Terminated
<1>. QED
  BY <1>2, <1>4 DEF B

\* The string s stands in x after o bytes.
Stands(s, o, x) ==
  /\ o + Len(s) + 1 <= Len(x)
  /\ \A b \in 1 .. Len(s) : x[o + b] = s[b]
  /\ x[o + Len(s) + 1] = 0

LEMMA StandsAtEnd ==
  ASSUME NEW B, B = 0 .. 255, NEW p \in Seq(B), NEW s \in Text
  PROVE  Stands(s, Len(p), p \o Terminated(s))
<1>. DEFINE x == p \o Terminated(s)
<1>1. PICK l \in Nat : l = Len(s)
  BY TerminatedIs
<1>2. PICK o \in Nat : o = Len(p)
  BY LenProperties
<1>3. Terminated(s) \in Seq(B)
  BY TerminatedIs
<1>4. /\ Len(x) = o + (l + 1)
      /\ \A b \in 1 .. l + 1 : x[o + b] = Terminated(s)[b]
  <2>. DEFINE t == Terminated(s)
  <2>1. Len(t) = l + 1
    BY <1>1, TerminatedIs
  <2>2. t \in Seq(B)
    BY <1>3
  <2>. HIDE DEF t
  <2>3. Len(p \o t) = Len(p) + Len(t) /\ \A b \in 1 .. Len(t) : (p \o t)[Len(p) + b] = t[b]
    BY <2>2, ConcatAt
  <2>. QED
    BY <1>2, <2>1, <2>3 DEF t
<1>5. \A b \in 1 .. l : Terminated(s)[b] = s[b]
  BY <1>1, TerminatedIs
<1>6. Terminated(s)[l + 1] = 0
  BY <1>1, TerminatedIs
<1>. HIDE DEF x
<1>7. o + l + 1 <= Len(x)
  BY ONLY <1>4
<1>8. \A b \in 1 .. l : x[o + b] = s[b]
  BY ONLY <1>4, <1>5
<1>9. x[o + l + 1] = 0
  <2>1. o + l + 1 = o + (l + 1) /\ l + 1 \in 1 .. l + 1
    OBVIOUS
  <2>. QED
    BY ONLY <1>4, <1>6, <2>1
<1>. QED
  BY <1>1, <1>2, <1>7, <1>8, <1>9 DEF Stands, x

LEMMA StandsOn ==
  ASSUME NEW B, NEW x \in Seq(B), NEW y \in Seq(B), NEW o \in Nat, NEW s \in Text, Stands(s,
         o, x)
  PROVE  Stands(s, o, x \o y)
<1>. DEFINE z == x \o y
<1>1. PICK l \in Nat : l = Len(s)
  BY TerminatedIs
<1>2. PICK n \in Nat : n = Len(x)
  BY LenProperties
<1>3. n <= Len(z) /\ Len(z) \in Nat /\ \A b \in 1 .. n : z[b] = x[b]
  <2>1. Len(y) \in Nat
    BY LenProperties
  <2>2. Len(z) = n + Len(y)
    BY <1>2, ConcatAt
  <2>3. \A b \in 1 .. n : z[b] = x[b]
    BY <1>2, ConcatAt
  <2>. HIDE DEF z
  <2>. QED
    BY ONLY <2>1, <2>2, <2>3, n \in Nat
<1>4. /\ o + l + 1 <= n
      /\ \A b \in 1 .. l : x[o + b] = s[b]
      /\ x[o + l + 1] = 0
  BY <1>1, <1>2 DEF Stands
<1>. HIDE DEF z
<1>5. o + l + 1 <= Len(z)
  BY ONLY <1>3, <1>4, n \in Nat, o \in Nat, l \in Nat
<1>6. \A b \in 1 .. l : z[o + b] = s[b]
  <2>1. \A b \in 1 .. l : o + b \in 1 .. n
    BY ONLY <1>4, n \in Nat, o \in Nat, l \in Nat
  <2>. QED
    BY ONLY <1>3, <1>4, <2>1
<1>7. z[o + l + 1] = 0
  <2>1. o + l + 1 \in 1 .. n
    BY ONLY <1>4, n \in Nat, o \in Nat, l \in Nat
  <2>. QED
    BY ONLY <1>3, <1>4, <2>1
<1>. QED
  BY <1>1, <1>5, <1>6, <1>7 DEF Stands, z

\* Every string stands in the bytes of all of them after those of the strings before it.
LEMMA StringsInBytes ==
  ASSUME NEW strings \in Seq(Text), NEW i \in 1 .. Len(strings)
  PROVE  /\ Bytes(strings) \in Seq(0 .. 255)
         /\ Len(Bytes(SubSeq(strings, 1, i - 1))) \in Nat
         /\ Stands(strings[i], Len(Bytes(SubSeq(strings, 1, i - 1))), Bytes(strings))
<1>. DEFINE B == 0 .. 255
<1>1. Len(strings) \in Nat /\ i \in Nat /\ \A j \in 1 .. Len(strings) : strings[j] \in Text
  OBVIOUS
<1>2. PICK g \in [0 .. Len(strings) -> Seq(B)] :
           /\ g[0] = <<>>
           /\ \A j \in 1 .. Len(strings) : g[j] = g[j - 1] \o Terminated(strings[j])
           /\ \A n \in 0 .. Len(strings) : Bytes(SubSeq(strings, 1, n)) = g[n]
  BY BytesOfPrefixes
<1>3. \A s \in Text : Terminated(s) \in Seq(B)
  BY TerminatedIs
<1>. DEFINE At(x) == Stands(strings[i], Len(g[i - 1]), x)
            T == {n \in Nat : i + n <= Len(strings) => At(g[i + n])}
<1>4. At(g[i])
  <2>1. i - 1 \in 0 .. Len(strings) /\ i \in 1 .. Len(strings)
    BY <1>1
  <2>2. g[i - 1] \in Seq(B) /\ g[i] = g[i - 1] \o Terminated(strings[i])
    BY <1>2, <2>1
  <2>. QED
    BY <1>1, <2>2, StandsAtEnd
<1>5. Len(g[i - 1]) \in Nat
  <2>1. i - 1 \in 0 .. Len(strings)
    BY <1>1
  <2>2. g[i - 1] \in Seq(B)
    BY <2>1
  <2>. QED
    BY <2>2, LenProperties
<1>. HIDE DEF B
<1>6. ASSUME NEW j \in 1 .. Len(strings), At(g[j - 1]) PROVE At(g[j])
  <2>1. j - 1 \in 0 .. Len(strings) /\ strings[j] \in Text
    BY <1>1
  <2>2. g[j - 1] \in Seq(B) /\ g[j] = g[j - 1] \o Terminated(strings[j])
    BY <1>2, <2>1
  <2>3. Terminated(strings[j]) \in Seq(B)
    BY <1>3, <2>1
  <2>. QED
    BY <1>1, <1>5, <1>6, <2>2, <2>3, StandsOn
<1>. HIDE DEF At
<1>7. 0 \in T
  <2>1. i + 0 = i
    BY <1>1
  <2>. QED
    BY <1>4, <2>1
<1>8. ASSUME NEW n \in T PROVE n + 1 \in T
  <2>1. n \in Nat /\ n + 1 \in Nat /\ (i + n <= Len(strings) => At(g[i + n]))
    OBVIOUS
  <2>2. i + (n + 1) <= Len(strings) =>
          /\ i + (n + 1) \in 1 .. Len(strings) /\ (i + (n + 1)) - 1 = i + n
          /\ i + n <= Len(strings)
    BY <1>1, <2>1
  <2>3. i + (n + 1) <= Len(strings) => At(g[i + (n + 1)])
    BY <1>6, <2>1, <2>2
  <2>. QED
    BY <2>1, <2>3
<1>9. T = Nat
  <2>1. T \in SUBSET Nat
    OBVIOUS
  <2>. HIDE DEF T
  <2>. QED
    BY <1>7, <1>8, <2>1, SetInduction
<1>10. At(g[Len(strings)])
  <2>1. Len(strings) - i \in T
    <3>. HIDE DEF T
    <3>. QED
      BY <1>1, <1>9
  <2>2. i + (Len(strings) - i) = Len(strings)
    BY <1>1
  <2>. QED
    BY <2>1, <2>2
<1>11. /\ Bytes(strings) = g[Len(strings)] /\ g[Len(strings)] \in Seq(B)
       /\ Bytes(SubSeq(strings, 1, i - 1)) = g[i - 1]
  <2>1. SubSeq(strings, 1, Len(strings)) = strings
    BY SubSeqFull
  <2>2. Len(strings) \in 0 .. Len(strings) /\ i - 1 \in 0 .. Len(strings)
    BY <1>1
  <2>. QED
    BY <1>2, <2>1, <2>2
<1>. QED
  BY <1>5, <1>10, <1>11 DEF At, B

LEMMA StandsBehind ==
  ASSUME NEW B, NEW x \in Seq(B), NEW y \in Seq(B), NEW o \in Nat, NEW s \in Text, Stands(s,
         o, y)
  PROVE  Stands(s, Len(x) + o, x \o y)
<1>. DEFINE z == x \o y
<1>1. PICK l \in Nat : l = Len(s)
  BY TerminatedIs
<1>2. PICK n \in Nat : n = Len(x)
  BY LenProperties
<1>3. PICK m \in Nat : m = Len(y)
  BY LenProperties
<1>4. Len(z) = n + m /\ \A b \in 1 .. m : z[n + b] = y[b]
  BY <1>2, <1>3, ConcatAt
<1>5. /\ o + l + 1 <= m
      /\ \A b \in 1 .. l : y[o + b] = s[b]
      /\ y[o + l + 1] = 0
  BY <1>1, <1>3 DEF Stands
<1>. HIDE DEF z
<1>6. (n + o) + l + 1 <= Len(z)
  BY ONLY <1>4, <1>5, n \in Nat, o \in Nat, l \in Nat, m \in Nat
<1>7. \A b \in 1 .. l : z[(n + o) + b] = s[b]
  <2>1. \A b \in 1 .. l : o + b \in 1 .. m /\ n + (o + b) = (n + o) + b
    BY ONLY <1>5, n \in Nat, o \in Nat, l \in Nat, m \in Nat
  <2>2. \A b \in 1 .. l : z[n + (o + b)] = y[o + b]
    BY ONLY <1>4, <2>1
  <2>. QED
    BY ONLY <1>5, <2>1, <2>2
<1>8. z[(n + o) + l + 1] = 0
  <2>1. o + l + 1 \in 1 .. m /\ n + (o + l + 1) = (n + o) + l + 1
    BY ONLY <1>5, n \in Nat, o \in Nat, l \in Nat, m \in Nat
  <2>2. z[n + (o + l + 1)] = y[o + l + 1]
    BY ONLY <1>4, <2>1
  <2>. QED
    BY ONLY <1>5, <2>1, <2>2
<1>. QED
  BY <1>1, <1>2, <1>6, <1>7, <1>8 DEF Stands, z

\* A string that stands in a buffer is found there.
LEMMA StringAtIs ==
  ASSUME NEW B, NEW buf \in Seq(B), NEW o \in Nat, NEW s \in Text, Stands(s, o, buf)
  PROVE  StringAt(buf, o) = s
<1>1. PICK l \in Nat : l = Len(s)
  BY TerminatedIs
<1>2. PICK n \in Nat : n = Len(buf)
  BY LenProperties
<1>. DEFINE IsEnd(e) == buf[e + 1] = 0 /\ \A b \in o .. e - 1 : buf[b + 1] # 0
<1>3. /\ o + l + 1 <= n
      /\ \A b \in 1 .. l : buf[o + b] = s[b]
      /\ buf[o + l + 1] = 0
      /\ \A b \in 1 .. l : s[b] # 0
  BY <1>1, <1>2, TerminatedIs DEF Stands
<1>4. \A b \in o .. o + l - 1 : buf[b + 1] # 0
  <2>1. ASSUME NEW b \in o .. o + l - 1 PROVE buf[b + 1] # 0
    <3>1. (b + 1) - o \in 1 .. l /\ o + ((b + 1) - o) = b + 1
      OBVIOUS
    <3>. QED
      BY ONLY <1>3, <3>1
  <2>. QED
    BY <2>1
<1>5. o + l \in o .. n - 1 /\ IsEnd(o + l)
  BY <1>3, <1>4
<1>6. ASSUME NEW e \in o .. n - 1, IsEnd(e) PROVE e = o + l
  <2>1. CASE e < o + l
    <3>1. e \in o .. o + l - 1
      BY <2>1
    <3>. QED
      BY <1>4, <1>6, <3>1
  <2>2. CASE e > o + l
    <3>1. o + l \in o .. e - 1
      BY <2>2
    <3>. QED
      BY <1>3, <1>6, <3>1
  <2>. QED
    BY <2>1, <2>2
<1>. HIDE DEF IsEnd
<1>7. (CHOOSE e \in o .. n - 1 : IsEnd(e)) = o + l
  BY <1>5, <1>6
<1>8. StringAt(buf, o) = SubSeq(buf, o + 1, o + l)
  BY <1>2, <1>7 DEF StringAt, IsEnd
<1>9. SubSeq(buf, o + 1, o + l) = s
  <2>. DEFINE t == SubSeq(buf, o + 1, o + l)
  <2>1. o + 1 \in Int /\ o + l \in Int /\ o + l <= n /\ o + 1 >= 1
    BY <1>3
  <2>2. Len(t) = l /\ \A b \in 1 .. l : t[b] = buf[o + b]
    <3>1. \A b \in o + 1 .. o + l : b \in 1 .. Len(buf)
      BY <1>2, <2>1
    <3>2. Len(t) = l
      BY <1>2, <2>1, <3>1
    <3>3. \A b \in 1 .. l : t[b] = buf[o + b]
      BY <1>2, <2>1, <3>1
    <3>. QED
      BY <3>2, <3>3
  <2>3. t \in Seq(B)
    BY <1>2, <2>1, SubSeqProperties
  <2>4. \A b \in 1 .. l : t[b] = s[b]
    BY ONLY <1>3, <2>2
  <2>5. PICK C : s \in [1 .. l -> C]
    <3>1. \E C : s \in Seq(C)
      BY DEF Text
    <3>. QED
      BY <1>1, <3>1, LenProperties
  <2>6. t \in [1 .. l -> B]
    BY <2>2, <2>3, LenProperties
  <2>. HIDE DEF t
  <2>7. t = s
    BY <2>4, <2>5, <2>6
  <2>. QED
    BY <2>7 DEF t
<1>. QED
  BY <1>8, <1>9

\* The strings of an info object, two of each pair.
LEMMA StringsAre ==
  ASSUME NEW info \in Seq(Text \X Text)
  PROVE  /\ Strings(info) \in Seq(Text) /\ Len(Strings(info)) = 2 * Len(info)
         /\ \A i \in 1 .. Len(info) : /\ Strings(info)[2 * i - 1] = info[i][1]
                                      /\ Strings(info)[2 * i] = info[i][2]
<1>1. PICK n \in Nat : n = Len(info)
  BY LenProperties
<1>. DEFINE m == 2 * n
            String(i) == info[(i + 1) \div 2][IF i % 2 = 1 THEN 1 ELSE 2]
<1>2. m \in Nat /\ Strings(info) = [i \in 1 .. m |-> String(i)]
  BY <1>1 DEF Strings
<1>3. \A i \in 1 .. m : String(i) \in Text
  <2>1. ASSUME NEW i \in 1 .. m PROVE String(i) \in Text
    <3>1. (i + 1) \div 2 \in 1 .. Len(info)
      BY <1>1
    <3>2. info[(i + 1) \div 2] \in Text \X Text
      BY <3>1, ElementOfSeq
    <3>. QED
      BY <3>2
  <2>. QED
    BY <2>1
<1>4. ASSUME NEW i \in 1 .. n PROVE String(2 * i - 1) = info[i][1] /\ String(2 * i) = info[i][2]
  <2>1. /\ ((2 * i - 1) + 1) \div 2 = i /\ (2 * i - 1) % 2 = 1
        /\ (2 * i + 1) \div 2 = i /\ (2 * i) % 2 = 0
    OBVIOUS
  <2>. QED
    BY <2>1
<1>5. \A i \in 1 .. n : 2 * i - 1 \in 1 .. m /\ 2 * i \in 1 .. m
  OBVIOUS
<1>. HIDE DEF String, m
<1>6. Strings(info) \in [1 .. m -> Text]
  BY <1>2, <1>3
<1>7. Strings(info) \in Seq(Text) /\ Len(Strings(info)) = m
  BY <1>2, <1>6
<1>. QED
  BY <1>1, <1>2, <1>4, <1>5, <1>7 DEF m

\* The words at the start of a serialization say where the strings stand.
LEMMA SerializedIs ==
  ASSUME NEW info \in Seq(Text \X Text)
  PROVE  /\ Serialize(info) \in Seq(Nat) /\ Len(Serialize(info)) \in Nat \ {0}
         /\ Serialize(info)[1] = 2 * Len(info)
         /\ \A i \in 1 .. 2 * Len(info) :
              /\ Serialize(info)[Word * i + 1] \in Nat
              /\ Stands(Strings(info)[i], Serialize(info)[Word * i + 1], Serialize(info))
<1>. DEFINE strings == Strings(info)
            bytes == Bytes(strings)
            Ahead(i) == Len(Bytes(SubSeq(strings, 1, i - 1)))
<1>1. PICK n \in Nat : n = 2 * Len(info)
  BY LenProperties
<1>2. strings \in Seq(Text) /\ Len(strings) = n
  BY <1>1, StringsAre
<1>. DEFINE base == Word * (1 + n)
            word == [i \in 0 .. n |-> IF i = 0 THEN n ELSE base + Ahead(i)]
            head == [b \in 1 .. base |-> IF b % Word = 1 THEN word[b \div Word] ELSE 0]
            buf == head \o bytes
<1>3. Serialize(info) = buf
  BY <1>2 DEF Serialize
<1>4. base \in Nat /\ base >= 8
  BY DEF Word
<1>. HIDE DEF strings
<1>5. \A i \in 1 .. n : Ahead(i) \in Nat /\ Stands(strings[i], Ahead(i), bytes)
  BY <1>2, StringsInBytes
<1>6. bytes \in Seq(Nat)
  <2>1. CASE n = 0
    <3>1. strings = <<>>
      BY <1>2, <2>1
    <3>2. bytes = <<>>
      BY <3>1 DEF Bytes, FlattenSeq
    <3>. QED
      BY <3>2
  <2>2. CASE n # 0
    <3>1. 1 \in 1 .. Len(strings)
      BY <1>2, <2>2
    <3>2. PICK B : bytes \in Seq(B) /\ B \subseteq Nat
      <4>1. bytes \in Seq(0 .. 255)
        BY <1>2, <3>1, StringsInBytes
      <4>2. 0 .. 255 \subseteq Nat
        OBVIOUS
      <4>. QED
        BY ONLY <4>1, <4>2, Zenon
    <3>. HIDE DEF bytes
    <3>. QED
      BY <3>2, SeqMonotonic
  <2>. QED
    BY <2>1, <2>2
<1>. HIDE DEF Ahead, bytes
<1>7. \A i \in 0 .. n : word[i] \in Nat /\ (i # 0 => word[i] = base + Ahead(i))
  BY <1>4, <1>5
<1>8. word[0] = n
  OBVIOUS
<1>9. \A b \in 1 .. base : b % Word = 1 => b \div Word \in 0 .. n
  BY DEF Word
<1>10. \A i \in 0 .. n :
         /\ Word * i + 1 \in 1 .. base /\ (Word * i + 1) % Word = 1
         /\ (Word * i + 1) \div Word = i
  BY DEF Word
<1>. HIDE DEF word, base
<1>11. head \in [1 .. base -> Nat]
  BY <1>7, <1>9
<1>12. \A i \in 0 .. n : head[Word * i + 1] = word[i]
  BY <1>10
<1>13. head \in Seq(Nat) /\ Len(head) = base
  BY <1>4, <1>11
<1>. HIDE DEF head
<1>14. /\ buf \in Seq(Nat) /\ Len(buf) = base + Len(bytes)
       /\ \A b \in 1 .. base : buf[b] = head[b]
  BY <1>6, <1>13, ConcatAt, ZenonT(30)
<1>15. \A i \in 1 .. n : Stands(strings[i], base + Ahead(i), buf)
  <2>1. ASSUME NEW i \in 1 .. n PROVE Stands(strings[i], base + Ahead(i), buf)
    <3>1. strings[i] \in Text
      BY <1>2
    <3>. QED
      BY <1>5, <1>6, <1>13, <3>1, StandsBehind
  <2>. QED
    BY <2>1
<1>. HIDE DEF buf
<1>16. \A i \in 0 .. n : buf[Word * i + 1] = word[i]
  BY <1>10, <1>12, <1>14
<1>17. buf[1] = n
  <2>1. Word * 0 + 1 = 1 /\ 0 \in 0 .. n
    BY DEF Word
  <2>. QED
    BY <1>8, <1>16, <2>1
<1>18. \A i \in 1 .. n : buf[Word * i + 1] \in Nat /\ Stands(strings[i], buf[Word * i + 1], buf)
  <2>1. ASSUME NEW i \in 1 .. n
        PROVE  buf[Word * i + 1] \in Nat /\ Stands(strings[i], buf[Word * i + 1], buf)
    <3>1. i \in 0 .. n /\ i # 0
      OBVIOUS
    <3>2. buf[Word * i + 1] = word[i] /\ word[i] \in Nat /\ word[i] = base + Ahead(i)
      BY <1>7, <1>16, <3>1
    <3>. QED
      BY <1>15, <3>2
  <2>. QED
    BY <2>1
<1>19. Len(buf) \in Nat \ {0}
  <2>1. Len(bytes) \in Nat
    BY <1>6, LenProperties
  <2>. QED
    BY <1>4, <1>14, <2>1
<1>. QED
  BY <1>1, <1>3, <1>14, <1>17, <1>18, <1>19 DEF strings

\* The receiver of an info object has the pairs of the sender, whatever their number and
\* the lengths of their strings, the empty ones among them.
THEOREM InfoArrives ==
  ASSUME NEW info \in Seq(Text \X Text)
  PROVE  Deserialize(Serialize(info)) = info
<1>. DEFINE buf == Serialize(info)
            strings == Strings(info)
            String(i) == StringAt(buf, buf[Word * i + 1])
<1>1. PICK n \in Nat : n = Len(info)
  BY LenProperties
<1>2. /\ buf \in Seq(Nat) /\ buf[1] = 2 * n
      /\ \A i \in 1 .. 2 * n : /\ buf[Word * i + 1] \in Nat
                               /\ Stands(strings[i], buf[Word * i + 1], buf)
  BY <1>1, SerializedIs
<1>3. strings \in Seq(Text) /\ Len(strings) = 2 * n
  BY <1>1, StringsAre
<1>4. \A i \in 1 .. n : strings[2 * i - 1] = info[i][1] /\ strings[2 * i] = info[i][2]
  BY <1>1, StringsAre
<1>. HIDE DEF buf, strings
<1>5. \A i \in 1 .. 2 * n : String(i) = strings[i]
  <2>1. ASSUME NEW i \in 1 .. 2 * n PROVE String(i) = strings[i]
    <3>1. strings[i] \in Text
      BY <1>3
    <3>. QED
      BY <1>2, <3>1, StringAtIs
  <2>. QED
    BY <2>1
<1>6. Deserialize(buf) = [i \in 1 .. n |-> <<String(2 * i - 1), String(2 * i)>>]
  <2>1. buf[1] \div 2 = n
    BY <1>2
  <2>. QED
    BY <2>1 DEF Deserialize
<1>. HIDE DEF String
<1>7. \A i \in 1 .. n : <<String(2 * i - 1), String(2 * i)>> = info[i]
  <2>1. ASSUME NEW i \in 1 .. n PROVE <<String(2 * i - 1), String(2 * i)>> = info[i]
    <3>1. 2 * i - 1 \in 1 .. 2 * n /\ 2 * i \in 1 .. 2 * n
      OBVIOUS
    <3>2. String(2 * i - 1) = info[i][1] /\ String(2 * i) = info[i][2]
      BY <1>4, <1>5, <3>1
    <3>3. info[i] \in Text \X Text
      BY <1>1
    <3>. QED
      BY <3>2, <3>3
  <2>. QED
    BY <2>1
<1>8. info \in [1 .. n -> Text \X Text]
  BY <1>1, LenProperties
<1>. QED
  BY <1>6, <1>7, <1>8 DEF buf

-----------------------------------------------------------------------------
(***************************************************************************)
(* Sequences of whatever they hold.                                        *)
(***************************************************************************)
LEMMA SequenceIs ==
  ASSUME NEW s, IsSequence(s)
  PROVE  \E S : s \in Seq(S)
<1>. DEFINE S == {s[i] : i \in 1 .. Len(s)}
<1>1. PICK n \in Nat : n = Len(s) /\ s = [i \in 1 .. n |-> s[i]]
  BY DEF IsSequence
<1>2. s \in [1 .. n -> S]
  BY <1>1
<1>3. s \in Seq(S)
  BY <1>2
<1>. QED
  BY <1>3

LEMMA IsSequenceIs ==
  ASSUME NEW S, NEW s \in Seq(S)
  PROVE  IsSequence(s)
BY DEF IsSequence

\* Sequences with equal lengths and values are equal.
LEMMA SequenceEqual ==
  ASSUME NEW s, NEW t, IsSequence(s), IsSequence(t), Len(s) = Len(t),
         \A i \in 1 .. Len(s) : s[i] = t[i]
  PROVE  s = t
BY DEF IsSequence

LEMMA EmptyIs ==
  /\ IsSequence(<<>>) /\ Len(<<>>) = 0
  /\ \A s : IsSequence(s) /\ Len(s) = 0 => s = <<>>
<1>1. IsSequence(<<>>) /\ Len(<<>>) = 0
  BY DEF IsSequence
<1>. QED
  BY <1>1, SequenceEqual

\* The operators on sequences, value by value.
LEMMA AppendIs ==
  ASSUME NEW s, NEW e, IsSequence(s)
  PROVE  /\ IsSequence(Append(s, e)) /\ Len(Append(s, e)) = Len(s) + 1 /\ Len(s) \in Nat
         /\ \A i \in 1 .. Len(s) : Append(s, e)[i] = s[i]
         /\ Append(s, e)[Len(s) + 1] = e
<1>1. PICK S : s \in Seq(S)
  BY SequenceIs
<1>. DEFINE T == S \cup {e}
<1>2. s \in Seq(T) /\ e \in T
  BY <1>1, SeqMonotonic
<1>. HIDE DEF T
<1>3. Append(s, e) \in Seq(T) /\ Len(Append(s, e)) = Len(s) + 1
  BY <1>2, AppendProperties
<1>4. IsSequence(Append(s, e))
  BY <1>3, IsSequenceIs
<1>5. \A i \in 1 .. Len(s) : Append(s, e)[i] = s[i]
  BY <1>2, AppendProperties
<1>6. Append(s, e)[Len(s) + 1] = e
  BY <1>2, AppendProperties
<1>. QED
  BY <1>3, <1>4, <1>5, <1>6 DEF IsSequence

LEMMA ConcatIs ==
  ASSUME NEW s, NEW t, IsSequence(s), IsSequence(t)
  PROVE  /\ IsSequence(s \o t) /\ Len(s \o t) = Len(s) + Len(t)
         /\ Len(s) \in Nat /\ Len(t) \in Nat
         /\ \A i \in 1 .. Len(s) : (s \o t)[i] = s[i]
         /\ \A i \in 1 .. Len(t) : (s \o t)[Len(s) + i] = t[i]
<1>1. PICK S1 : s \in Seq(S1)
  BY SequenceIs
<1>2. PICK S2 : t \in Seq(S2)
  BY SequenceIs
<1>. DEFINE T == S1 \cup S2
<1>3. s \in Seq(T) /\ t \in Seq(T)
  BY <1>1, <1>2, SeqMonotonic
<1>. HIDE DEF T
<1>4. /\ s \o t \in Seq(T) /\ Len(s \o t) = Len(s) + Len(t)
      /\ \A i \in 1 .. Len(s) : (s \o t)[i] = s[i]
      /\ \A i \in 1 .. Len(t) : (s \o t)[Len(s) + i] = t[i]
  BY <1>3, ConcatAt
<1>5. IsSequence(s \o t)
  BY <1>4, IsSequenceIs
<1>. QED
  BY <1>4, <1>5 DEF IsSequence

LEMMA TailIs ==
  ASSUME NEW s, IsSequence(s), s # <<>>
  PROVE  /\ Head(s) = s[1] /\ Len(s) \in Nat \ {0}
         /\ IsSequence(Tail(s)) /\ Len(Tail(s)) = Len(s) - 1
         /\ \A i \in 1 .. Len(s) - 1 : Tail(s)[i] = s[i + 1]
<1>1. PICK S : s \in Seq(S)
  BY SequenceIs
<1>2. /\ Head(s) = s[1] /\ Tail(s) \in Seq(S) /\ Len(Tail(s)) = Len(s) - 1
      /\ \A i \in 1 .. Len(Tail(s)) : Tail(s)[i] = s[i + 1]
  BY <1>1, HeadTailProperties
<1>3. Len(s) \in Nat \ {0}
  BY <1>1, EmptySeq
<1>4. IsSequence(Tail(s))
  BY <1>2, IsSequenceIs
<1>. QED
  BY <1>2, <1>3, <1>4

LEMMA SubSeqIs ==
  ASSUME NEW s, IsSequence(s), NEW m \in 1 .. Len(s) + 1
  PROVE  /\ IsSequence(SubSeq(s, m, Len(s))) /\ Len(SubSeq(s, m, Len(s))) = (Len(s) + 1) - m
         /\ \A i \in 1 .. (Len(s) + 1) - m : SubSeq(s, m, Len(s))[i] = s[m + i - 1]
<1>1. PICK S : s \in Seq(S)
  BY SequenceIs
<1>2. PICK n \in Nat : n = Len(s)
  BY <1>1
<1>. DEFINE t == SubSeq(s, m, n)
<1>3. m \in Int /\ n \in Int /\ \A i \in m .. n : s[i] \in S
  BY <1>1, <1>2
<1>4. /\ t \in Seq(S) /\ Len(t) = IF m <= n THEN n - m + 1 ELSE 0
      /\ \A i \in 1 .. n - m + 1 : t[i] = s[m + i - 1]
  BY <1>3, SubSeqProperties
<1>. HIDE DEF t
<1>5. Len(t) = (n + 1) - m /\ n - m + 1 = (n + 1) - m
  BY <1>2, <1>4
<1>. QED
  BY <1>2, <1>4, <1>5, IsSequenceIs DEF t

LEMMA RemoveAtIs ==
  ASSUME NEW s, IsSequence(s), NEW i \in 1 .. Len(s)
  PROVE  /\ IsSequence(RemoveAt(s, i)) /\ Len(RemoveAt(s, i)) = Len(s) - 1 /\ Len(s) \in Nat
         /\ \A j \in 1 .. Len(s) - 1 : RemoveAt(s, i)[j] = IF j < i THEN s[j] ELSE s[j + 1]
         /\ \A S : s \in Seq(S) => RemoveAt(s, i) \in Seq(S)
<1>1. PICK S : s \in Seq(S)
  BY SequenceIs
<1>2. PICK n \in Nat : n = Len(s)
  BY <1>1
<1>. DEFINE l == SubSeq(s, 1, i - 1)
            r == SubSeq(s, i + 1, n)
<1>3. ASSUME NEW U, s \in Seq(U)
      PROVE  /\ l \in Seq(U) /\ Len(l) = i - 1 /\ \A j \in 1 .. i - 1 : l[j] = s[j]
             /\ r \in Seq(U) /\ Len(r) = n - i /\ \A j \in 1 .. n - i : r[j] = s[i + j]
  <2>1. \A j \in 1 .. i - 1 : s[j] \in U
    BY <1>2, <1>3
  <2>2. \A j \in i + 1 .. n : s[j] \in U
    BY <1>2, <1>3
  <2>3. l \in Seq(U) /\ Len(l) = i - 1 /\ \A j \in 1 .. i - 1 : l[j] = s[j]
    BY <1>2, <2>1, SubSeqProperties
  <2>4. /\ r \in Seq(U) /\ Len(r) = (IF i + 1 <= n THEN n - (i + 1) + 1 ELSE 0)
        /\ \A j \in 1 .. n - (i + 1) + 1 : r[j] = s[(i + 1) + j - 1]
    BY <1>2, <2>2, SubSeqProperties
  <2>. HIDE DEF r, l
  <2>5. /\ Len(r) = n - i /\ n - (i + 1) + 1 = n - i
        /\ \A j \in 1 .. n - i : (i + 1) + j - 1 = i + j
    BY <1>2, <2>4
  <2>. QED
    BY <2>3, <2>4, <2>5
<1>4. RemoveAt(s, i) = l \o r
  BY <1>2 DEF RemoveAt
<1>. HIDE DEF l, r
<1>5. /\ Len(l \o r) = n - 1
      /\ \A j \in 1 .. i - 1 : (l \o r)[j] = s[j]
      /\ \A j \in 1 .. n - i : (l \o r)[(i - 1) + j] = s[i + j]
  <2>1. Len(l \o r) = Len(l) + Len(r)
    BY <1>1, <1>3, ConcatAt
  <2>2. \A j \in 1 .. i - 1 : (l \o r)[j] = s[j]
    BY <1>1, <1>3, ConcatAt
  <2>3. /\ Len(l) = i - 1 /\ Len(r) = n - i /\ l \in Seq(S) /\ r \in Seq(S)
        /\ \A j \in 1 .. n - i : r[j] = s[i + j]
    BY <1>1, <1>3
  <2>4. Len(l) + Len(r) = n - 1
    BY <1>2, <2>3
  <2>5. \A j \in 1 .. Len(r) : (l \o r)[Len(l) + j] = r[j]
    BY <2>3, ConcatAt
  <2>6. \A j \in 1 .. n - i : (l \o r)[(i - 1) + j] = s[i + j]
    BY ONLY <2>3, <2>5
  <2>. QED
    BY <2>1, <2>2, <2>4, <2>6
<1>6. ASSUME NEW j \in 1 .. n - 1 PROVE (l \o r)[j] = IF j < i THEN s[j] ELSE s[j + 1]
  <2>1. CASE j < i
    BY <1>2, <1>5, <2>1
  <2>2. CASE ~(j < i)
    <3>1. j - (i - 1) \in 1 .. n - i /\ (i - 1) + (j - (i - 1)) = j /\ i + (j - (i - 1)) = j + 1
      BY <1>2, <2>2
    <3>2. (l \o r)[(i - 1) + (j - (i - 1))] = s[i + (j - (i - 1))]
      BY <1>5, <3>1
    <3>. QED
      BY <2>2, <3>1, <3>2
  <2>. QED
    BY <2>1, <2>2
<1>7. \A U : s \in Seq(U) => l \o r \in Seq(U)
  BY <1>3, ConcatAt
<1>. QED
  BY <1>1, <1>2, <1>4, <1>5, <1>6, <1>7, IsSequenceIs

\* Short sequences, value by value.
LEMMA OneIs ==
  ASSUME NEW x
  PROVE  IsSequence(<<x>>) /\ Len(<<x>>) = 1 /\ <<x>>[1] = x /\ <<x>> # <<>>
BY DEF IsSequence

LEMMA TwoIs ==
  ASSUME NEW x, NEW y
  PROVE  /\ IsSequence(<<x, y>>) /\ Len(<<x, y>>) = 2 /\ <<x, y>>[1] = x /\ <<x, y>>[2] = y
         /\ <<x>> \o <<y>> = <<x, y>>
<1>1. IsSequence(<<x, y>>) /\ Len(<<x, y>>) = 2 /\ <<x, y>>[1] = x /\ <<x, y>>[2] = y
  BY DEF IsSequence
<1>. DEFINE s == <<x>> \o <<y>>
<1>2. IsSequence(s) /\ Len(s) = 2 /\ s[1] = x /\ s[2] = y
  BY OneIs, ConcatIs
<1>. HIDE DEF s
<1>3. s = <<x, y>>
  BY ONLY <1>1, <1>2, SequenceEqual
<1>. QED
  BY <1>1, <1>3 DEF s

LEMMA ThreeIs ==
  ASSUME NEW x, NEW y, NEW z
  PROVE  /\ IsSequence(<<x, y, z>>) /\ Len(<<x, y, z>>) = 3
         /\ <<x, y, z>>[1] = x /\ <<x, y, z>>[2] = y /\ <<x, y, z>>[3] = z
         /\ <<x>> \o <<y, z>> = <<x, y, z>>
<1>1. /\ IsSequence(<<x, y, z>>) /\ Len(<<x, y, z>>) = 3 /\ <<x, y, z>>[1] = x
      /\ <<x, y, z>>[2] = y /\ <<x, y, z>>[3] = z
  BY DEF IsSequence
<1>. DEFINE s == <<x>> \o <<y, z>>
<1>2. IsSequence(<<x>>) /\ IsSequence(<<y, z>>) /\ Len(<<x>>) = 1 /\ Len(<<y, z>>) = 2
  BY OneIs, TwoIs
<1>3. /\ IsSequence(s) /\ Len(s) = 3
      /\ s[1] = <<x>>[1] /\ s[1 + 1] = <<y, z>>[1] /\ s[1 + 2] = <<y, z>>[2]
  BY ONLY <1>2, ConcatIs
<1>4. s[1] = x /\ s[2] = y /\ s[3] = z
  BY <1>3
<1>. HIDE DEF s
<1>5. s = <<x, y, z>>
  BY ONLY <1>1, <1>3, <1>4, SequenceEqual
<1>. QED
  BY <1>1, <1>5 DEF s

LEMMA AppendOne ==
  ASSUME NEW x, NEW y, NEW z
  PROVE  Append(<<x>>, z) = <<x, z>> /\ Append(<<x, y>>, z) = <<x, y, z>>
<1>. DEFINE v == Append(<<x, y>>, z)
            w == Append(<<x>>, z)
<1>1. IsSequence(<<x, y>>) /\ Len(<<x, y>>) = 2 /\ <<x, y>>[1] = x /\ <<x, y>>[2] = y
  BY TwoIs
<1>2. /\ IsSequence(v) /\ Len(v) = 3
      /\ v[1] = <<x, y>>[1] /\ v[2] = <<x, y>>[2] /\ v[2 + 1] = z
  BY ONLY <1>1, AppendIs
<1>3. IsSequence(w) /\ Len(w) = 2 /\ w[1] = x /\ w[2] = z
  BY OneIs, AppendIs
<1>4. /\ IsSequence(<<x, y, z>>) /\ Len(<<x, y, z>>) = 3
      /\ <<x, y, z>>[1] = x /\ <<x, y, z>>[2] = y /\ <<x, y, z>>[3] = z
  BY ThreeIs
<1>5. IsSequence(<<x, z>>) /\ Len(<<x, z>>) = 2 /\ <<x, z>>[1] = x /\ <<x, z>>[2] = z
  BY TwoIs
<1>6. v[1] = x /\ v[2] = y /\ v[3] = z
  BY <1>1, <1>2
<1>. HIDE DEF v, w
<1>7. v = <<x, y, z>>
  BY ONLY <1>2, <1>4, <1>6, SequenceEqual
<1>8. w = <<x, z>>
  BY ONLY <1>3, <1>5, SequenceEqual
<1>. QED
  BY <1>7, <1>8 DEF v, w

LEMMA SizeIs ==
  \A x, y : Size(<<x>>) = <<x, "size">> /\ Size(<<x, y>>) = <<x, y, "size">>
BY AppendOne DEF Size

LEMMA EmptyEnds ==
  ASSUME NEW s, IsSequence(s)
  PROVE  s \o <<>> = s /\ <<>> \o s = s
<1>1. PICK S : s \in Seq(S)
  BY SequenceIs
<1>. QED
  BY <1>1, ConcatEmptySeq

-----------------------------------------------------------------------------
(***************************************************************************)
(* The parts of requests and answers.                                      *)
(***************************************************************************)
Count(r) == IF r.kind \in NameSent THEN 2
            ELSE IF r.kind \notin InfoSent THEN 1 ELSE IF r.info = <<>> THEN 2 ELSE 3
PartTag(k, j) == CASE j = 1 -> <<k>>
                   [] j = 2 -> IF k \in NameSent THEN <<k, "name">> ELSE <<k, "info", "size">>
                   [] j = 3 -> <<k, "info">>
PartData(c, r, j) ==
  CASE j = 1 -> Header(c, r)
    [] j = 2 -> IF r.kind \in NameSent THEN Terminated(r.name)
                ELSE IF r.info = <<>> THEN <<SIZE_MAX>> ELSE <<Len(Serialize(r.info[1]))>>
    [] j = 3 -> Serialize(r.info[1])

Message(t, d, y) == [do |-> "send", tag |-> t, data |-> d, sync |-> y]

\* What the sends and receives of a call are.
LEMMA SendIs ==
  \A t, d : Send(t, d) = <<Message(t, d, rendezvous)>> /\ Ssend(t, d) = <<Message(t, d, TRUE)>>
BY DEF Send, Ssend, Message

LEMMA SendInfoIs ==
  ASSUME NEW t, NEW info
  PROVE  SendInfo(t, info) =
           IF info = <<>> THEN <<Message(Size(t), <<SIZE_MAX>>, rendezvous)>>
           ELSE <<Message(Size(t), <<Len(Serialize(info[1]))>>, rendezvous),
                  Message(t, Serialize(info[1]), rendezvous)>>
<1>1. \A d1, d2 : Send(Size(t), d1) \o Send(t, d2)
                  = <<Message(Size(t), d1, rendezvous), Message(t, d2, rendezvous)>>
  BY SendIs, TwoIs
<1>. QED
  BY <1>1, SendIs DEF SendInfo

LEMMA CallSendsForms ==
  ASSUME NEW c, NEW r \in Request, NEW k \in Kind, k = r.kind
  PROVE  \E y :
           LET header == Message(<<k>>, Header(c, r), y) IN
           CallSends(c, r) =
             IF k \in NameSent
             THEN <<header, Message(<<k, "name">>, Terminated(r.name), rendezvous)>>
             ELSE IF k \notin InfoSent THEN <<header>>
             ELSE <<header>> \o SendInfo(<<k, "info">>, r.info)
<1>. DEFINE y == k = "PSET_OP" \/ rendezvous
            h == IF k = "PSET_OP" THEN TRUE ELSE rendezvous
            header == Message(<<k>>, Header(c, r), h)
            first == IF k = "PSET_OP" THEN Ssend(<<k>>, Header(c, r)) ELSE Send(<<k>>, Header(c, r))
<1>1. first = <<header>>
  BY SendIs
<1>2. k \in NameSent => CallSends(c, r) = first \o Send(<<k, "name">>, Terminated(r.name))
  BY DEF CallSends, NameSent
<1>3. k \in InfoSent => CallSends(c, r) = first \o SendInfo(<<k, "info">>, r.info)
  BY DEF CallSends, InfoSent
<1>4. k \notin NameSent \cup InfoSent => CallSends(c, r) = first \o <<>>
  BY DEF CallSends, InfoSent, NameSent
<1>5. NameSent \cap InfoSent = {}
  BY DEF NameSent, InfoSent
<1>. HIDE DEF first, header
<1>6. /\ first \o <<>> = <<header>>
      /\ \A m : first \o <<m>> = <<header, m>>
  BY <1>1, OneIs, TwoIs, EmptyEnds
<1>7. CallSends(c, r) =
             IF k \in NameSent
             THEN <<header, Message(<<k, "name">>, Terminated(r.name), rendezvous)>>
             ELSE IF k \notin InfoSent THEN <<header>>
             ELSE <<header>> \o SendInfo(<<k, "info">>, r.info)
  BY <1>1, <1>2, <1>3, <1>4, <1>5, <1>6, SendIs
<1>. QED
  BY <1>7 DEF header

\* The parts of a request are as many, and have the tags and data, that Count, PartTag and
\* PartData say.
LEMMA CallSendsAre ==
  ASSUME NEW c, NEW r \in Request
  PROVE  /\ IsSequence(CallSends(c, r)) /\ Len(CallSends(c, r)) = Count(r)
         /\ Count(r) \in 1 .. 3
         /\ \A j \in 1 .. Count(r) : /\ CallSends(c, r)[j].do = "send"
                                     /\ CallSends(c, r)[j].tag = PartTag(r.kind, j)
                                     /\ CallSends(c, r)[j].data = PartData(c, r, j)
<1>. DEFINE s == CallSends(c, r)
            k == r.kind
            Is(m, j) == /\ m.do = "send" /\ m.tag = PartTag(k, j) /\ m.data = PartData(c, r, j)
<1>1. PICK y : s = LET header == Message(<<k>>, Header(c, r), y) IN
             IF k \in NameSent
             THEN <<header, Message(<<k, "name">>, Terminated(r.name), rendezvous)>>
             ELSE IF k \notin InfoSent THEN <<header>>
             ELSE <<header>> \o SendInfo(<<k, "info">>, r.info)
  BY CallSendsForms, RequestAssumption
<1>2. \A t, d, z : /\ Message(t, d, z).do = "send" /\ Message(t, d, z).tag = t
                   /\ Message(t, d, z).data = d
  BY DEF Message
<1>. DEFINE header == Message(<<k>>, Header(c, r), y)
<1>3. Is(header, 1)
  BY <1>2 DEF PartTag, PartData
<1>. SUFFICES /\ IsSequence(s) /\ Len(s) = Count(r) /\ Count(r) \in 1 .. 3
              /\ \A j \in 1 .. Count(r) : Is(s[j], j)
  OBVIOUS
<1>. HIDE DEF s, header
<1>4. CASE k \in NameSent
  <2>. DEFINE m == Message(<<k, "name">>, Terminated(r.name), rendezvous)
  <2>1. s = <<header, m>> /\ Count(r) = 2
    BY <1>1, <1>4 DEF header, Count
  <2>2. Is(m, 2)
    BY <1>2, <1>4 DEF PartTag, PartData
  <2>. HIDE DEF m, Is
  <2>. QED
    <3>1. IsSequence(s) /\ Len(s) = 2 /\ s[1] = header /\ s[2] = m
      BY ONLY <2>1, TwoIs
    <3>. QED
      BY <1>3, <2>1, <2>2, <3>1
<1>5. CASE k \notin NameSent \cup InfoSent
  <2>1. s = <<header>> /\ Count(r) = 1
    BY <1>1, <1>5 DEF header, Count
  <2>. QED
    BY <1>3, <2>1, OneIs
<1>6. CASE k \in InfoSent /\ r.info = <<>>
  <2>. DEFINE m == Message(Size(<<k, "info">>), <<SIZE_MAX>>, rendezvous)
  <2>1. k \notin NameSent
    BY <1>6 DEF NameSent, InfoSent
  <2>2. s = <<header>> \o <<m>> /\ Count(r) = 2
    BY <1>1, <1>6, <2>1, SendInfoIs DEF header, Count
  <2>3. Is(m, 2)
    BY <1>2, <1>6, <2>1, SizeIs DEF PartTag, PartData
  <2>. HIDE DEF m, Is
  <2>. QED
    <3>1. /\ IsSequence(<<header, m>>) /\ Len(<<header, m>>) = 2 /\ <<header, m>>[1] = header
          /\ <<header, m>>[2] = m
      BY TwoIs
    <3>2. s = <<header, m>>
      BY <2>2, TwoIs
    <3>3. Count(r) = 2
      BY <2>2
    <3>. QED
      BY ONLY <1>3, <2>3, <3>1, <3>2, <3>3
<1>7. CASE k \in InfoSent /\ r.info # <<>>
  <2>. DEFINE m == Message(Size(<<k, "info">>), <<Len(Serialize(r.info[1]))>>, rendezvous)
              n == Message(<<k, "info">>, Serialize(r.info[1]), rendezvous)
  <2>1. k \notin NameSent
    BY <1>7 DEF NameSent, InfoSent
  <2>2. s = <<header>> \o <<m, n>> /\ Count(r) = 3
    BY <1>1, <1>7, <2>1, SendInfoIs DEF header, Count
  <2>3. Is(m, 2) /\ Is(n, 3)
    BY <1>2, <1>7, <2>1, SizeIs DEF PartTag, PartData
  <2>. HIDE DEF m, n, Is
  <2>. QED
    <3>1. /\ IsSequence(<<header, m, n>>) /\ Len(<<header, m, n>>) = 3
          /\ <<header, m, n>>[1] = header
          /\ <<header, m, n>>[2] = m /\ <<header, m, n>>[3] = n
      BY ThreeIs
    <3>2. s = <<header, m, n>>
      BY <2>2, ThreeIs
    <3>3. Count(r) = 3
      BY <2>2
    <3>. QED
      BY ONLY <1>3, <2>3, <3>1, <3>2, <3>3
<1>. QED
  BY <1>4, <1>5, <1>6, <1>7

\* No two parts of requests have the same tag, unless their kinds are equal.
LEMMA TagsDiffer ==
  ASSUME NEW k1 \in Kind, NEW k2 \in Kind, NEW j1 \in 1 .. 3, NEW j2 \in 1 .. 3,
         PartTag(k1, j1) = PartTag(k2, j2)
  PROVE  k1 = k2 /\ j1 = j2
BY DEF PartTag

\* What is assumed of the requests.
LEMMA RequestIs ==
  ASSUME NEW r \in Request
  PROVE  /\ r.kind \in Kind /\ r.name \in Text /\ InfoObject(r.info)
         /\ r.info # <<>> => r.info = <<r.info[1]>> /\ r.info[1] \in Seq(Text \X Text)
<1>1. r.kind \in Kind /\ r.name \in Text /\ InfoObject(r.info)
  BY RequestAssumption
<1>. DEFINE I == Seq(Text \X Text)
<1>2. r.info \in Seq(I) /\ Len(r.info) <= 1
  BY <1>1 DEF InfoObject
<1>. HIDE DEF I
<1>3. r.info # <<>> => r.info = <<r.info[1]>> /\ r.info[1] \in I
  BY <1>2
<1>. QED
  BY <1>1, <1>3 DEF I

\* What is to be sent depends on the state only by rendezvous.
LEMMA SendsSame ==
  ASSUME rendezvous' = rendezvous
  PROVE  /\ \A c, r : CallSends(c, r)' = CallSends(c, r)
         /\ \A c, r : CallSteps(c, r)' = CallSteps(c, r)
         /\ \A k, a : HandlerSends(k, a)' = HandlerSends(k, a)
<1>1. \A t, d : Send(t, d)' = Send(t, d)
  BY DEF Send
<1>2. \A t, i : SendInfo(t, i)' = SendInfo(t, i)
  BY <1>1 DEF SendInfo
<1>3. \A t, i : SendIds(t, i)' = SendIds(t, i)
  BY <1>1 DEF SendIds
<1>4. \A c, r : CallSends(c, r)' = CallSends(c, r)
  BY <1>1, <1>2 DEF CallSends
<1>. QED
  BY <1>1, <1>2, <1>3, <1>4 DEF CallSteps, HandlerSends

LEMMA CallRecvsAre ==
  ASSUME NEW k \in Kind
  PROVE  /\ IsSequence(CallRecvs(k)) /\ Len(CallRecvs(k)) \in 0 .. 2
         /\ (CallRecvs(k) = <<>>) = (k \in {"PSET_FREE", "RC_ACCEPT"})
         /\ \A i \in 1 .. Len(CallRecvs(k)) : CallRecvs(k)[i].do # "send"
<1>1. CASE k \in {"PSET_FREE", "RC_ACCEPT"}
  BY <1>1, EmptyIs DEF CallRecvs
<1>2. CASE k = "RC"
  <2>. DEFINE x == [do |-> "recv_info", tag |-> <<"RC", "info">>]
              y == [do |-> "recv", tag |-> <<"RC", "answer">>]
  <2>1. CallRecvs(k) = <<x>> \o <<y>>
    BY <1>2 DEF CallRecvs, RecvInfo, Recv
  <2>2. x.do # "send" /\ y.do # "send"
    OBVIOUS
  <2>. HIDE DEF x, y
  <2>. QED
    BY <1>2, <2>1, <2>2, TwoIs, EmptyIs
<1>3. CASE k \notin {"PSET_FREE", "RC_ACCEPT", "RC"}
  <2>1. \/ CallRecvs(k) = RecvInfo(<<k, "answer">>)
        \/ CallRecvs(k) = RecvIds(<<k, "answer">>)
        \/ CallRecvs(k) = Recv(<<k, "answer">>)
    BY <1>3 DEF CallRecvs
  <2>2. PICK x : CallRecvs(k) = <<x>> /\ x.do # "send"
    BY <2>1 DEF RecvInfo, RecvIds, Recv
  <2>. QED
    BY <1>3, <2>2, OneIs
<1>. QED
  BY <1>1, <1>2, <1>3

\* Answers depend on the kind of the request alone.
LEMMA AnswersAre ==
  /\ \A r : Answers(r) = Answers(Plain(r.kind))
  /\ \A k \in Kind : (Answers(Plain(k)) = {}) = (k \in {"PSET_FREE", "RC_ACCEPT"})
  /\ \A k \in Kind : \A a \in Answers(Plain(k)) : a # M!Nothing
<1>1. \A r : Answers(r) = Answers(Plain(r.kind))
  BY DEF Answers, Plain, Call
<1>2. \A i, s, n : Answer(i, s, n) # M!Nothing
  BY DEF Answer, M!Nothing
<1>3. PICK i \in InfoAnswer : i # <<>>
  BY InfoAnswerAssumption
<1>4. ASSUME NEW k \in Kind PROVE (Answers(Plain(k)) = {}) = (k \in {"PSET_FREE", "RC_ACCEPT"})
  <2>1. Answers(Plain(k)) = {} <=> k \in {"PSET_FREE", "RC_ACCEPT"}
    BY <1>3 DEF Answers, Plain, Call
  <2>. QED
    BY <2>1
<1>5. ASSUME NEW k \in Kind, NEW a \in Answers(Plain(k)) PROVE a # M!Nothing
  <2>1. \E x, y, z : a = Answer(x, y, z)
    BY DEF Answers, Plain, Call
  <2>. QED
    BY <1>2, <2>1
<1>. QED
  BY <1>1, <1>4, <1>5

LEMMA InfoObjectIs ==
  ASSUME NEW i, InfoObject(i)
  PROVE  i # <<>> => i = <<i[1]>> /\ i[1] \in Seq(Text \X Text)
<1>. DEFINE I == Seq(Text \X Text)
<1>1. i \in Seq(I) /\ Len(i) <= 1
  BY DEF InfoObject
<1>. HIDE DEF I
<1>2. i # <<>> => i = <<i[1]>> /\ i[1] \in I
  BY <1>1, SMTT(20)
<1>. QED
  BY <1>2 DEF I

\* A buffer of the length of the data holds the data alone.
LEMMA PaddedIs ==
  ASSUME NEW d, IsSequence(d)
  PROVE  Padded(d, Len(d)) = d
<1>1. DOMAIN d = 1 .. Len(d)
  BY DEF IsSequence
<1>2. Padded(d, Len(d)) = [i \in 1 .. Len(d) |-> d[i]]
  BY <1>1 DEF Padded
<1>. QED
  BY <1>2 DEF IsSequence

\* What a receive makes of the part it is for.
LEMMA ReceivedIs ==
  /\ \A t, d : Received([do |-> "recv", tag |-> t], d) = Parts(d, <<>>)
  /\ \A t, d : IsSequence(d) =>
       Received([do |-> "recv_data", tag |-> t, size |-> Len(d)], d) = Parts(d, <<>>)
  /\ \A t : Received([do |-> "recv_info", tag |-> t], <<SIZE_MAX>>) = Parts(<<>>, <<>>)
  /\ \A t : Received([do |-> "recv_ids", tag |-> t], <<0>>) = Parts(<<>>, <<>>)
  /\ \A t, n : n \in Nat =>
       Received([do |-> "recv_info", tag |-> t], <<n>>) = More(RecvInfoData(t, n))
  /\ \A t, n : n \in Nat \ {0} =>
       Received([do |-> "recv_ids", tag |-> t], <<n>>) = More(RecvData(t, n))
  /\ \A t, n, i : i # <<>> /\ InfoObject(i) =>
       Received([do |-> "recv_info_data", tag |-> t, size |-> n], Serialize(i[1])) = Parts(<<>>, i)
<1>1. \A t, d : Received([do |-> "recv", tag |-> t], d) = Parts(d, <<>>)
  BY DEF Received
<1>2. ASSUME NEW t, NEW d, IsSequence(d)
      PROVE  Received([do |-> "recv_data", tag |-> t, size |-> Len(d)], d) = Parts(d, <<>>)
  <2>1. Received([do |-> "recv_data", tag |-> t, size |-> Len(d)], d) = Parts(Padded(d, Len(d)), <<>>)
    BY DEF Received
  <2>. QED
    BY <1>2, <2>1, PaddedIs
<1>3. \A t : Received([do |-> "recv_info", tag |-> t], <<SIZE_MAX>>) = Parts(<<>>, <<>>)
  BY DEF Received
<1>4. \A t : Received([do |-> "recv_ids", tag |-> t], <<0>>) = Parts(<<>>, <<>>)
  BY DEF Received
<1>5. ASSUME NEW t, NEW n \in Nat
      PROVE  Received([do |-> "recv_info", tag |-> t], <<n>>) = More(RecvInfoData(t, n))
  <2>1. <<n>> # <<SIZE_MAX>> /\ <<n>>[1] = n
    BY DEF SIZE_MAX
  <2>. QED
    BY <2>1 DEF Received
<1>6. ASSUME NEW t, NEW n \in Nat \ {0}
      PROVE  Received([do |-> "recv_ids", tag |-> t], <<n>>) = More(RecvData(t, n))
  <2>1. <<n>> # <<0>> /\ <<n>>[1] = n
    OBVIOUS
  <2>. QED
    BY <2>1 DEF Received
<1>7. ASSUME NEW t, NEW n, NEW i, i # <<>>, InfoObject(i)
      PROVE  Received([do |-> "recv_info_data", tag |-> t, size |-> n], Serialize(i[1]))
               = Parts(<<>>, i)
  <2>1. Deserialize(Serialize(i[1])) = i[1] /\ <<i[1]>> = i
    BY <1>7, InfoObjectIs, InfoArrives
  <2>. QED
    BY <2>1 DEF Received
<1>. QED
  BY <1>1, <1>2, <1>3, <1>4, <1>5, <1>6, <1>7

LEMMA SerializedLength ==
  ASSUME NEW i, InfoObject(i), i # <<>>
  PROVE  Len(Serialize(i[1])) \in Nat \ {0}
BY InfoObjectIs, SerializedIs

\* The form of the answers to a kind of request.
LEMMA AnswerForms ==
  ASSUME NEW k \in Kind, NEW a \in Answers(Plain(k))
  PROVE  /\ k \notin {"PSET_FREE", "RC_ACCEPT"}
         /\ k \in InfoAnswered \ {"RC"} => a = Answer(a.info, <<>>, 0) /\ InfoObject(a.info)
         /\ k = "RC" => a = Answer(a.info, <<>>, 1) /\ InfoObject(a.info)
         /\ k = "PSET_LOOKUP" => a = Answer(<<>>, a.ids, 0) /\ a.ids \in {<<>>, <<1, 2>>}
         /\ k \notin InfoAnswered \cup {"PSET_LOOKUP"} => a = Answer(<<>>, <<>>, 1)
<1>1. k \notin {"PSET_FREE", "RC_ACCEPT"}
  BY AnswersAre
<1>2. ASSUME k \in InfoAnswered \ {"RC"} PROVE a = Answer(a.info, <<>>, 0) /\ InfoObject(a.info)
  <2>1. PICK i \in InfoAnswer : a = Answer(i, <<>>, 0)
    BY <1>2 DEF Answers, Plain, Call, InfoAnswered
  <2>. QED
    BY <2>1, InfoAnswerAssumption DEF Answer
<1>3. ASSUME k = "RC" PROVE a = Answer(a.info, <<>>, 1) /\ InfoObject(a.info)
  <2>1. PICK i \in InfoAnswer : a = Answer(i, <<>>, 1)
    BY <1>3 DEF Answers, Plain, Call
  <2>. QED
    BY <2>1, InfoAnswerAssumption DEF Answer
<1>4. ASSUME k = "PSET_LOOKUP" PROVE a = Answer(<<>>, a.ids, 0) /\ a.ids \in {<<>>, <<1, 2>>}
  <2>1. PICK ids \in {<<>>, <<1, 2>>} : a = Answer(<<>>, ids, 0)
    BY <1>4 DEF Answers, Plain, Call
  <2>2. a.ids = ids
    BY <2>1 DEF Answer
  <2>. QED
    BY ONLY <2>1, <2>2
<1>5. ASSUME k \notin InfoAnswered \cup {"PSET_LOOKUP"} PROVE a = Answer(<<>>, <<>>, 1)
  BY <1>1, <1>5 DEF Answers, Plain, Call, InfoAnswered
<1>. QED
  BY <1>1, <1>2, <1>3, <1>4, <1>5

\* The tag of the message that the receive s is for.
RecvTag(s) == IF s.do \in {"recv_info", "recv_ids"} THEN Size(s.tag) ELSE s.tag

\* After the next part the call returns the answer, or knows one part of it more.
TakesNext(k, a, t, left, parts) ==
  LET sends == HandlerSends(k, a)
      received == Received(Head(left), sends[t + 1].data)
      rest == received.next \o Tail(left)
      known == parts \o received.parts
  IN
  /\ left # <<>> /\ Head(left).do # "send" /\ Head(left).tag[1] = k
  /\ sends[t + 1].tag = RecvTag(Head(left))
  /\ IsSequence(rest) /\ IsSequence(known)
  /\ IF rest = <<>> THEN t + 1 = Len(sends) /\ Result(k, known) = a
                    ELSE t + 1 < Len(sends) /\ HasReceived(k, a, t + 1, rest, known)

LEMMA MessageIs ==
  \A t, d, y : /\ Message(t, d, y).do = "send" /\ Message(t, d, y).tag = t
               /\ Message(t, d, y).data = d
BY DEF Message

LEMMA OneMore ==
  /\ \A x : <<x>> # <<>> /\ Head(<<x>>) = x /\ Tail(<<x>>) = <<>>
  /\ \A x : <<>> \o <<x>> = <<x>> /\ <<x>> \o <<>> = <<x>>
  /\ <<>> \o <<>> = <<>>
BY OneIs, EmptyIs, EmptyEnds

\* The last part of an answer.
LEMMA TakesOnly ==
  ASSUME NEW k, NEW a, NEW t, NEW x, NEW m, NEW part, NEW sends, sends = HandlerSends(k, a),
         x.do # "send", x.tag[1] = k, m.tag = RecvTag(x), sends[t + 1] = m, t + 1 = Len(sends),
         Received(x, m.data).next = <<>>, Received(x, m.data).parts = <<part>>,
         Result(k, <<part>>) = a
  PROVE  TakesNext(k, a, t, <<x>>, <<>>)
BY OneIs, EmptyIs, OneMore DEF TakesNext

\* A part of an answer that is not the last.
LEMMA TakesStep ==
  ASSUME NEW k, NEW a, NEW t, NEW left, NEW parts, NEW sends, sends = HandlerSends(k, a),
         NEW n, n = t + 1, NEW x, NEW m, NEW rest, NEW known,
         left # <<>>, x = Head(left), x.do # "send", x.tag[1] = k, m.tag = RecvTag(x),
         sends[n] = m,
         rest = Received(x, m.data).next \o Tail(left), known = parts \o Received(x,
         m.data).parts,
         IsSequence(rest), IsSequence(known), rest # <<>>, n < Len(sends), HasReceived(k, a,
         n, rest, known)
  PROVE  TakesNext(k, a, t, left, parts)
BY DEF TakesNext

LEMMA TakesFirst ==
  ASSUME NEW k, NEW a, NEW x, NEW m, NEW y, NEW sends, sends = HandlerSends(k, a),
         x.do # "send", x.tag[1] = k, m.tag = RecvTag(x), sends[1] = m, 1 < Len(sends),
         Received(x, m.data).next = <<y>>, Received(x, m.data).parts = <<>>,
         HasReceived(k, a, 1, <<y>>, <<>>)
  PROVE  TakesNext(k, a, 0, <<x>>, <<>>)
<1>1. /\ <<y>> # <<>> /\ <<x>> # <<>> /\ x = Head(<<x>>) /\ 1 = 0 + 1
      /\ <<y>> = Received(x, m.data).next \o Tail(<<x>>)
      /\ <<>> = <<>> \o Received(x, m.data).parts
      /\ IsSequence(<<y>>) /\ IsSequence(<<>>)
  BY OneIs, EmptyIs, OneMore
<1>. QED
  BY <1>1, TakesStep

\* A single int.
LEMMA TakesInt ==
  ASSUME NEW k \in Kind, NEW a \in Answers(Plain(k)),
         k \notin InfoAnswered \cup {"PSET_LOOKUP"},
         NEW t \in 0 .. 2, NEW left, NEW parts, HasReceived(k, a, t, left, parts),
         t < Len(HandlerSends(k, a))
  PROVE  TakesNext(k, a, t, left, parts)
<1>. DEFINE x == [do |-> "recv", tag |-> <<k, "answer">>]
            m == Message(<<k, "answer">>, <<1>>, rendezvous)
<1>1. a = Answer(<<>>, <<>>, 1) /\ a.int = 1
  BY AnswerForms DEF Answer
<1>2. CallRecvs(k) = <<x>>
  BY AnswerForms DEF CallRecvs, Recv, InfoAnswered
<1>3. HandlerSends(k, a) = <<m>>
  <2>1. HandlerSends(k, a) = Send(<<k, "answer">>, <<a.int>>)
    BY AnswerForms DEF HandlerSends, InfoAnswered
  <2>. QED
    BY <1>1, <2>1, SendIs
<1>4. t = 0 /\ left = <<x>> /\ parts = <<>>
  BY <1>2, <1>3, OneIs DEF HasReceived, InfoAnswered
<1>5. m.tag = RecvTag(x) /\ x.do # "send" /\ x.tag[1] = k /\ m.data = <<1>>
  BY MessageIs DEF RecvTag
<1>6. Received(x, m.data) = Parts(<<1>>, <<>>)
  BY <1>5, ReceivedIs
<1>7. Result(k, <<[data |-> <<1>>, info |-> <<>>]>>) = a
  BY <1>1, AnswerForms DEF Result, InfoAnswered
<1>. DEFINE part == [data |-> <<1>>, info |-> <<>>]
<1>. HIDE DEF x, m, part
<1>8. Parts(<<1>>, <<>>).next = <<>> /\ Parts(<<1>>, <<>>).parts = <<part>>
  BY DEF Parts, part
<1>9. Result(k, <<part>>) = a
  BY <1>7 DEF part
<1>. QED
  BY <1>3, <1>4, <1>5, <1>6, <1>8, <1>9, OneIs, EmptyIs, OneMore DEF TakesNext

\* The ids of a process set.
LEMMA TakesIds ==
  ASSUME NEW k, k = "PSET_LOOKUP", NEW a \in Answers(Plain(k)),
         NEW t \in 0 .. 2, NEW left, NEW parts, HasReceived(k, a, t, left, parts),
         t < Len(HandlerSends(k, a))
  PROVE  TakesNext(k, a, t, left, parts)
<1>. DEFINE tag == <<k, "answer">>
            x == [do |-> "recv_ids", tag |-> tag]
            y == [do |-> "recv_data", tag |-> tag, size |-> 2]
            m == Message(Size(tag), <<Len(a.ids)>>, rendezvous)
            n == Message(tag, a.ids, rendezvous)
<1>1. k \in Kind /\ k \notin InfoAnswered
  BY DEF Kind, InfoAnswered
<1>2. a = Answer(<<>>, a.ids, 0) /\ a.ids \in {<<>>, <<1, 2>>}
  BY <1>1, AnswerForms
<1>3. CallRecvs(k) = <<x>> /\ <<x>>[1].tag = tag
  BY DEF CallRecvs, RecvIds
<1>4. HandlerSends(k, a) = SendIds(tag, a.ids)
  BY DEF HandlerSends
<1>5. \A d : Result(k, <<[data |-> d, info |-> <<>>]>>) = Answer(<<>>, d, 0)
  BY DEF Result
<1>6. x.do # "send" /\ y.do # "send" /\ x.tag[1] = k /\ y.tag[1] = k
      /\ m.tag = RecvTag(x) /\ n.tag = RecvTag(y) /\ m.data = <<Len(a.ids)>> /\ n.data = a.ids
  BY MessageIs DEF RecvTag
<1>7. \A d : Parts(d, <<>>).next = <<>> /\ Parts(d, <<>>).parts = <<[data |-> d, info |-> <<>>]>>
  BY DEF Parts
<1>8. More(<<y>>).next = <<y>> /\ More(<<y>>).parts = <<>>
  BY DEF More
<1>9. RecvData(tag, 2) = <<y>>
  BY DEF RecvData
<1>10. Len(<<1, 2>>) = 2 /\ IsSequence(<<1, 2>>) /\ <<1, 2>> # <<>> /\ Len(<<>>) = 0
  BY TwoIs, EmptyIs
<1>11. CASE a.ids = <<>>
  <2>1. HandlerSends(k, a) = <<m>>
    BY <1>4, <1>11, SendIs, EmptyEnds, OneIs DEF SendIds
  <2>2. t = 0 /\ left = <<x>> /\ parts = <<>>
    BY <1>3, <1>11, <2>1, OneIs DEF HasReceived, InfoAnswered
  <2>3. Received(x, m.data) = Parts(<<>>, <<>>)
    BY <1>6, <1>10, <1>11, ReceivedIs
  <2>. DEFINE part == [data |-> <<>>, info |-> <<>>]
  <2>4. Result(k, <<part>>) = a
    BY <1>2, <1>5, <1>11
  <2>5. Len(<<m>>) = 0 + 1 /\ <<m>>[0 + 1] = m /\ Parts(<<>>, <<>>).parts = <<part>>
    BY <1>7, OneIs
  <2>. HIDE DEF x, m, part
  <2>. QED
    BY <1>6, <1>7, <2>1, <2>2, <2>3, <2>4, <2>5, TakesOnly
<1>12. CASE a.ids = <<1, 2>>
  <2>1. HandlerSends(k, a) = <<m, n>>
    BY <1>4, <1>10, <1>12, SendIs, TwoIs DEF SendIds
  <2>2. Received(x, m.data) = More(<<y>>)
    <3>1. Received([do |-> "recv_ids", tag |-> tag], <<2>>) = More(RecvData(tag, 2))
      BY ReceivedIs
    <3>. QED
      BY <1>6, <1>9, <1>10, <1>12, <3>1
  <2>3. Received(y, n.data) = Parts(<<1, 2>>, <<>>)
    BY <1>6, <1>10, <1>12, ReceivedIs
  <2>4. Result(k, <<[data |-> <<1, 2>>, info |-> <<>>]>>) = a
    BY <1>2, <1>5, <1>12
  <2>5. HasReceived(k, a, 1, <<y>>, <<>>)
    BY <1>3, <1>9, <1>10, <1>12 DEF HasReceived
  <2>6. \/ t = 0 /\ left = <<x>> /\ parts = <<>>
        \/ t = 1 /\ left = <<y>> /\ parts = <<>>
    BY <1>3, <1>9, <1>10, <1>12 DEF HasReceived, InfoAnswered
  <2>. DEFINE part == [data |-> <<1, 2>>, info |-> <<>>]
  <2>7. Len(<<m, n>>) = 1 + 1 /\ 1 < Len(<<m, n>>) /\ <<m, n>>[1] = m /\ <<m, n>>[1 + 1] = n
    BY TwoIs
  <2>8. Result(k, <<part>>) = a /\ Parts(<<1, 2>>, <<>>).parts = <<part>>
    BY <1>7, <2>4
  <2>. HIDE DEF x, m, n, y, part
  <2>9. TakesNext(k, a, 0, <<x>>, <<>>)
    BY ONLY <1>6, <1>8, <2>1, <2>2, <2>5, <2>7, TakesFirst
  <2>10. TakesNext(k, a, 1, <<y>>, <<>>)
    BY ONLY <1>6, <1>7, <2>1, <2>3, <2>7, <2>8, TakesOnly
  <2>. QED
    BY <2>6, <2>9, <2>10
<1>. QED
  BY <1>2, <1>11, <1>12

\* An info object.
LEMMA TakesInfo ==
  ASSUME NEW k \in InfoAnswered \ {"RC"}, NEW a \in Answers(Plain(k)),
         NEW t \in 0 .. 2, NEW left, NEW parts, HasReceived(k, a, t, left, parts),
         t < Len(HandlerSends(k, a))
  PROVE  TakesNext(k, a, t, left, parts)
<1>. DEFINE tag == <<k, "answer">>
            buf == Serialize(a.info[1])
            x == [do |-> "recv_info", tag |-> tag]
            y == [do |-> "recv_info_data", tag |-> tag, size |-> Len(buf)]
            z == Message(Size(tag), <<SIZE_MAX>>, rendezvous)
            m == Message(Size(tag), <<Len(buf)>>, rendezvous)
            n == Message(tag, buf, rendezvous)
            part == [data |-> <<>>, info |-> a.info]
<1>1. k \in Kind /\ k # "PSET_LOOKUP"
  BY DEF Kind, InfoAnswered
<1>2. a = Answer(a.info, <<>>, 0) /\ InfoObject(a.info)
  BY <1>1, AnswerForms
<1>3. CallRecvs(k) = <<x>> /\ <<x>>[1].tag = tag
  BY DEF CallRecvs, RecvInfo, InfoAnswered
<1>4. HandlerSends(k, a) = SendInfo(tag, a.info)
  BY DEF HandlerSends, InfoAnswered
<1>5. Result(k, <<part>>) = a
  BY <1>2 DEF Result, InfoAnswered
<1>6. x.do # "send" /\ y.do # "send" /\ x.tag[1] = k /\ y.tag[1] = k
      /\ m.tag = RecvTag(x) /\ z.tag = RecvTag(x) /\ n.tag = RecvTag(y)
      /\ m.data = <<Len(buf)>> /\ n.data = buf /\ z.data = <<SIZE_MAX>>
  BY MessageIs DEF RecvTag
<1>7. Parts(<<>>, a.info).next = <<>> /\ Parts(<<>>, a.info).parts = <<part>>
  BY DEF Parts
<1>8. More(<<y>>).next = <<y>> /\ More(<<y>>).parts = <<>>
  BY DEF More
<1>9. RecvInfoData(tag, Len(buf)) = <<y>>
  BY DEF RecvInfoData
<1>10. CASE a.info = <<>>
  <2>1. HandlerSends(k, a) = <<z>>
    BY <1>4, <1>10, SendInfoIs
  <2>2. t = 0 /\ left = <<x>> /\ parts = <<>>
    BY <1>1, <1>3, <1>10, <2>1, OneIs DEF HasReceived
  <2>3. Received(x, z.data) = Parts(<<>>, a.info)
    BY <1>6, <1>10, ReceivedIs
  <2>4. Len(<<z>>) = 0 + 1 /\ <<z>>[0 + 1] = z
    BY OneIs
  <2>. HIDE DEF x, z, part
  <2>. QED
    BY <1>5, <1>6, <1>7, <2>1, <2>2, <2>3, <2>4, TakesOnly, ZenonT(60)
<1>11. CASE a.info # <<>>
  <2>1. HandlerSends(k, a) = <<m, n>>
    BY <1>4, <1>11, SendInfoIs
  <2>2. Received(x, m.data) = More(<<y>>)
    <3>1. Received([do |-> "recv_info", tag |-> tag], <<Len(buf)>>) = More(RecvInfoData(tag, Len(buf)))
      BY <1>2, <1>11, ReceivedIs, SerializedLength
    <3>. QED
      BY <1>6, <1>9, <3>1
  <2>3. Received(y, n.data) = Parts(<<>>, a.info)
    BY <1>2, <1>6, <1>11, ReceivedIs
  <2>4. Len(<<m, n>>) = 1 + 1 /\ 1 < Len(<<m, n>>) /\ <<m, n>>[1] = m /\ <<m, n>>[1 + 1] = n
    BY TwoIs
  <2>. HIDE DEF m, n, part, x, y
  <2>5. RecvInfoData(CallRecvs(k)[1].tag, Len(buf)) \o Tail(CallRecvs(k)) = <<y>>
    BY <1>3, <1>9, OneMore DEF x
  <2>6. HasReceived(k, a, 1, <<y>>, <<>>)
    BY <1>11, <2>5 DEF HasReceived
  <2>7. \/ t = 0 /\ left = <<x>> /\ parts = <<>>
        \/ t = 1 /\ left = <<y>> /\ parts = <<>>
    BY <1>1, <1>3, <1>11, <2>5 DEF HasReceived
  <2>8. TakesNext(k, a, 0, <<x>>, <<>>)
    BY ONLY <1>6, <1>8, <2>1, <2>2, <2>4, <2>6, TakesFirst
  <2>9. TakesNext(k, a, 1, <<y>>, <<>>)
    BY ONLY <1>5, <1>6, <1>7, <2>1, <2>3, <2>4, TakesOnly
  <2>. QED
    BY <2>7, <2>8, <2>9
<1>. QED
  BY <1>10, <1>11

LEMMA TwoMore ==
  /\ \A x, y : /\ <<x, y>> # <<>> /\ Head(<<x, y>>) = x /\ Tail(<<x, y>>) = <<y>>
               /\ <<x>> \o <<y>> = <<x, y>>
<1>1. ASSUME NEW x, NEW y PROVE <<x, y>> # <<>> /\ Head(<<x, y>>) = x /\ Tail(<<x, y>>) = <<y>>
  <2>1. IsSequence(<<x, y>>) /\ Len(<<x, y>>) = 2 /\ <<x, y>>[1] = x /\ <<x, y>>[2] = y
    BY TwoIs
  <2>2. <<x, y>> # <<>>
    BY <2>1, EmptyIs
  <2>. DEFINE s == <<x, y>>
  <2>3. IsSequence(s) /\ Len(s) = 2 /\ s # <<>>
    BY <2>1, <2>2
  <2>4. IsSequence(Tail(s)) /\ Len(Tail(s)) = 1 /\ Tail(s)[1] = s[1 + 1] /\ Head(s) = s[1]
    <3>. HIDE DEF s
    <3>. QED
      BY ONLY <2>3, TailIs
  <2>5. IsSequence(<<y>>) /\ Len(<<y>>) = 1 /\ <<y>>[1] = y
    BY OneIs
  <2>6. Tail(s)[1] = y
    BY <2>1, <2>4
  <2>. DEFINE u == Tail(s)
  <2>7. IsSequence(u) /\ Len(u) = 1 /\ u[1] = y
    BY <2>4, <2>6
  <2>. HIDE DEF u
  <2>8. u = <<y>>
    BY ONLY <2>5, <2>7, SequenceEqual
  <2>. QED
    BY <2>1, <2>2, <2>4, <2>8 DEF u
<1>. QED
  BY <1>1, TwoIs

LEMMA ThreeTogether ==
  ASSUME NEW p, NEW q, IsSequence(p), IsSequence(q)
  PROVE  Len(p) = 2 /\ Len(q) = 1 =>
           /\ IsSequence(p \o q) /\ Len(p \o q) = 3
           /\ (p \o q)[1] = p[1] /\ (p \o q)[2] = p[2] /\ (p \o q)[3] = q[1]
<1>1. IsSequence(p \o q)
  BY ConcatIs
<1>2. Len(p \o q) = Len(p) + Len(q)
  BY ConcatIs
<1>3. \A i \in 1 .. Len(p) : (p \o q)[i] = p[i]
  BY ConcatIs
<1>4. \A i \in 1 .. Len(q) : (p \o q)[Len(p) + i] = q[i]
  BY ConcatIs
<1>5. Len(p) = 2 /\ Len(q) = 1 => (p \o q)[2 + 1] = q[1]
  BY <1>4
<1>. QED
  BY <1>1, <1>2, <1>3, <1>5

LEMMA TwoAndOne ==
  ASSUME NEW x, NEW y, NEW z
  PROVE  <<x, y>> \o <<z>> = <<x, y, z>>
<1>. DEFINE v == <<x, y>> \o <<z>>
<1>1. IsSequence(<<x, y>>) /\ Len(<<x, y>>) = 2 /\ <<x, y>>[1] = x /\ <<x, y>>[2] = y
  BY TwoIs
<1>2. IsSequence(<<z>>) /\ Len(<<z>>) = 1 /\ <<z>>[1] = z
  BY OneIs
<1>3. IsSequence(v) /\ Len(v) = 3 /\ v[1] = x /\ v[2] = y /\ v[3] = z
  BY <1>1, <1>2, ThreeTogether
<1>4. /\ IsSequence(<<x, y, z>>) /\ Len(<<x, y, z>>) = 3
      /\ <<x, y, z>>[1] = x /\ <<x, y, z>>[2] = y /\ <<x, y, z>>[3] = z
  BY ThreeIs
<1>. HIDE DEF v
<1>5. v = <<x, y, z>>
  BY ONLY <1>3, <1>4, SequenceEqual
<1>. QED
  BY <1>5 DEF v

\* An info object and an int.
LEMMA TakesInfoAndInt ==
  ASSUME NEW k, k = "RC", NEW a \in Answers(Plain(k)),
         NEW t \in 0 .. 2, NEW left, NEW parts, HasReceived(k, a, t, left, parts),
         t < Len(HandlerSends(k, a))
  PROVE  TakesNext(k, a, t, left, parts)
<1>. DEFINE tag == <<k, "info">>
            buf == Serialize(a.info[1])
            x == [do |-> "recv_info", tag |-> tag]
            y == [do |-> "recv_info_data", tag |-> tag, size |-> Len(buf)]
            w == [do |-> "recv", tag |-> <<k, "answer">>]
            z == Message(Size(tag), <<SIZE_MAX>>, rendezvous)
            m == Message(Size(tag), <<Len(buf)>>, rendezvous)
            n == Message(tag, buf, rendezvous)
            q == Message(<<k, "answer">>, <<1>>, rendezvous)
            part == [data |-> <<>>, info |-> a.info]
            int == [data |-> <<1>>, info |-> <<>>]
<1>1. k \in Kind /\ k # "PSET_LOOKUP" /\ k \in InfoAnswered
  BY DEF Kind, InfoAnswered
<1>2. a = Answer(a.info, <<>>, 1) /\ InfoObject(a.info) /\ a.int = 1
  BY <1>1, AnswerForms DEF Answer
<1>3. CallRecvs(k) = <<x, w>>
  BY TwoIs DEF CallRecvs, RecvInfo, Recv
<1>4. HandlerSends(k, a) = SendInfo(tag, a.info) \o <<q>>
  BY <1>2, SendIs DEF HandlerSends
<1>5. Result(k, <<part, int>>) = a
  BY <1>2 DEF Result
<1>6. /\ x.do # "send" /\ y.do # "send" /\ w.do # "send"
      /\ x.tag[1] = k /\ y.tag[1] = k /\ w.tag[1] = k /\ x.tag = tag
      /\ m.tag = RecvTag(x) /\ z.tag = RecvTag(x) /\ n.tag = RecvTag(y) /\ q.tag = RecvTag(w)
      /\ m.data = <<Len(buf)>> /\ n.data = buf /\ z.data = <<SIZE_MAX>> /\ q.data = <<1>>
  BY MessageIs DEF RecvTag
<1>7. /\ Parts(<<>>, a.info).next = <<>> /\ Parts(<<>>, a.info).parts = <<part>>
      /\ Parts(<<1>>, <<>>).next = <<>> /\ Parts(<<1>>, <<>>).parts = <<int>>
      /\ Part(<<>>, a.info) = <<part>>
  BY DEF Parts, Part
<1>8. More(<<y>>).next = <<y>> /\ More(<<y>>).parts = <<>>
  BY DEF More
<1>9. RecvInfoData(tag, Len(buf)) = <<y>>
  BY DEF RecvInfoData
<1>10. Received(w, q.data) = Parts(<<1>>, <<>>)
  BY <1>6, ReceivedIs
<1>. HIDE DEF part, x, y, w, int
<1>11. CallRecvs(k)[1].tag = tag /\ Tail(CallRecvs(k)) = <<w>> /\ <<x, w>> # <<>>
  <2>1. <<x, w>>[1] = x /\ Tail(<<x, w>>) = <<w>> /\ <<x, w>> # <<>>
    BY TwoIs, TwoMore
  <2>. QED
    BY ONLY <1>3, <1>6, <2>1
<1>12. ASSUME NEW u \in Nat, u = Len(HandlerSends(k, a)) - 1, HandlerSends(k, a)[u + 1] = q
       PROVE  TakesNext(k, a, u, <<w>>, <<part>>)
  <2>1. /\ <<w>> # <<>> /\ Head(<<w>>) = w /\ <<part>> \o <<int>> = <<part, int>>
        /\ IsSequence(<<part, int>>) /\ IsSequence(<<>>) /\ <<>> \o Tail(<<w>>) = <<>>
    BY OneMore, TwoIs, EmptyIs
  <2>2. u + 1 = Len(HandlerSends(k, a))
    BY <1>12
  <2>. HIDE DEF q
  <2>. QED
    BY <1>5, <1>6, <1>7, <1>10, <1>12, <2>1, <2>2 DEF TakesNext
<1>13. CASE a.info = <<>>
  <2>1. HandlerSends(k, a) = <<z, q>>
    BY <1>4, <1>13, SendInfoIs, TwoIs
  <2>. HIDE DEF z, q
  <2>2. Len(<<z, q>>) = 2 /\ <<z, q>>[1] = z /\ <<z, q>>[2] = q
    BY TwoIs
  <2>3. HasReceived(k, a, 1, <<w>>, <<part>>)
    <3>1. 1 = Len(HandlerSends(k, a)) - 1 /\ 1 > 0
      BY <2>1, <2>2
    <3>2. <<w>> = Tail(CallRecvs(k)) /\ <<part>> = Part(<<>>, a.info)
      BY <1>7, <1>11
    <3>. QED
      BY ONLY <3>1, <3>2, k = "RC" DEF HasReceived
  <2>4. \/ t = 0 /\ left = <<x, w>> /\ parts = <<>>
        \/ t = 1 /\ left = <<w>> /\ parts = <<part>>
    BY <1>1, <1>3, <1>7, <1>11, <1>13, <2>1, <2>2 DEF HasReceived
  <2>5. Received(x, z.data) = Parts(<<>>, a.info)
    BY <1>6, <1>13, ReceivedIs DEF x
  <2>6. TakesNext(k, a, 0, <<x, w>>, <<>>)
    <3>1. /\ <<w>> = Received(x, z.data).next \o Tail(<<x, w>>)
          /\ <<part>> = <<>> \o Received(x, z.data).parts
          /\ IsSequence(<<w>>) /\ IsSequence(<<part>>) /\ <<w>> # <<>> /\ x = Head(<<x, w>>)
          /\ 1 = 0 + 1
          /\ 1 < Len(<<z, q>>)
      BY <1>7, <2>2, <2>5, OneIs, OneMore, TwoMore
    <3>. QED
      BY ONLY <1>6, <1>11, <2>1, <2>2, <2>3, <3>1, TakesStep
  <2>7. TakesNext(k, a, 1, <<w>>, <<part>>)
    BY <1>12, <2>1, <2>2
  <2>. QED
    BY <2>4, <2>6, <2>7
<1>14. CASE a.info # <<>>
  <2>1. HandlerSends(k, a) = <<m, n, q>>
    <3>1. SendInfo(tag, a.info) = <<m, n>>
      BY <1>14, SendInfoIs
    <3>. HIDE DEF m, n, q
    <3>2. \A s1, s2, s3 : <<s1, s2>> \o <<s3>> = <<s1, s2, s3>>
      BY TwoAndOne
    <3>. QED
      BY <1>4, <3>1, <3>2
  <2>2. Received(x, m.data) = More(<<y>>)
    <3>1. Received([do |-> "recv_info", tag |-> tag], <<Len(buf)>>) = More(RecvInfoData(tag, Len(buf)))
      BY <1>2, <1>14, ReceivedIs, SerializedLength
    <3>. QED
      BY <1>6, <1>9, <3>1 DEF x
  <2>3. Received(y, n.data) = Parts(<<>>, a.info)
    BY <1>2, <1>6, <1>14, ReceivedIs DEF y
  <2>. HIDE DEF m, n, q
  <2>4. Len(<<m, n, q>>) = 3 /\ <<m, n, q>>[1] = m /\ <<m, n, q>>[2] = n /\ <<m, n, q>>[3] = q
    BY ThreeIs
  <2>5. RecvInfoData(CallRecvs(k)[1].tag, Len(buf)) \o Tail(CallRecvs(k)) = <<y, w>>
    BY <1>9, <1>11, TwoMore
  <2>6. HasReceived(k, a, 1, <<y, w>>, <<>>)
    BY <1>1, <1>14, <2>5 DEF HasReceived
  <2>7. HasReceived(k, a, 2, <<w>>, <<part>>)
    <3>1. 2 = Len(HandlerSends(k, a)) - 1 /\ 2 > 0
      BY <2>1, <2>4
    <3>2. <<w>> = Tail(CallRecvs(k)) /\ <<part>> = Part(<<>>, a.info)
      BY <1>7, <1>11
    <3>. QED
      BY ONLY <3>1, <3>2, k = "RC" DEF HasReceived
  <2>8. \/ t = 0 /\ left = <<x, w>> /\ parts = <<>>
        \/ t = 1 /\ left = <<y, w>> /\ parts = <<>>
        \/ t = 2 /\ left = <<w>> /\ parts = <<part>>
    <3>1. \/ t = 0 /\ left = CallRecvs(k) /\ parts = <<>>
          \/ /\ t = 1 /\ parts = <<>>
             /\ left = RecvInfoData(CallRecvs(k)[1].tag, Len(buf)) \o Tail(CallRecvs(k))
          \/ t = 2 /\ left = Tail(CallRecvs(k)) /\ parts = Part(<<>>, a.info)
      <4>1. Len(HandlerSends(k, a)) - 1 = 2
        BY <2>1, <2>4
      <4>. QED
        BY <1>1, <4>1 DEF HasReceived
    <3>2. CASE /\ t = 1 /\ parts = <<>>
               /\ left = RecvInfoData(CallRecvs(k)[1].tag, Len(buf)) \o Tail(CallRecvs(k))
      BY ONLY <2>5, <3>2
    <3>3. CASE t = 2 /\ left = Tail(CallRecvs(k)) /\ parts = Part(<<>>, a.info)
      BY <1>7, <1>11, <3>3
    <3>. QED
      BY <1>3, <3>1, <3>2, <3>3
  <2>9. TakesNext(k, a, 0, <<x, w>>, <<>>)
    <3>1. /\ <<y, w>> = Received(x, m.data).next \o Tail(<<x, w>>)
          /\ <<>> = <<>> \o Received(x, m.data).parts
          /\ IsSequence(<<y, w>>) /\ IsSequence(<<>>) /\ <<y, w>> # <<>> /\ x = Head(<<x, w>>)
          /\ 1 = 0 + 1
          /\ 1 < Len(<<m, n, q>>)
      <4>1. 1 < Len(<<m, n, q>>)
        BY <2>4
      <4>2. Received(x, m.data).next = <<y>> /\ Received(x, m.data).parts = <<>>
        BY <1>8, <2>2
      <4>3. <<>> = <<>> \o Received(x, m.data).parts /\ IsSequence(<<>>)
        BY ONLY <4>2, OneMore, EmptyIs
      <4>4. /\ IsSequence(<<y, w>>) /\ <<y, w>> # <<>> /\ x = Head(<<x, w>>)
            /\ Tail(<<x, w>>) = <<w>> /\ <<y>> \o <<w>> = <<y, w>>
        BY TwoIs, TwoMore
      <4>. QED
        BY ONLY <4>1, <4>2, <4>3, <4>4, 1 = 0 + 1
    <3>. QED
      BY ONLY <1>6, <1>11, <2>1, <2>4, <2>6, <3>1, TakesStep
  <2>10. TakesNext(k, a, 1, <<y, w>>, <<>>)
    <3>1. /\ <<w>> = Received(y, n.data).next \o Tail(<<y, w>>)
          /\ <<part>> = <<>> \o Received(y, n.data).parts
          /\ IsSequence(<<w>>) /\ IsSequence(<<part>>) /\ <<w>> # <<>> /\ y = Head(<<y, w>>)
          /\ 2 = 1 + 1
          /\ 2 < Len(<<m, n, q>>) /\ <<y, w>> # <<>>
      BY <1>7, <2>3, <2>4, OneIs, OneMore, TwoMore
    <3>. QED
      BY ONLY <1>6, <1>11, <2>1, <2>4, <2>7, <3>1, TakesStep
  <2>11. TakesNext(k, a, 2, <<w>>, <<part>>)
    BY <1>12, <2>1, <2>4, SMTT(30)
  <2>. QED
    BY <2>8, <2>9, <2>10, <2>11
<1>. QED
  BY <1>13, <1>14

\* Whatever the kind, a call that has received t parts of its answer is ready for the next.
LEMMA TakesNextHolds ==
  ASSUME NEW k \in Kind, NEW a \in Answers(Plain(k)),
         NEW t \in 0 .. 2, NEW left, NEW parts, HasReceived(k, a, t, left, parts),
         t < Len(HandlerSends(k, a))
  PROVE  TakesNext(k, a, t, left, parts)
<1>1. CASE k \in InfoAnswered \ {"RC"}
  BY <1>1, TakesInfo
<1>2. CASE k = "RC"
  BY <1>2, TakesInfoAndInt
<1>3. CASE k = "PSET_LOOKUP"
  BY <1>3, TakesIds
<1>4. CASE k \notin InfoAnswered \cup {"PSET_LOOKUP"}
  BY <1>4, TakesInt
<1>. QED
  BY <1>1, <1>2, <1>3, <1>4

LEMMA HandlerRecvsAre ==
  ASSUME NEW h
  PROVE  /\ h.kind \in NameSent =>
              HandlerRecvs(h) =
               <<[do |-> "recv_data", tag |-> <<h.kind, "name">>, size |-> h.head[1]]>>
         /\ h.kind \in InfoSent =>
              HandlerRecvs(h) = <<[do |-> "recv_info", tag |-> <<h.kind, "info">>]>>
         /\ h.kind \notin NameSent \cup InfoSent => HandlerRecvs(h) = <<>>
BY DEF HandlerRecvs, NameSent, InfoSent, RecvData, RecvInfo

\* A name arrives as it was sent.
LEMMA NameArrives ==
  ASSUME NEW s \in Text
  PROVE  /\ StringAt(Terminated(s), 0) = s
         /\ IsSequence(Terminated(s)) /\ Len(Terminated(s)) = Len(s) + 1
<1>. DEFINE B == 0 .. 255
<1>1. Terminated(s) \in Seq(B) /\ Len(Terminated(s)) = Len(s) + 1
  BY TerminatedIs
<1>2. B = 0 .. 255
  OBVIOUS
<1>. HIDE DEF B
<1>3. <<>> \in Seq(B) /\ Len(<<>>) = 0 /\ <<>> \o Terminated(s) = Terminated(s)
  BY <1>1, ConcatEmptySeq
<1>4. Stands(s, Len(<<>>), <<>> \o Terminated(s))
  BY <1>2, <1>3, StandsAtEnd
<1>5. StringAt(Terminated(s), 0) = s
  BY <1>1, <1>3, <1>4, StringAtIs
<1>6. IsSequence(Terminated(s))
  BY <1>1, IsSequenceIs
<1>. QED
  BY <1>1, <1>5, <1>6

\* The handler h knows of the request r of c what the header tells.
KnowsHeader(h, c, r) == h.kind = r.kind /\ (r.kind \in OwnBuffer => h.head = Header(c, r))

\* A handler that has the header and received what follows has the request.
LEMMA UnderstoodIs ==
  ASSUME NEW c, NEW r \in Request, NEW h, KnowsHeader(h, c, r),
         NEW parts, Receiving(h, r, <<>>, parts)
  PROVE  Understood(h, parts) = r
<1>. DEFINE k == r.kind
<1>1. k \in Kind /\ h.kind = k
  BY RequestAssumption DEF KnowsHeader
<1>2. /\ k \in NameSent => parts = Part(Terminated(r.name), <<>>)
      /\ k \in InfoSent => parts = Part(<<>>, r.info)
  <2>1. RecvInfoData(<<r.kind, "info">>, Len(Serialize(r.info[1]))) # <<>>
    BY DEF RecvInfoData
  <2>2. k \in NameSent \cup InfoSent => HandlerRecvs(h) # <<>>
    BY <1>1, HandlerRecvsAre, OneIs
  <2>3. NameSent \cap InfoSent = {}
    BY DEF NameSent, InfoSent
  <2>. QED
    BY <2>1, <2>2, <2>3 DEF Receiving
<1>3. \A d, i : Part(d, i)[1].data = d /\ Part(d, i)[1].info = i
  BY DEF Part
<1>4. k \in NameSent => StringAt(parts[1].data, 0) = r.name
  <2>1. k \in NameSent => parts[1].data = Terminated(r.name)
    BY <1>2, <1>3
  <2>. QED
    BY <2>1, NameArrives, RequestIs
<1>5. k \in InfoSent => parts[1].info = r.info
  BY <1>2, <1>3
<1>6. k \in {"PSET_OP", "PSET_FREE"} => h.head = r.name
  BY <1>1 DEF KnowsHeader, OwnBuffer, Kind, Header
<1>7. k = "RC_ACCEPT" => h.head[1] = r.rc_tag
  <2>1. k = "RC_ACCEPT" => h.head = <<r.rc_tag>>
    BY <1>1 DEF KnowsHeader, OwnBuffer, Kind, Header
  <2>. QED
    BY <2>1
<1>. DEFINE name == CASE k \in {"PSET_INFO", "PSET_LOOKUP"} -> StringAt(parts[1].data, 0)
                      [] k \in {"PSET_OP", "PSET_FREE"} -> h.head
                      [] OTHER -> <<>>
            info == IF k \in {"GET_PSETS", "PSET_OP", "RC_ACCEPT"} THEN parts[1].info ELSE <<>>
            tag == IF k = "RC_ACCEPT" THEN h.head[1] ELSE 0
<1>8. name = IF k \in {"PSET_INFO", "PSET_LOOKUP", "PSET_OP", "PSET_FREE"} THEN r.name ELSE <<>>
  BY <1>4, <1>6 DEF NameSent
<1>9. info = IF k \in {"GET_PSETS", "PSET_OP", "RC_ACCEPT"} THEN r.info ELSE <<>>
  BY <1>5 DEF InfoSent
<1>10. tag = IF k = "RC_ACCEPT" THEN r.rc_tag ELSE 0
  BY <1>7
<1>11. Understood(h, parts) = Call(k, name, info, tag)
  BY <1>1 DEF Understood
<1>. HIDE DEF name, info, tag
<1>12. r = Call(k, name, info, tag)
  BY <1>8, <1>9, <1>10, RequestAssumption
<1>. QED
  BY <1>11, <1>12

\* With the next part the handler knows one part of the request more.
HandlerTakesNext(h, c, r, left, parts) ==
  LET j == IF Head(left).do = "recv_info_data" THEN 3 ELSE 2
      received == Received(Head(left), PartData(c, r, j))
      rest == received.next \o Tail(left)
      known == parts \o received.parts
  IN
  /\ j \in 2 .. Count(r) /\ Head(left).do # "send"
  /\ PartTag(r.kind, j) = RecvTag(Head(left))
  /\ IsSequence(rest) /\ IsSequence(known)
  /\ Receiving(h, r, rest, known)
  /\ IF rest = <<>> THEN j = Count(r) ELSE j = 2 /\ Head(rest).do = "recv_info_data"

\* A handler that waits for a part of its request is ready for it.
LEMMA HandlerTakesName ==
  ASSUME NEW c, NEW r \in Request, NEW h, KnowsHeader(h, c, r), r.kind \in NameSent,
         NEW left, NEW parts, Receiving(h, r, left, parts), left # <<>>
  PROVE  HandlerTakesNext(h, c, r, left, parts)
<1>. DEFINE k == r.kind
            text == Terminated(r.name)
            x == [do |-> "recv_data", tag |-> <<k, "name">>, size |-> Len(text)]
<1>1. k \in Kind /\ h.kind = k /\ r.name \in Text
  BY RequestAssumption DEF KnowsHeader
<1>2. h.head[1] = Len(text)
  <2>1. h.head = <<Len(r.name) + 1>>
    BY <1>1 DEF KnowsHeader, OwnBuffer, NameSent, Kind, Header
  <2>. QED
    BY <1>1, <2>1, NameArrives
<1>3. left = <<x>> /\ parts = <<>>
  BY <1>1, <1>2, HandlerRecvsAre DEF Receiving, InfoSent, NameSent
<1>4. /\ x.do = "recv_data" /\ x.tag = <<k, "name">> /\ RecvTag(x) = x.tag
      /\ PartTag(k, 2) = <<k, "name">> /\ PartData(c, r, 2) = text /\ Count(r) = 2
  BY DEF RecvTag, PartTag, PartData, Count
<1>5. Received(x, text) = Parts(text, <<>>)
  BY <1>1, NameArrives, ReceivedIs
<1>. DEFINE part == [data |-> text, info |-> <<>>]
<1>6. /\ Parts(text, <<>>).next = <<>> /\ Parts(text, <<>>).parts = <<part>>
      /\ Part(text, <<>>) = <<part>>
  BY DEF Parts, Part
<1>7. Receiving(h, r, <<>>, Part(text, <<>>))
  BY DEF Receiving
<1>. HIDE DEF x, part, text
<1>8. Head(left) = x /\ Tail(left) = <<>> /\ x.do # "send" /\ x.do # "recv_info_data"
  BY <1>3, <1>4, OneMore
<1>9. /\ <<>> \o <<>> = <<>> /\ <<>> \o <<part>> = <<part>> /\ IsSequence(<<>>)
      /\ IsSequence(<<part>>)
  BY OneMore, OneIs, EmptyIs
<1>. QED
  BY <1>3, <1>4, <1>5, <1>6, <1>7, <1>8, <1>9 DEF HandlerTakesNext

LEMMA HandlerTakesInfo ==
  ASSUME NEW c, NEW r \in Request, NEW h, KnowsHeader(h, c, r), r.kind \in InfoSent,
         NEW left, NEW parts, Receiving(h, r, left, parts), left # <<>>
  PROVE  HandlerTakesNext(h, c, r, left, parts)
<1>. DEFINE k == r.kind
            tag == <<k, "info">>
            buf == Serialize(r.info[1])
            x == [do |-> "recv_info", tag |-> tag]
            y == [do |-> "recv_info_data", tag |-> tag, size |-> Len(buf)]
            part == [data |-> <<>>, info |-> r.info]
<1>1. k \in Kind /\ h.kind = k /\ InfoObject(r.info) /\ k \notin NameSent
  BY RequestAssumption DEF KnowsHeader, InfoSent, NameSent
<1>2. \/ left = <<x>> /\ parts = <<>>
      \/ left = <<y>> /\ parts = <<>> /\ r.info # <<>>
  <2>1. RecvInfoData(tag, Len(buf)) = <<y>>
    BY DEF RecvInfoData
  <2>2. HandlerRecvs(h) = <<x>>
    BY <1>1, HandlerRecvsAre
  <2>. QED
    BY <2>1, <2>2 DEF Receiving
<1>3. /\ x.do = "recv_info" /\ y.do = "recv_info_data" /\ x.tag = tag /\ y.tag = tag
      /\ RecvTag(x) = <<k, "info", "size">> /\ RecvTag(y) = tag
      /\ PartTag(k, 2) = <<k, "info", "size">> /\ PartTag(k, 3) = tag
  BY <1>1, SizeIs DEF RecvTag, PartTag
<1>4. /\ Parts(<<>>, r.info).next = <<>> /\ Parts(<<>>, r.info).parts = <<part>>
      /\ Part(<<>>, r.info) = <<part>>
  BY DEF Parts, Part
<1>5. More(<<y>>).next = <<y>> /\ More(<<y>>).parts = <<>>
  BY DEF More
<1>6. Receiving(h, r, <<>>, Part(<<>>, r.info))
  BY DEF Receiving
<1>7. r.info = <<>> => /\ Count(r) = 2 /\ PartData(c, r, 2) = <<SIZE_MAX>>
                       /\ Received(x, <<SIZE_MAX>>) = Parts(<<>>, r.info)
  BY <1>1, ReceivedIs DEF Count, PartData
<1>8. ASSUME r.info # <<>>
      PROVE  /\ Count(r) = 3 /\ PartData(c, r, 2) = <<Len(buf)>> /\ PartData(c, r, 3) = buf
             /\ Received(x, <<Len(buf)>>) = More(<<y>>)
             /\ Received(y, buf) = Parts(<<>>, r.info)
             /\ Receiving(h, r, <<y>>, <<>>)
  <2>1. Count(r) = 3 /\ PartData(c, r, 2) = <<Len(buf)>> /\ PartData(c, r, 3) = buf
    BY <1>1, <1>8 DEF Count, PartData
  <2>2. Received(x, <<Len(buf)>>) = More(RecvInfoData(tag, Len(buf)))
    BY <1>1, <1>8, ReceivedIs, SerializedLength
  <2>3. Received(y, buf) = Parts(<<>>, r.info)
    BY <1>1, <1>8, ReceivedIs
  <2>4. RecvInfoData(tag, Len(buf)) = <<y>>
    BY DEF RecvInfoData
  <2>. QED
    BY <1>8, <2>1, <2>2, <2>3, <2>4 DEF Receiving
<1>. HIDE DEF x, y, part, buf
<1>9. /\ <<>> \o <<>> = <<>> /\ <<>> \o <<part>> = <<part>> /\ <<y>> \o <<>> = <<y>>
      /\ IsSequence(<<>>) /\ IsSequence(<<part>>) /\ IsSequence(<<y>>) /\ <<y>> # <<>>
      /\ Head(<<x>>) = x /\ Tail(<<x>>) = <<>> /\ Head(<<y>>) = y /\ Tail(<<y>>) = <<>>
  BY OneMore, OneIs, EmptyIs
<1>10. CASE left = <<x>> /\ parts = <<>> /\ r.info = <<>>
  BY <1>3, <1>4, <1>6, <1>7, <1>9, <1>10 DEF HandlerTakesNext
<1>11. CASE left = <<x>> /\ parts = <<>> /\ r.info # <<>>
  BY <1>3, <1>5, <1>8, <1>9, <1>11 DEF HandlerTakesNext
<1>12. CASE left = <<y>> /\ parts = <<>> /\ r.info # <<>>
  BY <1>3, <1>4, <1>6, <1>8, <1>9, <1>12 DEF HandlerTakesNext
<1>. QED
  BY <1>2, <1>10, <1>11, <1>12

-----------------------------------------------------------------------------
(***************************************************************************)
(* What is on its way to rank 0: the messages ms hold the parts of the     *)
(* requests rs of c that were sent and not received.                       *)
(***************************************************************************)
Missing(rs, taken, sent) ==
  {p \in (1 .. Len(rs)) \X (1 .. 3) : taken[p[1]] < p[2] /\ p[2] <= sent[p[1]]}

IsPart(m, c, r, j) == m.tag = PartTag(r.kind, j) /\ m.data = PartData(c, r, j)

AreParts(c, ms, rs, part) ==
  /\ \A x, y \in 1 .. Len(ms) : x < y => Before(part[x], part[y])
  /\ \A x \in 1 .. Len(ms) : IsPart(ms[x], c, rs[part[x][1]], part[x][2])

Covers(ms, part, U) == \A p \in U : \E x \in 1 .. Len(ms) : part[x] = p

Listing(c, ms, rs, taken, sent) ==
  \E part \in [1 .. Len(ms) -> Missing(rs, taken, sent)] :
    AreParts(c, ms, rs, part) /\ Covers(ms, part, Missing(rs, taken, sent))

\* All requests but the last were sent.
SentWhole(rs, sent) ==
  \A i \in 1 .. Len(rs) :
    sent[i] <= Count(rs[i]) /\ (i < Len(rs) => sent[i] = Count(rs[i]))

\* The x-th message is taken.
LEMMA ListingRemoved ==
  ASSUME NEW c, NEW ms, NEW U, NEW V, NEW rs, NEW x \in 1 .. Len(ms), IsSequence(ms),
         NEW part \in [1 .. Len(ms) -> U], AreParts(c, ms, rs, part), Covers(ms, part, U),
         U \subseteq Int \X Int, V = U \ {part[x]}
  PROVE  \E new \in [1 .. Len(RemoveAt(ms, x)) -> V] :
           AreParts(c, RemoveAt(ms, x), rs, new) /\ Covers(RemoveAt(ms, x), new, V)
<1>1. PICK n \in Nat : n = Len(ms)
  BY RemoveAtIs
<1>. DEFINE ns == RemoveAt(ms, x)
            at(y) == IF y < x THEN y ELSE y + 1
            new == [y \in 1 .. n - 1 |-> part[at(y)]]
<1>2. Len(ns) = n - 1 /\ \A y \in 1 .. n - 1 : ns[y] = ms[at(y)]
  BY <1>1, RemoveAtIs
<1>3. /\ \A y \in 1 .. n - 1 : at(y) \in 1 .. n /\ at(y) # x
      /\ \A y, z \in 1 .. n - 1 : y < z => at(y) < at(z)
      /\ \A z \in 1 .. n : z # x => \E y \in 1 .. n - 1 : at(y) = z
  <2>1. \A y \in 1 .. n - 1 : at(y) \in 1 .. n /\ at(y) # x
    BY <1>1
  <2>2. \A y, z \in 1 .. n - 1 : y < z => at(y) < at(z)
    BY <1>1
  <2>3. ASSUME NEW z \in 1 .. n, z # x PROVE \E y \in 1 .. n - 1 : at(y) = z
    <3>1. CASE z < x
      <4>1. z \in 1 .. n - 1 /\ at(z) = z
        BY <1>1, <2>3, <3>1
      <4>. HIDE DEF at
      <4>. QED
        BY ONLY <4>1
    <3>2. CASE ~(z < x)
      <4>1. z - 1 \in 1 .. n - 1 /\ at(z - 1) = z
        BY <1>1, <2>3, <3>2
      <4>. HIDE DEF at
      <4>. QED
        BY ONLY <4>1
    <3>. QED
      BY <3>1, <3>2
  <2>. QED
    BY <2>1, <2>2, <2>3
<1>. HIDE DEF at, ns
<1>4. \A y, z \in 1 .. n : y < z => Before(part[y], part[z])
  BY <1>1 DEF AreParts
<1>5. \A y \in 1 .. n : y # x => part[y] # part[x]
  <2>1. \A p, q \in Int \X Int : Before(p, q) => p # q
    BY DEF Before
  <2>. QED
    BY <1>1, <1>4, <2>1
<1>6. new \in [1 .. n - 1 -> V]
  BY <1>1, <1>3, <1>5
<1>7. \A y, z \in 1 .. n - 1 : y < z => Before(new[y], new[z])
  BY <1>3, <1>4
<1>8. \A y \in 1 .. n - 1 : IsPart(ns[y], c, rs[new[y][1]], new[y][2])
  BY <1>1, <1>2, <1>3 DEF AreParts
<1>9. \A p \in V : \E y \in 1 .. n - 1 : new[y] = p
  <2>1. SUFFICES ASSUME NEW p \in V PROVE \E y \in 1 .. n - 1 : new[y] = p
    OBVIOUS
  <2>2. PICK z \in 1 .. n : part[z] = p
    BY <1>1 DEF Covers
  <2>3. PICK y \in 1 .. n - 1 : at(y) = z
    BY <1>3, <2>2
  <2>. QED
    BY <2>2, <2>3
<1>. HIDE DEF new
<1>10. new \in [1 .. Len(ns) -> V] /\ AreParts(c, ns, rs, new) /\ Covers(ns, new, V)
  BY <1>2, <1>6, <1>7, <1>8, <1>9 DEF AreParts, Covers
<1>. QED
  BY <1>10 DEF ns

\* The first message that the handler of i can receive, by its tag, is the next part of i.
LEMMA ListingTake ==
  ASSUME NEW c, NEW ms, IsSequence(ms), NEW rs \in Seq(Request),
         NEW taken \in [1 .. Len(rs) -> Int], NEW sent \in [1 .. Len(rs) -> Int],
         Listing(c, ms, rs, taken, sent), SentWhole(rs, sent),
         NEW i \in 1 .. Len(rs), \A h \in 1 .. (i - 1) : rs[h].kind # rs[i].kind,
         NEW j \in 1 .. 3, taken[i] = j - 1, j <= Count(rs[i]),
         NEW x \in 1 .. Len(ms), IsFirst(ms, x, PartTag(rs[i].kind, j))
  PROVE  /\ ms[x].data = PartData(c, rs[i], j) /\ j <= sent[i]
         /\ Listing(c, RemoveAt(ms, x), rs, [taken EXCEPT ![i] = j], sent)
<1>. DEFINE U == Missing(rs, taken, sent)
            V == Missing(rs, [taken EXCEPT ![i] = j], sent)
<1>1. PICK part \in [1 .. Len(ms) -> U] : AreParts(c, ms, rs, part) /\ Covers(ms, part, U)
  BY DEF Listing
<1>2. PICK n \in Nat : n = Len(rs)
  OBVIOUS
<1>3. PICK m \in Nat : m = Len(ms)
  BY DEF IsSequence
<1>4. \A p \in U : /\ p[1] \in 1 .. n /\ p[2] \in 1 .. 3 /\ p = <<p[1], p[2]>>
                   /\ taken[p[1]] < p[2] /\ p[2] <= sent[p[1]]
  BY <1>2 DEF Missing
<1>5. part[x] \in U /\ IsPart(ms[x], c, rs[part[x][1]], part[x][2])
  BY <1>1 DEF AreParts
<1>. DEFINE h == part[x][1]
<1>6. h \in 1 .. n /\ rs[h] \in Request /\ rs[i] \in Request /\ part[x][2] \in 1 .. 3
  BY <1>2, <1>4, <1>5
<1>7. rs[h].kind = rs[i].kind /\ part[x][2] = j
  <2>1. PartTag(rs[h].kind, part[x][2]) = PartTag(rs[i].kind, j)
    BY <1>5 DEF IsPart, IsFirst
  <2>2. rs[h].kind \in Kind /\ rs[i].kind \in Kind
    BY <1>6, RequestAssumption
  <2>. QED
    BY <1>6, <2>1, <2>2, TagsDiffer
<1>8. part[x] = <<i, j>>
  <2>1. SUFFICES ASSUME h # i PROVE FALSE
    BY <1>4, <1>5, <1>7
  <2>2. i < h
    BY <1>2, <1>6, <1>7, <2>1
  <2>3. j <= sent[i]
    BY <1>2, <1>6, <2>2 DEF SentWhole
  <2>4. <<i, j>> \in U
    BY <2>3 DEF Missing
  <2>5. PICK y \in 1 .. Len(ms) : part[y] = <<i, j>>
    BY <1>1, <2>4 DEF Covers
  <2>6. y < x
    <3>1. ~Before(part[x], part[y])
      BY <1>6, <2>2, <2>5 DEF Before
    <3>2. ~(x < y)
      BY <1>1, <3>1 DEF AreParts
    <3>3. x # y
      BY <2>2, <2>5
    <3>. QED
      BY <1>3, <3>2, <3>3
  <2>7. ms[y].tag = PartTag(rs[i].kind, j)
    BY <1>1, <2>5 DEF AreParts, IsPart
  <2>. QED
    BY <1>3, <2>6, <2>7 DEF IsFirst
<1>9. ms[x].data = PartData(c, rs[i], j) /\ j <= sent[i]
  BY <1>4, <1>5, <1>8 DEF IsPart
<1>10. V = U \ {part[x]} /\ U \subseteq Int \X Int
  <2>1. U \subseteq Int \X Int
    BY <1>2 DEF Missing
  <2>2. ASSUME NEW p \in (1 .. n) \X (1 .. 3)
        PROVE  p \in V <=> p \in U /\ p # <<i, j>>
    <3>1. CASE p[1] = i
      <4>1. p \in V <=> j < p[2] /\ p[2] <= sent[i]
        BY <1>2, <3>1 DEF Missing
      <4>2. p \in U <=> j - 1 < p[2] /\ p[2] <= sent[i]
        BY <1>2, <3>1 DEF Missing
      <4>3. p # <<i, j>> <=> p[2] # j
        BY <3>1
      <4>. QED
        BY <4>1, <4>2, <4>3
    <3>2. CASE p[1] # i
      BY <1>2, <3>2 DEF Missing
    <3>. QED
      BY <3>1, <3>2
  <2>3. U \subseteq (1 .. n) \X (1 .. 3) /\ V \subseteq (1 .. n) \X (1 .. 3)
    BY <1>2 DEF Missing
  <2>. HIDE DEF U, V
  <2>. QED
    BY <1>8, <2>1, <2>2, <2>3
<1>. HIDE DEF U, V
<1>11. \E new \in [1 .. Len(RemoveAt(ms, x)) -> V] :
          AreParts(c, RemoveAt(ms, x), rs, new) /\ Covers(RemoveAt(ms, x), new, V)
  BY <1>1, <1>10, ListingRemoved
<1>. QED
  BY <1>9, <1>11 DEF Listing, V

\* The next part of the last request is sent.
LEMMA ListingSend ==
  ASSUME NEW c, NEW ms, IsSequence(ms), NEW rs \in Seq(Request), NEW n \in Nat \ {0},
         n = Len(rs),
         NEW taken \in [1 .. n -> Int], NEW sent \in [1 .. n -> Int],
         Listing(c, ms, rs, taken, sent),
         NEW s \in 1 .. 3, sent[n] = s - 1, taken[n] <= s - 1,
         NEW m, IsPart(m, c, rs[n], s)
  PROVE  Listing(c, Append(ms, m), rs, taken, [sent EXCEPT ![n] = s])
<1>. DEFINE U == Missing(rs, taken, sent)
            V == Missing(rs, taken, [sent EXCEPT ![n] = s])
            new == Append(ms, m)
<1>1. PICK part \in [1 .. Len(ms) -> U] : AreParts(c, ms, rs, part) /\ Covers(ms, part, U)
  BY DEF Listing
<1>2. PICK l \in Nat : l = Len(ms)
  BY DEF IsSequence
<1>3. Len(new) = l + 1 /\ new[l + 1] = m /\ \A x \in 1 .. l : new[x] = ms[x]
  BY <1>2, AppendIs
<1>4. /\ \A p \in U : p \in V /\ Before(p, <<n, s>>)
      /\ <<n, s>> \in V
      /\ \A p \in V : p \in U \/ p = <<n, s>>
  <2>1. \A p \in U : p[1] \in 1 .. n /\ p[2] \in 1 .. 3 /\ taken[p[1]] < p[2] /\ p[2] <= sent[p[1]]
    BY DEF Missing
  <2>2. ASSUME NEW p \in U PROVE p \in V /\ Before(p, <<n, s>>)
    <3>1. CASE p[1] = n
      BY <2>1, <3>1 DEF Missing, Before
    <3>2. CASE p[1] # n
      BY <2>1, <3>2 DEF Missing, Before
    <3>. QED
      BY <3>1, <3>2
  <2>3. <<n, s>> \in V
    BY DEF Missing
  <2>4. ASSUME NEW p \in V, p \notin U PROVE p = <<n, s>>
    <3>1. p[1] \in 1 .. n /\ p[2] \in 1 .. 3 /\ p = <<p[1], p[2]>> /\ taken[p[1]] < p[2]
      BY DEF Missing
    <3>2. p[1] = n
      BY <2>4, <3>1 DEF Missing
    <3>3. p[2] <= s /\ ~(p[2] <= s - 1)
      BY <2>4, <3>1, <3>2 DEF Missing
    <3>. QED
      BY <3>1, <3>2, <3>3
  <2>. QED
    BY <2>2, <2>3, <2>4
<1>. DEFINE newPart == [x \in 1 .. l + 1 |-> IF x = l + 1 THEN <<n, s>> ELSE part[x]]
<1>. HIDE DEF U, V, new
<1>5. newPart \in [1 .. l + 1 -> V]
  BY <1>1, <1>2, <1>4
<1>6. \A x, y \in 1 .. l + 1 : x < y => Before(newPart[x], newPart[y])
  <2>1. SUFFICES ASSUME NEW x \in 1 .. l + 1, NEW y \in 1 .. l + 1, x < y
        PROVE  Before(newPart[x], newPart[y])
    OBVIOUS
  <2>2. x \in 1 .. l /\ newPart[x] = part[x]
    BY <2>1
  <2>3. CASE y = l + 1
    BY <1>1, <1>2, <1>4, <2>2, <2>3
  <2>4. CASE y # l + 1
    <3>1. y \in 1 .. l /\ newPart[y] = part[y]
      BY <2>4
    <3>. QED
      BY <1>1, <1>2, <2>1, <2>2, <3>1 DEF AreParts
  <2>. QED
    BY <2>3, <2>4
<1>7. \A x \in 1 .. l + 1 : IsPart(new[x], c, rs[newPart[x][1]], newPart[x][2])
  <2>1. SUFFICES ASSUME NEW x \in 1 .. l + 1
        PROVE  IsPart(new[x], c, rs[newPart[x][1]], newPart[x][2])
    OBVIOUS
  <2>2. CASE x = l + 1
    BY <1>3, <2>2
  <2>3. CASE x # l + 1
    BY <1>1, <1>2, <1>3, <2>3 DEF AreParts
  <2>. QED
    BY <2>2, <2>3
<1>8. \A p \in V : \E x \in 1 .. l + 1 : newPart[x] = p
  <2>1. SUFFICES ASSUME NEW p \in V PROVE \E x \in 1 .. l + 1 : newPart[x] = p
    OBVIOUS
  <2>2. CASE p = <<n, s>>
    <3>1. l + 1 \in 1 .. l + 1 /\ newPart[l + 1] = p
      BY <2>2
    <3>. QED
      BY <3>1
  <2>3. CASE p \in U
    <3>1. PICK x \in 1 .. l : part[x] = p
      BY <1>1, <1>2, <2>3 DEF Covers
    <3>2. x \in 1 .. l + 1 /\ newPart[x] = p
      BY <3>1
    <3>. QED
      BY <3>2
  <2>. QED
    BY <1>4, <2>2, <2>3
<1>. HIDE DEF newPart
<1>9. /\ newPart \in [1 .. Len(new) -> V] /\ AreParts(c, new, rs, newPart)
      /\ Covers(new, newPart, V)
  BY <1>3, <1>5, <1>6, <1>7, <1>8 DEF AreParts, Covers
<1>. QED
  BY <1>9 DEF Listing, new, V

\* The requests rs with parts underway are the requests rs2 in the same order.
Renumbers(rs, taken, sent, rs2, taken2, sent2, to, from) ==
  /\ \A p \in Missing(rs, taken, sent) :
       /\ to[p[1]] \in 1 .. Len(rs2) /\ from[to[p[1]]] = p[1]
       /\ rs2[to[p[1]]] = rs[p[1]]
       /\ <<to[p[1]], p[2]>> \in Missing(rs2, taken2, sent2)
  /\ \A p \in Missing(rs2, taken2, sent2) :
       <<from[p[1]], p[2]>> \in Missing(rs, taken, sent) /\ to[from[p[1]]] = p[1]
  /\ \A p, q \in Missing(rs, taken, sent) : p[1] < q[1] => to[p[1]] < to[q[1]]

\* Only the numbers of the requests change.
LEMMA ListingRenumbered ==
  ASSUME NEW c, NEW ms, NEW rs, NEW rs2, NEW taken, NEW sent, NEW taken2, NEW sent2,
         IsSequence(ms),
         Listing(c, ms, rs, taken, sent),
         NEW to, NEW from, Renumbers(rs, taken, sent, rs2, taken2, sent2, to, from)
  PROVE  Listing(c, ms, rs2, taken2, sent2)
<1>. DEFINE U == Missing(rs, taken, sent)
            V == Missing(rs2, taken2, sent2)
<1>1. /\ \A p \in U : /\ to[p[1]] \in 1 .. Len(rs2) /\ from[to[p[1]]] = p[1]
                    /\ rs2[to[p[1]]] = rs[p[1]] /\ <<to[p[1]], p[2]>> \in V
      /\ \A p \in V : <<from[p[1]], p[2]>> \in U /\ to[from[p[1]]] = p[1]
      /\ \A p, q \in U : p[1] < q[1] => to[p[1]] < to[q[1]]
  BY DEF Renumbers
<1>2. PICK part \in [1 .. Len(ms) -> U] : AreParts(c, ms, rs, part) /\ Covers(ms, part, U)
  BY DEF Listing
<1>3. PICK l \in Nat : l = Len(ms)
  BY DEF IsSequence
<1>. DEFINE new == [x \in 1 .. l |-> <<to[part[x][1]], part[x][2]>>]
<1>4. \A p \in U : p = <<p[1], p[2]>>
  BY DEF Missing
<1>5. \A p \in V : p = <<p[1], p[2]>>
  BY DEF Missing
<1>. HIDE DEF U, V
<1>6. \A x \in 1 .. l : part[x] \in U
  BY <1>2, <1>3
<1>7. new \in [1 .. l -> V]
  BY <1>1, <1>6
<1>8. \A x, y \in 1 .. l : x < y => Before(new[x], new[y])
  <2>1. SUFFICES ASSUME NEW x \in 1 .. l, NEW y \in 1 .. l, x < y PROVE Before(new[x], new[y])
    OBVIOUS
  <2>2. Before(part[x], part[y])
    BY <1>2, <1>3, <2>1 DEF AreParts
  <2>3. part[x][1] < part[y][1] => to[part[x][1]] < to[part[y][1]]
    BY <1>1, <1>6
  <2>4. /\ new[x][1] = to[part[x][1]] /\ new[x][2] = part[x][2]
        /\ new[y][1] = to[part[y][1]] /\ new[y][2] = part[y][2]
    OBVIOUS
  <2>. HIDE DEF new
  <2>. QED
    BY <2>2, <2>3, <2>4 DEF Before
<1>9. \A x \in 1 .. l : IsPart(ms[x], c, rs2[new[x][1]], new[x][2])
  <2>1. SUFFICES ASSUME NEW x \in 1 .. l PROVE IsPart(ms[x], c, rs2[new[x][1]], new[x][2])
    OBVIOUS
  <2>2. IsPart(ms[x], c, rs[part[x][1]], part[x][2])
    BY <1>2, <1>3 DEF AreParts
  <2>3. rs2[to[part[x][1]]] = rs[part[x][1]]
    BY <1>1, <1>6
  <2>4. new[x][1] = to[part[x][1]] /\ new[x][2] = part[x][2]
    OBVIOUS
  <2>. QED
    BY <2>2, <2>3, <2>4
<1>10. \A p \in V : \E x \in 1 .. l : new[x] = p
  <2>1. SUFFICES ASSUME NEW p \in V PROVE \E x \in 1 .. l : new[x] = p
    OBVIOUS
  <2>2. <<from[p[1]], p[2]>> \in U /\ to[from[p[1]]] = p[1]
    BY <1>1
  <2>3. PICK x \in 1 .. l : part[x] = <<from[p[1]], p[2]>>
    BY <1>2, <1>3, <2>2 DEF Covers
  <2>4. new[x] = <<p[1], p[2]>>
    BY <2>2, <2>3
  <2>. QED
    BY <1>5, <2>4
<1>. HIDE DEF new
<1>11. new \in [1 .. Len(ms) -> V] /\ AreParts(c, ms, rs2, new) /\ Covers(ms, new, V)
  BY <1>3, <1>7, <1>8, <1>9, <1>10 DEF AreParts, Covers
<1>. QED
  BY <1>11 DEF Listing, V

\* g is f with a 0 after its n values.
Extended(f, g, n) == (\A i \in 1 .. n : g[i] = f[i]) /\ g[n + 1] = 0

\* A request is asked; nothing of it is sent.
LEMMA ListingAsked ==
  ASSUME NEW c, NEW ms, IsSequence(ms), NEW rs \in Seq(Request), NEW r \in Request,
         NEW n \in Nat, n = Len(rs),
         NEW taken, NEW sent, Listing(c, ms, rs, taken, sent),
         NEW taken2, NEW sent2, Extended(taken, taken2, n), Extended(sent, sent2, n)
  PROVE  Listing(c, ms, Append(rs, r), taken2, sent2)
<1>. DEFINE rs2 == Append(rs, r)
            to == [i \in 1 .. n |-> i]
            U == Missing(rs, taken, sent)
            V == Missing(rs2, taken2, sent2)
<1>1. /\ \A i \in 1 .. n : taken2[i] = taken[i] /\ sent2[i] = sent[i]
      /\ taken2[n + 1] = 0 /\ sent2[n + 1] = 0
  BY DEF Extended
<1>2. Len(rs2) = n + 1 /\ \A i \in 1 .. n : rs2[i] = rs[i]
  OBVIOUS
<1>. HIDE DEF rs2
<1>3. \A p \in U : p[1] \in 1 .. n /\ p \in V /\ p = <<p[1], p[2]>>
  BY <1>1, <1>2 DEF Missing
<1>4. \A p \in V : p[1] \in 1 .. n /\ p \in U /\ p = <<p[1], p[2]>>
  <2>1. SUFFICES ASSUME NEW p \in V PROVE p[1] \in 1 .. n /\ p \in U /\ p = <<p[1], p[2]>>
    OBVIOUS
  <2>2. /\ p[1] \in 1 .. n + 1 /\ p[2] \in 1 .. 3 /\ p = <<p[1], p[2]>> /\ taken2[p[1]] < p[2]
        /\ p[2] <= sent2[p[1]]
    BY <1>2 DEF Missing
  <2>3. p[1] # n + 1
    BY <1>1, <2>2
  <2>4. p[1] \in 1 .. n
    BY <2>2, <2>3
  <2>. QED
    BY <1>1, <2>2, <2>4 DEF Missing
<1>. HIDE DEF U, V
<1>5. \A p \in U : /\ to[p[1]] \in 1 .. Len(rs2) /\ to[to[p[1]]] = p[1]
                   /\ rs2[to[p[1]]] = rs[p[1]] /\ <<to[p[1]], p[2]>> \in V
  <2>1. SUFFICES ASSUME NEW p \in U
        PROVE  /\ to[p[1]] \in 1 .. Len(rs2) /\ to[to[p[1]]] = p[1]
               /\ rs2[to[p[1]]] = rs[p[1]] /\ <<to[p[1]], p[2]>> \in V
    OBVIOUS
  <2>2. p[1] \in 1 .. n /\ to[p[1]] = p[1]
    BY <1>3
  <2>3. to[p[1]] \in 1 .. Len(rs2) /\ rs2[to[p[1]]] = rs[p[1]]
    BY <1>2, <2>2
  <2>4. p \in V /\ p = <<p[1], p[2]>>
    BY <1>3
  <2>. HIDE DEF to
  <2>5. <<to[p[1]], p[2]>> \in V /\ to[to[p[1]]] = p[1]
    BY ONLY <2>2, <2>4
  <2>. QED
    BY <2>3, <2>5
<1>6. \A p \in V : <<to[p[1]], p[2]>> \in U /\ to[to[p[1]]] = p[1]
  BY <1>4
<1>7. \A p, q \in U : p[1] < q[1] => to[p[1]] < to[q[1]]
  BY <1>3
<1>. HIDE DEF to
<1>8. Listing(c, ms, rs2, taken2, sent2)
  <2>1. Renumbers(rs, taken, sent, rs2, taken2, sent2, to, to)
    BY <1>5, <1>6, <1>7 DEF Renumbers, U, V
  <2>. QED
    BY <2>1, ListingRenumbered
<1>. QED
  BY <1>8 DEF rs2

\* A request is served; nothing of it is on its way.
LEMMA ListingServed ==
  ASSUME NEW c, NEW ms, IsSequence(ms), NEW rs \in Seq(Request),
         NEW n \in Nat, n = Len(rs), NEW at \in 1 .. n,
         NEW taken \in [1 .. n -> Int], NEW sent \in [1 .. n -> Int], Listing(c, ms, rs,
         taken, sent),
         sent[at] <= taken[at],
         NEW taken2, NEW sent2,
         \A i \in 1 .. n : i < at => taken2[i] = taken[i] /\ sent2[i] = sent[i],
         \A i \in 1 .. n : at < i => taken2[i - 1] = taken[i] /\ sent2[i - 1] = sent[i]
  PROVE  Listing(c, ms, RemoveAt(rs, at), taken2, sent2)
<1>. DEFINE rs2 == RemoveAt(rs, at)
            to == [i \in 1 .. n |-> IF i < at THEN i ELSE i - 1]
            from == [i \in 1 .. n |-> IF i < at THEN i ELSE i + 1]
            U == Missing(rs, taken, sent)
            V == Missing(rs2, taken2, sent2)
<1>1. Len(rs2) = n - 1 /\ \A i \in 1 .. n - 1 : rs2[i] = IF i < at THEN rs[i] ELSE rs[i + 1]
  BY RemoveAtIs, IsSequenceIs
<1>. HIDE DEF rs2
<1>2. \A i \in 1 .. n : i # at => /\ to[i] \in 1 .. n - 1 /\ from[to[i]] = i /\ rs2[to[i]] = rs[i]
                                  /\ taken2[to[i]] = taken[i] /\ sent2[to[i]] = sent[i]
  <2>1. SUFFICES ASSUME NEW i \in 1 .. n, i # at
        PROVE  /\ to[i] \in 1 .. n - 1 /\ from[to[i]] = i /\ rs2[to[i]] = rs[i]
               /\ taken2[to[i]] = taken[i] /\ sent2[to[i]] = sent[i]
    OBVIOUS
  <2>2. CASE i < at
    BY <1>1, <2>1, <2>2
  <2>3. CASE at < i
    BY <1>1, <2>1, <2>3
  <2>. QED
    BY <2>1, <2>2, <2>3
<1>3. \A i \in 1 .. n - 1 : from[i] \in 1 .. n /\ from[i] # at /\ to[from[i]] = i
  OBVIOUS
<1>4. \A i, j \in 1 .. n : i < j /\ i # at /\ j # at => to[i] < to[j]
  OBVIOUS
<1>. HIDE DEF to, from
<1>5. \A p \in U : p[1] \in 1 .. n /\ p[1] # at /\ p[2] \in 1 .. 3 /\ taken[p[1]] < p[2] /\ p[2] <= sent[p[1]]
  BY DEF Missing
<1>6. \A p \in U : <<to[p[1]], p[2]>> \in V
  BY <1>1, <1>2, <1>5 DEF Missing
<1>7. \A p \in V : p[1] \in 1 .. n - 1 /\ p[2] \in 1 .. 3 /\ taken2[p[1]] < p[2] /\ p[2] <= sent2[p[1]]
  BY <1>1 DEF Missing
<1>8. ASSUME NEW p \in V PROVE <<from[p[1]], p[2]>> \in U /\ to[from[p[1]]] = p[1]
  <2>1. from[p[1]] \in 1 .. n /\ from[p[1]] # at /\ to[from[p[1]]] = p[1]
    BY <1>3, <1>7
  <2>2. taken2[p[1]] = taken[from[p[1]]] /\ sent2[p[1]] = sent[from[p[1]]]
    BY <1>2, <2>1
  <2>. QED
    BY <1>7, <2>1, <2>2 DEF Missing
<1>9. \A p \in U : to[p[1]] \in 1 .. Len(rs2) /\ from[to[p[1]]] = p[1] /\ rs2[to[p[1]]] = rs[p[1]]
  BY <1>1, <1>2, <1>5
<1>10. \A p, q \in U : p[1] < q[1] => to[p[1]] < to[q[1]]
  BY <1>4, <1>5
<1>. HIDE DEF U, V
<1>11. Listing(c, ms, rs2, taken2, sent2)
  <2>1. Renumbers(rs, taken, sent, rs2, taken2, sent2, to, from)
    BY <1>6, <1>8, <1>9, <1>10 DEF Renumbers, U, V
  <2>. QED
    BY <2>1, ListingRenumbered
<1>. QED
  BY <1>11 DEF rs2

-----------------------------------------------------------------------------
(***************************************************************************)
(* The state.                                                              *)
(***************************************************************************)
TakenOf(c) == [i \in 1 .. Len(asked[c]) |-> Taken(c, i)]
SentOf(c) == [i \in 1 .. Len(asked[c]) |-> Sent(c, i)]
=============================================================================
