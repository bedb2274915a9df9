--------------------------- MODULE FramingProofs ----------------------------
(***************************************************************************)
(* Proofs about Framing: however the reads cut the stream, the messages    *)
(* handled are those of the stream, in order and once each, and the buffer *)
(* stays below one message and one read.                                   *)
(*                                                                         *)
(* The argument: everything in front of the buffer has been cut into the   *)
(* messages handled, and this is so in any stream that starts with the     *)
(* same bytes.                                                             *)
(***************************************************************************)
EXTENDS Framing, Arithmetic, SequenceTheorems

Byte == [length : Int, type : Types \cup {UnknownType}]

Message == [type : Types \cup {UnknownType}, body : Seq(Byte)]

LEMMA ByteKinds == Header \subseteq Byte /\ Filler \in Byte
  BY FramingAssumption DEF Header, Filler, Byte

\* The bytes behind the first a of a stream, up to b.
LEMMA Slice ==
    ASSUME NEW s \in Seq(Byte), NEW a \in Nat, NEW b \in Nat, a <= b, b <= Len(s)
    PROVE  /\ SubSeq(s, a + 1, b) \in Seq(Byte)
           /\ Len(SubSeq(s, a + 1, b)) = b - a
           /\ \A i \in 1..(b - a) : SubSeq(s, a + 1, b)[i] = s[a + i]
  OBVIOUS

\* Two streams are equal when their bytes are.
LEMMA SameBytes ==
    ASSUME NEW x \in Seq(Byte), NEW y \in Seq(Byte), Len(x) = Len(y),
           \A i \in 1..Len(x) : x[i] = y[i]
    PROVE  x = y
  OBVIOUS

-----------------------------------------------------------------------------
(* The reference *)

\* A whole message ends behind its start and within the stream.
LEMMA NextBehind ==
    ASSUME NEW s \in Seq(Byte), NEW p \in 0..Len(s), WholeAt(s, p)
    PROVE  /\ p + 1 \in 1..Len(s)
           /\ NextAt(s, p) \in (p + 1)..Len(s)
           /\ MessageAt(s, p) \in Message
  <1>1. p + 1 \in 1..Len(s)
    BY FramingAssumption DEF WholeAt
  <1>2. s[p + 1] \in Byte
    BY <1>1
  <1>3. s[p + 1].length \in Int /\ s[p + 1].type \in Types \cup {UnknownType}
    BY <1>2 DEF Byte
  <1>4. NextAt(s, p) \in (p + 1)..Len(s)
    BY <1>3, FramingAssumption DEF WholeAt, NextAt, HeaderOK
  <1>5. SubSeq(s, p + HeaderLen + 1, NextAt(s, p)) \in Seq(Byte)
    BY <1>4, FramingAssumption
  <1> QED  BY <1>1, <1>3, <1>4, <1>5 DEF MessageAt, Message

\* What a message at p and the messages behind it make up.
CutAt(s, g, p) ==
    IF WholeAt(s, p) THEN <<MessageAt(s, p)>> \o g[NextAt(s, p)] ELSE <<>>

\* The recursion of MessagesFrom has a solution: it is built from the end of
\* the stream to its start.
LEMMA CutExists ==
    ASSUME NEW s \in Seq(Byte)
    PROVE  \E f : f = [p \in 0..Len(s) |-> CutAt(s, f, p)]
  <1> DEFINE N == Len(s)
             Solves(g, n) == \A p \in (N - n)..N : g[p] = CutAt(s, g, p)
             T == {n \in Nat : n <= N => \E g : Solves(g, n)}
  <1>0. N \in Nat
    OBVIOUS
  <1>1. 0 \in T
    <2>1. ~WholeAt(s, N)
      BY FramingAssumption DEF WholeAt
    <2>2. Solves([p \in {N} |-> <<>>], 0)
      BY <2>1 DEF CutAt
    <2> HIDE DEF Solves
    <2> QED  BY <2>2
  <1>2. ASSUME NEW n \in Nat, n \in T PROVE n + 1 \in T
    <2> SUFFICES ASSUME n + 1 <= N PROVE \E g : Solves(g, n + 1)
      OBVIOUS
    <2>1. PICK g : Solves(g, n)
      BY <1>2, <1>0
    <2> DEFINE q == N - (n + 1)
               h == [p \in q..N |-> IF p = q THEN CutAt(s, g, q) ELSE g[p]]
    <2>2. q \in 0..N /\ q < N - n
      BY <1>0
    <2>3. ASSUME NEW p \in q..N PROVE CutAt(s, h, p) = CutAt(s, g, p)
      <3>1. CASE WholeAt(s, p)
        <4>1. NextAt(s, p) \in (p + 1)..N
          BY <3>1, <2>2, <1>0, NextBehind
        <4>2. NextAt(s, p) \in q..N /\ NextAt(s, p) # q
          BY <4>1, <2>2, <1>0
        <4>3. h[NextAt(s, p)] = g[NextAt(s, p)]
          BY <4>2
        <4> HIDE DEF h
        <4> QED  BY <4>3 DEF CutAt
      <3>2. CASE ~WholeAt(s, p)
        BY <3>2 DEF CutAt
      <3> QED  BY <3>1, <3>2
    <2>4. ASSUME NEW p \in q..N PROVE h[p] = CutAt(s, g, p)
      <3>1. CASE p = q
        BY <3>1
      <3>2. CASE p # q
        <4>1. p \in (N - n)..N
          BY <3>2, <1>0
        <4>2. g[p] = CutAt(s, g, p)
          BY <2>1, <4>1
        <4> QED  BY <3>2, <4>2
      <3> QED  BY <3>1, <3>2
    <2>5. Solves(h, n + 1)
      <3> HIDE DEF h
      <3> QED  BY <2>3, <2>4
    <2> HIDE DEF Solves
    <2> QED  BY <2>5
  <1>3. N \in T
    <2> HIDE DEF T, N
    <2>1. \A n \in Nat : n \in T => n + 1 \in T
      BY <1>2
    <2> QED  BY <1>0, <1>1, <2>1, SetInduction
  <1>4. PICK g : Solves(g, N)
    BY <1>0, <1>3
  <1> DEFINE f == [p \in 0..N |-> g[p]]
  <1>5. ASSUME NEW p \in 0..N PROVE g[p] = CutAt(s, f, p)
    <2>1. g[p] = CutAt(s, g, p)
      BY <1>4, <1>0
    <2>2. CASE WholeAt(s, p)
      <3>1. NextAt(s, p) \in (p + 1)..N
        BY <2>2, NextBehind
      <3>2. f[NextAt(s, p)] = g[NextAt(s, p)]
        BY <3>1, <1>0
      <3> QED  BY <2>1, <3>2 DEF CutAt
    <2>3. CASE ~WholeAt(s, p)
      BY <2>1, <2>3 DEF CutAt
    <2> QED  BY <2>2, <2>3
  <1>6. f = [p \in 0..N |-> CutAt(s, f, p)]
    BY <1>5
  <1> HIDE DEF f
  <1> QED  BY <1>6

\* MessagesFrom is the solution.
LEMMA MessagesUnfold ==
    ASSUME NEW s \in Seq(Byte), NEW p \in 0..Len(s)
    PROVE  MessagesFrom(s)[p] = CutAt(s, MessagesFrom(s), p)
  <1> DEFINE R(f) == f = [x \in 0..Len(s) |-> CutAt(s, f, x)]
  <1>1. MessagesFrom(s) = CHOOSE f : R(f)
    BY DEF MessagesFrom, CutAt
  <1>2. \E f : R(f)
    BY CutExists
  <1>3. R(MessagesFrom(s))
    <2> HIDE DEF R
    <2> QED  BY <1>1, <1>2
  <1> QED  BY <1>3

\* Every cut of a stream is a sequence of messages.
LEMMA MessagesType ==
    ASSUME NEW s \in Seq(Byte)
    PROVE  \A p \in 0..Len(s) : MessagesFrom(s)[p] \in Seq(Message)
  <1> DEFINE N == Len(s)
             From(p) == MessagesFrom(s)[p]
             T == {n \in Nat : \A p \in 0..N : N - n <= p => From(p) \in Seq(Message)}
  <1>0. N \in Nat
    OBVIOUS
  <1>1. ASSUME NEW p \in 0..N, \A r \in (p + 1)..N : From(r) \in Seq(Message)
        PROVE  From(p) \in Seq(Message)
    <2>1. From(p) = CutAt(s, MessagesFrom(s), p)
      BY MessagesUnfold
    <2>2. CASE WholeAt(s, p)
      <3>1. NextAt(s, p) \in (p + 1)..N /\ MessageAt(s, p) \in Message
        BY <2>2, NextBehind
      <3>2. From(NextAt(s, p)) \in Seq(Message)
        BY <3>1, <1>1
      <3>3. From(p) = <<MessageAt(s, p)>> \o From(NextAt(s, p))
        BY <2>1, <2>2 DEF CutAt
      <3> HIDE DEF From
      <3> QED  BY <3>1, <3>2, <3>3
    <2>3. CASE ~WholeAt(s, p)
      BY <2>1, <2>3 DEF CutAt
    <2> QED  BY <2>2, <2>3
  <1> HIDE DEF From
  <1>2. 0 \in T
    <2>1. \A r \in (N + 1)..N : From(r) \in Seq(Message)
      BY <1>0
    <2>2. From(N) \in Seq(Message)
      BY <1>0, <1>1, <2>1
    <2> QED  BY <1>0, <2>2
  <1>3. ASSUME NEW n \in Nat, n \in T PROVE n + 1 \in T
    <2> SUFFICES ASSUME NEW p \in 0..N, N - (n + 1) <= p PROVE From(p) \in Seq(Message)
      BY <1>0
    <2>1. \A r \in (p + 1)..N : From(r) \in Seq(Message)
      BY <1>0, <1>3
    <2> QED  BY <1>1, <2>1
  <1>4. N \in T
    <2> HIDE DEF T, N
    <2>1. \A n \in Nat : n \in T => n + 1 \in T
      BY <1>3
    <2> QED  BY <1>0, <1>2, <2>1, SetInduction
  <1>5. \A p \in 0..N : From(p) \in Seq(Message)
    BY <1>0, <1>4
  <1> QED  BY <1>5 DEF From

\* t starts with the first n bytes of s.
Agrees(s, t, n) == n <= Len(t) /\ \A i \in 1..n : t[i] = s[i]

\* A whole message is the same in every stream that starts with it.
LEMMA MessageShared ==
    ASSUME NEW s \in Seq(Byte), NEW t \in Seq(Byte), NEW p \in 0..Len(s), WholeAt(s, p),
           Agrees(s, t, NextAt(s, p))
    PROVE  /\ p \in 0..Len(t) /\ WholeAt(t, p)
           /\ NextAt(t, p) = NextAt(s, p)
           /\ MessageAt(t, p) = MessageAt(s, p)
  <1> DEFINE n == NextAt(s, p)
  <1>1. p + 1 \in 1..Len(s) /\ n \in (p + 1)..Len(s)
    BY NextBehind
  <1>2. n <= Len(t) /\ Len(t) \in Nat /\ \A i \in 1..n : t[i] = s[i]
    BY DEF Agrees
  <1>3. t[p + 1] = s[p + 1]
    BY <1>1, <1>2
  <1>4. s[p + 1] \in Byte
    BY <1>1
  <1>5. s[p + 1].length \in Int /\ HeaderLen <= s[p + 1].length
    BY <1>4, FramingAssumption DEF Byte, WholeAt, HeaderOK
  <1>6. n = p + s[p + 1].length
    BY DEF NextAt
  <1>7. WholeAt(t, p)
    BY <1>2, <1>3, <1>5, <1>6, FramingAssumption DEF WholeAt
  <1>8. NextAt(t, p) = n
    BY <1>3, <1>6 DEF NextAt
  <1>9. SubSeq(t, p + HeaderLen + 1, n) = SubSeq(s, p + HeaderLen + 1, n)
    <2> HIDE DEF n
    <2> DEFINE a == p + HeaderLen
               x == SubSeq(t, a + 1, n)
               y == SubSeq(s, a + 1, n)
    <2>1. a \in Nat /\ n \in Nat /\ a <= n /\ n <= Len(s) /\ n <= Len(t)
      <3>1. n <= Len(t)
        BY <1>2
      <3>2. Len(s) \in Nat /\ p \in Nat /\ HeaderLen \in Nat
        BY FramingAssumption
      <3>3. n \in Nat /\ n <= Len(s)
        BY <1>1, <3>2
      <3> QED  BY <1>5, <1>6, <3>1, <3>2, <3>3
    <2> HIDE DEF a
    <2>2. /\ x \in Seq(Byte) /\ Len(x) = n - a /\ \A i \in 1..(n - a) : x[i] = t[a + i]
          /\ y \in Seq(Byte) /\ Len(y) = n - a /\ \A i \in 1..(n - a) : y[i] = s[a + i]
      BY <2>1, Slice
    <2>3. \A i \in 1..(n - a) : a + i \in 1..n
      BY <2>1
    <2>4. \A i \in 1..(n - a) : x[i] = y[i]
      BY <1>2, <2>2, <2>3
    <2> HIDE DEF x, y
    <2>5. x = y
      BY <2>2, <2>4, SameBytes
    <2> QED  BY <2>5 DEF x, y, a
  <1>10. MessageAt(t, p) = MessageAt(s, p)
    BY <1>3, <1>8, <1>9 DEF MessageAt
  <1> QED  BY <1>1, <1>2, <1>7, <1>8, <1>10

-----------------------------------------------------------------------------
(* The session *)

FramingTypeOK ==
    /\ stream \in Seq(Byte)
    /\ closed \in BOOLEAN
    /\ read \in 0..Len(stream)
    /\ buf \in Seq(Byte)
    /\ pc \in PCs
    /\ handled \in Seq(Message)

\* Number of bytes in front of the buffer.
Cut == read - Len(buf)

\* The buffer is the last of what was read.
BufferIsTail ==
    /\ 0 <= Cut
    /\ \A i \in 1..Len(buf) : buf[i] = stream[Cut + i]

\* The messages handled are those in front of the buffer, whatever follows.
HandledIsCut ==
    \A t \in Seq(Byte) :
      Agrees(stream, t, Cut) => Messages(t) = handled \o MessagesFrom(t)[Cut]

FramingInv ==
    /\ FramingTypeOK
    /\ BufferIsTail
    /\ HandledIsCut
    /\ pc \in {"select", "done", "expired"} => Incomplete(buf)
    /\ pc = "refused" => ~Incomplete(buf) /\ ~HeaderOK(Head(buf))
    /\ Len(buf) < MaxMessageLen + ReadSize

\* What has been read.
SoFar == SubSeq(stream, 1, read)

LEMMA SoFarType ==
    ASSUME FramingTypeOK, BufferIsTail
    PROVE  /\ SoFar \in Seq(Byte) /\ Len(SoFar) = read
           /\ \A i \in 1..read : SoFar[i] = stream[i]
           /\ Cut \in 0..read /\ read = Cut + Len(buf)
           /\ Agrees(stream, SoFar, Cut)
  <1>1. SoFar \in Seq(Byte) /\ Len(SoFar) = read /\ \A i \in 1..read : SoFar[i] = stream[i]
    BY DEF FramingTypeOK, SoFar
  <1>2. Cut \in 0..read /\ read = Cut + Len(buf)
    BY DEF FramingTypeOK, BufferIsTail, Cut
  <1> QED  BY <1>1, <1>2 DEF Agrees

\* BgpMessage::parse sees a message exactly when there is one behind the cut.
LEMMA ParseAtCut ==
    ASSUME FramingTypeOK, BufferIsTail
    PROVE  /\ Incomplete(buf) => ~WholeAt(SoFar, Cut)
           /\ ~Incomplete(buf) /\ ~HeaderOK(Head(buf)) => ~WholeAt(SoFar, Cut)
           /\ ~Incomplete(buf) /\ HeaderOK(Head(buf)) =>
                /\ WholeAt(SoFar, Cut)
                /\ NextAt(SoFar, Cut) = Cut + Head(buf).length
                /\ MessageAt(SoFar, Cut) = FirstMessage(buf)
                /\ Head(buf).length \in 1..Len(buf)
  <1> DEFINE c == Cut
             h == Head(buf)
  <1>1. /\ SoFar \in Seq(Byte) /\ Len(SoFar) = read /\ \A i \in 1..read : SoFar[i] = stream[i]
        /\ c \in 0..read /\ read = c + Len(buf) /\ buf \in Seq(Byte)
    BY SoFarType DEF FramingTypeOK
  <1>2. Len(buf) \in Nat /\ read \in Nat /\ c \in Nat
    BY <1>1 DEF FramingTypeOK
  <1>3. ASSUME NEW i \in 1..Len(buf) PROVE buf[i] = SoFar[c + i]
    <2>1. c + i \in 1..read
      BY <1>1, <1>2
    <2>2. buf[i] = stream[c + i]
      BY DEF BufferIsTail
    <2> QED  BY <1>1, <2>1, <2>2
  <1>4. ASSUME Len(buf) >= HeaderLen
        PROVE  h = SoFar[c + 1] /\ h \in Byte /\ h.length \in Int
    <2>1. 1 \in 1..Len(buf)
      BY <1>4, <1>2, FramingAssumption
    <2>2. buf # <<>> /\ h = buf[1] /\ buf[1] \in Byte
      BY <1>1, <2>1
    <2> QED  BY <1>3, <2>1, <2>2 DEF Byte
  <1> HIDE DEF c, h
  <1>5. ASSUME Incomplete(buf) PROVE ~WholeAt(SoFar, c)
    <2>1. CASE Len(buf) < HeaderLen
      BY <2>1, <1>1, <1>2, FramingAssumption DEF WholeAt
    <2>2. CASE Len(buf) >= HeaderLen /\ HeaderOK(h) /\ Len(buf) < h.length
      BY <2>2, <1>1, <1>2, <1>4 DEF WholeAt
    <2> QED  BY <1>5, <2>1, <2>2 DEF Incomplete, h
  <1>6. ASSUME ~Incomplete(buf), HeaderOK(h)
        PROVE  /\ WholeAt(SoFar, c)
               /\ NextAt(SoFar, c) = c + h.length
               /\ MessageAt(SoFar, c) = FirstMessage(buf)
               /\ h.length \in 1..Len(buf)
    <2>1. Len(buf) >= HeaderLen /\ ~(Len(buf) < h.length)
      BY <1>2, <1>6, FramingAssumption DEF Incomplete, h
    <2>2. h = SoFar[c + 1] /\ h \in Byte /\ h.length \in Int
      BY <1>4, <2>1
    <2>3. HeaderLen <= h.length /\ h.length \in 1..Len(buf)
      BY <1>2, <1>6, <2>1, <2>2, FramingAssumption DEF HeaderOK
    <2>4. WholeAt(SoFar, c)
      BY <1>1, <1>2, <1>6, <2>1, <2>2, <2>3, FramingAssumption DEF WholeAt
    <2>5. NextAt(SoFar, c) = c + h.length
      BY <2>2 DEF NextAt
    <2>6. SubSeq(SoFar, c + HeaderLen + 1, c + h.length) = SubSeq(buf, HeaderLen + 1, h.length)
      <3> DEFINE l == h.length
                 x == SubSeq(SoFar, c + HeaderLen + 1, c + l)
                 y == SubSeq(buf, HeaderLen + 1, l)
      <3>1. l \in Nat /\ HeaderLen <= l /\ l <= Len(buf) /\ HeaderLen \in Nat
        BY <2>3, FramingAssumption
      <3> HIDE DEF l
      <3>2. x \in Seq(Byte) /\ y \in Seq(Byte) /\ Len(x) = l - HeaderLen /\ Len(y) = l - HeaderLen
        BY <1>1, <1>2, <3>1
      <3>3. \A i \in 1..(l - HeaderLen) :
              x[i] = SoFar[c + HeaderLen + i] /\ y[i] = buf[HeaderLen + i]
        BY <1>1, <1>2, <3>1
      <3>4. \A i \in 1..(l - HeaderLen) : x[i] = y[i]
        <4> SUFFICES ASSUME NEW i \in 1..(l - HeaderLen) PROVE x[i] = y[i]
          OBVIOUS
        <4>1. HeaderLen + i \in 1..Len(buf) /\ c + (HeaderLen + i) = c + HeaderLen + i
          BY <1>2, <3>1
        <4> QED  BY <1>3, <3>3, <4>1
      <3> HIDE DEF x, y
      <3>5. x = y
        BY <3>1, <3>2, <3>4
      <3> QED  BY <3>5 DEF x, y, l
    <2>7. MessageAt(SoFar, c) = FirstMessage(buf)
      BY <2>2, <2>5, <2>6 DEF MessageAt, FirstMessage, h
    <2> QED  BY <2>3, <2>4, <2>5, <2>7
  <1>7. ASSUME ~Incomplete(buf), ~HeaderOK(h) PROVE ~WholeAt(SoFar, c)
    <2>1. Len(buf) >= HeaderLen
      BY <1>2, <1>7, FramingAssumption DEF Incomplete
    <2> QED  BY <1>4, <1>7, <2>1 DEF WholeAt
  <1> QED  BY <1>5, <1>6, <1>7 DEF c, h

\* The initial state.
LEMMA FramingInitial == FramingInit => FramingInv
  <1> SUFFICES ASSUME FramingInit PROVE FramingInv
    OBVIOUS
  <1>0. Len(stream) = 0 /\ Len(buf) = 0 /\ 0 \in 0..0
    BY DEF FramingInit
  <1>1. FramingTypeOK
    <2>1. <<>> \in Seq(Byte) /\ <<>> \in Seq(Message)
      BY EmptySeq
    <2> QED  BY <1>0, <2>1 DEF FramingInit, FramingTypeOK, PCs
  <1>2. Cut = 0 /\ BufferIsTail
    <2>1. read = 0 /\ Cut = read - Len(buf)
      BY DEF FramingInit, Cut
    <2>2. Cut = 0
      BY <1>0, <2>1
    <2> QED  BY <1>0, <2>2 DEF BufferIsTail
  <1>3. HandledIsCut
    <2> SUFFICES ASSUME NEW t \in Seq(Byte)
                 PROVE  Messages(t) = <<>> \o MessagesFrom(t)[0]
      BY <1>2 DEF HandledIsCut, FramingInit
    <2>1. MessagesFrom(t)[0] \in Seq(Message)
      BY MessagesType, 0 \in 0..Len(t)
    <2> QED  BY <2>1 DEF Messages
  <1>4. Incomplete(buf) /\ Len(buf) < MaxMessageLen + ReadSize
    BY FramingAssumption DEF FramingInit, Incomplete
  <1>5. pc = "select"
    BY DEF FramingInit
  <1> QED  BY <1>1, <1>2, <1>3, <1>4, <1>5 DEF FramingInv

\* Bytes that are sent behind those already there.
LEMMA SendAppends ==
    ASSUME FramingTypeOK, NEW header \in Header, NEW body \in Nat, Send(header, body)
    PROVE  /\ stream' \in Seq(Byte) /\ Len(stream) <= Len(stream')
           /\ \A i \in 1..Len(stream) : stream'[i] = stream[i]
  <1> DEFINE more == <<header>> \o [i \in 1..(HeaderLen - 1 + body) |-> Filler]
  <1>1. [i \in 1..(HeaderLen - 1 + body) |-> Filler] \in Seq(Byte)
    <2>1. HeaderLen - 1 + body \in Nat
      BY FramingAssumption
    <2> QED  BY <2>1, ByteKinds
  <1>2. <<header>> \in Seq(Byte)
    BY ByteKinds
  <1>3. more \in Seq(Byte)
    BY <1>1, <1>2
  <1>4. stream \in Seq(Byte)
    BY DEF FramingTypeOK
  <1>5. stream' = stream \o more
    <2>1. stream' = (stream \o <<header>>) \o [i \in 1..(HeaderLen - 1 + body) |-> Filler]
      BY DEF Send
    <2> DEFINE fill == [i \in 1..(HeaderLen - 1 + body) |-> Filler]
               first == <<header>>
    <2>2. fill \in Seq(Byte) /\ first \in Seq(Byte) /\ stream' = (stream \o first) \o fill
      BY <1>1, <1>2, <2>1
    <2> HIDE DEF fill, first
    <2>3. (stream \o first) \o fill = stream \o (first \o fill)
      BY <1>4, <2>2, ConcatAssociative
    <2> QED  BY <2>2, <2>3 DEF fill, first
  <1> HIDE DEF more
  <1> QED  BY <1>3, <1>4, <1>5

\* While the bytes in front of the cut stay, so does what is known of them.
LEMMA CutKept ==
    ASSUME FramingInv, Cut' = Cut, handled' = handled,
           \A i \in 1..Cut : stream'[i] = stream[i]
    PROVE  HandledIsCut'
  <1> SUFFICES ASSUME NEW t \in Seq(Byte), Agrees(stream', t, Cut)
               PROVE  Messages(t) = handled \o MessagesFrom(t)[Cut]
    BY DEF HandledIsCut
  <1>1. Agrees(stream, t, Cut)
    BY DEF Agrees
  <1> QED  BY <1>1 DEF FramingInv, HandledIsCut

LEMMA SendPreserves ==
    ASSUME FramingInv, NEW header \in Header, NEW body \in Nat, Send(header, body)
    PROVE  FramingInv'
  <1>1. UNCHANGED <<closed, read, buf, pc, handled>>
    BY DEF Send
  <1>2. /\ stream' \in Seq(Byte) /\ Len(stream) <= Len(stream')
        /\ \A i \in 1..Len(stream) : stream'[i] = stream[i]
    BY SendAppends DEF FramingInv
  <1>3. /\ Cut \in 0..read /\ read = Cut + Len(buf) /\ read \in 0..Len(stream)
        /\ Len(stream) \in Nat /\ Len(buf) \in Nat /\ buf \in Seq(Byte)
    BY SoFarType DEF FramingInv, FramingTypeOK
  <1>4. FramingTypeOK'
    BY <1>1, <1>2, <1>3 DEF FramingInv, FramingTypeOK
  <1>5. Cut' = Cut
    BY <1>1 DEF Cut
  <1>6. BufferIsTail'
    <2> SUFFICES ASSUME NEW i \in 1..Len(buf) PROVE buf[i] = stream'[Cut + i]
      BY <1>1, <1>3, <1>5 DEF BufferIsTail
    <2>1. Cut + i \in 1..Len(stream)
      BY <1>3
    <2>2. buf[i] = stream[Cut + i]
      BY DEF FramingInv, BufferIsTail
    <2> QED  BY <1>2, <2>1, <2>2
  <1>7. HandledIsCut'
    <2>1. \A i \in 1..Cut : stream'[i] = stream[i]
      BY <1>2, <1>3
    <2> QED  BY <1>1, <1>5, <2>1, CutKept
  <1> QED  BY <1>1, <1>4, <1>6, <1>7 DEF FramingInv, Incomplete

\* A close, a timer and most errors leave the bytes alone.
LEMMA BytesKept ==
    ASSUME FramingInv, UNCHANGED <<stream, read, buf, handled>>,
           closed' \in BOOLEAN, pc' \in PCs,
           pc' \in {"select", "done", "expired"} => Incomplete(buf),
           pc' = "refused" => ~Incomplete(buf) /\ ~HeaderOK(Head(buf))
    PROVE  FramingInv'
  <1>1. Cut' = Cut
    BY DEF Cut
  <1>2. HandledIsCut'
    BY <1>1, CutKept
  <1> QED  BY <1>1, <1>2 DEF FramingInv, FramingTypeOK, BufferIsTail, Incomplete, HeaderOK

\* A buffer without a whole message is shorter than the longest message.
LEMMA IncompleteShort ==
    ASSUME buf \in Seq(Byte), Incomplete(buf)
    PROVE  Len(buf) < MaxMessageLen
  <1>1. CASE Len(buf) < HeaderLen
    BY <1>1, FramingAssumption
  <1>2. CASE Len(buf) >= HeaderLen /\ HeaderOK(Head(buf)) /\ Len(buf) < Head(buf).length
    <2>1. Head(buf) \in Byte
      BY <1>2, FramingAssumption
    <2>2. Head(buf).length \in Int
      BY <2>1 DEF Byte
    <2> QED  BY <1>2, <2>2, FramingAssumption DEF HeaderOK
  <1> QED  BY <1>1, <1>2 DEF Incomplete

LEMMA ReadPreserves ==
    ASSUME FramingInv, NEW n \in 1..ReadSize, Read(n)
    PROVE  FramingInv'
  <1> DEFINE more == SubSeq(stream, read + 1, read + n)
  <1>1. /\ pc = "select" /\ read + n <= Len(stream) /\ buf' = buf \o more
        /\ read' = read + n /\ pc' = "drain" /\ UNCHANGED <<stream, closed, handled>>
    BY DEF Read
  <1>2. /\ Cut \in 0..read /\ read = Cut + Len(buf) /\ read \in Nat /\ n \in Nat
        /\ stream \in Seq(Byte) /\ buf \in Seq(Byte) /\ Len(buf) \in Nat /\ Len(stream) \in Nat
    BY SoFarType, FramingAssumption DEF FramingInv, FramingTypeOK
  <1>3. more \in Seq(Byte) /\ Len(more) = n /\ \A i \in 1..n : more[i] = stream[read + i]
    <2>1. read + n \in Nat /\ read <= read + n /\ (read + n) - read = n
      BY <1>2
    <2> QED  BY <1>1, <1>2, <2>1, Slice
  <1> HIDE DEF more
  <1>4. /\ buf' \in Seq(Byte) /\ Len(buf') = Len(buf) + n
        /\ \A i \in 1..Len(buf) : buf'[i] = buf[i]
        /\ \A i \in 1..n : buf'[Len(buf) + i] = more[i]
    <2>1. buf' \in Seq(Byte) /\ Len(buf') = Len(buf) + n
      <3>1. buf \in Seq(Byte) /\ more \in Seq(Byte) /\ buf' = buf \o more
        BY <1>1, <1>2, <1>3
      <3>2. buf' \in Seq(Byte) /\ Len(buf') = Len(buf) + Len(more)
        BY ONLY <3>1, ConcatProperties
      <3> QED  BY <1>3, <3>2
    <2>2. \A i \in 1..(Len(buf) + n) :
            buf'[i] = IF i <= Len(buf) THEN buf[i] ELSE more[i - Len(buf)]
      BY <1>1, <1>2, <1>3
    <2>3. ASSUME NEW i \in 1..n PROVE buf'[Len(buf) + i] = more[i]
      <3>1. /\ Len(buf) + i \in 1..(Len(buf) + n) /\ ~(Len(buf) + i <= Len(buf))
            /\ (Len(buf) + i) - Len(buf) = i
        BY <1>2
      <3> QED  BY <2>2, <3>1
    <2>4. ASSUME NEW i \in 1..Len(buf) PROVE buf'[i] = buf[i]
      <3>1. i \in 1..(Len(buf) + n) /\ i <= Len(buf)
        BY <1>2
      <3> QED  BY <2>2, <3>1
    <2> QED  BY <2>1, <2>3, <2>4
  <1>5. FramingTypeOK'
    BY <1>1, <1>2, <1>4 DEF FramingInv, FramingTypeOK, PCs
  <1>6. Cut' = Cut
    BY <1>1, <1>2, <1>4 DEF Cut
  <1>7. BufferIsTail'
    <2> SUFFICES ASSUME NEW i \in 1..(Len(buf) + n) PROVE buf'[i] = stream[Cut + i]
      BY <1>1, <1>2, <1>4, <1>6 DEF BufferIsTail
    <2>1. CASE i \in 1..Len(buf)
      BY <1>4, <2>1 DEF FramingInv, BufferIsTail
    <2>2. CASE i \notin 1..Len(buf)
      <3>1. i - Len(buf) \in 1..n /\ Len(buf) + (i - Len(buf)) = i
        BY <1>2, <2>2
      <3>2. read + (i - Len(buf)) = Cut + i
        BY <1>2
      <3> QED  BY <1>3, <1>4, <3>1, <3>2
    <2> QED  BY <2>1, <2>2
  <1>8. HandledIsCut'
    BY <1>1, <1>6, CutKept
  <1>9. Len(buf') < MaxMessageLen + ReadSize
    <2>1. Incomplete(buf)
      BY <1>1 DEF FramingInv
    <2>2. Len(buf) < MaxMessageLen
      BY <1>2, <2>1, IncompleteShort
    <2> QED  BY <1>2, <1>4, <2>2, FramingAssumption
  <1> QED  BY <1>1, <1>5, <1>7, <1>8, <1>9 DEF FramingInv

\* Lists of messages, joined in either order.
LEMMA Joined ==
    \A a, b, d \in Seq(Message) : (a \o b) \o d = a \o (b \o d)
  BY ConcatAssociative, SMTT(30)

LEMMA HandlePreserves ==
    ASSUME FramingInv, Consume, pc' \in {"drain", "failed"}
    PROVE  FramingInv'
  <1> DEFINE l == Head(buf).length
             c == Cut
             m == FirstMessage(buf)
  <1>1. /\ pc = "drain" /\ ~Incomplete(buf) /\ HeaderOK(Head(buf)) /\ handled' = Append(handled, m)
        /\ buf' = SubSeq(buf, l + 1, Len(buf)) /\ UNCHANGED <<stream, closed, read>>
    BY DEF Consume
  <1>2. /\ c \in 0..read /\ read = c + Len(buf) /\ read \in Nat /\ read \in 0..Len(stream)
        /\ stream \in Seq(Byte) /\ buf \in Seq(Byte) /\ Len(buf) \in Nat /\ Len(stream) \in Nat
        /\ SoFar \in Seq(Byte) /\ Len(SoFar) = read /\ \A i \in 1..read : SoFar[i] = stream[i]
        /\ handled \in Seq(Message)
    BY SoFarType DEF FramingInv, FramingTypeOK
  <1>3. WholeAt(SoFar, c) /\ NextAt(SoFar, c) = c + l /\ MessageAt(SoFar, c) = m /\ l \in 1..Len(buf)
    BY <1>1, ParseAtCut DEF FramingInv
  <1>4. m \in Message
    <2> HIDE DEF c, m
    <2> QED  BY <1>2, <1>3, NextBehind
  <1> HIDE DEF l, c, m
  <1>5. /\ buf' \in Seq(Byte) /\ Len(buf') = Len(buf) - l
        /\ \A i \in 1..(Len(buf) - l) : buf'[i] = buf[l + i]
    BY <1>1, <1>2, <1>3
  <1>6. Cut' = c + l /\ c + l \in 0..read
    <2>1. Cut' = read - (Len(buf) - l)
      BY <1>1, <1>5 DEF Cut
    <2> QED  BY <1>2, <1>3, <2>1
  <1>7. handled' \in Seq(Message)
    BY <1>1, <1>2, <1>4
  <1>8. FramingTypeOK'
    BY <1>1, <1>5, <1>7 DEF FramingInv, FramingTypeOK, PCs
  <1>9. BufferIsTail'
    <2> SUFFICES ASSUME NEW i \in 1..(Len(buf) - l) PROVE buf'[i] = stream[(c + l) + i]
      BY <1>1, <1>2, <1>5, <1>6 DEF BufferIsTail
    <2>1. l + i \in 1..Len(buf) /\ c + (l + i) = (c + l) + i
      BY <1>2, <1>3
    <2>2. buf[l + i] = stream[c + (l + i)]
      BY <2>1 DEF FramingInv, BufferIsTail, c
    <2> QED  BY <1>5, <2>1, <2>2
  <1>10. HandledIsCut'
    <2> SUFFICES ASSUME NEW t \in Seq(Byte), Agrees(stream, t, c + l)
                 PROVE  Messages(t) = Append(handled, m) \o MessagesFrom(t)[c + l]
      BY <1>1, <1>6 DEF HandledIsCut
    <2>1. Agrees(stream, t, c) /\ Agrees(SoFar, t, c + l)
      <3>1. c \in Nat /\ l \in Nat /\ c <= c + l /\ c + l <= read
        BY <1>2, <1>3
      <3>2. Len(t) \in Nat /\ c + l <= Len(t) /\ \A i \in 1..(c + l) : t[i] = stream[i]
        BY DEF Agrees
      <3>3. \A i \in 1..(c + l) : i \in 1..read
        BY <1>2, <3>1
      <3>4. \A i \in 1..c : i \in 1..(c + l)
        BY <3>1
      <3>5. Agrees(stream, t, c)
        BY <3>1, <3>2, <3>4 DEF Agrees
      <3>6. \A i \in 1..read : SoFar[i] = stream[i]
        BY <1>2
      <3>7. Agrees(SoFar, t, c + l)
        BY <3>2, <3>3, <3>6 DEF Agrees
      <3> QED  BY <3>5, <3>7
    <2>2. /\ c \in 0..Len(t) /\ WholeAt(t, c) /\ NextAt(t, c) = c + l
          /\ MessageAt(t, c) = m
      BY <1>2, <1>3, <2>1, MessageShared
    <2>3. MessagesFrom(t)[c] = <<m>> \o MessagesFrom(t)[c + l]
      BY <2>2, MessagesUnfold DEF CutAt
    <2>4. Messages(t) = handled \o MessagesFrom(t)[c]
      BY <2>1 DEF FramingInv, HandledIsCut, c
    <2>5. c + l \in 0..Len(t)
      BY <1>6, <1>2, <1>3, <2>1 DEF Agrees
    <2>6. MessagesFrom(t)[c + l] \in Seq(Message)
      BY <2>5, MessagesType
    <2>7. ASSUME NEW r \in Seq(Message) PROVE handled \o (<<m>> \o r) = Append(handled, m) \o r
      <3>1. Append(handled, m) = handled \o <<m>> /\ <<m>> \in Seq(Message)
        BY <1>2, <1>4
      <3>2. handled \in Seq(Message)
        BY <1>2
      <3>3. (handled \o <<m>>) \o r = handled \o (<<m>> \o r)
        BY <2>7, <3>1, <3>2, Joined
      <3> QED  BY <3>1, <3>3
    <2> QED  BY <2>3, <2>4, <2>6, <2>7
  <1>11. Len(buf') < MaxMessageLen + ReadSize
    BY <1>2, <1>3, <1>5, FramingAssumption DEF FramingInv
  <1> QED  BY <1>1, <1>8, <1>9, <1>10, <1>11 DEF FramingInv

LEMMA FramingPreserves ==
    ASSUME FramingInv, [FramingNext]_framingVars
    PROVE  FramingInv'
  <1>1. ASSUME NEW header \in Header, NEW body \in 0..(MaxMessageLen - HeaderLen),
               Send(header, body)
        PROVE  FramingInv'
    BY <1>1, SendPreserves
  <1>2. CASE Close
    BY <1>2, BytesKept DEF Close, FramingInv, FramingTypeOK
  <1>3. ASSUME NEW n \in 1..ReadSize, Read(n) PROVE FramingInv'
    BY <1>3, ReadPreserves
  <1>4. CASE Eof \/ HoldExpires \/ LoopFails
    BY <1>4, BytesKept DEF Eof, HoldExpires, LoopFails, FramingInv, FramingTypeOK, PCs
  <1>5. CASE NeedMore
    BY <1>5, BytesKept DEF NeedMore, FramingInv, FramingTypeOK, PCs
  <1>6. CASE Handle \/ HandleFails
    BY <1>6, HandlePreserves DEF Handle, HandleFails
  <1>7. CASE BadHeader
    BY <1>7, BytesKept DEF BadHeader, FramingInv, FramingTypeOK, PCs
  <1>8. CASE UNCHANGED framingVars
    BY <1>8, BytesKept DEF framingVars, FramingInv, FramingTypeOK
  <1> QED  BY <1>1, <1>2, <1>3, <1>4, <1>5, <1>6, <1>7, <1>8 DEF FramingNext

\* The types of the session's buffer and of what it cut out, and with them the
\* cut: run_session has handled the messages in front of its buffer.
THEOREM FramingInvariant == FramingSpec => []FramingInv
  <1>1. FramingInit => FramingInv
    BY FramingInitial
  <1>2. FramingInv /\ [FramingNext]_framingVars => FramingInv'
    BY FramingPreserves
  <1> QED  BY <1>1, <1>2, PTL DEF FramingSpec

\* run_session waits, and returns at the end of file, at an expired hold timer
\* or at an improper header, with every message handled whose last byte it has
\* read and with no other, for every stream and every way to read it.
THEOREM FramingReadsDoNotMatter == FramingSpec => []ReadsDoNotMatter
  <1>1. FramingInv => ReadsDoNotMatter
    <2> SUFFICES ASSUME FramingInv, pc \in {"select", "done", "expired", "refused"}
                 PROVE  handled = Messages(SoFar)
      BY DEF ReadsDoNotMatter, SoFar
    <2>1. SoFar \in Seq(Byte) /\ Len(SoFar) = read /\ Cut \in 0..read /\ Agrees(stream, SoFar, Cut)
      BY SoFarType DEF FramingInv
    <2>2. ~WholeAt(SoFar, Cut)
      BY ParseAtCut DEF FramingInv
    <2>3. MessagesFrom(SoFar)[Cut] = <<>>
      BY <2>1, <2>2, MessagesUnfold DEF CutAt
    <2>4. Messages(SoFar) = handled \o <<>>
      BY <2>1, <2>3 DEF FramingInv, HandledIsCut
    <2>5. handled \in Seq(Message)
      BY DEF FramingInv, FramingTypeOK
    <2> QED  BY <2>4, <2>5
  <1> QED  BY <1>1, FramingInvariant, PTL

\* The BytesMut of run_session holds less than one message when it reads, and
\* never more than that and what one read adds.
THEOREM FramingBufferBounded == FramingSpec => []BufferBounded
  <1>1. FramingInv => BufferBounded
    BY IncompleteShort DEF FramingInv, FramingTypeOK, BufferBounded
  <1> QED  BY <1>1, FramingInvariant, PTL

-----------------------------------------------------------------------------
(* The channel *)

\* A longer stream has the messages of the shorter one, and perhaps more.
LEMMA MessagesGrow ==
    ASSUME NEW s \in Seq(Byte), NEW t \in Seq(Byte), Agrees(s, t, Len(s))
    PROVE  \A p \in 0..Len(s) : \E r \in Seq(Message) :
             MessagesFrom(t)[p] = MessagesFrom(s)[p] \o r
  <1> DEFINE N == Len(s)
             Grows(p) == \E r \in Seq(Message) : MessagesFrom(t)[p] = MessagesFrom(s)[p] \o r
             T == {n \in Nat : \A p \in 0..N : N - n <= p => Grows(p)}
  <1>0. N \in Nat /\ N <= Len(t) /\ Len(t) \in Nat
    BY DEF Agrees
  <1>1. ASSUME NEW p \in 0..N, \A q \in (p + 1)..N : Grows(q)
        PROVE  Grows(p)
    <2>1. MessagesFrom(t)[p] \in Seq(Message)
      BY <1>0, MessagesType
    <2>2. CASE WholeAt(s, p)
      <3> DEFINE q == NextAt(s, p)
                 m == MessageAt(s, p)
      <3>1. q \in (p + 1)..N /\ m \in Message
        BY <2>2, NextBehind
      <3>2. Agrees(s, t, q)
        BY <1>0, <3>1 DEF Agrees
      <3>3. p \in 0..Len(t) /\ WholeAt(t, p) /\ NextAt(t, p) = q /\ MessageAt(t, p) = m
        BY <2>2, <3>2, MessageShared
      <3>4. MessagesFrom(t)[p] = <<m>> \o MessagesFrom(t)[q]
        BY <3>3, MessagesUnfold DEF CutAt
      <3>5. MessagesFrom(s)[p] = <<m>> \o MessagesFrom(s)[q]
        BY <2>2, MessagesUnfold DEF CutAt
      <3>6. PICK r \in Seq(Message) : MessagesFrom(t)[q] = MessagesFrom(s)[q] \o r
        BY <1>1, <3>1
      <3>7. MessagesFrom(s)[q] \in Seq(Message) /\ <<m>> \in Seq(Message)
        BY <3>1, MessagesType
      <3>8. MessagesFrom(t)[p] = MessagesFrom(s)[p] \o r
        <4> HIDE DEF m, q
        <4>1. (<<m>> \o MessagesFrom(s)[q]) \o r = <<m>> \o (MessagesFrom(s)[q] \o r)
          BY <3>7, Joined
        <4> QED  BY <3>4, <3>5, <3>6, <4>1
      <3> QED  BY <3>8
    <2>3. CASE ~WholeAt(s, p)
      <3>1. MessagesFrom(s)[p] = <<>>
        BY <2>3, MessagesUnfold DEF CutAt
      <3>2. MessagesFrom(t)[p] = MessagesFrom(s)[p] \o MessagesFrom(t)[p]
        BY <2>1, <3>1
      <3> QED  BY <2>1, <3>2
    <2> QED  BY <2>2, <2>3
  <1> HIDE DEF Grows
  <1>2. 0 \in T
    <2>1. \A q \in (N + 1)..N : Grows(q)
      BY <1>0
    <2>2. Grows(N)
      BY <1>0, <1>1, <2>1
    <2> QED  BY <1>0, <2>2
  <1>3. ASSUME NEW n \in Nat, n \in T PROVE n + 1 \in T
    <2> SUFFICES ASSUME NEW p \in 0..N, N - (n + 1) <= p PROVE Grows(p)
      BY <1>0
    <2>1. \A q \in (p + 1)..N : Grows(q)
      BY <1>0, <1>3
    <2> QED  BY <1>1, <2>1
  <1>4. N \in T
    <2> HIDE DEF T, N
    <2>1. \A n \in Nat : n \in T => n + 1 \in T
      BY <1>3
    <2> QED  BY <1>0, <1>2, <2>1, SetInduction
  <1>5. \A p \in 0..N : Grows(p)
    BY <1>0, <1>4
  <1> QED  BY <1>5 DEF Grows

\* A send puts in the messages that it completes.
LEMMA SendPuts ==
    ASSUME FramingInv, NEW header \in Header, NEW body \in Nat, Send(header, body)
    PROVE  Ch!Put \/ UNCHANGED <<Messages(stream), handled, pc>>
  <1>1. /\ stream' \in Seq(Byte) /\ stream \in Seq(Byte) /\ Len(stream) <= Len(stream')
        /\ \A i \in 1..Len(stream) : stream'[i] = stream[i]
    BY SendAppends DEF FramingInv, FramingTypeOK
  <1>2. Agrees(stream, stream', Len(stream))
    BY <1>1 DEF Agrees
  <1>3. 0 \in 0..Len(stream)
    BY <1>1
  <1>4. PICK r \in Seq(Message) : MessagesFrom(stream')[0] = MessagesFrom(stream)[0] \o r
    BY <1>1, <1>2, <1>3, MessagesGrow
  <1>5. MessagesFrom(stream)[0] \in Seq(Message)
    BY <1>1, <1>3, MessagesType
  <1> DEFINE old == Messages(stream)
             new == Messages(stream')
  <1>6. old \in Seq(Message) /\ new = old \o r
    BY <1>4, <1>5 DEF Messages
  <1> HIDE DEF old, new
  <1>7. Len(old) <= Len(new) /\ SubSeq(old, 1, Len(old)) = SubSeq(new, 1, Len(old))
    BY <1>6
  <1>8. handled' = handled /\ pc' = pc
    BY DEF Send
  <1> QED  BY <1>7, <1>8 DEF Ch!Put, Ch!IsStrictPrefix, Ch!IsPrefix, old, new

\* The message that is handled is the next one of the channel.
LEMMA HandleTakes ==
    ASSUME FramingInv, Consume, pc' \in {"drain", "failed"}
    PROVE  Ch!Take
  <1> DEFINE all == Messages(stream)
             m == FirstMessage(buf)
  <1>1. FramingInv'
    BY HandlePreserves
  <1>2. pc = "drain" /\ stream' = stream /\ handled' = Append(handled, m)
    BY DEF Consume
  <1>3. /\ stream \in Seq(Byte) /\ handled \in Seq(Message)
        /\ handled' \in Seq(Message) /\ Cut' \in 0..Len(stream) /\ Agrees(stream, stream, Cut')
    <2>1. (Cut \in 0..read /\ read \in 0..Len(stream))'
      BY <1>1 DEF FramingInv, FramingTypeOK, BufferIsTail, Cut
    <2> QED  BY <1>1, <1>2, <2>1 DEF FramingInv, FramingTypeOK, Agrees
  <1>4. all = handled' \o MessagesFrom(stream)[Cut']
    BY <1>1, <1>2, <1>3 DEF FramingInv, HandledIsCut
  <1>5. MessagesFrom(stream)[Cut'] \in Seq(Message)
    BY <1>3, MessagesType
  <1> HIDE DEF all, m
  <1>6. /\ Len(handled') = Len(handled) + 1 /\ Len(handled) \in Nat
        /\ handled'[Len(handled) + 1] = m
    BY <1>2, <1>3
  <1>7. Len(handled) < Len(all) /\ all[Len(handled) + 1] = m
    BY <1>3, <1>4, <1>5, <1>6
  <1>8. Messages(stream)' = Messages(stream)
    BY <1>2
  <1> QED  BY <1>2, <1>7, <1>8 DEF Ch!Take, all

\* The safety part of ImplementsChannel: bytes, reads and the buffer of
\* run_session do not show in the messages that are handled, and after the
\* step that breaks the session none is.
THEOREM FramingImplementsChannel == FramingSpec => Ch!Init /\ [][Ch!Next]_(Ch!channelVars)
  <1>1. FramingInit => Ch!Init
    <2> SUFFICES ASSUME FramingInit
                 PROVE  /\ Messages(<<>>) = <<>> /\ handled = <<>>
                        /\ (pc \in {"expired", "failed"}) = FALSE
      BY DEF FramingInit, Ch!Init
    <2>1. <<>> \in Seq(Byte) /\ 0 \in 0..Len(<<>>)
      OBVIOUS
    <2>2. ~WholeAt(<<>>, 0)
      BY FramingAssumption DEF WholeAt
    <2>3. MessagesFrom(<<>>)[0] = <<>>
      BY <2>1, <2>2, MessagesUnfold DEF CutAt
    <2>4. pc \notin {"expired", "failed"}
      BY DEF FramingInit
    <2> QED  BY <2>3, <2>4 DEF Messages, FramingInit
  <1>2. ASSUME FramingInv, [FramingNext]_framingVars
        PROVE  [Ch!Next]_(Ch!channelVars)
    <2>1. ASSUME NEW header \in Header, NEW body \in 0..(MaxMessageLen - HeaderLen),
                 Send(header, body)
          PROVE  [Ch!Next]_(Ch!channelVars)
      BY <1>2, <2>1, SendPuts DEF Ch!Next, Ch!channelVars
    <2>2. CASE Handle \/ HandleFails
      BY <1>2, <2>2, HandleTakes DEF Ch!Next, Handle, HandleFails
    <2>3. ASSUME UNCHANGED <<stream, handled>>,
                 pc' = pc \/ pc \in {"select", "drain"}
          PROVE  [Ch!Next]_(Ch!channelVars)
      <3>1. CASE pc' \in {"expired", "failed"} /\ pc \notin {"expired", "failed"}
        BY <2>3, <3>1 DEF Ch!Next, Ch!Break
      <3>2. CASE ~(pc' \in {"expired", "failed"} /\ pc \notin {"expired", "failed"})
        BY <2>3, <3>2 DEF Ch!channelVars
      <3> QED  BY <3>1, <3>2
    <2> QED  BY <1>2, <2>1, <2>2, <2>3
             DEF FramingNext, Close, Read, Eof, HoldExpires, LoopFails, NeedMore, BadHeader, framingVars
  <1> QED  BY <1>1, <1>2, FramingInvariant, PTL DEF FramingSpec
=============================================================================
