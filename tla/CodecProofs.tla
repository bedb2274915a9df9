---------------------------- MODULE CodecProofs -----------------------------
(***************************************************************************)
(* Proofs about the codecs, for any width of bytes and addresses: every    *)
(* parser takes back what its serialiser did; from a message that was cut  *)
(* short a parser reads nothing else than the message had; and the         *)
(* capabilities of an OPEN are read parameter by parameter.                *)
(***************************************************************************)
EXTENDS Codecs, Arithmetic, SequenceTheorems

-----------------------------------------------------------------------------
(* Concatenations *)

\* FlattenSeq is the last of the steps.
LEMMA FlattenSteps ==
    ASSUME NEW S, NEW s \in Seq(Seq(S)), NEW h \in [0..Len(s) -> Seq(S)], Steps(h, s)
    PROVE  FlattenSeq(s) = h[Len(s)]
<1>1. CASE Len(s) = 0
  BY <1>1 DEF FlattenSeq, Steps
<1>2. CASE Len(s) # 0
  <2>1. FlattenSeq(s) = LastStep(s)
    BY <1>2 DEF FlattenSeq, LastStep
  <2> QED  BY <1>2, <2>1, LastStepOf
<1> QED  BY <1>1, <1>2

LEMMA FlattenType ==
    ASSUME NEW S, NEW s \in Seq(Seq(S))
    PROVE  FlattenSeq(s) \in Seq(S)
<1>1. PICK h \in [0..Len(s) -> Seq(S)] : Steps(h, s)
  BY StepsExist
<1>2. FlattenSeq(s) = h[Len(s)]
  BY <1>1, FlattenSteps
<1> QED  BY <1>2

LEMMA FlattenNone == FlattenSeq(<<>>) = <<>>
  BY DEF FlattenSeq

LEMMA FlattenOne ==
    ASSUME NEW S, NEW x \in Seq(S)
    PROVE  FlattenSeq(<<x>>) = x
<1> DEFINE h == [i \in 0..1 |-> IF i = 0 THEN <<>> ELSE x]
           s == <<x>>
<1>1. s \in Seq(Seq(S)) /\ Len(s) = 1 /\ s[1] = x
  OBVIOUS
<1>2. h \in [0..1 -> Seq(S)] /\ h[0] = <<>> /\ h[1] = x
  OBVIOUS
<1>3. h[1] = h[0] \o x
  BY <1>2
<1> HIDE DEF h, s
<1>4. Steps(h, s)
  BY <1>1, <1>2, <1>3 DEF Steps
<1>5. FlattenSeq(s) = h[1]
  BY <1>1, <1>2, <1>4, FlattenSteps
<1> QED  BY <1>2, <1>5 DEF s

\* Concatenation is associative.
LEMMA Joined ==
    \A S : \A x, y, z \in Seq(S) : (x \o y) \o z = x \o (y \o z)
  BY SMTT(30)

Regroups(x, y, z) == (x \o y) \o z = x \o (y \o z)

LEMMA Regrouped ==
    ASSUME NEW S, NEW x \in Seq(S), NEW y \in Seq(S), NEW z \in Seq(S)
    PROVE  Regroups(x, y, z)
  BY Joined DEF Regroups

LEMMA ConcatType ==
    ASSUME NEW S, NEW x \in Seq(S), NEW y \in Seq(S)
    PROVE  x \o y \in Seq(S)
  OBVIOUS

\* What a concatenation holds.
LEMMA ConcatFacts ==
    \A S : \A x, y \in Seq(S) :
       /\ Len(x) \in Nat /\ Len(y) \in Nat
       /\ x \o y \in Seq(S) /\ Len(x \o y) = Len(x) + Len(y)
       /\ \A j \in 1..Len(x) : (x \o y)[j] = x[j]
       /\ \A j \in 1..Len(y) : (x \o y)[Len(x) + j] = y[j]
  OBVIOUS

LEMMA PlaceBehind ==
    ASSUME NEW m \in Nat, NEW n \in Nat, NEW i \in 0..(m + n), ~(i <= m)
    PROVE  i - m \in 0..n
  OBVIOUS

LEMMA FlattenConcat ==
    ASSUME NEW S, NEW a \in Seq(Seq(S)), NEW b \in Seq(Seq(S))
    PROVE  FlattenSeq(a \o b) = FlattenSeq(a) \o FlattenSeq(b)
<1> DEFINE m == Len(a)
           n == Len(b)
           s == a \o b
<1>1. /\ m \in Nat /\ n \in Nat /\ s \in Seq(Seq(S)) /\ Len(s) = m + n
      /\ \A i \in 1..m : s[i] = a[i]
      /\ \A i \in 1..n : s[m + i] = b[i]
  OBVIOUS
<1>2. PICK ha \in [0..m -> Seq(S)] : Steps(ha, a)
  BY StepsExist
<1>3. PICK hb \in [0..n -> Seq(S)] : Steps(hb, b)
  BY StepsExist
<1>4. FlattenSeq(a) = ha[m] /\ FlattenSeq(b) = hb[n]
  BY <1>2, <1>3, FlattenSteps
<1>5. /\ ha[0] = <<>> /\ \A i \in 1..m : ha[i] = ha[i - 1] \o a[i]
      /\ hb[0] = <<>> /\ \A i \in 1..n : hb[i] = hb[i - 1] \o b[i]
  BY <1>2, <1>3 DEF Steps
<1>6. \A i \in 1..n : b[i] \in Seq(S)
  OBVIOUS
<1> HIDE DEF m, n, s
<1> DEFINE h == [i \in 0..(m + n) |-> IF i <= m THEN ha[i] ELSE ha[m] \o hb[i - m]]
<1>7. ha[m] \in Seq(S) /\ \A i \in 0..n : hb[i] \in Seq(S)
  BY <1>1
<1>8. \A i \in 0..n : ha[m] \o hb[i] \in Seq(S)
  BY <1>7
<1>9. h \in [0..(m + n) -> Seq(S)]
  <2>1. ASSUME NEW i \in 0..(m + n) PROVE h[i] \in Seq(S)
    <3>1. CASE i <= m
      BY <1>1, <3>1
    <3>2. CASE ~(i <= m)
      <4>1. i - m \in 0..n
        BY <1>1, <3>2, PlaceBehind, Zenon
      <4>2. ha[m] \o hb[i - m] \in Seq(S)
        BY <1>8, <4>1, Zenon
      <4>3. h[i] = ha[m] \o hb[i - m]
        BY <3>2
      <4> QED  BY <4>2, <4>3, Zenon
    <3> QED  BY <3>1, <3>2
  <2> QED  BY <2>1
<1>10. \A i \in 0..m : h[i] = ha[i]
  BY <1>1
<1>11. \A i \in 1..n : h[m + i] = ha[m] \o hb[i]
  <2>1. ASSUME NEW i \in 1..n PROVE h[m + i] = ha[m] \o hb[i]
    <3>1. m + i \in 0..(m + n) /\ ~(m + i <= m) /\ (m + i) - m = i
      BY <1>1
    <3> QED  BY <3>1
  <2> QED  BY <2>1
<1> HIDE DEF h
<1>12. h[m + 0] = ha[m] \o hb[0]
  BY <1>1, <1>5, <1>7, <1>10
<1>13. ASSUME NEW i \in 1..(m + n) PROVE h[i] = h[i - 1] \o s[i]
  <2>1. CASE i <= m
    <3>1. i \in 1..m /\ i \in 0..m /\ i - 1 \in 0..m
      BY <1>1, <2>1
    <3> QED  BY <1>1, <1>5, <1>10, <3>1
  <2>2. CASE ~(i <= m)
    <3>1. PICK j \in 1..n : i = m + j
      <4>1. i - m \in 1..n /\ i = m + (i - m)
        BY <1>1, <2>2
      <4> QED  BY <4>1
    <3>2. h[i] = ha[m] \o hb[j] /\ s[i] = b[j]
      BY <1>1, <1>11, <3>1
    <3>3. hb[j] = hb[j - 1] \o b[j]
      BY <1>5
    <3>4. h[i - 1] = ha[m] \o hb[j - 1]
      <4>1. i - 1 = m + (j - 1)
        BY <1>1, <3>1
      <4>2. CASE j = 1
        <5>1. i - 1 = m + 0 /\ j - 1 = 0
          BY <4>1, <4>2
        <5> QED  BY <1>12, <5>1
      <4>3. CASE j # 1
        <5>1. j - 1 \in 1..n
          BY <1>1, <4>3
        <5> QED  BY <1>11, <4>1, <5>1
      <4> QED  BY <4>2, <4>3
    <3>5. ha[m] \in Seq(S) /\ hb[j - 1] \in Seq(S) /\ b[j] \in Seq(S)
      <4>1. j - 1 \in 0..n
        BY <1>1
      <4> QED  BY <1>6, <1>7, <4>1
    <3>6. (ha[m] \o hb[j - 1]) \o b[j] = ha[m] \o (hb[j - 1] \o b[j])
      <4>1. Regroups(ha[m], hb[j - 1], b[j])
        BY <3>5, Regrouped, Zenon
      <4> QED  BY <4>1, Zenon DEF Regroups
    <3> QED  BY <3>2, <3>3, <3>4, <3>6
  <2> QED  BY <2>1, <2>2
<1>14. Steps(h, s)
  <2>1. h[0] = <<>>
    BY <1>1, <1>5, <1>10
  <2> QED  BY <1>1, <1>13, <2>1 DEF Steps
<1>15. FlattenSeq(s) = h[m + n]
  BY <1>1, <1>9, <1>14, FlattenSteps
<1>16. h[m + n] = ha[m] \o hb[n]
  <2>1. CASE n = 0
    BY <1>12, <2>1
  <2>2. CASE n # 0
    <3>1. n \in 1..n
      BY <1>1, <2>2
    <3> QED  BY <1>11, <3>1
  <2> QED  BY <2>1, <2>2
<1> QED  BY <1>4, <1>15, <1>16 DEF s

\* Where the members of s are found in the concatenation.
Offsets(off, s, b) ==
    /\ off \in [0..Len(s) -> 0..Len(b)]
    /\ off[0] = 0
    /\ off[Len(s)] = Len(b)
    /\ \A i \in 1..Len(s) :
         /\ off[i] = off[i - 1] + Len(s[i])
         /\ \A j \in 1..Len(s[i]) : b[off[i - 1] + j] = s[i][j]

LEMMA FlattenOffsets ==
    ASSUME NEW S, NEW s \in Seq(Seq(S))
    PROVE  \E off : Offsets(off, s, FlattenSeq(s))
<1> DEFINE n == Len(s)
           b == FlattenSeq(s)
<1>1. PICK h \in [0..n -> Seq(S)] : Steps(h, s)
  BY StepsExist
<1>2. b = h[n] /\ b \in Seq(S) /\ n \in Nat
  BY <1>1, FlattenSteps
<1>3. h[0] = <<>> /\ \A i \in 1..n : h[i] = h[i - 1] \o s[i]
  BY <1>1 DEF Steps
<1>4. \A i \in 1..n : s[i] \in Seq(S)
  OBVIOUS
<1> HIDE DEF n, b
\* Each step is the beginning of the later ones.
<1> DEFINE Begins(x, y) == Len(x) <= Len(y) /\ \A j \in 1..Len(x) : y[j] = x[j]
           T == {k \in Nat : k <= n => \A i \in 0..k : Begins(h[i], h[k])}
<1>5. ASSUME NEW x \in Seq(S), NEW y \in Seq(S), NEW z \in Seq(S), Begins(x, y)
      PROVE  Begins(x, y \o z)
  BY <1>5
<1>6. ASSUME NEW x \in Seq(S) PROVE Begins(x, x)
  OBVIOUS
<1> HIDE DEF Begins
<1>7. 0 \in T
  <2>1. h[0] \in Seq(S)
    BY <1>2
  <2> QED  BY <1>6, <2>1
<1>8. ASSUME NEW k \in Nat, k \in T PROVE k + 1 \in T
  <2> SUFFICES ASSUME k + 1 <= n, NEW i \in 0..(k + 1) PROVE Begins(h[i], h[k + 1])
    OBVIOUS
  <2>1. /\ k \in 0..n /\ k + 1 \in 0..n /\ k + 1 \in 1..n
        /\ i \in 0..n /\ (k + 1) - 1 = k
    BY <1>2
  <2>2. /\ h[k] \in Seq(S) /\ h[k + 1] \in Seq(S) /\ h[i] \in Seq(S)
        /\ s[k + 1] \in Seq(S)
    BY <1>4, <2>1
  <2>3. CASE i = k + 1
    BY <1>6, <2>2, <2>3
  <2>4. CASE i # k + 1
    <3>1. i \in 0..k
      BY <2>4
    <3>2. Begins(h[i], h[k])
      BY <1>8, <2>1, <3>1
    <3>3. h[k + 1] = h[k] \o s[k + 1]
      BY <1>3, <2>1
    <3>4. Begins(h[i], h[k] \o s[k + 1])
      BY <1>5, <2>2, <3>2
    <3> QED  BY <3>3, <3>4
  <2> QED  BY <2>3, <2>4
<1> HIDE DEF T
<1>9. \A k \in Nat : k \in T
  BY <1>7, <1>8, SetInduction
<1>10. \A i \in 0..n : Begins(h[i], b)
  BY <1>2, <1>9 DEF T
<1> DEFINE off == [i \in 0..n |-> Len(h[i])]
<1>11. \A i \in 0..n : off[i] = Len(h[i]) /\ off[i] \in 0..Len(b)
  <2>1. ASSUME NEW i \in 0..n PROVE Len(h[i]) \in 0..Len(b)
    <3>1. Len(h[i]) <= Len(b) /\ h[i] \in Seq(S)
      BY <1>10 DEF Begins
    <3> QED  BY <1>2, <3>1
  <2> QED  BY <2>1
<1>12. off \in [0..n -> 0..Len(b)]
  BY <1>11
<1> HIDE DEF off
<1>13. off[0] = 0 /\ off[n] = Len(b)
  <2>1. 0 \in 0..n /\ n \in 0..n
    BY <1>2
  <2> QED  BY <1>2, <1>3, <1>11, <2>1
<1>14. ASSUME NEW i \in 1..n
       PROVE  /\ off[i] = off[i - 1] + Len(s[i])
              /\ \A j \in 1..Len(s[i]) : b[off[i - 1] + j] = s[i][j]
  <2>1. i \in 0..n /\ i - 1 \in 0..n
    BY <1>2
  <2>2. /\ h[i - 1] \in Seq(S) /\ s[i] \in Seq(S) /\ h[i] \in Seq(S)
        /\ h[i] = h[i - 1] \o s[i]
    BY <1>3, <1>4, <2>1
  <2>3. /\ Len(h[i]) = Len(h[i - 1]) + Len(s[i])
        /\ \A j \in 1..Len(s[i]) : h[i][Len(h[i - 1]) + j] = s[i][j]
        /\ Len(h[i - 1]) \in Nat /\ Len(s[i]) \in Nat
    <3>1. PICK x \in Seq(S), y \in Seq(S) : x = h[i - 1] /\ y = s[i]
      BY <2>2
    <3>2. /\ Len(x \o y) = Len(x) + Len(y) /\ Len(x) \in Nat /\ Len(y) \in Nat
          /\ \A j \in 1..Len(y) : (x \o y)[Len(x) + j] = y[j]
      BY ONLY x \in Seq(S), y \in Seq(S), ConcatFacts
    <3> QED  BY <2>2, <3>1, <3>2
  <2>4. \A j \in 1..Len(h[i]) : b[j] = h[i][j]
    BY <1>10, <2>1 DEF Begins
  <2>5. off[i] = Len(h[i]) /\ off[i - 1] = Len(h[i - 1])
    BY <1>11, <2>1
  <2>6. ASSUME NEW j \in 1..Len(s[i]) PROVE b[off[i - 1] + j] = s[i][j]
    <3>1. Len(h[i - 1]) + j \in 1..Len(h[i])
      <4>1. PICK x \in Nat, y \in Nat : x = Len(h[i - 1]) /\ y = Len(s[i])
        BY <2>3
      <4>2. j \in 1..y /\ Len(h[i]) = x + y
        BY <2>3, <4>1
      <4>3. x + j \in 1..(x + y)
        BY <4>2
      <4> QED  BY <4>1, <4>2, <4>3
    <3> QED  BY <2>3, <2>4, <2>5, <3>1
  <2> QED  BY <2>3, <2>5, <2>6
<1>15. Offsets(off, s, b)
  BY <1>12, <1>13, <1>14 DEF Offsets, n
<1> QED  BY <1>15 DEF b

-----------------------------------------------------------------------------
(* Loops over a buffer *)

\* One round of a loop that has come to position p of a buffer: it stops with
\* base[p], or goes on at next[p] and puts piece[p] in front of what comes of
\* that, unless that is in Bad.
Round(f, p, Stop, base, next, piece, Bad) ==
    IF p \in Stop THEN base[p]
    ELSE IF f[next[p]] \in Bad THEN f[next[p]]
    ELSE piece[p] \o f[next[p]]

\* f is what comes of the loop, for each position of a buffer of N bytes.
IsLoop(f, N, Stop, base, next, piece, Bad) ==
    f = [p \in 0..N |-> Round(f, p, Stop, base, next, piece, Bad)]

\* A loop that moves on has a result at each position.
LEMMA LoopExists ==
    ASSUME NEW N \in Nat, NEW Stop, NEW base, NEW next, NEW piece, NEW Bad,
           \A p \in 0..N : p \notin Stop => next[p] \in (p + 1)..N
    PROVE  \E f : IsLoop(f, N, Stop, base, next, piece, Bad)
<1> DEFINE R(f, p) == Round(f, p, Stop, base, next, piece, Bad)
           From(k, f) == \A p \in (N - k)..N : f[p] = R(f, p)
           T == {k \in Nat : k <= N => \E f : From(k, f)}
<1>1. ASSUME NEW f, NEW g, NEW p \in 0..N, \A q \in (p + 1)..N : f[q] = g[q]
      PROVE  R(f, p) = R(g, p)
  <2>1. CASE p \in Stop
    BY <2>1 DEF Round
  <2>2. CASE p \notin Stop
    <3>1. f[next[p]] = g[next[p]]
      BY <1>1, <2>2
    <3> QED  BY <2>2, <3>1 DEF Round
  <2> QED  BY <2>1, <2>2
<1>2. 0 \in T
  <2> DEFINE f == [p \in 0..N |-> base[p]]
  <2>1. N \in Stop
    OBVIOUS
  <2>2. From(0, f)
    BY <2>1 DEF Round
  <2> HIDE DEF f, From
  <2> QED  BY <2>2
<1>3. ASSUME NEW k \in Nat, k \in T PROVE k + 1 \in T
  <2> HIDE DEF R, From
  <2> SUFFICES ASSUME k + 1 <= N PROVE \E f : From(k + 1, f)
    OBVIOUS
  <2>1. PICK f : From(k, f)
    BY <1>3
  <2> DEFINE z == N - (k + 1)
             g == [p \in 0..N |-> IF p = z THEN R(f, z) ELSE f[p]]
  <2>2. z \in 0..N /\ z + 1 = N - k /\ z = N - (k + 1)
    OBVIOUS
  <2>3. g[z] = R(f, z) /\ \A p \in (z + 1)..N : g[p] = f[p]
    <3> HIDE DEF z
    <3> QED  BY <2>2
  <2> HIDE DEF g, z
  <2>4. ASSUME NEW p \in z..N PROVE g[p] = R(g, p)
    <3>1. p \in 0..N /\ \A q \in (p + 1)..N : q \in (z + 1)..N
      BY <2>2
    <3>2. R(g, p) = R(f, p)
      <4>1. \A q \in (p + 1)..N : g[q] = f[q]
        BY <2>3, <3>1
      <4> QED  BY <1>1, <3>1, <4>1
    <3>3. CASE p = z
      BY <2>3, <3>2, <3>3
    <3>4. CASE p # z
      <4>1. p \in (z + 1)..N
        BY <2>2, <3>4
      <4>2. f[p] = R(f, p)
        BY <2>1, <2>2, <4>1 DEF From
      <4> QED  BY <2>3, <3>2, <4>1, <4>2
    <3> QED  BY <3>3, <3>4
  <2>5. From(k + 1, g)
    BY <2>2, <2>4 DEF From
  <2> QED  BY <2>5
<1> HIDE DEF T, R, From
<1>4. \A k \in Nat : k \in T
  BY <1>2, <1>3, SetInduction
<1>5. PICK f : From(N, f)
  BY <1>4 DEF T
<1> DEFINE g == [p \in 0..N |-> f[p]]
<1>6. \A p \in 0..N : g[p] = f[p]
  OBVIOUS
<1> HIDE DEF g
<1>7. ASSUME NEW p \in 0..N PROVE g[p] = R(g, p)
  <2>1. f[p] = R(f, p)
    BY <1>5 DEF From
  <2>2. \A q \in (p + 1)..N : q \in 0..N
    OBVIOUS
  <2>3. R(f, p) = R(g, p)
    BY <1>1, <1>6, <2>2
  <2> QED  BY <1>6, <2>1, <2>3
<1>8. g = [p \in 0..N |-> R(g, p)]
  <2>1. g = [p \in 0..N |-> g[p]]
    BY DEF g
  <2> QED  BY <1>7, <2>1
<1>9. IsLoop(g, N, Stop, base, next, piece, Bad)
  BY <1>8 DEF R, IsLoop
<1> QED  BY <1>9

\* The loop comes by the positions off[0], off[1]..., finds the members of items
\* there, and stops behind the last.
ComesBy(off, items, N, Stop, base, next, piece) ==
    /\ off \in [0..Len(items) -> 0..N]
    /\ off[Len(items)] \in Stop /\ base[off[Len(items)]] = <<>>
    /\ \A i \in 1..Len(items) : /\ off[i - 1] \notin Stop
                                /\ next[off[i - 1]] = off[i]
                                /\ piece[off[i - 1]] = <<items[i]>>

\* Then it collects them.
LEMMA LoopCollects ==
    ASSUME NEW N \in Nat, NEW Stop, NEW base, NEW next, NEW piece, NEW Bad, NEW f,
           IsLoop(f, N, Stop, base, next, piece, Bad),
           NEW V, NEW items \in Seq(V), Bad \cap Seq(V) = {},
           NEW off, ComesBy(off, items, N, Stop, base, next, piece)
    PROVE  f[off[0]] = items
<1> DEFINE n == Len(items)
           Tail_(k) == SubSeq(items, (n - k) + 1, n)
           T == {k \in Nat : k <= n => f[off[n - k]] = Tail_(k)}
<1>1. n \in Nat
  OBVIOUS
<1>2. Tail_(0) = <<>> /\ Tail_(n) = items
  <2>1. SubSeq(items, n + 1, n) = <<>>
    BY SubSeqProperties
  <2>2. SubSeq(items, 1, n) = items
    BY SubSeqFull
  <2>3. (n - 0) + 1 = n + 1 /\ (n - n) + 1 = 1
    BY <1>1
  <2> QED  BY <2>1, <2>2, <2>3
<1>3. ASSUME NEW k \in Nat, k + 1 <= n
      PROVE  /\ Tail_(k + 1) = <<items[n - k]>> \o Tail_(k)
             /\ Tail_(k) \in Seq(V)
  <2> DEFINE m == n - k
  <2>1. m \in 1..n /\ (n - (k + 1)) + 1 = m /\ (n - k) + 1 = m + 1
    BY <1>1, <1>3
  <2> HIDE DEF m, n
  <2>2. SubSeq(items, m, n) = <<items[m]>> \o SubSeq(items, m + 1, n)
    BY <2>1 DEF n
  <2>3. SubSeq(items, m + 1, n) \in Seq(V)
    BY <2>1 DEF n
  <2>4. items[n - k] = items[m]
    BY DEF m
  <2> QED  BY <2>1, <2>2, <2>3, <2>4
<1>4. /\ off \in [0..n -> 0..N]
      /\ off[n] \in Stop /\ base[off[n]] = <<>>
      /\ \A i \in 1..n : /\ off[i - 1] \notin Stop /\ next[off[i - 1]] = off[i]
                         /\ piece[off[i - 1]] = <<items[i]>>
  BY DEF ComesBy
<1>5. \A p \in 0..N : f[p] = Round(f, p, Stop, base, next, piece, Bad)
  <2> DEFINE B(p) == Round(f, p, Stop, base, next, piece, Bad)
  <2>1. f = [p \in 0..N |-> B(p)]
    BY DEF IsLoop
  <2> HIDE DEF B
  <2>2. \A p \in 0..N : f[p] = B(p)
    BY <2>1
  <2> QED  BY <2>2 DEF B
<1> HIDE DEF Tail_, n
<1>6. 0 \in T
  <2>1. n - 0 = n /\ n \in 0..n /\ off[n] \in 0..N
    BY <1>1, <1>4
  <2>2. f[off[n]] = base[off[n]]
    BY <1>4, <1>5, <2>1 DEF Round
  <2> QED  BY <1>2, <1>4, <2>1, <2>2
<1>7. ASSUME NEW k \in Nat, k \in T PROVE k + 1 \in T
  <2> SUFFICES ASSUME k + 1 <= n PROVE f[off[n - (k + 1)]] = Tail_(k + 1)
    OBVIOUS
  <2>1. n - k \in 1..n /\ (n - k) - 1 = n - (k + 1)
    BY <1>1
  <2>2. PICK i \in 1..n : i = n - k /\ i - 1 = n - (k + 1)
    BY <2>1
  <2>3. i \in 0..n /\ i - 1 \in 0..n
    BY <1>1
  <2>4. off[i - 1] \in 0..N /\ off[i] \in 0..N
    BY <1>4, <2>3
  <2>5. f[off[i]] = Tail_(k)
    BY <1>1, <1>7, <2>2
  <2>6. f[off[i]] \notin Bad
    BY <1>3, <2>5
  <2>7. /\ off[i - 1] \notin Stop /\ next[off[i - 1]] = off[i]
        /\ piece[off[i - 1]] = <<items[i]>>
    BY <1>4
  <2>8. f[off[i - 1]] = <<items[i]>> \o f[off[i]]
    BY <1>5, <2>4, <2>6, <2>7 DEF Round
  <2>9. Tail_(k + 1) = <<items[i]>> \o Tail_(k)
    BY <1>3, <2>2
  <2> QED  BY <2>2, <2>5, <2>8, <2>9
<1> HIDE DEF T
<1>8. \A k \in Nat : k \in T
  BY <1>6, <1>7, SetInduction
<1>9. f[off[n - n]] = Tail_(n)
  BY <1>1, <1>8 DEF T
<1>10. n - n = 0
  BY <1>1
<1> QED  BY <1>2, <1>9, <1>10
-----------------------------------------------------------------------------
(* Cut: the loops of the parsers *)

\* n members of b from position p on.
LEMMA Slice ==
    ASSUME NEW S, NEW b \in Seq(S), NEW p \in Nat, NEW n \in Nat, p + n <= Len(b)
    PROVE  /\ SubSeq(b, p + 1, p + n) \in Seq(S)
           /\ Len(SubSeq(b, p + 1, p + n)) = n
           /\ \A j \in 1..n : SubSeq(b, p + 1, p + n)[j] = b[p + j]
<1> DEFINE y == SubSeq(b, p + 1, p + n)
<1>1. \A j \in (p + 1)..(p + n) : b[j] \in S
  OBVIOUS
<1>2. /\ y \in Seq(S)
      /\ Len(y) = IF p + 1 <= p + n THEN (p + n) - (p + 1) + 1 ELSE 0
      /\ \A j \in 1..((p + n) - (p + 1) + 1) : y[j] = b[(p + 1) + j - 1]
  BY <1>1, SubSeqProperties
<1> HIDE DEF y
<1>3. Len(y) = n
  BY <1>2
<1>4. ASSUME NEW j \in 1..n PROVE y[j] = b[p + j]
  <2>1. j \in 1..((p + n) - (p + 1) + 1) /\ (p + 1) + j - 1 = p + j
    OBVIOUS
  <2> QED  BY <1>2, <2>1
<1> QED  BY <1>2, <1>3, <1>4 DEF y

\* f is the loop of Cut over b, where an item at p has size[p] bytes and takes
\* used[p] of them off the buffer.
IsCut(f, b, min, size, used) ==
    f = [p \in 0..Len(b) |->
           IF Len(b) - p < min THEN <<>>
           ELSE IF Len(b) - p < size[p] THEN Err
           ELSE IF f[p + used[p]] \in {Err, Panic} THEN f[p + used[p]]
           ELSE << SubSeq(b, p + 1, p + size[p]) >> \o f[p + used[p]]]

\* Every item takes bytes off the buffer, and no more than it has.
Moves(b, min, size, used) ==
    \A p \in 0..Len(b) : Len(b) - p >= min => /\ size[p] \in Nat
                                              /\ used[p] \in 1..size[p]

CutStop(b, min, size) ==
    {p \in 0..Len(b) : Len(b) - p < min \/ Len(b) - p < size[p]}
CutBase(b, min) == [p \in 0..Len(b) |-> IF Len(b) - p < min THEN <<>> ELSE Err]
CutNext(b, used) == [p \in 0..Len(b) |-> p + used[p]]
CutPiece(b, size) == [p \in 0..Len(b) |-> << SubSeq(b, p + 1, p + size[p]) >>]

IsSlice(y, b, p, n, S) ==
    y \in Seq(S) /\ Len(y) = n /\ \A j \in 1..n : y[j] = b[p + j]

LEMMA SliceIs ==
    ASSUME NEW S, NEW b \in Seq(S), NEW p \in Nat, NEW n \in Nat, p + n <= Len(b)
    PROVE  IsSlice(SubSeq(b, p + 1, p + n), b, p, n, S)
  BY Slice DEF IsSlice

LEMMA CutIsLoop ==
    ASSUME NEW f, NEW b, NEW min, NEW size, NEW used
    PROVE  IsCut(f, b, min, size, used)
             <=> IsLoop(f, Len(b), CutStop(b, min, size), CutBase(b, min),
                        CutNext(b, used), CutPiece(b, size), {Err, Panic})
<1> DEFINE A(p) == IF Len(b) - p < min THEN <<>>
                   ELSE IF Len(b) - p < size[p] THEN Err
                   ELSE IF f[p + used[p]] \in {Err, Panic} THEN f[p + used[p]]
                   ELSE << SubSeq(b, p + 1, p + size[p]) >> \o f[p + used[p]]
           B(p) == Round(f, p, CutStop(b, min, size), CutBase(b, min),
                         CutNext(b, used), CutPiece(b, size), {Err, Panic})
<1>1. ASSUME NEW p \in 0..Len(b) PROVE A(p) = B(p)
  <2>1. CASE Len(b) - p < min
    BY <2>1 DEF Round, CutStop, CutBase
  <2>2. CASE ~(Len(b) - p < min) /\ Len(b) - p < size[p]
    BY <2>2 DEF Round, CutStop, CutBase
  <2>3. CASE ~(Len(b) - p < min) /\ ~(Len(b) - p < size[p])
    <3>1. p \notin CutStop(b, min, size)
      BY <2>3 DEF CutStop
    <3>2. /\ CutNext(b, used)[p] = p + used[p]
          /\ CutPiece(b, size)[p] = << SubSeq(b, p + 1, p + size[p]) >>
      BY DEF CutNext, CutPiece
    <3> QED  BY <2>3, <3>1, <3>2 DEF Round
  <2> QED  BY <2>1, <2>2, <2>3
<1> HIDE DEF A, B
<1>2. [p \in 0..Len(b) |-> A(p)] = [p \in 0..Len(b) |-> B(p)]
  BY <1>1
<1>3. IsCut(f, b, min, size, used) <=> f = [p \in 0..Len(b) |-> A(p)]
  BY DEF IsCut, A
<1> QED  BY <1>2, <1>3 DEF B, IsLoop

LEMMA CutExists ==
    ASSUME NEW S, NEW b \in Seq(S), NEW min, NEW size, NEW used,
           Moves(b, min, size, used), min \in Nat
    PROVE  \E f : IsCut(f, b, min, size, used)
<1> DEFINE N == Len(b)
<1>1. N \in Nat
  OBVIOUS
<1>2. ASSUME NEW p \in 0..N, p \notin CutStop(b, min, size)
      PROVE  CutNext(b, used)[p] \in (p + 1)..N
  <2>1. N - p >= min /\ ~(N - p < size[p])
    BY <1>1, <1>2 DEF CutStop
  <2>2. size[p] \in Nat /\ used[p] \in 1..size[p]
    BY <2>1 DEF Moves
  <2>3. CutNext(b, used)[p] = p + used[p]
    BY DEF CutNext
  <2> HIDE DEF N
  <2> QED  BY <1>1, <2>1, <2>2, <2>3
<1>3. \E f : IsLoop(f, N, CutStop(b, min, size), CutBase(b, min),
                    CutNext(b, used), CutPiece(b, size), {Err, Panic})
  <2> HIDE DEF N
  <2> QED  BY <1>1, <1>2, LoopExists
<1> QED  BY <1>3, CutIsLoop

\* At position p of b there is x.
At(b, p, x) ==
    /\ p + Len(x) <= Len(b)
    /\ \A j \in 1..Len(x) : b[p + j] = x[j]

\* The length of each of the items is read right wherever it begins.
ReadRight(b, items, min, size, used) ==
    \A i \in 1..Len(items), p \in 0..Len(b) :
       At(b, p, items[i]) => /\ size[p] = Len(items[i])
                             /\ used[p] = Len(items[i])
                             /\ Len(items[i]) >= min

\* Then a buffer that items were put into one after the other is cut into them.
LEMMA CutCollects ==
    ASSUME NEW S, NEW items \in Seq(Seq(S)), NEW b, b = FlattenSeq(items),
           NEW min, NEW size, NEW used, NEW f, IsCut(f, b, min, size, used),
           min \in Nat \ {0},
           ReadRight(b, items, min, size, used),
           Err \notin Seq(Seq(S)), Panic \notin Seq(Seq(S))
    PROVE  f[0] = items
<1> DEFINE N == Len(b)
           n == Len(items)
<1>1. N \in Nat /\ n \in Nat /\ b \in Seq(S)
  BY FlattenType
<1>2. PICK off : Offsets(off, items, b)
  BY FlattenOffsets
<1>3. /\ off \in [0..n -> 0..N] /\ off[0] = 0 /\ off[n] = N
      /\ \A i \in 1..n : off[i] = off[i - 1] + Len(items[i])
  BY <1>2 DEF Offsets
<1>4. IsLoop(f, N, CutStop(b, min, size), CutBase(b, min),
             CutNext(b, used), CutPiece(b, size), {Err, Panic})
  BY CutIsLoop
<1>5. off[n] \in CutStop(b, min, size) /\ CutBase(b, min)[off[n]] = <<>>
  <2>1. N \in 0..N /\ N - N < min
    BY <1>1
  <2> QED  BY <1>3, <2>1 DEF CutStop, CutBase
<1>6. ASSUME NEW i \in 1..n
      PROVE  /\ off[i - 1] \notin CutStop(b, min, size)
             /\ CutNext(b, used)[off[i - 1]] = off[i]
             /\ CutPiece(b, size)[off[i - 1]] = <<items[i]>>
  <2> DEFINE p == off[i - 1]
             x == items[i]
  <2>1. p \in 0..N /\ off[i] \in 0..N /\ off[i] = p + Len(x)
    <3>1. i \in 0..n /\ i - 1 \in 0..n
      BY <1>1
    <3> QED  BY <1>3, <3>1
  <2>2. x \in Seq(S) /\ Len(x) \in Nat
    OBVIOUS
  <2>3. \A j \in 1..Len(x) : b[p + j] = x[j]
    BY <1>2 DEF Offsets
  <2> HIDE DEF p, x, n, N
  <2>4. At(b, p, x)
    BY <2>1, <2>2, <2>3 DEF At, N
  <2>5. size[p] = Len(x) /\ used[p] = Len(x) /\ Len(x) >= min
    BY <2>1, <2>4 DEF x, n, N, ReadRight
  <2>6. p \notin CutStop(b, min, size)
    BY <1>1, <2>1, <2>2, <2>5 DEF CutStop, N
  <2>7. CutNext(b, used)[p] = off[i]
    BY <2>1, <2>5 DEF CutNext, N
  <2>8. SubSeq(b, p + 1, p + Len(x)) = x
    <3> DEFINE y == SubSeq(b, p + 1, p + Len(x))
    <3>1. p \in Nat /\ p + Len(x) <= Len(b)
      BY <1>1, <2>1 DEF N
    <3>2. /\ y \in Seq(S) /\ Len(y) = Len(x)
          /\ \A j \in 1..Len(x) : y[j] = b[p + j]
      BY <1>1, <2>2, <3>1, Slice
    <3> HIDE DEF y
    <3>3. \A j \in 1..Len(y) : y[j] = x[j]
      BY <2>3, <3>2
    <3>4. y = x
      BY <2>2, <3>2, <3>3, SeqEqual
    <3> QED  BY <3>4 DEF y
  <2>9. CutPiece(b, size)[p] = <<x>>
    BY <2>1, <2>5, <2>8 DEF CutPiece, N
  <2> QED  BY <2>6, <2>7, <2>9 DEF p, x
<1>7. {Err, Panic} \cap Seq(Seq(S)) = {}
  OBVIOUS
<1>8. ComesBy(off, items, N, CutStop(b, min, size), CutBase(b, min),
              CutNext(b, used), CutPiece(b, size))
  BY <1>3, <1>5, <1>6 DEF ComesBy
<1>9. f[off[0]] = items
  <2> DEFINE V == Seq(S)
  <2>1. items \in Seq(V) /\ {Err, Panic} \cap Seq(V) = {}
    BY <1>7
  <2> HIDE DEF N, V, n
  <2> QED  BY <1>1, <1>4, <1>8, <2>1, LoopCollects
<1> QED  BY <1>3, <1>9

\* What is left of a buffer.
LEMMA RestFacts ==
    ASSUME NEW S, NEW b \in Seq(S), NEW p \in 0..Len(b)
    PROVE  /\ Rest(b, p) \in Seq(S)
           /\ Len(Rest(b, p)) = Len(b) - p
           /\ \A j \in 1..(Len(b) - p) : Rest(b, p)[j] = b[p + j]
           /\ \A n \in 0..(Len(b) - p) : SubSeq(Rest(b, p), 1, n) = SubSeq(b, p + 1, p + n)
<1> DEFINE N == Len(b)
           r == Rest(b, p)
<1>1. N \in Nat /\ p \in Nat /\ N - p \in Nat /\ p + (N - p) = N
  OBVIOUS
<1>2. /\ r \in Seq(S) /\ Len(r) = N - p
      /\ \A j \in 1..(N - p) : r[j] = b[p + j]
  <2> DEFINE n == N - p
  <2>1. n \in Nat /\ p + n <= Len(b) /\ p + n = N
    BY <1>1
  <2> HIDE DEF n
  <2>2. /\ SubSeq(b, p + 1, p + n) \in Seq(S)
        /\ Len(SubSeq(b, p + 1, p + n)) = n
        /\ \A j \in 1..n : SubSeq(b, p + 1, p + n)[j] = b[p + j]
    BY <1>1, <2>1, Slice
  <2>3. r = SubSeq(b, p + 1, p + n)
    BY <2>1 DEF Rest
  <2> QED  BY <2>2, <2>3 DEF n
<1> HIDE DEF r, N
<1>3. ASSUME NEW n \in 0..(N - p) PROVE SubSeq(r, 1, n) = SubSeq(b, p + 1, p + n)
  <2>1. n \in Nat /\ p + n <= N /\ 0 + n <= Len(r) /\ 0 + 1 = 1 /\ 0 + n = n
    BY <1>1, <1>2
  <2> DEFINE x == SubSeq(r, 1, n)
             y == SubSeq(b, p + 1, p + n)
  <2>2. /\ x \in Seq(S) /\ Len(x) = n
        /\ \A j \in 1..n : x[j] = r[j]
    <3>1. /\ SubSeq(r, 0 + 1, 0 + n) \in Seq(S) /\ Len(SubSeq(r, 0 + 1, 0 + n)) = n
          /\ \A j \in 1..n : SubSeq(r, 0 + 1, 0 + n)[j] = r[0 + j]
      BY <1>2, <2>1, Slice
    <3>2. \A j \in 1..n : 0 + j = j
      BY <2>1
    <3> QED  BY <2>1, <3>1, <3>2
  <2>3. /\ y \in Seq(S) /\ Len(y) = n
        /\ \A j \in 1..n : y[j] = b[p + j]
    BY <1>1, <2>1, Slice DEF N
  <2> HIDE DEF x, y
  <2>4. \A j \in 1..n : j \in 1..(N - p)
    BY <1>1, <2>1
  <2>5. \A j \in 1..Len(x) : x[j] = y[j]
    BY <1>2, <2>2, <2>3, <2>4
  <2>6. x = y
    BY <2>2, <2>3, <2>5, SeqEqual
  <2> QED  BY <2>6 DEF x, y
<1> QED  BY <1>2, <1>3 DEF r, N

\* Cut as it is written, on what is left of the buffer.
IsCutOfRests(f, b, min, size, used) ==
    f = [p \in 0..Len(b) |->
           IF Len(Rest(b, p)) < min THEN <<>>
           ELSE IF Len(Rest(b, p)) < size[p] THEN Err
           ELSE IF f[p + used[p]] \in {Err, Panic} THEN f[p + used[p]]
           ELSE << SubSeq(Rest(b, p), 1, size[p]) >> \o f[p + used[p]]]

LEMMA CutOfRests ==
    ASSUME NEW S, NEW b \in Seq(S), NEW min \in Nat, NEW size, NEW used,
           Moves(b, min, size, used), NEW f
    PROVE  IsCutOfRests(f, b, min, size, used) <=> IsCut(f, b, min, size, used)
<1> DEFINE A(p) == IF Len(Rest(b, p)) < min THEN <<>>
                   ELSE IF Len(Rest(b, p)) < size[p] THEN Err
                   ELSE IF f[p + used[p]] \in {Err, Panic} THEN f[p + used[p]]
                   ELSE << SubSeq(Rest(b, p), 1, size[p]) >> \o f[p + used[p]]
           B(p) == IF Len(b) - p < min THEN <<>>
                   ELSE IF Len(b) - p < size[p] THEN Err
                   ELSE IF f[p + used[p]] \in {Err, Panic} THEN f[p + used[p]]
                   ELSE << SubSeq(b, p + 1, p + size[p]) >> \o f[p + used[p]]
<1>1. ASSUME NEW p \in 0..Len(b) PROVE A(p) = B(p)
  <2>1. Len(Rest(b, p)) = Len(b) - p
    BY RestFacts
  <2>2. CASE Len(b) - p < min
    BY <2>1, <2>2
  <2>3. CASE ~(Len(b) - p < min) /\ Len(b) - p < size[p]
    BY <2>1, <2>3
  <2>4. CASE ~(Len(b) - p < min) /\ ~(Len(b) - p < size[p])
    <3>1. size[p] \in Nat /\ Len(b) \in Nat
      BY <2>4 DEF Moves
    <3>2. size[p] \in 0..(Len(b) - p)
      BY <2>4, <3>1
    <3>3. SubSeq(Rest(b, p), 1, size[p]) = SubSeq(b, p + 1, p + size[p])
      BY <3>2, RestFacts
    <3> QED  BY <2>1, <2>4, <3>3
  <2> QED  BY <2>2, <2>3, <2>4
<1> HIDE DEF A, B
<1>2. [p \in 0..Len(b) |-> A(p)] = [p \in 0..Len(b) |-> B(p)]
  BY <1>1
<1>3. IsCutOfRests(f, b, min, size, used) <=> f = [p \in 0..Len(b) |-> A(p)]
  BY DEF IsCutOfRests, A
<1>4. IsCut(f, b, min, size, used) <=> f = [p \in 0..Len(b) |-> B(p)]
  BY DEF IsCut, B
<1> QED  BY <1>2, <1>3, <1>4

-----------------------------------------------------------------------------
(* Prefixes *)

LEMMA ByteFacts ==
    /\ Byte \in Nat /\ Byte >= 16 /\ Bytes \subseteq Nat
    /\ \A n \in Nat : n < Byte => n \in Bytes
<1>1. Byte = 2^(4 + (Bits - 4)) /\ Bits - 4 \in Nat
  BY OctetsAssumption DEF Byte
<1>2. 2^(4 + (Bits - 4)) = 2^4 * 2^(Bits - 4) /\ 2^(Bits - 4) \in Nat /\ 2^(Bits - 4) >= 1
  BY <1>1, PowerOfSum, PowerPositive
<1>3. 2^4 = 16
  <2>1. 2^0 = 1
    OBVIOUS
  <2>2. 2^1 = 2
    OBVIOUS
  <2>3. 2^2 = 4
    BY <2>2, PowerDoubles, 2 = 1 + 1
  <2>4. 2^3 = 8
    BY <2>3, PowerDoubles, 3 = 2 + 1
  <2> QED  BY <2>4, PowerDoubles, 4 = 3 + 1
<1>4. Byte \in Nat /\ Byte >= 16
  <2> DEFINE u == 2^(Bits - 4)
  <2>1. Byte = 16 * u /\ u \in Nat /\ u >= 1
    BY <1>1, <1>2, <1>3
  <2> HIDE DEF u
  <2> QED  BY <2>1
<1> QED  BY <1>4 DEF Bytes

\* Byte j of what is left.
LEMMA RestByte ==
    ASSUME NEW b \in Seq(Bytes), NEW p \in 0..Len(b), NEW j \in 1..(Len(b) - p)
    PROVE  /\ Rest(b, p)[j] = b[p + j]
           /\ b[p + j] \in Bytes /\ b[p + j] \in Nat
<1>1. Rest(b, p)[j] = b[p + j]
  BY RestFacts
<1>2. p + j \in 1..Len(b)
  OBVIOUS
<1>3. b[p + j] \in Bytes
  BY <1>2
<1> QED  BY <1>1, <1>3, ByteFacts

LEMMA EncodedLenType ==
    ASSUME NEW n \in Nat
    PROVE  EncodedLen(n) \in Nat
<1>1. n + Bits - 1 \in Nat /\ Bits \in Nat /\ Bits >= 1
  BY OctetsAssumption
<1> DEFINE x == n + Bits - 1
<1>2. x \div Bits \in Nat
  <2> HIDE DEF x
  <2>1. x \in Nat
    BY <1>1 DEF x
  <2> QED  BY <1>1, <2>1, DivMod
<1> QED  BY <1>2 DEF EncodedLen

\* The loop of Prefix::parse, and the prefix that it makes of an item.
PrefixSize(b) == [p \in 0..Len(b) |-> 1 + EncodedLen(Rest(b, p)[1])]
PrefixUsed(b, w) == [p \in 0..Len(b) |->
    IF 1 + EncodedLen(Rest(b, p)[1]) > 1 + w THEN 1 + w
    ELSE 1 + EncodedLen(Rest(b, p)[1])]
PrefixOf(x, w) ==
    [prefix_len |-> x[1],
     address |-> [i \in 1..w |-> IF i < 1 + EncodedLen(x[1]) THEN x[i + 1] ELSE 0]]

LEMMA PrefixMoves ==
    ASSUME NEW b \in Seq(Bytes), NEW w \in Nat
    PROVE  Moves(b, 1, PrefixSize(b), PrefixUsed(b, w))
<1> SUFFICES ASSUME NEW p \in 0..Len(b), Len(b) - p >= 1
             PROVE  /\ PrefixSize(b)[p] \in Nat
                    /\ PrefixUsed(b, w)[p] \in 1..PrefixSize(b)[p]
  BY DEF Moves
<1>1. 1 \in 1..(Len(b) - p) /\ p + 1 \in 1..Len(b)
  OBVIOUS
<1>2. Rest(b, p)[1] = b[p + 1] /\ b[p + 1] \in Nat
  BY <1>1, RestByte
<1>3. EncodedLen(Rest(b, p)[1]) \in Nat
  BY <1>2, EncodedLenType
<1> QED  BY <1>3 DEF PrefixSize, PrefixUsed

LEMMA PrefixCut ==
    ASSUME NEW b \in Seq(Bytes), NEW w \in Nat
    PROVE  \E f : /\ IsCut(f, b, 1, PrefixSize(b), PrefixUsed(b, w))
                  /\ ParsePrefixes(b, w) =
                       IF f[0] \in {Err, Panic} THEN f[0]
                       ELSE [i \in DOMAIN f[0] |-> PrefixOf(f[0][i], w)]
<1> DEFINE Sz(r) == 1 + EncodedLen(r[1])
           Us(r) == IF Sz(r) > 1 + w THEN 1 + w ELSE Sz(r)
           Eq(f) == f = [p \in 0..Len(b) |->
                      IF Len(Rest(b, p)) < 1 THEN <<>>
                      ELSE IF Len(Rest(b, p)) < Sz(Rest(b, p)) THEN Err
                      ELSE IF f[p + Us(Rest(b, p))] \in {Err, Panic}
                           THEN f[p + Us(Rest(b, p))]
                      ELSE << SubSeq(Rest(b, p), 1, Sz(Rest(b, p))) >>
                             \o f[p + Us(Rest(b, p))]]
           f == CHOOSE g : Eq(g)
<1>1. ParsePrefixes(b, w) = IF f[0] \in {Err, Panic} THEN f[0]
                            ELSE [i \in DOMAIN f[0] |-> PrefixOf(f[0][i], w)]
  BY DEF ParsePrefixes, Cut, Try, PrefixOf
<1>2. \A g : Eq(g) <=> IsCutOfRests(g, b, 1, PrefixSize(b), PrefixUsed(b, w))
  BY DEF IsCutOfRests, PrefixSize, PrefixUsed
<1> HIDE DEF Eq
<1>3. \A g : Eq(g) <=> IsCut(g, b, 1, PrefixSize(b), PrefixUsed(b, w))
  BY <1>2, PrefixMoves, CutOfRests
<1>4. \E g : Eq(g)
  BY <1>3, PrefixMoves, CutExists
<1>5. Eq(f)
  BY <1>4
<1> HIDE DEF f
<1> QED  BY <1>1, <1>3, <1>5

\* Wherever the bytes of a legal prefix begin, its length is read right, and
\* the prefix is made of them again.
LEMMA PrefixBack ==
    ASSUME NEW w \in Nat \ {0}, NEW q \in PrefixesOf(w)
    PROVE  /\ PrefixBytes(q) \in Seq(Bytes)
           /\ Len(PrefixBytes(q)) = 1 + EncodedLen(q.prefix_len)
           /\ EncodedLen(q.prefix_len) \in 0..w
           /\ PrefixBytes(q)[1] = q.prefix_len
           /\ PrefixOf(PrefixBytes(q), w) = q
<1> DEFINE n == EncodedLen(q.prefix_len)
           x == PrefixBytes(q)
           a == SubSeq(q.address, 1, n)
<1>1. /\ q \in [prefix_len : Bytes, address : [1..w -> Bytes]]
      /\ n <= w /\ \A i \in 1..w : i > n => q.address[i] = 0
  BY DEF PrefixesOf, AddressesOf
<1>2. q.prefix_len \in Bytes /\ q.address \in [1..w -> Bytes] /\ q.prefix_len \in Nat
  BY <1>1, ByteFacts
<1>3. n \in 0..w
  BY <1>1, <1>2, EncodedLenType
<1> HIDE DEF n
<1>4. q.address \in Seq(Bytes) /\ Len(q.address) = w
  BY <1>2
<1>5. /\ a \in Seq(Bytes) /\ Len(a) = n
      /\ \A i \in 1..n : a[i] = q.address[i]
  <2>1. 0 + n <= Len(q.address) /\ n \in Nat /\ 0 + 1 = 1 /\ 0 + n = n
    BY <1>3, <1>4
  <2>2. /\ SubSeq(q.address, 0 + 1, 0 + n) \in Seq(Bytes)
        /\ Len(SubSeq(q.address, 0 + 1, 0 + n)) = n
        /\ \A i \in 1..n : SubSeq(q.address, 0 + 1, 0 + n)[i] = q.address[0 + i]
    BY <1>4, <2>1, Slice
  <2>3. \A i \in 1..n : 0 + i = i
    BY <2>1
  <2> QED  BY <2>1, <2>2, <2>3
<1>6. x = <<q.prefix_len>> \o a
  BY DEF PrefixBytes, n
<1> HIDE DEF a, x
<1>7. /\ x \in Seq(Bytes) /\ Len(x) = 1 + n /\ x[1] = q.prefix_len
      /\ \A i \in 1..n : x[i + 1] = a[i]
  BY <1>2, <1>3, <1>5, <1>6
<1>8. PrefixOf(x, w).prefix_len = q.prefix_len
  BY <1>7 DEF PrefixOf
<1>9. PrefixOf(x, w).address = q.address
  <2> DEFINE A(i) == IF i < 1 + EncodedLen(x[1]) THEN x[i + 1] ELSE 0
  <2>1. PrefixOf(x, w).address = [i \in 1..w |-> A(i)]
    BY DEF PrefixOf
  <2>2. ASSUME NEW i \in 1..w PROVE A(i) = q.address[i]
    <3>1. EncodedLen(x[1]) = n
      BY <1>7 DEF n
    <3>2. CASE i <= n
      <4>1. i \in 1..n /\ i < 1 + n
        BY <1>3, <3>2
      <4> QED  BY <1>5, <1>7, <3>1, <4>1
    <3>3. CASE i > n
      <4>1. ~(i < 1 + n)
        BY <1>3, <3>3
      <4> QED  BY <1>1, <3>1, <3>3, <4>1
    <3> QED  BY <1>3, <3>2, <3>3
  <2>3. q.address = [i \in 1..w |-> q.address[i]]
    BY <1>2
  <2> HIDE DEF A
  <2> QED  BY <2>1, <2>2, <2>3
<1>10. PrefixOf(x, w) = q
  <2>1. /\ q = [prefix_len |-> q.prefix_len, address |-> q.address]
        /\ PrefixOf(x, w) = [prefix_len |-> PrefixOf(x, w).prefix_len,
                             address |-> PrefixOf(x, w).address]
    BY <1>1 DEF PrefixOf
  <2> QED  BY <1>8, <1>9, <2>1
<1> QED  BY <1>3, <1>7, <1>10 DEF n, x

\* Prefix::parse takes back what Prefix::serialize did.
LEMMA PrefixesBack ==
    ASSUME NEW w \in Nat \ {0}, NEW ps \in Seq(PrefixesOf(w)),
           Err \notin Seq(Seq(Bytes)), Panic \notin Seq(Seq(Bytes))
    PROVE  /\ ParsePrefixes(SerializePrefixes(ps), w) = ps
           /\ SerializePrefixes(ps) \in Seq(Bytes)
<1> DEFINE items == [i \in DOMAIN ps |-> PrefixBytes(ps[i])]
           b == SerializePrefixes(ps)
<1>1. DOMAIN ps = 1..Len(ps) /\ Len(ps) \in Nat /\ \A i \in 1..Len(ps) : ps[i] \in PrefixesOf(w)
  OBVIOUS
<1>2. /\ items \in Seq(Seq(Bytes)) /\ Len(items) = Len(ps)
      /\ \A i \in 1..Len(ps) : items[i] = PrefixBytes(ps[i])
  <2>1. \A i \in 1..Len(ps) : PrefixBytes(ps[i]) \in Seq(Bytes)
    BY <1>1, PrefixBack
  <2> QED  BY <1>1, <2>1
<1>3. b = FlattenSeq(items) /\ b \in Seq(Bytes)
  BY <1>2, FlattenType DEF SerializePrefixes
<1> HIDE DEF items, b
<1>4. PICK f : /\ IsCut(f, b, 1, PrefixSize(b), PrefixUsed(b, w))
               /\ ParsePrefixes(b, w) =
                    IF f[0] \in {Err, Panic} THEN f[0]
                    ELSE [i \in DOMAIN f[0] |-> PrefixOf(f[0][i], w)]
  BY <1>3, PrefixCut
<1>5. ASSUME NEW i \in 1..Len(items), NEW p \in 0..Len(b), At(b, p, items[i])
      PROVE  /\ PrefixSize(b)[p] = Len(items[i])
             /\ PrefixUsed(b, w)[p] = Len(items[i])
             /\ Len(items[i]) >= 1
  <2> DEFINE x == items[i]
             n == EncodedLen(ps[i].prefix_len)
  <2>1. /\ x \in Seq(Bytes) /\ Len(x) = 1 + n /\ n \in 0..w
        /\ x[1] = ps[i].prefix_len
    <3>1. i \in 1..Len(ps)
      BY <1>2
    <3>2. ps[i] \in PrefixesOf(w) /\ x = PrefixBytes(ps[i])
      BY <1>1, <1>2, <3>1, Zenon
    <3>3. /\ PrefixBytes(ps[i]) \in Seq(Bytes) /\ Len(PrefixBytes(ps[i])) = 1 + n
          /\ n \in 0..w /\ PrefixBytes(ps[i])[1] = ps[i].prefix_len
      BY <3>2, PrefixBack, Zenon
    <3> QED  BY <3>2, <3>3, Zenon
  <2>2. p + Len(x) <= Len(b) /\ \A j \in 1..Len(x) : b[p + j] = x[j]
    BY <1>5 DEF At
  <2> HIDE DEF x, n
  <2>3. 1 \in 1..Len(x) /\ 1 \in 1..(Len(b) - p)
    BY <1>3, <2>1, <2>2
  <2>4. Rest(b, p)[1] = b[p + 1]
    BY <1>3, <2>3, RestByte
  <2>5. Rest(b, p)[1] = ps[i].prefix_len
    BY <2>1, <2>2, <2>3, <2>4
  <2>6. EncodedLen(Rest(b, p)[1]) = n
    BY <2>5 DEF n
  <2> QED  BY <2>1, <2>6 DEF PrefixSize, PrefixUsed, x
<1>6. f[0] = items
  <2>1. ReadRight(b, items, 1, PrefixSize(b), PrefixUsed(b, w))
    BY <1>5 DEF ReadRight
  <2>2. /\ items \in Seq(Seq(Bytes)) /\ b = FlattenSeq(items)
        /\ IsCut(f, b, 1, PrefixSize(b), PrefixUsed(b, w)) /\ 1 \in Nat \ {0}
    BY <1>2, <1>3, <1>4
  <2> QED  BY <2>1, <2>2, CutCollects, Zenon
<1>7. ParsePrefixes(b, w) = [i \in 1..Len(ps) |-> PrefixOf(items[i], w)]
  <2>1. items \notin {Err, Panic} /\ DOMAIN items = 1..Len(ps)
    BY <1>2
  <2> QED  BY <1>4, <1>6, <2>1
<1>8. \A i \in 1..Len(ps) : PrefixOf(items[i], w) = ps[i]
  BY <1>1, <1>2, PrefixBack
<1>9. ps = [i \in 1..Len(ps) |-> ps[i]]
  OBVIOUS
<1>10. ParsePrefixes(b, w) = ps
  BY <1>7, <1>8, <1>9
<1> QED  BY <1>3, <1>10 DEF b

-----------------------------------------------------------------------------
(* Parts of a body *)

IsRest(r, b, p, S) ==
    /\ r \in Seq(S) /\ Len(r) = Len(b) - p
    /\ \A j \in 1..(Len(b) - p) : r[j] = b[p + j]

LEMMA RestIs ==
    ASSUME NEW S, NEW b \in Seq(S), NEW p \in 0..Len(b)
    PROVE  IsRest(Rest(b, p), b, p, S)
  BY RestFacts DEF IsRest

\* Sequences of the same length with the same members.
LEMMA SameSeq ==
    ASSUME NEW S, NEW x \in Seq(S), NEW y \in Seq(S), Len(x) = Len(y),
           \A j \in 1..Len(x) : x[j] = y[j]
    PROVE  x = y
  BY SeqEqual

\* What is in front of a place, and behind it.
LEMMA Behind ==
    ASSUME NEW S, NEW x \in Seq(S), NEW y \in Seq(S)
    PROVE  /\ Rest(x \o y, Len(x)) = y
           /\ SubSeq(x \o y, 1, Len(x)) = x
<1> DEFINE b == x \o y
<1>1. /\ Len(x) \in Nat /\ Len(y) \in Nat
      /\ b \in Seq(S) /\ Len(b) = Len(x) + Len(y)
      /\ \A j \in 1..Len(x) : b[j] = x[j]
      /\ \A j \in 1..Len(y) : b[Len(x) + j] = y[j]
  BY ConcatFacts
<1> HIDE DEF b
<1>2. Rest(b, Len(x)) = y
  <2>1. Len(x) \in 0..Len(b) /\ Len(b) - Len(x) = Len(y)
    BY <1>1
  <2>2. /\ Rest(b, Len(x)) \in Seq(S)
        /\ Len(Rest(b, Len(x))) = Len(y)
        /\ \A j \in 1..Len(y) : Rest(b, Len(x))[j] = b[Len(x) + j]
    <3>1. IsRest(Rest(b, Len(x)), b, Len(x), S)
      BY <1>1, <2>1, RestIs, Zenon
    <3> QED  BY <2>1, <3>1, Zenon DEF IsRest
  <2> DEFINE r == Rest(b, Len(x))
  <2> HIDE DEF r
  <2>3. r \in Seq(S) /\ Len(r) = Len(y) /\ \A j \in 1..Len(r) : r[j] = y[j]
    BY <1>1, <2>2, Zenon DEF r
  <2>4. r = y
    BY <2>3, SameSeq, Zenon
  <2> QED  BY <2>4, Zenon DEF r
<1>3. SubSeq(b, 1, Len(x)) = x
  <2>1. 0 + Len(x) <= Len(b) /\ 0 \in Nat /\ 0 + 1 = 1 /\ 0 + Len(x) = Len(x)
        /\ \A j \in 1..Len(x) : 0 + j = j
    BY <1>1
  <2>2. /\ SubSeq(b, 0 + 1, 0 + Len(x)) \in Seq(S)
        /\ Len(SubSeq(b, 0 + 1, 0 + Len(x))) = Len(x)
        /\ \A j \in 1..Len(x) : SubSeq(b, 0 + 1, 0 + Len(x))[j] = b[0 + j]
    BY <1>1, <2>1, Slice
  <2>3. /\ SubSeq(b, 1, Len(x)) \in Seq(S)
        /\ Len(SubSeq(b, 1, Len(x))) = Len(x)
        /\ \A j \in 1..Len(x) : SubSeq(b, 1, Len(x))[j] = x[j]
    BY <1>1, <2>1, <2>2
  <2> QED  BY <2>3, SeqEqual
<1> QED  BY <1>2, <1>3 DEF b

\* The first bytes of a body, and a head that another byte is put to.
LEMMA HeadBytes ==
    ASSUME NEW S, NEW x \in Seq(S), NEW y \in Seq(S)
    PROVE  /\ x \o y \in Seq(S) /\ Len(x \o y) \in Nat /\ Len(x \o y) >= Len(x)
           /\ Len(x \o y) = Len(x) + Len(y)
           /\ Len(x) >= 1 => (x \o y)[1] = x[1]
           /\ Len(x) >= 2 => (x \o y)[2] = x[2]
           /\ Len(x) >= 3 => (x \o y)[3] = x[3]
           /\ Len(x) >= 4 => (x \o y)[4] = x[4]
<1>1. /\ Len(x) \in Nat /\ Len(y) \in Nat
      /\ x \o y \in Seq(S) /\ Len(x \o y) = Len(x) + Len(y)
      /\ \A j \in 1..Len(x) : (x \o y)[j] = x[j]
  BY ConcatFacts
<1> QED  BY <1>1

LEMMA OneMore ==
    ASSUME NEW S, NEW x \in Seq(S), NEW e \in S
    PROVE  /\ x \o <<e>> \in Seq(S) /\ Len(x \o <<e>>) = Len(x) + 1
           /\ (x \o <<e>>)[Len(x) + 1] = e
           /\ Len(x) >= 1 => (x \o <<e>>)[1] = x[1]
           /\ Len(x) >= 2 => (x \o <<e>>)[2] = x[2]
<1>1. <<e>> \in Seq(S) /\ Len(<<e>>) = 1 /\ 1 \in 1..1 /\ <<e>>[1] = e
  OBVIOUS
<1>2. /\ x \o <<e>> \in Seq(S) /\ Len(x \o <<e>>) = Len(x) + Len(<<e>>)
      /\ \A j \in 1..Len(<<e>>) : (x \o <<e>>)[Len(x) + j] = <<e>>[j]
  BY <1>1, ConcatFacts
<1> QED  BY <1>1, <1>2, HeadBytes

\* What is between two places.
LEMMA Between ==
    ASSUME NEW S, NEW x \in Seq(S), NEW y \in Seq(S), NEW z \in Seq(S)
    PROVE  SubSeq(x \o (y \o z), Len(x) + 1, Len(x) + Len(y)) = y
<1>1. PICK c \in Seq(S) :
        /\ c = y \o z
        /\ Len(x) \in Nat /\ Len(y) \in Nat /\ Len(z) \in Nat
        /\ Len(c) = Len(y) + Len(z)
        /\ \A j \in 1..Len(y) : c[j] = y[j]
  <2>1. /\ y \o z \in Seq(S)
        /\ Len(x) \in Nat /\ Len(y) \in Nat /\ Len(z) \in Nat
        /\ Len(y \o z) = Len(y) + Len(z)
        /\ \A j \in 1..Len(y) : (y \o z)[j] = y[j]
    BY ConcatFacts
  <2> QED  BY <2>1, Zenon
<1> DEFINE b == x \o c
<1>2. /\ b \in Seq(S) /\ Len(b) = Len(x) + Len(c)
      /\ \A j \in 1..Len(c) : b[Len(x) + j] = c[j]
  BY ConcatFacts
<1> HIDE DEF b
<1>3. Len(x) + Len(y) <= Len(b) /\ \A j \in 1..Len(y) : j \in 1..Len(c)
  BY <1>1, <1>2
<1>4. /\ SubSeq(b, Len(x) + 1, Len(x) + Len(y)) \in Seq(S)
      /\ Len(SubSeq(b, Len(x) + 1, Len(x) + Len(y))) = Len(y)
      /\ \A j \in 1..Len(y) : SubSeq(b, Len(x) + 1, Len(x) + Len(y))[j] = b[Len(x) + j]
  BY <1>1, <1>2, <1>3, Slice
<1>5. \A j \in 1..Len(y) : SubSeq(b, Len(x) + 1, Len(x) + Len(y))[j] = y[j]
  BY <1>1, <1>2, <1>3, <1>4
<1>6. SubSeq(b, Len(x) + 1, Len(x) + Len(y)) = y
  BY <1>4, <1>5, SeqEqual
<1> QED  BY <1>1, <1>6 DEF b

\* get_u16 takes back what put_u16 did.
LEMMA U16Back ==
    ASSUME NEW n \in U16s
    PROVE  /\ U16(n) \in Seq(Bytes) /\ Len(U16(n)) = 2
           /\ \A b : b[1] = U16(n)[1] /\ b[2] = U16(n)[2] => GetU16(b) = n
<1>1. Byte \in Nat /\ Byte >= 16 /\ n \in Nat /\ n < Byte * Byte
  BY ByteFacts DEF U16s
<1> DEFINE q == n \div Byte
           r == n % Byte
<1>2. q \in Nat /\ r \in 0..(Byte - 1) /\ n = Byte * q + r
  <2>1. Byte \in Nat /\ Byte >= 1 /\ n \in Nat
    BY <1>1
  <2> QED  BY <2>1, DivMod
<1>3. U16(n) = <<q % Byte, r>>
  BY DEF U16
<1> HIDE DEF q, r
<1>4. q < Byte
  <2> SUFFICES ASSUME Byte <= q PROVE FALSE
    BY <1>1, <1>2
  <2>1. Byte * Byte <= Byte * q
    BY <1>1, <1>2, TimesMonotone
  <2>2. Byte * Byte \in Nat /\ Byte * q \in Nat
    BY <1>1, <1>2
  <2> DEFINE s == Byte * Byte
             t == Byte * q
  <2> HIDE DEF s, t
  <2>3. s <= t /\ s \in Nat /\ t \in Nat /\ n = t + r /\ n < s
    BY <1>1, <1>2, <2>1, <2>2 DEF s, t
  <2> QED  BY <1>2, <2>3
<1>5. q % Byte = q
  BY <1>1, <1>2, <1>4
<1>6. U16(n) = <<q, r>> /\ q \in Bytes /\ r \in Bytes
  BY <1>1, <1>2, <1>3, <1>4, <1>5, ByteFacts
<1>7. ASSUME NEW b, b[1] = q, b[2] = r PROVE GetU16(b) = n
  <2>1. GetU16(b) = q * Byte + r
    BY <1>7 DEF GetU16
  <2>2. q * Byte = Byte * q
    BY <1>1, <1>2
  <2> QED  BY <1>2, <2>1, <2>2
<1>8. U16(n)[1] = q /\ U16(n)[2] = r
  BY <1>6
<1> QED  BY <1>6, <1>7, <1>8

\* A body b of two parts, of three, and of four.
IsTwo(b, S, x, y) ==
    /\ b \in Seq(S)
    /\ Len(b) = Len(x) + Len(y)
    /\ \A j \in 1..Len(x) : b[j] = x[j]
    /\ SubSeq(b, 1, Len(x)) = x
    /\ Rest(b, Len(x)) = y
IsThree(b, S, x, y, z) ==
    /\ b \in Seq(S)
    /\ Len(b) = Len(x) + Len(y) + Len(z)
    /\ \A j \in 1..Len(x) : b[j] = x[j]
    /\ SubSeq(b, Len(x) + 1, Len(x) + Len(y)) = y
    /\ Rest(b, Len(x) + Len(y)) = z
IsFour(b, S, x, y, z, t) ==
    /\ b \in Seq(S)
    /\ Len(b) = Len(x) + Len(y) + Len(z) + Len(t)
    /\ \A j \in 1..Len(x) : b[j] = x[j]
    /\ SubSeq(b, Len(x) + 1, Len(x) + Len(y)) = y
    /\ Rest(b, Len(x) + Len(y)) = z \o t
    /\ Rest(b, Len(x) + Len(y) + Len(z)) = t

LEMMA TwoParts ==
    ASSUME NEW S, NEW x \in Seq(S), NEW y \in Seq(S)
    PROVE  IsTwo(x \o y, S, x, y)
<1>1. /\ x \o y \in Seq(S) /\ Len(x \o y) = Len(x) + Len(y)
      /\ \A j \in 1..Len(x) : (x \o y)[j] = x[j]
  BY ConcatFacts
<1>2. Rest(x \o y, Len(x)) = y /\ SubSeq(x \o y, 1, Len(x)) = x
  BY Behind
<1> QED  BY <1>1, <1>2, Zenon DEF IsTwo

LEMMA ThreeParts ==
    ASSUME NEW S, NEW x \in Seq(S), NEW y \in Seq(S), NEW z \in Seq(S)
    PROVE  IsThree((x \o y) \o z, S, x, y, z)
<1>1. Len(x) \in Nat /\ Len(y) \in Nat /\ Len(z) \in Nat
  OBVIOUS
<1>2. /\ x \o y \in Seq(S) /\ Len(x \o y) = Len(x) + Len(y)
      /\ \A j \in 1..Len(x) : (x \o y)[j] = x[j]
  BY ConcatFacts
<1>3. (x \o y) \o z = x \o (y \o z)
  BY Joined
<1>4. SubSeq((x \o y) \o z, Len(x) + 1, Len(x) + Len(y)) = y
  BY <1>3, Between
<1> DEFINE a == x \o y
<1> HIDE DEF a
<1>5. /\ a \o z \in Seq(S) /\ Len(a \o z) = Len(a) + Len(z)
      /\ \A j \in 1..Len(a) : (a \o z)[j] = a[j]
      /\ Rest(a \o z, Len(a)) = z
  <2>1. a \in Seq(S)
    BY <1>2 DEF a
  <2> QED  BY <2>1, ConcatFacts, Behind
<1>6. \A j \in 1..Len(x) : (a \o z)[j] = x[j]
  <2>1. \A j \in 1..Len(x) : j \in 1..Len(a) /\ a[j] = x[j]
    BY <1>1, <1>2 DEF a
  <2> QED  BY <1>5, <2>1
<1> QED  BY <1>2, <1>4, <1>5, <1>6 DEF a, IsThree

LEMMA FourParts ==
    ASSUME NEW S, NEW x \in Seq(S), NEW y \in Seq(S), NEW z \in Seq(S), NEW t \in Seq(S)
    PROVE  IsFour(((x \o y) \o z) \o t, S, x, y, z, t)
<1> DEFINE a == x \o y
           c == z \o t
<1>1. a \in Seq(S) /\ Len(a) = Len(x) + Len(y)
  BY ConcatFacts
<1>2. c \in Seq(S)
  BY ConcatFacts
<1>3. (a \o z) \o t = a \o c
  <2> HIDE DEF a
  <2>1. Regroups(a, z, t)
    BY <1>1, Regrouped, Zenon
  <2> QED  BY <2>1, Zenon DEF Regroups
<1> HIDE DEF c
<1>4. IsThree((x \o y) \o c, S, x, y, c)
  BY <1>2, ThreeParts
<1> HIDE DEF a
<1>5. IsThree((a \o z) \o t, S, a, z, t)
  BY <1>1, ThreeParts
<1> DEFINE b == (a \o z) \o t
<1>6. b = ((x \o y) \o z) \o t /\ b = (x \o y) \o c
  BY <1>3 DEF a
<1> HIDE DEF b
<1>7. /\ \A j \in 1..Len(x) : b[j] = x[j]
      /\ SubSeq(b, Len(x) + 1, Len(x) + Len(y)) = y
      /\ Rest(b, Len(x) + Len(y)) = c
  BY <1>4, <1>6 DEF IsThree
<1>8. /\ b \in Seq(S) /\ Len(b) = Len(a) + Len(z) + Len(t)
      /\ Rest(b, Len(a) + Len(z)) = t
  BY <1>5 DEF IsThree, b
<1>9. IsFour(b, S, x, y, z, t)
  BY <1>1, <1>7, <1>8 DEF IsFour, c
<1> QED  BY <1>6, <1>9

\* A head that begins with a u16.
LEMMA HeadOfU16 ==
    ASSUME NEW n \in U16s, NEW s \in Bytes, NEW l \in Bytes
    PROVE  /\ U16(n) \o <<s, l>> \in Seq(Bytes) /\ Len(U16(n) \o <<s, l>>) = 4
           /\ GetU16(U16(n) \o <<s, l>>) = n
           /\ (U16(n) \o <<s, l>>)[3] = s /\ (U16(n) \o <<s, l>>)[4] = l
<1> DEFINE u == U16(n)
           t == <<s, l>>
<1>1. /\ u \in Seq(Bytes) /\ Len(u) = 2
      /\ \A b : b[1] = u[1] /\ b[2] = u[2] => GetU16(b) = n
  BY U16Back
<1>2. t \in Seq(Bytes) /\ Len(t) = 2 /\ t[1] = s /\ t[2] = l
  OBVIOUS
<1> HIDE DEF u, t
<1>3. /\ u \o t \in Seq(Bytes) /\ Len(u \o t) = Len(u) + Len(t)
      /\ \A j \in 1..Len(u) : (u \o t)[j] = u[j]
      /\ \A j \in 1..Len(t) : (u \o t)[Len(u) + j] = t[j]
  BY <1>1, <1>2, ConcatFacts
<1>4. /\ Len(u \o t) = 4 /\ (u \o t)[1] = u[1] /\ (u \o t)[2] = u[2]
      /\ (u \o t)[3] = s /\ (u \o t)[4] = l
  BY <1>1, <1>2, <1>3
<1>5. GetU16(u \o t) = n
  BY <1>1, <1>4
<1> QED  BY <1>3, <1>4, <1>5 DEF u, t

-----------------------------------------------------------------------------
(* Messages without lists of items *)

NotificationLayout(b, m) ==
    /\ b \in Seq(Bytes) /\ m.data \in Seq(Bytes) /\ Len(b) = 2 + Len(m.data)
    /\ b[1] = m.error_code /\ b[2] = m.error_subcode
    /\ Rest(b, 2) = m.data

LEMMA NotificationBack ==
    ASSUME NEW m \in MessagesOf("Notification")
    PROVE  /\ ParseNotification(SerializeNotification(m)) = m
           /\ NotificationLayout(SerializeNotification(m), m)
<1>1. m \in [error_code : Bytes, error_subcode : Bytes, data : Seq(Bytes)]
  BY DEF MessagesOf
<1>2. PICK h \in Seq(Bytes) : /\ h = <<m.error_code, m.error_subcode>>
                              /\ Len(h) = 2
                              /\ h[1] = m.error_code /\ h[2] = m.error_subcode
  <2> DEFINE x == <<m.error_code, m.error_subcode>>
  <2>1. x \in Seq(Bytes) /\ Len(x) = 2 /\ x[1] = m.error_code /\ x[2] = m.error_subcode
    BY <1>1
  <2> QED  BY <2>1, Zenon
<1>3. PICK y \in Seq(Bytes) : y = m.data
  BY <1>1
<1> DEFINE b == h \o y
<1>4. b = SerializeNotification(m)
  BY <1>2, <1>3 DEF SerializeNotification
<1>5. IsTwo(b, Bytes, h, y)
  BY TwoParts, Zenon
<1> HIDE DEF b
<1>6. /\ Rest(b, 2) = y /\ b \in Seq(Bytes) /\ Len(b) = 2 + Len(y) /\ ~(Len(b) < 2)
      /\ b[1] = h[1] /\ b[2] = h[2]
  <2>1. /\ b \in Seq(Bytes) /\ Len(b) = Len(h) + Len(y) /\ Rest(b, Len(h)) = y
        /\ \A j \in 1..Len(h) : b[j] = h[j]
    BY <1>5, Zenon DEF IsTwo
  <2>2. Len(y) \in Nat /\ 1 \in 1..Len(h) /\ 2 \in 1..Len(h)
    BY <1>2
  <2>3. b[1] = h[1] /\ b[2] = h[2]
    BY <2>1, <2>2, Zenon
  <2>4. Len(b) = 2 + Len(y) /\ Rest(b, 2) = y
    BY <1>2, <2>1, Zenon
  <2> QED  BY <2>1, <2>2, <2>3, <2>4
<1>7. ParseNotification(b) = [error_code |-> m.error_code, error_subcode |-> m.error_subcode,
                              data |-> m.data]
  BY <1>2, <1>3, <1>6, Zenon DEF ParseNotification
<1>8. NotificationLayout(b, m)
  BY <1>2, <1>3, <1>6, Zenon DEF NotificationLayout
<1> QED  BY <1>1, <1>4, <1>7, <1>8

LEMMA RouteRefreshBack ==
    ASSUME NEW m \in MessagesOf("RouteRefresh")
    PROVE  /\ ParseRouteRefresh(SerializeRouteRefresh(m)) = m
           /\ SerializeRouteRefresh(m) \in Seq(Bytes)
           /\ Len(SerializeRouteRefresh(m)) = 4
<1> DEFINE h == U16(m.afi)
           b == h \o <<0, m.safi>>
<1>1. m \in [afi : U16s, safi : Bytes]
  BY DEF MessagesOf
<1>2. /\ h \in Seq(Bytes) /\ Len(h) = 2
      /\ \A x : x[1] = h[1] /\ x[2] = h[2] => GetU16(x) = m.afi
  BY <1>1, U16Back
<1>3. b = SerializeRouteRefresh(m)
  BY DEF SerializeRouteRefresh
<1> HIDE DEF h
<1>4. Len(b) = 4 /\ b[1] = h[1] /\ b[2] = h[2] /\ b[4] = m.safi
  BY <1>2
<1>7. b \in Seq(Bytes)
  <2>1. <<0, m.safi>> \in Seq(Bytes)
    BY <1>1, ByteFacts
  <2> QED  BY <1>2, <2>1, ConcatType, Zenon
<1> HIDE DEF b
<1>5. GetU16(b) = m.afi
  BY <1>2, <1>4
<1>6. ParseRouteRefresh(b) = [afi |-> m.afi, safi |-> m.safi]
  BY <1>4, <1>5 DEF ParseRouteRefresh
<1> QED  BY <1>1, <1>3, <1>4, <1>6, <1>7

\* The prefixes of either family.
LEMMA PrefixesOfFamily ==
    ASSUME NEW afi \in Afi, NEW ps \in Seq(PrefixesOf(AddressLen(afi)))
    PROVE  /\ AddressLen(afi) \in Nat \ {0}
           /\ ParsePrefixes(SerializePrefixes(ps), AddressLen(afi)) = ps
           /\ SerializePrefixes(ps) \in Seq(Bytes)
           /\ ps \notin {Err, Panic}
<1>1. AddressLen(afi) \in {Word, LongWord} /\ AddressLen(afi) \in Nat \ {0}
  BY OctetsAssumption DEF AddressLen
<1>2. /\ Err \notin Seq(Seq(Bytes)) /\ Panic \notin Seq(Seq(Bytes))
      /\ Err \notin Seq(PrefixesOf(AddressLen(afi)))
      /\ Panic \notin Seq(PrefixesOf(AddressLen(afi)))
  BY <1>1, CodecsAssumption
<1> QED  BY <1>1, <1>2, PrefixesBack

LEMMA AfiIsU16 == Afi \subseteq U16s /\ Safi \subseteq Bytes
<1>1. Byte \in Nat /\ Byte >= 16
  BY ByteFacts
<1>2. Byte * Byte >= Byte /\ Byte * Byte \in Nat
  BY <1>1
<1> QED  BY <1>1, <1>2 DEF Afi, Safi, U16s, Bytes

MpUnreachLayout(b, m, ps) ==
    /\ b \in Seq(Bytes) /\ ps \in Seq(Bytes) /\ Len(b) = 3 + Len(ps)
    /\ GetU16(b) = m.afi /\ b[3] = m.safi
    /\ Rest(b, 3) = ps

LEMMA MpUnreachBack ==
    ASSUME NEW m \in MpUnreaches
    PROVE  /\ ParseMpUnreach(SerializeMpUnreach(m)) = m
           /\ MpUnreachLayout(SerializeMpUnreach(m), m, SerializePrefixes(m.withdrawn))
<1>1. /\ m = [afi |-> m.afi, safi |-> m.safi, withdrawn |-> m.withdrawn]
      /\ m.afi \in Afi /\ m.safi \in Safi
      /\ m.withdrawn \in Seq(PrefixesOf(AddressLen(m.afi)))
  BY DEF MpUnreaches
<1>2. PICK ps \in Seq(Bytes) :
        /\ ps = SerializePrefixes(m.withdrawn) /\ m.withdrawn \notin {Err, Panic}
        /\ ParsePrefixes(ps, AddressLen(m.afi)) = m.withdrawn
  BY <1>1, PrefixesOfFamily
<1>3. PICK u \in Seq(Bytes) :
        /\ u = U16(m.afi) /\ Len(u) = 2
        /\ \A x : x[1] = u[1] /\ x[2] = u[2] => GetU16(x) = m.afi
  <2>1. m.afi \in U16s
    BY <1>1, AfiIsU16
  <2> QED  BY <2>1, U16Back
<1>4. PICK s \in Bytes : s = m.safi
  BY <1>1, AfiIsU16
<1>5. PICK h \in Seq(Bytes) : /\ h = u \o <<s>> /\ Len(h) = 3
                              /\ h[1] = u[1] /\ h[2] = u[2] /\ h[3] = s
  <2>1. /\ u \o <<s>> \in Seq(Bytes) /\ Len(u \o <<s>>) = 3
        /\ (u \o <<s>>)[1] = u[1] /\ (u \o <<s>>)[2] = u[2] /\ (u \o <<s>>)[3] = s
    BY <1>3, OneMore
  <2> QED  BY <2>1
<1> DEFINE b  == h \o ps
<1>6. b = SerializeMpUnreach(m)
  BY <1>2, <1>3, <1>4, <1>5 DEF SerializeMpUnreach
<1>7. IsTwo(b, Bytes, h, ps)
  BY TwoParts, Zenon
<1> HIDE DEF b
<1>8. /\ Len(b) \in Nat /\ Len(b) >= 3
      /\ b[1] = h[1] /\ b[2] = h[2] /\ b[3] = h[3]
  <2>1. Len(b) = Len(h) + Len(ps) /\ \A j \in 1..Len(h) : b[j] = h[j]
    BY <1>7, Zenon DEF IsTwo
  <2>2. Len(ps) \in Nat /\ 1 \in 1..Len(h) /\ 2 \in 1..Len(h) /\ 3 \in 1..Len(h)
    BY <1>5
  <2>3. b[1] = h[1] /\ b[2] = h[2] /\ b[3] = h[3]
    BY <2>1, <2>2, Zenon
  <2> QED  BY <1>5, <2>1, <2>2, <2>3
<1>9. Rest(b, 3) = ps
  BY <1>5, <1>7, Zenon DEF IsTwo
<1>10. GetU16(b) = m.afi /\ b[3] = m.safi
  BY <1>3, <1>4, <1>5, <1>8
<1>11. ParseMpUnreach(b) = [afi |-> m.afi, safi |-> m.safi, withdrawn |-> m.withdrawn]
  <2>1. ~(Len(b) < 3 \/ GetU16(b) \notin Afi \/ b[3] \notin Safi)
    BY <1>1, <1>8, <1>10
  <2>2. ParsePrefixes(Rest(b, 3), AddressLen(GetU16(b))) = m.withdrawn
    BY <1>2, <1>9, <1>10
  <2> QED  BY <1>2, <1>10, <2>1, <2>2 DEF ParseMpUnreach, Try
<1>12. MpUnreachLayout(b, m, ps)
  <2>1. b \in Seq(Bytes) /\ Len(b) = Len(h) + Len(ps)
    BY <1>7, Zenon DEF IsTwo
  <2> QED  BY <1>5, <1>9, <1>10, <2>1, Zenon DEF MpUnreachLayout
<1> QED  BY <1>1, <1>2, <1>6, <1>11, <1>12, Zenon

\* Addresses that are written one after the other are read back.
LEMMA ItemsBack ==
    ASSUME NEW w \in Nat \ {0}, NEW s \in Seq(AddressesOf(w))
    PROVE  /\ FlattenSeq(s) \in Seq(Bytes)
           /\ Len(FlattenSeq(s)) = Len(s) * w
           /\ Items(FlattenSeq(s), w) = s
<1>1. /\ s \in Seq(Seq(Bytes)) /\ Len(s) \in Nat
      /\ \A i \in 1..Len(s) : s[i] \in Seq(Bytes) /\ Len(s[i]) = w
  <2>1. \A x \in AddressesOf(w) : x \in Seq(Bytes) /\ Len(x) = w
    BY DEF AddressesOf
  <2>2. AddressesOf(w) \subseteq Seq(Bytes)
    BY <2>1
  <2>3. s \in Seq(Seq(Bytes))
    BY <2>2, SeqMonotonic
  <2> QED  BY <2>1, <2>3
<1>2. PICK v \in Seq(Bytes) : v = FlattenSeq(s)
  BY <1>1, FlattenType
<1>3. PICK off : Offsets(off, s, v)
  BY <1>1, <1>2, FlattenOffsets
<1> DEFINE n == Len(s)
<1> HIDE DEF n
<1>4. n \in Nat /\ Len(v) \in Nat /\ w \in Nat /\ w >= 1
  BY <1>1, <1>2 DEF n
<1>5. /\ off \in [0..n -> 0..Len(v)] /\ off[0] = 0 /\ off[n] = Len(v)
      /\ \A i \in 1..n : /\ off[i] = off[i - 1] + w
                         /\ \A j \in 1..w : v[off[i - 1] + j] = s[i][j]
  BY <1>1, <1>3 DEF Offsets, n
<1>6. \A i \in 0..n : off[i] = i * w
  <2> DEFINE T == {i \in Nat : i <= n => off[i] = i * w}
  <2>1. 0 \in T
    BY <1>4, <1>5
  <2>2. ASSUME NEW i \in Nat, i \in T PROVE i + 1 \in T
    <3> SUFFICES ASSUME i + 1 <= n PROVE off[i + 1] = (i + 1) * w
      OBVIOUS
    <3>1. i + 1 \in 1..n /\ (i + 1) - 1 = i /\ i <= n
      BY <1>4
    <3>2. off[i + 1] = off[i] + w
      BY <1>5, <3>1
    <3>3. off[i] = i * w
      BY <2>2, <3>1
    <3>4. (i + 1) * w = i * w + w
      BY <1>4
    <3> QED  BY <3>2, <3>3, <3>4
  <2> HIDE DEF T
  <2>3. \A i \in Nat : i \in T
    BY <2>1, <2>2, SetInduction
  <2>4. \A i \in 0..n : i \in Nat /\ i <= n
    BY <1>4
  <2> QED  BY <2>3, <2>4 DEF T
<1>7. Len(v) = n * w
  <2>1. n \in 0..n
    BY <1>4
  <2> QED  BY <1>5, <1>6, <2>1
<1>8. Len(v) \div w = n
  <2>1. w * n = Len(v) /\ Len(v) < w * n + w
    <3>1. w * n = n * w /\ w * n \in Nat
      BY <1>4
    <3> DEFINE t == w * n
    <3> HIDE DEF t
    <3>2. t = Len(v) /\ t \in Nat
      BY <1>7, <3>1 DEF t
    <3>3. Len(v) < t + w
      BY <1>4, <3>2
    <3> QED  BY <3>2, <3>3 DEF t
  <2>2. w * n <= Len(v)
    BY <1>4, <2>1
  <2>3. n \in Int
    BY <1>4
  <2> QED  BY <1>4, <2>1, <2>2, <2>3, DivUnique
<1>9. ASSUME NEW i \in 1..n PROVE SubSeq(v, (i - 1) * w + 1, i * w) = s[i]
  <2>1. i - 1 \in 0..n /\ i \in 0..n
    BY <1>4
  <2>2. /\ (i - 1) * w = off[i - 1] /\ i * w = off[i - 1] + w
        /\ off[i - 1] \in 0..Len(v) /\ off[i - 1] + w <= Len(v)
    <3>1. off[i] \in 0..Len(v) /\ off[i - 1] \in 0..Len(v)
      BY <1>5, <2>1
    <3>2. off[i] = off[i - 1] + w /\ off[i] = i * w /\ off[i - 1] = (i - 1) * w
      BY <1>5, <1>6, <2>1
    <3> QED  BY <1>4, <3>1, <3>2
  <2>3. PICK p \in Nat : p = off[i - 1]
    BY <2>2
  <2>4. /\ SubSeq(v, p + 1, p + w) \in Seq(Bytes)
        /\ Len(SubSeq(v, p + 1, p + w)) = w
        /\ \A j \in 1..w : SubSeq(v, p + 1, p + w)[j] = v[p + j]
    <3>1. p + w <= Len(v) /\ w \in Nat
      BY <1>4, <2>2, <2>3
    <3> QED  BY <3>1, Slice
  <2>5. s[i] \in Seq(Bytes) /\ Len(s[i]) = w
    BY <1>1 DEF n
  <2>6. \A j \in 1..w : SubSeq(v, p + 1, p + w)[j] = s[i][j]
    BY <1>5, <2>3, <2>4
  <2>7. SubSeq(v, p + 1, p + w) = s[i]
    BY <2>4, <2>5, <2>6, SeqEqual
  <2> QED  BY <2>2, <2>3, <2>7
<1>10. Items(v, w) = s
  <2>1. Items(v, w) = [i \in 1..n |-> s[i]]
    BY <1>8, <1>9 DEF Items
  <2> QED  BY <1>1, <2>1 DEF n
<1> QED  BY <1>2, <1>7, <1>10 DEF n

MpReachLayout(b, m, hops, ps) ==
    /\ b \in Seq(Bytes) /\ ps \in Seq(Bytes) /\ Len(hops) \in Nat
    /\ Len(b) = 5 + Len(hops) + Len(ps)
    /\ GetU16(b) = m.afi /\ b[3] = m.safi /\ b[4] = Len(hops)
    /\ SubSeq(b, 5, 4 + Len(hops)) = hops /\ Items(hops, AddressLen(m.afi)) = m.next_hops
    /\ Rest(b, 5 + Len(hops)) = ps

LEMMA MpReachBack ==
    ASSUME NEW m \in MpReaches
    PROVE  /\ ParseMpReach(SerializeMpReach(m)) = m
           /\ MpReachLayout(SerializeMpReach(m), m, FlattenSeq(m.next_hops),
                            SerializePrefixes(m.nlri))
<1> DEFINE ps   == SerializePrefixes(m.nlri)
           hops == FlattenSeq(m.next_hops)
           h    == U16(m.afi) \o <<m.safi, Len(hops) % Byte>>
           b    == ((h \o hops) \o <<0>>) \o ps
<1>1. /\ m = [afi |-> m.afi, safi |-> m.safi, next_hops |-> m.next_hops, nlri |-> m.nlri]
      /\ m.afi \in Afi /\ m.safi \in Safi
      /\ m.next_hops \in Seq(AddressesOf(AddressLen(m.afi)))
      /\ Len(hops) < Byte
      /\ m.nlri \in Seq(PrefixesOf(AddressLen(m.afi)))
  BY DEF MpReaches
<1>2. /\ ps \in Seq(Bytes) /\ m.nlri \notin {Err, Panic}
      /\ ParsePrefixes(ps, AddressLen(m.afi)) = m.nlri
      /\ AddressLen(m.afi) \in Nat \ {0}
  BY <1>1, PrefixesOfFamily
<1>3. hops \in Seq(Bytes) /\ Items(hops, AddressLen(m.afi)) = m.next_hops
  BY <1>1, <1>2, ItemsBack
<1>4. b = SerializeMpReach(m)
  BY DEF SerializeMpReach
<1> HIDE DEF ps, hops
<1>5. /\ h \in Seq(Bytes) /\ Len(h) = 4
      /\ GetU16(h) = m.afi /\ h[3] = m.safi /\ h[4] = Len(hops)
  <2>1. /\ m.safi \in Bytes /\ m.afi \in U16s
        /\ Len(hops) % Byte \in Bytes /\ Len(hops) % Byte = Len(hops)
    <3>1. Len(hops) \in Nat /\ Len(hops) < Byte /\ Byte \in Nat
      BY <1>1, <1>3, ByteFacts
    <3>2. Len(hops) % Byte = Len(hops)
      BY <3>1
    <3> QED  BY <1>1, <3>1, <3>2, ByteFacts, AfiIsU16
  <2> QED  BY <2>1, HeadOfU16
<1> HIDE DEF h
<1>6. <<0>> \in Seq(Bytes) /\ Len(<<0>>) = 1
  <2>1. 0 \in Bytes
    BY ByteFacts
  <2> QED  BY <2>1
<1>7. /\ b \in Seq(Bytes) /\ Len(b) = Len(h) + Len(hops) + Len(<<0>>) + Len(ps)
      /\ \A j \in 1..Len(h) : b[j] = h[j]
      /\ SubSeq(b, Len(h) + 1, Len(h) + Len(hops)) = hops
      /\ Rest(b, Len(h) + Len(hops) + Len(<<0>>)) = ps
  <2> DEFINE z == <<0>>
  <2> HIDE DEF z
  <2>1. z \in Seq(Bytes)
    BY <1>6 DEF z
  <2>2. IsFour(((h \o hops) \o z) \o ps, Bytes, h, hops, z, ps)
    BY <1>2, <1>3, <1>5, <2>1, FourParts
  <2>3. b = ((h \o hops) \o z) \o ps
    BY DEF z
  <2> HIDE DEF b
  <2> QED  BY <2>2, <2>3 DEF IsFour, z
<1> HIDE DEF b
<1>8. Len(hops) \in Nat /\ Len(ps) \in Nat
  BY <1>2, <1>3
<1>9. GetU16(b) = m.afi /\ b[3] = m.safi /\ b[4] = Len(hops)
  <2>1. b[1] = h[1] /\ b[2] = h[2] /\ b[3] = h[3] /\ b[4] = h[4]
    BY <1>5, <1>7
  <2> QED  BY <1>5, <2>1 DEF GetU16
<1>10. /\ Len(b) \in Nat /\ Len(b) > 4 + Len(hops) /\ 4 + 1 = 5
       /\ Len(h) + Len(hops) + Len(<<0>>) = 5 + Len(hops)
  BY <1>5, <1>6, <1>7, <1>8
<1>11. ParseMpReach(b) = [afi |-> m.afi, safi |-> m.safi, next_hops |-> m.next_hops,
                          nlri |-> m.nlri]
  <2>1. /\ ~(\/ Len(b) < 4 \/ GetU16(b) \notin Afi \/ b[3] \notin Safi
             \/ Len(b) < 4 + b[4])
        /\ Len(b) # 4 + b[4]
    BY <1>1, <1>8, <1>9, <1>10
  <2>2. ParsePrefixes(Rest(b, 5 + b[4]), AddressLen(GetU16(b))) = m.nlri
    BY <1>2, <1>7, <1>9, <1>10
  <2>3. Items(SubSeq(b, 5, 4 + b[4]), AddressLen(GetU16(b))) = m.next_hops
    BY <1>3, <1>5, <1>7, <1>9, <1>10
  <2> QED  BY <1>2, <1>9, <2>1, <2>2, <2>3 DEF ParseMpReach, Try
<1>12. MpReachLayout(b, m, hops, ps)
  <2>1. Len(b) = 5 + Len(hops) + Len(ps)
    BY <1>7, <1>8, <1>10
  <2>2. SubSeq(b, 5, 4 + Len(hops)) = hops /\ Rest(b, 5 + Len(hops)) = ps
    BY <1>5, <1>7, <1>10
  <2> QED  BY <1>2, <1>3, <1>7, <1>8, <1>9, <2>1, <2>2, Zenon DEF MpReachLayout
<1> QED  BY <1>1, <1>4, <1>11, <1>12 DEF hops, ps

-----------------------------------------------------------------------------
(* Optional parameters of an OPEN *)

ParamSize(b) == [p \in 0..Len(b) |-> 2 + Rest(b, p)[2]]

LEMMA ParamMoves ==
    ASSUME NEW b \in Seq(Bytes)
    PROVE  Moves(b, 2, ParamSize(b), ParamSize(b))
<1> SUFFICES ASSUME NEW p \in 0..Len(b), Len(b) - p >= 2
             PROVE  ParamSize(b)[p] \in Nat /\ ParamSize(b)[p] \in 1..ParamSize(b)[p]
  BY DEF Moves
<1>1. 2 \in 1..(Len(b) - p)
  OBVIOUS
<1>2. Rest(b, p)[2] \in Nat
  BY <1>1, RestByte
<1> QED  BY <1>2 DEF ParamSize

LEMMA ParamCut ==
    ASSUME NEW b \in Seq(Bytes)
    PROVE  \E f : IsCut(f, b, 2, ParamSize(b), ParamSize(b)) /\ CutParams(b) = f[0]
<1> DEFINE Sz(r) == 2 + r[2]
           Eq(f) == f = [p \in 0..Len(b) |->
                      IF Len(Rest(b, p)) < 2 THEN <<>>
                      ELSE IF Len(Rest(b, p)) < Sz(Rest(b, p)) THEN Err
                      ELSE IF f[p + Sz(Rest(b, p))] \in {Err, Panic}
                           THEN f[p + Sz(Rest(b, p))]
                      ELSE << SubSeq(Rest(b, p), 1, Sz(Rest(b, p))) >>
                             \o f[p + Sz(Rest(b, p))]]
           f == CHOOSE g : Eq(g)
<1>1. CutParams(b) = f[0]
  BY DEF CutParams, Cut, Try
<1>2. \A g : Eq(g) <=> IsCutOfRests(g, b, 2, ParamSize(b), ParamSize(b))
  BY DEF IsCutOfRests, ParamSize
<1> HIDE DEF Eq
<1>3. \A g : Eq(g) <=> IsCut(g, b, 2, ParamSize(b), ParamSize(b))
  BY <1>2, ParamMoves, CutOfRests
<1>4. \E g : Eq(g)
  BY <1>3, ParamMoves, CutExists
<1>5. Eq(f)
  BY <1>4
<1> HIDE DEF f
<1> QED  BY <1>1, <1>3, <1>5

\* A parameter as it is written.
LEMMA ParamBack ==
    ASSUME NEW q \in OptionalParams, Len(q.value) < Byte
    PROVE  /\ ParamBytes(q) \in Seq(Bytes)
           /\ Len(ParamBytes(q)) = 2 + Len(q.value) /\ Len(q.value) \in Nat
           /\ ParamBytes(q)[1] = q.param_type
           /\ ParamBytes(q)[2] = Len(q.value)
           /\ Rest(ParamBytes(q), 2) = q.value
<1> DEFINE t == q.param_type
           v == q.value
           h == <<t, Len(v) % Byte>>
           b == h \o v
<1>1. t \in Bytes /\ v \in Seq(Bytes) /\ Len(v) < Byte
  BY DEF OptionalParams
<1>2. b = ParamBytes(q)
  BY DEF ParamBytes
<1> HIDE DEF t, v
<1>3. Len(v) \in Nat /\ Byte \in Nat
  BY <1>1, ByteFacts
<1>4. Len(v) % Byte = Len(v) /\ Len(v) \in Bytes
  BY <1>1, <1>3, ByteFacts
<1>5. h \in Seq(Bytes) /\ Len(h) = 2 /\ h[1] = t /\ h[2] = Len(v)
  BY <1>1, <1>4
<1> HIDE DEF h
<1>6. IsTwo(b, Bytes, h, v)
  BY <1>1, <1>5, TwoParts
<1> HIDE DEF b
<1>7. /\ b \in Seq(Bytes) /\ Len(b) = 2 + Len(v) /\ b[1] = h[1] /\ b[2] = h[2]
      /\ Rest(b, 2) = v
  BY <1>5, <1>6 DEF IsTwo
<1> QED  BY <1>2, <1>3, <1>5, <1>7 DEF t, v

\* Parameters are cut out where they were put.
LEMMA ParamsBack ==
    ASSUME NEW ps \in Seq(OptionalParams),
           \A i \in DOMAIN ps : Len(ps[i].value) < Byte
    PROVE  /\ ParamsBytes(ps) \in Seq(Bytes)
           /\ CutParams(ParamsBytes(ps)) = [i \in DOMAIN ps |-> ParamBytes(ps[i])]
           /\ CutParams(ParamsBytes(ps)) \in Seq(Seq(Bytes))
<1> DEFINE items == [i \in DOMAIN ps |-> ParamBytes(ps[i])]
           b == ParamsBytes(ps)
<1>1. /\ DOMAIN ps = 1..Len(ps) /\ Len(ps) \in Nat
      /\ \A i \in 1..Len(ps) : ps[i] \in OptionalParams /\ Len(ps[i].value) < Byte
  OBVIOUS
<1>2. \A i \in 1..Len(ps) :
         /\ ParamBytes(ps[i]) \in Seq(Bytes)
         /\ Len(ParamBytes(ps[i])) = 2 + Len(ps[i].value)
         /\ ParamBytes(ps[i])[2] = Len(ps[i].value)
         /\ Len(ps[i].value) \in Nat
  BY <1>1, ParamBack
<1>3. /\ items \in Seq(Seq(Bytes)) /\ Len(items) = Len(ps)
      /\ \A i \in 1..Len(ps) : items[i] = ParamBytes(ps[i])
  BY <1>1, <1>2
<1>4. b = FlattenSeq(items) /\ b \in Seq(Bytes)
  BY <1>3, FlattenType DEF ParamsBytes
<1> HIDE DEF items, b
<1>5. PICK f : IsCut(f, b, 2, ParamSize(b), ParamSize(b)) /\ CutParams(b) = f[0]
  BY <1>4, ParamCut
<1>6. ASSUME NEW i \in 1..Len(items), NEW p \in 0..Len(b), At(b, p, items[i])
      PROVE  ParamSize(b)[p] = Len(items[i]) /\ Len(items[i]) >= 2
  <2> DEFINE x == items[i]
             n == Len(ps[i].value)
  <2>1. x \in Seq(Bytes) /\ Len(x) = 2 + n /\ x[2] = n /\ n \in Nat
    BY <1>2, <1>3
  <2>2. p + Len(x) <= Len(b) /\ \A j \in 1..Len(x) : b[p + j] = x[j]
    BY <1>6 DEF At
  <2> HIDE DEF x, n
  <2>3. 2 \in 1..Len(x) /\ 2 \in 1..(Len(b) - p)
    BY <1>4, <2>1, <2>2
  <2>4. Rest(b, p)[2] = b[p + 2]
    BY <1>4, <2>3, RestByte
  <2>5. Rest(b, p)[2] = n
    BY <2>1, <2>2, <2>3, <2>4
  <2> QED  BY <2>1, <2>5 DEF ParamSize, x
<1>7. f[0] = items
  <2>1. Err \notin Seq(Seq(Bytes)) /\ Panic \notin Seq(Seq(Bytes))
    BY CodecsAssumption
  <2>2. ReadRight(b, items, 2, ParamSize(b), ParamSize(b))
    BY <1>6 DEF ReadRight
  <2>3. /\ items \in Seq(Seq(Bytes)) /\ b = FlattenSeq(items)
        /\ IsCut(f, b, 2, ParamSize(b), ParamSize(b)) /\ 2 \in Nat \ {0}
    BY <1>3, <1>4, <1>5
  <2> QED  BY <2>1, <2>2, <2>3, CutCollects, Zenon
<1> QED  BY <1>3, <1>4, <1>5, <1>7 DEF items, b

\* The bytes of one item are no more than those of all.
LEMMA ItemShorter ==
    ASSUME NEW S, NEW s \in Seq(Seq(S)), NEW i \in 1..Len(s)
    PROVE  Len(s[i]) <= Len(FlattenSeq(s))
<1>1. PICK off : Offsets(off, s, FlattenSeq(s))
  BY FlattenOffsets
<1>2. /\ off[i] = off[i - 1] + Len(s[i])
      /\ off[i] \in 0..Len(FlattenSeq(s)) /\ off[i - 1] \in 0..Len(FlattenSeq(s))
  <2>1. i \in 0..Len(s) /\ i - 1 \in 0..Len(s)
    OBVIOUS
  <2> QED  BY <1>1, <2>1 DEF Offsets
<1>3. Len(s[i]) \in Nat /\ Len(FlattenSeq(s)) \in Nat
  BY FlattenType
<1> QED  BY <1>2, <1>3

\* The five bytes in front of the identifier.
LEMMA OpenHead ==
    ASSUME NEW v \in Bytes, NEW x \in U16s, NEW y \in U16s
    PROVE  LET h == (<<v>> \o U16(x)) \o U16(y)
           IN  /\ h \in Seq(Bytes) /\ Len(h) = 5 /\ h[1] = v
               /\ \A b : h[2] = b[1] /\ h[3] = b[2] => GetU16(b) = x
               /\ \A b : h[4] = b[1] /\ h[5] = b[2] => GetU16(b) = y
<1> DEFINE z == <<v>>
           p == U16(x)
           q == U16(y)
           h == (z \o p) \o q
<1>1. z \in Seq(Bytes) /\ Len(z) = 1 /\ z[1] = v
  OBVIOUS
<1>2. /\ p \in Seq(Bytes) /\ Len(p) = 2
      /\ \A b : b[1] = p[1] /\ b[2] = p[2] => GetU16(b) = x
  BY U16Back
<1>3. /\ q \in Seq(Bytes) /\ Len(q) = 2
      /\ \A b : b[1] = q[1] /\ b[2] = q[2] => GetU16(b) = y
  BY U16Back
<1> HIDE DEF z, p, q
<1>4. IsThree(h, Bytes, z, p, q)
  BY <1>1, <1>2, <1>3, ThreeParts
<1> HIDE DEF h
<1>5. /\ h \in Seq(Bytes) /\ Len(h) = 5 /\ h[1] = v
      /\ SubSeq(h, 1 + 1, 1 + 2) = p /\ Rest(h, 3) = q
  BY <1>1, <1>2, <1>3, <1>4 DEF IsThree
<1>6. p[1] = h[2] /\ p[2] = h[3]
  <2>1. 1 + 2 <= Len(h) /\ 1 \in Nat /\ 2 \in Nat
    BY <1>5
  <2>2. \A j \in 1..2 : SubSeq(h, 1 + 1, 1 + 2)[j] = h[1 + j]
    BY <1>5, <2>1, Slice
  <2> QED  BY <1>5, <2>2
<1>7. q[1] = h[4] /\ q[2] = h[5]
  <2>1. 3 \in 0..Len(h) /\ Len(h) - 3 = 2
    BY <1>5
  <2>2. \A j \in 1..2 : Rest(h, 3)[j] = h[3 + j]
    BY <1>5, <2>1, RestFacts
  <2> QED  BY <1>5, <2>2
<1>8. /\ \A b : h[2] = b[1] /\ h[3] = b[2] => GetU16(b) = x
      /\ \A b : h[4] = b[1] /\ h[5] = b[2] => GetU16(b) = y
  BY <1>2, <1>3, <1>6, <1>7
<1> QED  BY <1>5, <1>8 DEF h, z, p, q

\* Two bytes of a body.
LEMMA TwoBytes ==
    ASSUME NEW b \in Seq(Bytes), NEW p \in Nat, p + 2 <= Len(b)
    PROVE  /\ SubSeq(b, p + 1, p + 2)[1] = b[p + 1]
           /\ SubSeq(b, p + 1, p + 2)[2] = b[p + 2]
<1>1. \A j \in 1..2 : SubSeq(b, p + 1, p + 2)[j] = b[p + j]
  BY Slice
<1> QED  BY <1>1

\* Parameters that fit together fit one by one: a value of Byte bytes or more
\* is longer than the length field tells.
LEMMA ParamsShort ==
    ASSUME NEW ps \in Seq(OptionalParams), Len(ParamsBytes(ps)) < Byte
    PROVE  \A i \in DOMAIN ps : Len(ps[i].value) < Byte
<1> DEFINE items == [i \in DOMAIN ps |-> ParamBytes(ps[i])]
<1>1. /\ DOMAIN ps = 1..Len(ps) /\ Len(ps) \in Nat
      /\ \A i \in 1..Len(ps) : ps[i] \in OptionalParams
  OBVIOUS
<1>2. ASSUME NEW q \in OptionalParams
      PROVE  ParamBytes(q) \in Seq(Bytes) /\ Len(ParamBytes(q)) = 2 + Len(q.value)
  <2> DEFINE v == q.value
             h == <<q.param_type, Len(v) % Byte>>
  <2>1. q.param_type \in Bytes /\ v \in Seq(Bytes)
    BY DEF OptionalParams
  <2>2. Len(v) % Byte \in Bytes
    <3>1. Len(v) \in Nat /\ Byte \in Nat /\ Byte >= 1
      BY <2>1, ByteFacts
    <3> DEFINE n == Len(v)
    <3> HIDE DEF n
    <3>2. n % Byte \in 0..(Byte - 1)
      BY <3>1, DivMod DEF n
    <3> QED  BY <3>2 DEF Bytes, n
  <2>3. h \in Seq(Bytes) /\ Len(h) = 2
    BY <2>1, <2>2
  <2>4. ParamBytes(q) = h \o v
    BY DEF ParamBytes
  <2> HIDE DEF h, v
  <2>5. IsTwo(h \o v, Bytes, h, v)
    BY <2>1, <2>3, TwoParts
  <2> QED  BY <2>3, <2>4, <2>5 DEF IsTwo, v
<1>3. /\ items \in Seq(Seq(Bytes)) /\ Len(items) = Len(ps)
      /\ \A i \in 1..Len(ps) : items[i] = ParamBytes(ps[i])
  BY <1>1, <1>2
<1>4. Len(FlattenSeq(items)) < Byte
  BY DEF ParamsBytes
<1> HIDE DEF items
<1>5. ASSUME NEW i \in 1..Len(ps) PROVE Len(ps[i].value) < Byte
  <2>1. Len(items[i]) <= Len(FlattenSeq(items))
    BY <1>3, ItemShorter
  <2>2. Len(items[i]) = 2 + Len(ps[i].value) /\ Len(ps[i].value) \in Nat
    BY <1>1, <1>2, <1>3 DEF OptionalParams
  <2>3. Len(FlattenSeq(items)) \in Nat /\ Byte \in Nat
    BY <1>3, FlattenType, ByteFacts
  <2> QED  BY <1>4, <2>1, <2>2, <2>3
<1> QED  BY <1>1, <1>5

OpenLayout(b) ==
    b \in Seq(Bytes) /\ b[6 + Word] \in Nat /\ Len(b) = 6 + Word + b[6 + Word]

LEMMA OpenBack ==
    ASSUME NEW m \in Opens
    PROVE  ParseOpen(SerializeOpen(m)) = m /\ OpenLayout(SerializeOpen(m))
<1> DEFINE h  == (<<m.version>> \o U16(m.my_as)) \o U16(m.hold_time)
           id == m.bgp_id
           ps == m.optional_params
           t  == ParamsBytes(ps)
           l  == <<Len(t) % Byte>>
           b  == ((h \o id) \o l) \o t
           fixed == 6 + Word
<1>1. /\ m = [version |-> m.version, my_as |-> m.my_as, hold_time |-> m.hold_time,
              bgp_id |-> id, optional_params |-> ps]
      /\ m.version \in Bytes /\ m.my_as \in U16s /\ m.hold_time \in U16s
      /\ id \in AddressesOf(Word) /\ ps \in Seq(OptionalParams) /\ Len(t) < Byte
  BY DEF Opens
<1>2. b = SerializeOpen(m)
  BY DEF SerializeOpen
<1>3. id \in Seq(Bytes) /\ Len(id) = Word /\ Word \in Nat
  BY <1>1, OctetsAssumption DEF AddressesOf
<1>4. /\ h \in Seq(Bytes) /\ Len(h) = 5 /\ h[1] = m.version
      /\ \A x : h[2] = x[1] /\ h[3] = x[2] => GetU16(x) = m.my_as
      /\ \A x : h[4] = x[1] /\ h[5] = x[2] => GetU16(x) = m.hold_time
  BY <1>1, OpenHead
<1> HIDE DEF h, id, ps
<1>5. \A i \in DOMAIN ps : Len(ps[i].value) < Byte
  BY <1>1, ParamsShort
<1>6. /\ t \in Seq(Bytes) /\ CutParams(t) = [i \in DOMAIN ps |-> ParamBytes(ps[i])]
      /\ CutParams(t) \notin {Err, Panic}
  <2>1. /\ t \in Seq(Bytes) /\ CutParams(t) = [i \in DOMAIN ps |-> ParamBytes(ps[i])]
        /\ CutParams(t) \in Seq(Seq(Bytes))
    BY <1>1, <1>5, ParamsBack
  <2> QED  BY <2>1, CodecsAssumption
<1> HIDE DEF t
<1>7. l \in Seq(Bytes) /\ Len(l) = 1 /\ l[1] = Len(t) /\ Len(t) \in Nat
  <2>1. Len(t) \in Nat /\ Len(t) < Byte /\ Byte \in Nat
    BY <1>1, <1>6, ByteFacts
  <2>2. Len(t) % Byte = Len(t) /\ Len(t) \in Bytes
    BY <2>1, ByteFacts
  <2> QED  BY <2>1, <2>2
<1> HIDE DEF l
<1>8. IsFour(b, Bytes, h, id, l, t)
  BY <1>3, <1>4, <1>6, <1>7, FourParts
<1> HIDE DEF b
<1>9. /\ b \in Seq(Bytes) /\ Len(b) = 6 + Word + Len(t)
      /\ \A j \in 1..5 : b[j] = h[j]
      /\ SubSeq(b, 6, 5 + Word) = id
      /\ Rest(b, 5 + Word) = l \o t
      /\ Rest(b, fixed) = t
  <2>1. /\ Len(h) + Len(id) = 5 + Word /\ Len(h) + Len(id) + Len(l) = 6 + Word
        /\ Len(h) + 1 = 6
    BY <1>3, <1>4, <1>7
  <2>2. /\ b \in Seq(Bytes) /\ Len(b) = Len(h) + Len(id) + Len(l) + Len(t)
        /\ \A j \in 1..Len(h) : b[j] = h[j]
        /\ SubSeq(b, Len(h) + 1, Len(h) + Len(id)) = id
        /\ Rest(b, Len(h) + Len(id)) = l \o t
        /\ Rest(b, Len(h) + Len(id) + Len(l)) = t
    BY <1>8, Zenon DEF IsFour
  <2> QED  BY <1>4, <2>1, <2>2, Zenon
<1>10. b[fixed] = Len(t)
  <2>1. IsTwo(l \o t, Bytes, l, t)
    BY <1>6, <1>7, TwoParts
  <2>2. (l \o t)[1] = l[1]
    BY <1>7, <2>1 DEF IsTwo
  <2>3. 5 + Word \in 0..Len(b) /\ 1 \in 1..(Len(b) - (5 + Word)) /\ 5 + Word + 1 = fixed
    BY <1>3, <1>7, <1>9
  <2>4. Rest(b, 5 + Word)[1] = b[5 + Word + 1]
    BY <1>9, <2>3, RestByte, Zenon
  <2> QED  BY <1>7, <1>9, <2>2, <2>3, <2>4, Zenon
<1>11. SubSeq(b, fixed + 1, fixed + b[fixed]) = t
  <2>1. fixed + b[fixed] = Len(b)
    BY <1>3, <1>7, <1>9, <1>10
  <2> QED  BY <1>9, <2>1 DEF Rest
<1>12. GetU16(SubSeq(b, 2, 3)) = m.my_as /\ GetU16(SubSeq(b, 4, 5)) = m.hold_time
  <2>1. 1 + 2 <= Len(b) /\ 3 + 2 <= Len(b)
    BY <1>3, <1>7, <1>9
  <2>2. /\ SubSeq(b, 1 + 1, 1 + 2)[1] = b[1 + 1] /\ SubSeq(b, 1 + 1, 1 + 2)[2] = b[1 + 2]
        /\ SubSeq(b, 3 + 1, 3 + 2)[1] = b[3 + 1] /\ SubSeq(b, 3 + 1, 3 + 2)[2] = b[3 + 2]
    BY <1>9, <2>1, TwoBytes
  <2>3. /\ SubSeq(b, 2, 3)[1] = h[2] /\ SubSeq(b, 2, 3)[2] = h[3]
        /\ SubSeq(b, 4, 5)[1] = h[4] /\ SubSeq(b, 4, 5)[2] = h[5]
    BY <1>9, <2>2
  <2> QED  BY <1>4, <2>3
<1>13. [i \in DOMAIN CutParams(t) |->
          [param_type |-> CutParams(t)[i][1], value |-> Rest(CutParams(t)[i], 2)]] = ps
  <2>1. /\ DOMAIN ps = 1..Len(ps) /\ DOMAIN CutParams(t) = 1..Len(ps)
        /\ ps = [i \in 1..Len(ps) |-> ps[i]]
    BY <1>1, <1>6
  <2>2. ASSUME NEW i \in 1..Len(ps)
        PROVE  [param_type |-> CutParams(t)[i][1], value |-> Rest(CutParams(t)[i], 2)] = ps[i]
    <3>1. ps[i] \in OptionalParams /\ Len(ps[i].value) < Byte
      BY <1>1, <1>5, <2>1
    <3>2. CutParams(t)[i] = ParamBytes(ps[i])
      BY <1>6, <2>1
    <3>3. ParamBytes(ps[i])[1] = ps[i].param_type /\ Rest(ParamBytes(ps[i]), 2) = ps[i].value
      BY <3>1, ParamBack
    <3>4. ps[i] = [param_type |-> ps[i].param_type, value |-> ps[i].value]
      BY <3>1 DEF OptionalParams
    <3> QED  BY <3>2, <3>3, <3>4
  <2> QED  BY <2>1, <2>2
<1>14. ParseOpen(b) = [version |-> m.version, my_as |-> m.my_as, hold_time |-> m.hold_time,
                       bgp_id |-> id, optional_params |-> ps]
  <2>1. ~(Len(b) < fixed \/ Len(b) < fixed + b[fixed])
    BY <1>3, <1>7, <1>9, <1>10
  <2>2. b[1] = m.version
    BY <1>4, <1>9
  <2> QED  BY <1>6, <1>9, <1>11, <1>12, <1>13, <2>1, <2>2 DEF ParseOpen, Try
<1>15. OpenLayout(b)
  BY <1>7, <1>9, <1>10 DEF OpenLayout
<1> QED  BY <1>1, <1>2, <1>14, <1>15

-----------------------------------------------------------------------------
(* Segments of an AS_PATH *)

SegmentSize(b) == [p \in 0..Len(b) |-> 2 + Rest(b, p)[2] * Word]
SegmentOf(x) == [type |-> x[1], asns |-> Words(Rest(x, 2))]

LEMMA SegmentMoves ==
    ASSUME NEW b \in Seq(Bytes)
    PROVE  Moves(b, 2, SegmentSize(b), SegmentSize(b))
<1> SUFFICES ASSUME NEW p \in 0..Len(b), Len(b) - p >= 2
             PROVE  SegmentSize(b)[p] \in Nat /\ SegmentSize(b)[p] \in 1..SegmentSize(b)[p]
  BY DEF Moves
<1>1. 2 \in 1..(Len(b) - p)
  OBVIOUS
<1>2. Rest(b, p)[2] \in Nat
  BY <1>1, RestByte
<1>3. Rest(b, p)[2] * Word \in Nat
  BY <1>2, OctetsAssumption
<1> QED  BY <1>3 DEF SegmentSize

LEMMA SegmentCut ==
    ASSUME NEW b \in Seq(Bytes)
    PROVE  \E f : /\ IsCut(f, b, 2, SegmentSize(b), SegmentSize(b))
                  /\ Segments(b) = IF f[0] \in {Err, Panic} THEN f[0]
                                   ELSE [i \in DOMAIN f[0] |-> SegmentOf(f[0][i])]
<1> DEFINE Sz(r) == 2 + r[2] * Word
           Eq(f) == f = [p \in 0..Len(b) |->
                      IF Len(Rest(b, p)) < 2 THEN <<>>
                      ELSE IF Len(Rest(b, p)) < Sz(Rest(b, p)) THEN Err
                      ELSE IF f[p + Sz(Rest(b, p))] \in {Err, Panic}
                           THEN f[p + Sz(Rest(b, p))]
                      ELSE << SubSeq(Rest(b, p), 1, Sz(Rest(b, p))) >>
                             \o f[p + Sz(Rest(b, p))]]
           f == CHOOSE g : Eq(g)
<1>1. Segments(b) = IF f[0] \in {Err, Panic} THEN f[0]
                    ELSE [i \in DOMAIN f[0] |-> SegmentOf(f[0][i])]
  BY DEF Segments, Cut, Try, SegmentOf
<1>2. \A g : Eq(g) <=> IsCutOfRests(g, b, 2, SegmentSize(b), SegmentSize(b))
  BY DEF IsCutOfRests, SegmentSize
<1> HIDE DEF Eq
<1>3. \A g : Eq(g) <=> IsCut(g, b, 2, SegmentSize(b), SegmentSize(b))
  BY <1>2, SegmentMoves, CutOfRests
<1>4. \E g : Eq(g)
  BY <1>3, SegmentMoves, CutExists
<1>5. Eq(f)
  BY <1>4
<1> HIDE DEF f
<1> QED  BY <1>1, <1>3, <1>5

\* A segment as it is written.
LEMMA SegmentBack ==
    ASSUME NEW q \in SegmentsOnWire
    PROVE  /\ SegmentBytes(q) \in Seq(Bytes)
           /\ Len(SegmentBytes(q)) = 2 + Len(q.asns) * Word
           /\ Len(q.asns) \in Nat /\ Len(q.asns) * Word \in Nat
           /\ SegmentBytes(q)[2] = Len(q.asns)
           /\ SegmentOf(SegmentBytes(q)) = q
<1> DEFINE v == FlattenSeq(q.asns)
           n == Len(q.asns)
           h == <<q.type, n % Byte>>
           b == h \o v
<1>1. /\ q = [type |-> q.type, asns |-> q.asns]
      /\ q.type \in {1, 2} /\ q.asns \in Seq(AddressesOf(Word)) /\ n < Byte
  BY DEF SegmentsOnWire
<1>2. Word \in Nat \ {0}
  BY OctetsAssumption
<1>3. v \in Seq(Bytes) /\ Len(v) = n * Word /\ Words(v) = q.asns
  BY <1>1, <1>2, ItemsBack DEF Words
<1>4. b = SegmentBytes(q)
  BY DEF SegmentBytes
<1>5. n \in Nat /\ Byte \in Nat
  BY <1>1, ByteFacts
<1> HIDE DEF n, v
<1>6. n % Byte = n /\ n \in Bytes /\ q.type \in Bytes
  <2>1. n % Byte = n /\ n \in Bytes
    BY <1>1, <1>5, ByteFacts
  <2>2. q.type \in Nat /\ q.type < Byte
    BY <1>1, ByteFacts
  <2> QED  BY <2>1, <2>2, ByteFacts
<1>7. h \in Seq(Bytes) /\ Len(h) = 2 /\ h[1] = q.type /\ h[2] = n
  BY <1>6
<1> HIDE DEF h
<1>8. IsTwo(b, Bytes, h, v)
  BY <1>3, <1>7, TwoParts
<1> HIDE DEF b
<1>9. /\ b \in Seq(Bytes) /\ Len(b) = 2 + Len(v) /\ b[1] = h[1] /\ b[2] = h[2]
      /\ Rest(b, 2) = v
  BY <1>7, <1>8 DEF IsTwo
<1>10. SegmentOf(b) = q
  BY <1>1, <1>3, <1>7, <1>9 DEF SegmentOf
<1>11. n * Word \in Nat
  BY <1>2, <1>5
<1> QED  BY <1>3, <1>4, <1>5, <1>7, <1>9, <1>10, <1>11 DEF n

LEMMA SegmentsBack ==
    ASSUME NEW ps \in Seq(SegmentsOnWire)
    PROVE  /\ SegmentsBytes(ps) \in Seq(Bytes)
           /\ Segments(SegmentsBytes(ps)) = ps
<1> DEFINE items == [i \in DOMAIN ps |-> SegmentBytes(ps[i])]
           b == SegmentsBytes(ps)
<1>1. /\ DOMAIN ps = 1..Len(ps) /\ Len(ps) \in Nat
      /\ \A i \in 1..Len(ps) : ps[i] \in SegmentsOnWire
  OBVIOUS
<1>2. \A i \in 1..Len(ps) :
         /\ SegmentBytes(ps[i]) \in Seq(Bytes)
         /\ Len(SegmentBytes(ps[i])) = 2 + Len(ps[i].asns) * Word
         /\ Len(ps[i].asns) * Word \in Nat
         /\ SegmentBytes(ps[i])[2] = Len(ps[i].asns)
         /\ SegmentOf(SegmentBytes(ps[i])) = ps[i]
  BY <1>1, SegmentBack
<1>3. /\ items \in Seq(Seq(Bytes)) /\ Len(items) = Len(ps) /\ DOMAIN items = 1..Len(ps)
      /\ \A i \in 1..Len(ps) : items[i] = SegmentBytes(ps[i])
  BY <1>1, <1>2
<1>4. b = FlattenSeq(items) /\ b \in Seq(Bytes)
  BY <1>3, FlattenType DEF SegmentsBytes
<1> HIDE DEF items, b
<1>5. PICK f : /\ IsCut(f, b, 2, SegmentSize(b), SegmentSize(b))
               /\ Segments(b) = IF f[0] \in {Err, Panic} THEN f[0]
                                ELSE [i \in DOMAIN f[0] |-> SegmentOf(f[0][i])]
  BY <1>4, SegmentCut
<1>6. ASSUME NEW i \in 1..Len(items), NEW p \in 0..Len(b), At(b, p, items[i])
      PROVE  SegmentSize(b)[p] = Len(items[i]) /\ Len(items[i]) >= 2
  <2> DEFINE x == items[i]
             n == Len(ps[i].asns)
             k == n * Word
  <2>1. x \in Seq(Bytes) /\ Len(x) = 2 + k /\ x[2] = n /\ k \in Nat
    BY <1>2, <1>3
  <2>2. p + Len(x) <= Len(b) /\ \A j \in 1..Len(x) : b[p + j] = x[j]
    BY <1>6 DEF At
  <2> HIDE DEF x, n, k
  <2>3. 2 \in 1..Len(x) /\ 2 \in 1..(Len(b) - p)
    BY <1>4, <2>1, <2>2
  <2>4. Rest(b, p)[2] = b[p + 2]
    BY <1>4, <2>3, RestByte
  <2>5. Rest(b, p)[2] = n
    BY <2>1, <2>2, <2>3, <2>4
  <2>6. SegmentSize(b)[p] = 2 + k
    BY <2>5 DEF SegmentSize, k
  <2> QED  BY <2>1, <2>6 DEF x
<1>7. f[0] = items
  <2>1. Err \notin Seq(Seq(Bytes)) /\ Panic \notin Seq(Seq(Bytes))
    BY CodecsAssumption
  <2>2. ReadRight(b, items, 2, SegmentSize(b), SegmentSize(b))
    BY <1>6 DEF ReadRight
  <2>3. /\ items \in Seq(Seq(Bytes)) /\ b = FlattenSeq(items)
        /\ IsCut(f, b, 2, SegmentSize(b), SegmentSize(b)) /\ 2 \in Nat \ {0}
    BY <1>3, <1>4, <1>5
  <2> QED  BY <2>1, <2>2, <2>3, CutCollects, Zenon
<1>8. Segments(b) = [i \in 1..Len(ps) |-> SegmentOf(items[i])]
  <2>1. items \notin {Err, Panic}
    BY <1>3, CodecsAssumption
  <2> QED  BY <1>3, <1>5, <1>7, <2>1
<1>9. ps = [i \in 1..Len(ps) |-> ps[i]]
  OBVIOUS
<1>10. \A i \in 1..Len(ps) : SegmentOf(items[i]) = ps[i]
  BY <1>2, <1>3
<1>11. Segments(b) = ps
  BY <1>8, <1>9, <1>10
<1> QED  BY <1>4, <1>11 DEF b

-----------------------------------------------------------------------------
(* One path attribute *)

\* The flags as multiples of the bit that tells the length of the length.
LEMMA FlagFacts ==
    /\ ExtendedLen \in Nat /\ ExtendedLen >= 1
    /\ Transitive = 4 * ExtendedLen /\ Optional = 8 * ExtendedLen /\ Byte = 16 * ExtendedLen
<1> DEFINE e == Bits - 4
<1>1. e \in Nat /\ Bits = e + 4
  BY OctetsAssumption
<1> HIDE DEF e
<1>2. /\ Bits - 4 = e /\ Bits - 2 = (e + 1) + 1 /\ Bits - 1 = ((e + 1) + 1) + 1
      /\ Bits = (((e + 1) + 1) + 1) + 1
  BY <1>1
<1>3. 2^e \in Nat /\ 2^e >= 1
  BY <1>1, PowerPositive
<1>4. /\ 2^(e + 1) = 2 * 2^e /\ 2^((e + 1) + 1) = 2 * 2^(e + 1)
      /\ 2^(((e + 1) + 1) + 1) = 2 * 2^((e + 1) + 1)
      /\ 2^((((e + 1) + 1) + 1) + 1) = 2 * 2^(((e + 1) + 1) + 1)
  <2>1. e + 1 \in Nat /\ (e + 1) + 1 \in Nat /\ ((e + 1) + 1) + 1 \in Nat
    BY <1>1
  <2> QED  BY <1>1, <2>1, PowerDoubles
<1>5. /\ ExtendedLen = 2^e /\ Transitive = 2^((e + 1) + 1)
      /\ Optional = 2^(((e + 1) + 1) + 1) /\ Byte = 2^((((e + 1) + 1) + 1) + 1)
  BY <1>2 DEF ExtendedLen, Transitive, Optional, Byte
<1> QED  BY <1>3, <1>4, <1>5

KnownFlags == {Transitive, Optional, Optional + Transitive}

\* The flags of the attributes that the program knows have room for that bit.
LEMMA KnownFlagFacts ==
    ASSUME NEW flags \in KnownFlags
    PROVE  /\ flags \in Bytes /\ ~IsExtended(flags)
           /\ flags + ExtendedLen \in Bytes /\ IsExtended(flags + ExtendedLen)
<1> DEFINE e == ExtendedLen
<1>1. e \in Nat /\ e >= 1 /\ Transitive = 4 * e /\ Optional = 8 * e /\ Byte = 16 * e
  BY FlagFacts
<1> HIDE DEF e
<1>2. PICK k \in {4, 8, 12} : flags = k * e
  BY <1>1 DEF KnownFlags
<1>3. flags \in Nat /\ flags + e \in Nat /\ flags < Byte /\ flags + e < Byte
  BY <1>1, <1>2
<1>4. flags \div e = k
  <2>1. e * k <= flags /\ flags < e * k + e /\ k \in Int
    BY <1>1, <1>2
  <2> QED  BY <1>1, <1>3, <2>1, DivUnique
<1>5. (flags + e) \div e = k + 1
  <2> DEFINE x == flags + e
  <2>1. e * (k + 1) <= x /\ x < e * (k + 1) + e /\ k + 1 \in Int /\ x \in Nat
    BY <1>1, <1>2
  <2> HIDE DEF x
  <2>2. x \div e = k + 1
    BY <1>1, <2>1, DivUnique
  <2> QED  BY <2>2 DEF x
<1>6. k % 2 = 0 /\ (k + 1) % 2 = 1
  <2>1. CASE k = 4
    BY <2>1
  <2>2. CASE k = 8
    BY <2>2
  <2>3. CASE k = 12
    BY <2>3
  <2> QED  BY <2>1, <2>2, <2>3
<1> QED  BY <1>3, <1>4, <1>5, <1>6, ByteFacts DEF IsExtended, e

\* x is an attribute with these flags, this type code and this value, whose
\* length is read right.
IsAttr(x, flags, t, v) ==
    /\ x \in Seq(Bytes) /\ Len(x) >= 3 /\ AttrSize(x) = Len(x)
    /\ x[1] = flags /\ TypeCode(x) = t /\ Value(x) = v

LEMMA ShortAttr ==
    ASSUME NEW flags \in Bytes, ~IsExtended(flags), NEW t \in Bytes,
           NEW v \in Seq(Bytes), Len(v) < Byte
    PROVE  IsAttr(<<flags, t, Len(v)>> \o v, flags, t, v)
<1> DEFINE n == Len(v)
           h == <<flags, t, n>>
           x == h \o v
<1>1. n \in Nat /\ n \in Bytes
  BY ByteFacts
<1>2. h \in Seq(Bytes) /\ Len(h) = 3 /\ h[1] = flags /\ h[2] = t /\ h[3] = n
  <2> HIDE DEF n
  <2> QED  BY <1>1
<1> HIDE DEF h
<1>3. IsTwo(x, Bytes, h, v)
  BY <1>2, TwoParts
<1> HIDE DEF x
<1>4. /\ x \in Seq(Bytes) /\ Len(x) = 3 + n
      /\ x[1] = flags /\ x[2] = t /\ x[3] = n /\ Rest(x, 3) = v
  BY <1>2, <1>3 DEF IsTwo
<1>5. AttrHead(x) = 3
  BY <1>4 DEF AttrHead
<1> HIDE DEF n
<1>6. AttrSize(x) = 3 + n
  BY <1>1, <1>4, <1>5 DEF AttrSize
<1>7. IsAttr(x, flags, t, v)
  BY <1>1, <1>4, <1>5, <1>6 DEF IsAttr, TypeCode, Value
<1> QED  BY <1>7 DEF x, h, n

LEMMA LongAttr ==
    ASSUME NEW flags \in Bytes, IsExtended(flags), NEW t \in Bytes,
           NEW v \in Seq(Bytes), Len(v) < Byte * Byte
    PROVE  IsAttr((<<flags, t>> \o U16(Len(v))) \o v, flags, t, v)
<1> DEFINE n == Len(v)
           z == <<flags, t>>
           u == U16(n)
           h == z \o u
           x == h \o v
<1>1. n \in Nat /\ n \in U16s
  BY ByteFacts DEF U16s
<1>2. z \in Seq(Bytes) /\ Len(z) = 2 /\ z[1] = flags /\ z[2] = t
  OBVIOUS
<1>3. /\ u \in Seq(Bytes) /\ Len(u) = 2
      /\ \A b : b[1] = u[1] /\ b[2] = u[2] => GetU16(b) = n
  <2> HIDE DEF n
  <2> QED  BY <1>1, U16Back
<1> HIDE DEF z, u
<1>4. IsThree(x, Bytes, z, u, v)
  BY <1>2, <1>3, ThreeParts
<1> HIDE DEF h, x
<1>5. /\ x \in Seq(Bytes) /\ Len(x) = 4 + n
      /\ x[1] = flags /\ x[2] = t /\ SubSeq(x, 3, 4) = u /\ Rest(x, 4) = v
  BY <1>2, <1>3, <1>4 DEF IsThree
<1>6. AttrHead(x) = 4
  BY <1>5 DEF AttrHead
<1>7. GetU16(SubSeq(x, 3, 4)) = n
  BY <1>3, <1>5
<1> HIDE DEF n
<1>8. AttrSize(x) = 4 + n
  BY <1>1, <1>5, <1>6, <1>7 DEF AttrSize
<1>9. IsAttr(x, flags, t, v)
  BY <1>1, <1>5, <1>6, <1>8 DEF IsAttr, TypeCode, Value
<1> QED  BY <1>9 DEF x, h, z, u, n

\* write_attr for an attribute that the program knows, and for one that it
\* passes on.
LEMMA KnownBack ==
    ASSUME NEW flags \in KnownFlags, NEW t \in Bytes,
           NEW v \in Seq(Bytes), Len(v) < Byte * Byte
    PROVE  \E g : IsAttr(WriteAttr(flags, t, v), g, t, v)
<1>1. /\ flags \in Bytes /\ ~IsExtended(flags)
      /\ flags + ExtendedLen \in Bytes /\ IsExtended(flags + ExtendedLen)
  BY KnownFlagFacts
<1>2. Len(v) \in Nat /\ Byte \in Nat
  BY ByteFacts
<1>3. CASE Len(v) > Byte - 1
  <2>1. WriteAttr(flags, t, v) = (<<flags + ExtendedLen, t>> \o U16(Len(v))) \o v
    BY <1>1, <1>3 DEF WriteAttr
  <2> QED  BY <1>1, <2>1, LongAttr
<1>4. CASE ~(Len(v) > Byte - 1)
  <2>1. WriteAttr(flags, t, v) = <<flags, t, Len(v)>> \o v
    BY <1>4 DEF WriteAttr
  <2>2. Len(v) < Byte
    BY <1>2, <1>4
  <2> QED  BY <1>1, <2>1, <2>2, ShortAttr
<1> QED  BY <1>3, <1>4

LEMMA UnknownBack ==
    ASSUME NEW q \in UnknownOnWire
    PROVE  IsAttr(WriteAttr(q.flags, q.type_code, q.value), q.flags, q.type_code, q.value)
<1> DEFINE f == q.flags
           t == q.type_code
           v == q.value
<1>1. /\ f \in Bytes /\ t \in Bytes /\ v \in Seq(Bytes) /\ Len(v) < Byte * Byte
      /\ IsExtended(f) <=> Len(v) >= Byte
  BY DEF UnknownOnWire
<1> HIDE DEF f, t, v
<1>2. Len(v) \in Nat /\ Byte \in Nat
  BY <1>1, ByteFacts
<1>3. CASE Len(v) > Byte - 1
  <2>1. IsExtended(f)
    BY <1>1, <1>2, <1>3
  <2>2. WriteAttr(f, t, v) = (<<f + 0, t>> \o U16(Len(v))) \o v
    BY <1>3, <2>1 DEF WriteAttr
  <2>3. f + 0 = f
    BY <1>1, ByteFacts
  <2>4. WriteAttr(f, t, v) = (<<f, t>> \o U16(Len(v))) \o v
    BY <2>2, <2>3
  <2>5. IsAttr(WriteAttr(f, t, v), f, t, v)
    BY <1>1, <2>1, <2>4, LongAttr
  <2> QED  BY <2>5 DEF f, t, v
<1>4. CASE ~(Len(v) > Byte - 1)
  <2>1. WriteAttr(f, t, v) = <<f, t, Len(v)>> \o v
    BY <1>4 DEF WriteAttr
  <2>2. Len(v) < Byte /\ ~IsExtended(f)
    BY <1>1, <1>2, <1>4
  <2>3. IsAttr(WriteAttr(f, t, v), f, t, v)
    BY <1>1, <2>1, <2>2, ShortAttr
  <2> QED  BY <2>3 DEF f, t, v
<1> QED  BY <1>3, <1>4

-----------------------------------------------------------------------------
(* The loop of PathAttributes::parse *)

AttrSizes(b) == [p \in 0..Len(b) |-> AttrSize(Rest(b, p))]

\* An attribute of at least three bytes tells a length that is a number.
LEMMA AttrSizeType ==
    ASSUME NEW r \in Seq(Bytes), Len(r) >= 3
    PROVE  AttrSize(r) \in Nat /\ AttrSize(r) >= 3 /\ AttrHead(r) \in {3, 4}
<1>1. AttrHead(r) \in {3, 4} /\ (AttrHead(r) = 4 <=> IsExtended(r[1]))
  BY DEF AttrHead
<1>2. CASE Len(r) < AttrHead(r)
  BY <1>1, <1>2 DEF AttrSize
<1>3. CASE ~(Len(r) < AttrHead(r)) /\ IsExtended(r[1])
  <2>1. 2 + 2 <= Len(r)
    BY <1>1, <1>3
  <2>2. SubSeq(r, 2 + 1, 2 + 2)[1] = r[2 + 1] /\ SubSeq(r, 2 + 1, 2 + 2)[2] = r[2 + 2]
    BY <2>1, TwoBytes
  <2>3. 3 \in 1..Len(r) /\ 4 \in 1..Len(r)
    BY <2>1
  <2>4. r[3] \in Nat /\ r[4] \in Nat /\ Byte \in Nat
    BY <2>3, ElementOfSeq, ByteFacts
  <2>5. GetU16(SubSeq(r, 3, 4)) = r[3] * Byte + r[4]
    BY <2>2 DEF GetU16
  <2>6. r[3] * Byte + r[4] \in Nat
    BY <2>4
  <2> QED  BY <1>1, <1>3, <2>5, <2>6 DEF AttrSize
<1>4. CASE ~(Len(r) < AttrHead(r)) /\ ~IsExtended(r[1])
  <2>1. 3 \in 1..Len(r)
    OBVIOUS
  <2>2. r[3] \in Nat
    BY <2>1, ElementOfSeq, ByteFacts
  <2> QED  BY <1>1, <1>4, <2>2 DEF AttrSize
<1> QED  BY <1>2, <1>3, <1>4

LEMMA AttrMoves ==
    ASSUME NEW b \in Seq(Bytes)
    PROVE  Moves(b, 3, AttrSizes(b), AttrSizes(b))
<1> SUFFICES ASSUME NEW p \in 0..Len(b), Len(b) - p >= 3
             PROVE  AttrSizes(b)[p] \in Nat /\ AttrSizes(b)[p] \in 1..AttrSizes(b)[p]
  BY DEF Moves
<1>1. Rest(b, p) \in Seq(Bytes) /\ Len(Rest(b, p)) >= 3
  BY RestFacts
<1>2. AttrSize(Rest(b, p)) \in Nat /\ AttrSize(Rest(b, p)) >= 3
  BY <1>1, AttrSizeType
<1> QED  BY <1>2 DEF AttrSizes

LEMMA AttrCut ==
    ASSUME NEW b \in Seq(Bytes)
    PROVE  \E f : /\ IsCut(f, b, 3, AttrSizes(b), AttrSizes(b))
                  /\ ParseAttributes(b) =
                       IF f[0] \in {Err, Panic} THEN f[0]
                       ELSE IF \A i \in DOMAIN f[0] : ValueOK(f[0][i]) THEN Collected(f[0])
                       ELSE Err
<1> DEFINE Eq(f) == f = [p \in 0..Len(b) |->
                      IF Len(Rest(b, p)) < 3 THEN <<>>
                      ELSE IF Len(Rest(b, p)) < AttrSize(Rest(b, p)) THEN Err
                      ELSE IF f[p + AttrSize(Rest(b, p))] \in {Err, Panic}
                           THEN f[p + AttrSize(Rest(b, p))]
                      ELSE << SubSeq(Rest(b, p), 1, AttrSize(Rest(b, p))) >>
                             \o f[p + AttrSize(Rest(b, p))]]
           f == CHOOSE g : Eq(g)
<1>1. ParseAttributes(b) = IF f[0] \in {Err, Panic} THEN f[0]
                           ELSE IF \A i \in DOMAIN f[0] : ValueOK(f[0][i]) THEN Collected(f[0])
                           ELSE Err
  BY DEF ParseAttributes, Cut, Try
<1>2. \A g : Eq(g) <=> IsCutOfRests(g, b, 3, AttrSizes(b), AttrSizes(b))
  BY DEF IsCutOfRests, AttrSizes
<1> HIDE DEF Eq
<1>3. \A g : Eq(g) <=> IsCut(g, b, 3, AttrSizes(b), AttrSizes(b))
  BY <1>2, AttrMoves, CutOfRests
<1>4. \E g : Eq(g)
  BY <1>3, AttrMoves, CutExists
<1>5. Eq(f)
  BY <1>4
<1> HIDE DEF f
<1> QED  BY <1>1, <1>3, <1>5

\* The length of an attribute is told by the bytes in front of its value.
LEMMA AttrSizeSame ==
    ASSUME NEW x \in Seq(Bytes), NEW r \in Seq(Bytes), Len(x) >= 3, Len(r) >= Len(x),
           \A j \in 1..Len(x) : r[j] = x[j], AttrHead(x) <= Len(x)
    PROVE  AttrSize(r) = AttrSize(x)
<1>1. r[1] = x[1] /\ r[3] = x[3] /\ (Len(x) >= 4 => r[4] = x[4])
  OBVIOUS
<1>2. AttrHead(r) = AttrHead(x) /\ AttrHead(x) \in {3, 4}
  BY <1>1 DEF AttrHead
<1>3. ~(Len(x) < AttrHead(x)) /\ ~(Len(r) < AttrHead(r))
  BY <1>2
<1>4. IsExtended(x[1]) => GetU16(SubSeq(r, 3, 4)) = GetU16(SubSeq(x, 3, 4))
  <2> SUFFICES ASSUME IsExtended(x[1])
               PROVE  GetU16(SubSeq(r, 3, 4)) = GetU16(SubSeq(x, 3, 4))
    OBVIOUS
  <2>1. AttrHead(x) = 4
    BY DEF AttrHead
  <2>2. 2 + 2 <= Len(x) /\ 2 + 2 <= Len(r)
    BY <1>3, <2>1
  <2>3. SubSeq(x, 2 + 1, 2 + 2)[1] = x[2 + 1] /\ SubSeq(x, 2 + 1, 2 + 2)[2] = x[2 + 2]
    BY <2>2, TwoBytes
  <2>4. SubSeq(r, 2 + 1, 2 + 2)[1] = r[2 + 1] /\ SubSeq(r, 2 + 1, 2 + 2)[2] = r[2 + 2]
    BY <2>2, TwoBytes
  <2> QED  BY <1>1, <2>2, <2>3, <2>4 DEF GetU16
<1> QED  BY <1>1, <1>2, <1>3, <1>4 DEF AttrSize

\* The length of an attribute is read right from any bytes that begin with it.
LEMMA AttrSizeAt ==
    ASSUME NEW x \in Seq(Bytes), Len(x) >= 3, AttrSize(x) = Len(x),
           NEW b \in Seq(Bytes), NEW p \in 0..Len(b), At(b, p, x)
    PROVE  AttrSize(Rest(b, p)) = Len(x)
<1> DEFINE r == Rest(b, p)
<1>1. p + Len(x) <= Len(b) /\ \A j \in 1..Len(x) : b[p + j] = x[j]
  BY DEF At
<1>2. /\ r \in Seq(Bytes) /\ Len(r) = Len(b) - p
      /\ \A j \in 1..(Len(b) - p) : r[j] = b[p + j]
  BY RestFacts
<1> HIDE DEF r
<1>3. Len(r) >= Len(x) /\ \A j \in 1..Len(x) : r[j] = x[j]
  <2>1. \A j \in 1..Len(x) : j \in 1..(Len(b) - p)
    BY <1>1
  <2> QED  BY <1>1, <1>2, <2>1
<1>4. AttrHead(x) <= Len(x)
  <2>1. AttrHead(x) \in {3, 4}
    BY DEF AttrHead
  <2> QED  BY <2>1 DEF AttrSize
<1>5. AttrSize(r) = AttrSize(x)
  BY <1>2, <1>3, <1>4, AttrSizeSame
<1> QED  BY <1>5 DEF r

\* An attribute that parsing accepts.
IsRaw(x) == x \in Seq(Bytes) /\ Len(x) >= 3 /\ AttrSize(x) = Len(x) /\ ValueOK(x)

\* Attributes that are written one after the other are collected.
LEMMA AttrsBack ==
    ASSUME NEW raws \in Seq(Seq(Bytes)), \A i \in 1..Len(raws) : IsRaw(raws[i])
    PROVE  ParseAttributes(FlattenSeq(raws)) = Collected(raws)
<1> DEFINE b == FlattenSeq(raws)
<1>1. b \in Seq(Bytes) /\ DOMAIN raws = 1..Len(raws) /\ Len(raws) \in Nat
  BY FlattenType
<1>2. b = FlattenSeq(raws)
  OBVIOUS
<1> HIDE DEF b
<1>3. PICK f : /\ IsCut(f, b, 3, AttrSizes(b), AttrSizes(b))
               /\ ParseAttributes(b) =
                    IF f[0] \in {Err, Panic} THEN f[0]
                    ELSE IF \A i \in DOMAIN f[0] : ValueOK(f[0][i]) THEN Collected(f[0])
                    ELSE Err
  BY <1>1, AttrCut
<1>4. ReadRight(b, raws, 3, AttrSizes(b), AttrSizes(b))
  <2> SUFFICES ASSUME NEW i \in 1..Len(raws), NEW p \in 0..Len(b), At(b, p, raws[i])
               PROVE  /\ AttrSizes(b)[p] = Len(raws[i])
                      /\ Len(raws[i]) >= 3
    BY DEF ReadRight
  <2>1. /\ raws[i] \in Seq(Bytes) /\ Len(raws[i]) >= 3
        /\ AttrSize(raws[i]) = Len(raws[i])
    BY DEF IsRaw
  <2>2. AttrSize(Rest(b, p)) = Len(raws[i])
    BY <1>1, <2>1, AttrSizeAt
  <2> QED  BY <2>1, <2>2 DEF AttrSizes
<1>5. f[0] = raws
  <2>1. /\ IsCut(f, b, 3, AttrSizes(b), AttrSizes(b)) /\ 3 \in Nat \ {0}
        /\ Err \notin Seq(Seq(Bytes)) /\ Panic \notin Seq(Seq(Bytes))
    BY <1>3, CodecsAssumption
  <2> QED  BY <1>2, <1>4, <2>1, CutCollects, Zenon
<1>6. raws \notin {Err, Panic}
  BY CodecsAssumption
<1>7. \A i \in DOMAIN raws : ValueOK(raws[i])
  BY <1>1 DEF IsRaw
<1> QED  BY <1>3, <1>5, <1>6, <1>7 DEF b

-----------------------------------------------------------------------------
(* Attributes sorted by their type *)

Picked(raws, ts) ==
    [i \in DOMAIN raws |-> IF TypeCode(raws[i]) \in ts THEN <<raws[i]>> ELSE <<>>]

LEMMA PickedFacts ==
    ASSUME NEW S, NEW raws \in Seq(S), NEW ts
    PROVE  /\ Picked(raws, ts) \in Seq(Seq(S))
           /\ Len(Picked(raws, ts)) = Len(raws)
           /\ \A i \in 1..Len(raws) :
                Picked(raws, ts)[i] = IF TypeCode(raws[i]) \in ts THEN <<raws[i]>> ELSE <<>>
           /\ OfType(raws, ts) = FlattenSeq(Picked(raws, ts))
<1>1. DOMAIN raws = 1..Len(raws) /\ Len(raws) \in Nat /\ \A i \in 1..Len(raws) : raws[i] \in S
  OBVIOUS
<1>2. \A i \in 1..Len(raws) :
        (IF TypeCode(raws[i]) \in ts THEN <<raws[i]>> ELSE <<>>) \in Seq(S)
  BY <1>1
<1>3. Picked(raws, ts) \in [1..Len(raws) -> Seq(S)]
  BY <1>1, <1>2 DEF Picked
<1>4. Picked(raws, ts) \in Seq(Seq(S)) /\ Len(Picked(raws, ts)) = Len(raws)
  BY <1>1, <1>3
<1> QED  BY <1>1, <1>4 DEF Picked, OfType

LEMMA OfTypeConcat ==
    ASSUME NEW S, NEW a \in Seq(S), NEW b \in Seq(S), NEW ts
    PROVE  OfType(a \o b, ts) = OfType(a, ts) \o OfType(b, ts)
<1> DEFINE c == a \o b
           x == Picked(a, ts)
           y == Picked(b, ts)
           z == Picked(c, ts)
<1>1. /\ Len(a) \in Nat /\ Len(b) \in Nat
      /\ c \in Seq(S) /\ Len(c) = Len(a) + Len(b)
      /\ \A j \in 1..Len(a) : c[j] = a[j]
      /\ \A j \in 1..Len(b) : c[Len(a) + j] = b[j]
  BY ConcatFacts
<1> HIDE DEF c
<1>2. /\ x \in Seq(Seq(S)) /\ Len(x) = Len(a) /\ OfType(a, ts) = FlattenSeq(x)
      /\ \A i \in 1..Len(a) : x[i] = IF TypeCode(a[i]) \in ts THEN <<a[i]>> ELSE <<>>
  BY PickedFacts
<1>3. /\ y \in Seq(Seq(S)) /\ Len(y) = Len(b) /\ OfType(b, ts) = FlattenSeq(y)
      /\ \A i \in 1..Len(b) : y[i] = IF TypeCode(b[i]) \in ts THEN <<b[i]>> ELSE <<>>
  BY PickedFacts
<1>4. /\ z \in Seq(Seq(S)) /\ Len(z) = Len(c) /\ OfType(c, ts) = FlattenSeq(z)
      /\ \A i \in 1..Len(c) : z[i] = IF TypeCode(c[i]) \in ts THEN <<c[i]>> ELSE <<>>
  <2>1. c \in Seq(S)
    BY <1>1
  <2> QED  BY <2>1, PickedFacts
<1> HIDE DEF x, y, z
<1> DEFINE V == Seq(S)
           w == x \o y
<1>5. x \in Seq(V) /\ y \in Seq(V) /\ z \in Seq(V)
  BY <1>2, <1>3, <1>4
<1> HIDE DEF V
<1>6. /\ w \in Seq(V) /\ Len(w) = Len(x) + Len(y)
      /\ \A j \in 1..Len(x) : w[j] = x[j]
      /\ \A j \in 1..Len(y) : w[Len(x) + j] = y[j]
  BY <1>5, ConcatFacts
<1> HIDE DEF w
<1>7. ASSUME NEW i \in 1..Len(z) PROVE z[i] = w[i]
  <2>1. CASE i <= Len(a)
    <3>1. i \in 1..Len(a) /\ i \in 1..Len(c)
      BY <1>1, <1>4, <2>1
    <3>2. c[i] = a[i] /\ w[i] = x[i]
      BY <1>1, <1>2, <1>6, <3>1, Zenon
    <3>3. /\ x[i] = IF TypeCode(a[i]) \in ts THEN <<a[i]>> ELSE <<>>
          /\ z[i] = IF TypeCode(c[i]) \in ts THEN <<c[i]>> ELSE <<>>
      BY <1>2, <1>4, <3>1, Zenon
    <3> QED  BY <3>2, <3>3, Zenon
  <2>2. CASE i > Len(a)
    <3>1. PICK j \in 1..Len(b) : i = Len(a) + j
      <4>1. i - Len(a) \in 1..Len(b) /\ i = Len(a) + (i - Len(a))
        BY <1>1, <1>4, <2>2
      <4> QED  BY <4>1
    <3>2. i \in 1..Len(c)
      BY <1>4
    <3>3. c[i] = b[j] /\ w[i] = y[j]
      BY <1>1, <1>2, <1>3, <1>6, <3>1
    <3> QED  BY <1>3, <1>4, <3>2, <3>3
  <2> QED  BY <1>1, <1>4, <2>1, <2>2
<1>8. z = w
  <2>1. Len(z) = Len(w)
    BY <1>1, <1>2, <1>3, <1>4, <1>6
  <2> QED  BY <1>5, <1>6, <1>7, <2>1, SeqEqual
<1>9. FlattenSeq(x \o y) = FlattenSeq(x) \o FlattenSeq(y)
  BY <1>2, <1>3, FlattenConcat
<1> QED  BY <1>2, <1>3, <1>4, <1>8, <1>9 DEF w, c

Splits(a, b, ts) == OfType(a \o b, ts) = OfType(a, ts) \o OfType(b, ts)

LEMMA OfTypeSplits ==
    ASSUME NEW S, NEW a \in Seq(S), NEW b \in Seq(S), NEW ts
    PROVE  Splits(a, b, ts)
  BY OfTypeConcat DEF Splits

\* All of the attributes have one of the types, or none has.
LEMMA OfTypeAll ==
    ASSUME NEW S, NEW raws \in Seq(S), NEW ts,
           \A i \in 1..Len(raws) : TypeCode(raws[i]) \in ts
    PROVE  OfType(raws, ts) = raws
<1> DEFINE x == Picked(raws, ts)
           n == Len(raws)
           h == [i \in 0..n |-> SubSeq(raws, 1, i)]
<1>1. /\ x \in Seq(Seq(S)) /\ Len(x) = n /\ OfType(raws, ts) = FlattenSeq(x)
      /\ \A i \in 1..n : x[i] = IF TypeCode(raws[i]) \in ts THEN <<raws[i]>> ELSE <<>>
  BY PickedFacts
<1> HIDE DEF x
<1>2. n \in Nat /\ \A i \in 1..n : x[i] = <<raws[i]>>
  <2>1. n \in Nat
    OBVIOUS
  <2>2. ASSUME NEW i \in 1..n PROVE x[i] = <<raws[i]>>
    BY <1>1
  <2> QED  BY <2>1, <2>2
<1>3. h \in [0..n -> Seq(S)]
  <2>1. \A i \in 0..n : SubSeq(raws, 1, i) \in Seq(S)
    <3> SUFFICES ASSUME NEW i \in 0..n PROVE SubSeq(raws, 1, i) \in Seq(S)
      OBVIOUS
    <3>1. 0 + i <= Len(raws) /\ i \in Nat /\ 0 + 1 = 1 /\ 0 + i = i
      BY <1>2
    <3>2. SubSeq(raws, 0 + 1, 0 + i) \in Seq(S)
      BY <3>1, Slice
    <3> QED  BY <3>1, <3>2
  <2> QED  BY <2>1
<1>4. Steps(h, x)
  <2>1. h[0] = <<>>
    <3>1. SubSeq(raws, 1, 0) = <<>>
      OBVIOUS
    <3> QED  BY <1>2, <3>1
  <2>2. ASSUME NEW i \in 1..n PROVE h[i] = h[i - 1] \o x[i]
    <3>1. 1 \in 1..n /\ i \in 1..n /\ i - 1 \in 0..n /\ i \in 0..n
      BY <1>2
    <3>2. SubSeq(raws, 1, i) = SubSeq(raws, 1, i - 1) \o <<raws[i]>>
      BY <3>1, SubSeqRecursiveSecond
    <3> QED  BY <1>2, <3>1, <3>2
  <2> HIDE DEF h
  <2> QED  BY <1>1, <2>1, <2>2 DEF Steps
<1>5. FlattenSeq(x) = h[n]
  <2> HIDE DEF h, n
  <2> QED  BY <1>1, <1>3, <1>4, FlattenSteps
<1>6. h[n] = raws
  BY <1>2, SubSeqFull
<1> QED  BY <1>1, <1>5, <1>6

LEMMA OfTypeNone ==
    ASSUME NEW S, NEW raws \in Seq(S), NEW ts,
           \A i \in 1..Len(raws) : TypeCode(raws[i]) \notin ts
    PROVE  OfType(raws, ts) = <<>>
<1> DEFINE x == Picked(raws, ts)
           n == Len(raws)
           h == [i \in 0..n |-> <<>>]
<1>1. /\ x \in Seq(Seq(S)) /\ Len(x) = n /\ OfType(raws, ts) = FlattenSeq(x)
      /\ \A i \in 1..n : x[i] = IF TypeCode(raws[i]) \in ts THEN <<raws[i]>> ELSE <<>>
  BY PickedFacts
<1> HIDE DEF x
<1>2. n \in Nat /\ \A i \in 1..n : x[i] = <<>>
  <2>1. n \in Nat
    OBVIOUS
  <2>2. ASSUME NEW i \in 1..n PROVE x[i] = <<>>
    BY <1>1
  <2> QED  BY <2>1, <2>2
<1>3. h \in [0..n -> Seq(S)]
  OBVIOUS
<1>4. Steps(h, x)
  <2>1. <<>> \o <<>> = <<>> /\ h[0] = <<>>
    BY <1>2
  <2>2. \A i \in 1..n : h[i] = <<>> /\ h[i - 1] = <<>>
    BY <1>2
  <2> HIDE DEF h
  <2> QED  BY <1>1, <1>2, <2>1, <2>2 DEF Steps
<1>5. FlattenSeq(x) = h[n]
  <2> HIDE DEF h, n
  <2> QED  BY <1>1, <1>3, <1>4, FlattenSteps
<1> QED  BY <1>1, <1>2, <1>5

\* raws are attributes of these types.
Group(raws, ts) ==
    /\ raws \in Seq(Seq(Bytes))
    /\ \A i \in 1..Len(raws) : IsRaw(raws[i]) /\ TypeCode(raws[i]) \in ts

\* They are all found, and no others.
LEMMA GroupOfType ==
    ASSUME NEW raws, NEW ts, Group(raws, ts), NEW us
    PROVE  /\ ts \subseteq us => OfType(raws, us) = raws
           /\ ts \cap us = {} => OfType(raws, us) = <<>>
<1>1. raws \in Seq(Seq(Bytes)) /\ \A i \in 1..Len(raws) : TypeCode(raws[i]) \in ts
  BY DEF Group
<1>2. ASSUME ts \subseteq us PROVE OfType(raws, us) = raws
  <2>1. \A i \in 1..Len(raws) : TypeCode(raws[i]) \in us
    BY <1>1, <1>2
  <2> QED  BY <1>1, <2>1, OfTypeAll
<1>3. ASSUME ts \cap us = {} PROVE OfType(raws, us) = <<>>
  <2>1. \A i \in 1..Len(raws) : TypeCode(raws[i]) \notin us
    BY <1>1, <1>3
  <2> QED  BY <1>1, <2>1, OfTypeNone
<1> QED  BY <1>2, <1>3

LEMMA GroupConcat ==
    ASSUME NEW x, NEW ts, Group(x, ts), NEW y, NEW us, Group(y, us)
    PROVE  Group(x \o y, ts \cup us)
<1> DEFINE c == x \o y
<1>1. x \in Seq(Seq(Bytes)) /\ y \in Seq(Seq(Bytes))
  BY DEF Group
<1> DEFINE V == Seq(Bytes)
<1> HIDE DEF V
<1>2. x \in Seq(V) /\ y \in Seq(V)
  BY <1>1 DEF V
<1>3. /\ Len(x) \in Nat /\ Len(y) \in Nat
      /\ c \in Seq(V) /\ Len(c) = Len(x) + Len(y)
      /\ \A j \in 1..Len(x) : c[j] = x[j]
      /\ \A j \in 1..Len(y) : c[Len(x) + j] = y[j]
  BY <1>2, ConcatFacts
<1> HIDE DEF c
<1>4. ASSUME NEW i \in 1..Len(c) PROVE IsRaw(c[i]) /\ TypeCode(c[i]) \in ts \cup us
  <2>1. CASE i <= Len(x)
    <3>1. i \in 1..Len(x)
      BY <1>3, <2>1
    <3> QED  BY <1>3, <3>1 DEF Group
  <2>2. CASE i > Len(x)
    <3>1. i - Len(x) \in 1..Len(y) /\ i = Len(x) + (i - Len(x))
      BY <1>3, <2>2
    <3>2. c[i] = y[i - Len(x)]
      BY <1>3, <3>1
    <3> QED  BY <3>1, <3>2 DEF Group
  <2> QED  BY <1>3, <2>1, <2>2
<1>5. Group(c, ts \cup us)
  BY <1>3, <1>4 DEF Group, V
<1> QED  BY <1>5 DEF c

LEMMA OfTypeType ==
    ASSUME NEW S, NEW raws \in Seq(S), NEW ts
    PROVE  OfType(raws, ts) \in Seq(S)
<1>1. Picked(raws, ts) \in Seq(Seq(S)) /\ OfType(raws, ts) = FlattenSeq(Picked(raws, ts))
  BY PickedFacts
<1> QED  BY <1>1, FlattenType

\* Of P, the attributes of type j are s[j], for the types up to k.
SortedTo(P, k, s) ==
    /\ Group(P, 1..k)
    /\ \A j \in 1..k : OfType(P, {j}) = s[j]

LEMMA SortedGrows ==
    ASSUME NEW P, NEW k \in Nat, NEW s, SortedTo(P, k, s), Group(s[k + 1], {k + 1})
    PROVE  SortedTo(P \o s[k + 1], k + 1, s)
<1> DEFINE R == s[k + 1]
           V == Seq(Bytes)
<1>1. Group(P, 1..k) /\ Group(R, {k + 1}) /\ P \in Seq(V) /\ R \in Seq(V)
  BY DEF SortedTo, Group
<1> HIDE DEF R, V
<1>2. (1..k) \cup {k + 1} = 1..(k + 1)
  OBVIOUS
<1>3. Group(P \o R, 1..(k + 1))
  BY <1>1, <1>2, GroupConcat
<1>4. ASSUME NEW j \in 1..(k + 1) PROVE OfType(P \o R, {j}) = s[j]
  <2>1. OfType(P \o R, {j}) = OfType(P, {j}) \o OfType(R, {j})
    BY <1>1, OfTypeConcat
  <2>2. CASE j = k + 1
    <3>1. (1..k) \cap {j} = {} /\ {k + 1} \subseteq {j}
      BY <2>2
    <3>2. OfType(P, {j}) = <<>> /\ OfType(R, {j}) = R
      BY <1>1, <3>1, GroupOfType
    <3>3. <<>> \o R = R
      BY <1>1, ConcatEmptySeq
    <3> QED  BY <2>1, <2>2, <3>2, <3>3 DEF R
  <2>3. CASE j # k + 1
    <3>1. j \in 1..k /\ {k + 1} \cap {j} = {}
      BY <2>3
    <3>2. OfType(R, {j}) = <<>>
      BY <1>1, <3>1, GroupOfType
    <3>3. OfType(P, {j}) = s[j] /\ OfType(P, {j}) \in Seq(V)
      BY <1>1, <3>1, OfTypeType DEF SortedTo
    <3>4. OfType(P, {j}) \o <<>> = OfType(P, {j})
      BY <3>3, ConcatEmptySeq
    <3> QED  BY <2>1, <3>2, <3>3, <3>4
  <2> QED  BY <2>2, <2>3
<1> QED  BY <1>3, <1>4 DEF SortedTo, R

\* Groups that follow each other in the order of their types.
LEMMA SortedAll ==
    ASSUME NEW s \in Seq(Seq(Seq(Bytes))), \A j \in 1..Len(s) : Group(s[j], {j}),
           NEW h, Steps(h, s)
    PROVE  \A k \in 0..Len(s) : SortedTo(h[k], k, s)
<1> DEFINE n == Len(s)
           T == {k \in Nat : k <= n => SortedTo(h[k], k, s)}
<1>1. n \in Nat
  OBVIOUS
<1>2. 0 \in T
  <2>1. h[0] = <<>>
    BY DEF Steps
  <2>2. <<>> \in Seq(Seq(Bytes)) /\ Len(<<>>) = 0 /\ 1..0 = {}
    OBVIOUS
  <2>3. SortedTo(<<>>, 0, s)
    BY <2>2 DEF SortedTo, Group
  <2> QED  BY <2>1, <2>3
<1>3. ASSUME NEW k \in Nat, k \in T PROVE k + 1 \in T
  <2> SUFFICES ASSUME k + 1 <= n PROVE SortedTo(h[k + 1], k + 1, s)
    OBVIOUS
  <2>1. k <= n /\ k + 1 \in 1..n /\ (k + 1) - 1 = k
    BY <1>1
  <2>2. h[k + 1] = h[k] \o s[k + 1]
    BY <2>1 DEF Steps
  <2>3. SortedTo(h[k], k, s) /\ Group(s[k + 1], {k + 1})
    BY <1>3, <2>1
  <2> QED  BY <2>2, <2>3, SortedGrows
<1> HIDE DEF T
<1>4. \A k \in Nat : k \in T
  BY <1>2, <1>3, SetInduction
<1>5. \A k \in 0..n : k \in Nat /\ k <= n
  BY <1>1
<1> QED  BY <1>4, <1>5 DEF T

-----------------------------------------------------------------------------
(* The attributes as they are written *)

\* ValueOK for type t and value v.
ValueFits(t, v) ==
    /\ t = 1 => v # <<>> /\ v[1] \in 0..2
    /\ t = 2 => /\ Segments(v) # Err
                /\ \A i \in DOMAIN Segments(v) : Segments(v)[i].type \in {1, 2}
    /\ t \in {3, 4, 5, 9} => Len(v) >= Word
    /\ t = 7 => Len(v) >= 2 + Word

ValuesOf(raws) == [i \in DOMAIN raws |-> Value(raws[i])]

\* One attribute that the program knows.
LEMMA OneKnown ==
    ASSUME NEW flags \in KnownFlags, NEW t \in Bytes, NEW v \in Seq(Bytes),
           Len(v) < Byte * Byte, ValueFits(t, v)
    PROVE  /\ Group(<<WriteAttr(flags, t, v)>>, {t})
           /\ FlattenSeq(<<WriteAttr(flags, t, v)>>) = WriteAttr(flags, t, v)
           /\ ValuesOf(<<WriteAttr(flags, t, v)>>) = <<v>>
<1> DEFINE x == WriteAttr(flags, t, v)
<1>1. PICK g : IsAttr(x, g, t, v)
  BY KnownBack
<1> HIDE DEF x
<1>2. /\ x \in Seq(Bytes) /\ Len(x) >= 3 /\ AttrSize(x) = Len(x)
      /\ TypeCode(x) = t /\ Value(x) = v
  BY <1>1 DEF IsAttr
<1>3. ValueOK(x)
  BY <1>2 DEF ValueOK, ValueFits
<1>4. IsRaw(x)
  BY <1>2, <1>3 DEF IsRaw
<1> DEFINE V == Seq(Bytes)
<1>5. x \in V
  BY <1>2
<1> HIDE DEF V
<1>6. <<x>> \in Seq(V) /\ Len(<<x>>) = 1 /\ <<x>>[1] = x /\ DOMAIN <<x>> = 1..1
  BY <1>5
<1>7. Group(<<x>>, {t})
  <2>1. \A i \in 1..Len(<<x>>) : <<x>>[i] = x
    BY <1>6
  <2> QED  BY <1>2, <1>4, <1>6, <2>1 DEF Group, V
<1>8. FlattenSeq(<<x>>) = x
  BY <1>2, FlattenOne
<1>9. ValuesOf(<<x>>) = <<v>>
  <2>1. ValuesOf(<<x>>) = [i \in 1..1 |-> v]
    BY <1>2, <1>6 DEF ValuesOf
  <2> QED  BY <2>1
<1> QED  BY <1>7, <1>8, <1>9 DEF x

LEMMA NoneKnown ==
    ASSUME NEW t
    PROVE  Group(<<>>, {t}) /\ FlattenSeq(<<>>) = <<>> /\ ValuesOf(<<>>) = <<>>
<1>1. <<>> \in Seq(Seq(Bytes)) /\ Len(<<>>) = 0 /\ 1..0 = {} /\ DOMAIN <<>> = {}
  OBVIOUS
<1> QED  BY <1>1, FlattenNone DEF Group, ValuesOf

\* The attributes written for a value that may be missing, and for a list.
RawSome(flags, t, v) == IF v = None THEN <<>> ELSE <<WriteAttr(flags, t, v)>>
RawList(flags, t, vs, v) == IF vs = <<>> THEN <<>> ELSE <<WriteAttr(flags, t, v)>>

SomeFacts(R, flags, t, v, n) ==
    /\ Group(R, {t})
    /\ FlattenSeq(R) = IF v = None THEN <<>> ELSE WriteAttr(flags, t, v)
    /\ (IF ValuesOf(R) = <<>> THEN None ELSE SubSeq(Last(ValuesOf(R)), 1, n)) = v
ListFacts(R, flags, t, vs, v) ==
    /\ Group(R, {t})
    /\ FlattenSeq(R) = IF vs = <<>> THEN <<>> ELSE WriteAttr(flags, t, v)
    /\ ValuesOf(R) = IF vs = <<>> THEN <<>> ELSE <<v>>

LEMMA SomeBack ==
    ASSUME NEW flags \in KnownFlags, NEW t \in Bytes, NEW n \in Nat, n < Byte * Byte, NEW v,
           v # None => v \in Seq(Bytes) /\ Len(v) = n /\ ValueFits(t, v)
    PROVE  SomeFacts(RawSome(flags, t, v), flags, t, v, n)
<1>1. CASE v = None
  BY <1>1, NoneKnown DEF RawSome, SomeFacts
<1>2. CASE v # None
  <2> DEFINE R == <<WriteAttr(flags, t, v)>>
  <2>1. Group(R, {t}) /\ FlattenSeq(R) = WriteAttr(flags, t, v) /\ ValuesOf(R) = <<v>>
    BY <1>2, OneKnown
  <2> HIDE DEF R
  <2>2. ValuesOf(R) # <<>> /\ Last(ValuesOf(R)) = v
    BY <2>1 DEF Last
  <2>3. SubSeq(v, 1, n) = v
    BY <1>2, SubSeqFull
  <2> QED  BY <1>2, <2>1, <2>2, <2>3 DEF RawSome, SomeFacts, R
<1> QED  BY <1>1, <1>2

LEMMA ListBack ==
    ASSUME NEW flags \in KnownFlags, NEW t \in Bytes, NEW vs, NEW v \in Seq(Bytes),
           Len(v) < Byte * Byte, ValueFits(t, v)
    PROVE  ListFacts(RawList(flags, t, vs, v), flags, t, vs, v)
  BY OneKnown, NoneKnown DEF RawList, ListFacts

RawAtomic(set) == IF set THEN <<WriteAttr(Transitive, 6, <<>>)>> ELSE <<>>
RawUnknown(us) ==
    [i \in DOMAIN us |-> WriteAttr(us[i].flags, us[i].type_code, us[i].value)]

\* The attributes of a that the program knows, by type.
RawsOf(a) ==
    << RawSome(Transitive, 1, a.origin),
       RawList(Transitive, 2, a.as_path, SegmentsBytes(a.as_path)),
       RawSome(Transitive, 3, a.next_hop),
       RawSome(Optional, 4, a.multi_exit_disc),
       RawSome(Transitive, 5, a.local_pref),
       RawAtomic(a.atomic_aggregate),
       RawSome(Optional + Transitive, 7, a.aggregator),
       RawList(Optional + Transitive, 8, a.communities, FlattenSeq(a.communities)),
       RawSome(Optional, 9, a.originator_id),
       RawList(Optional, 10, a.cluster_list, FlattenSeq(a.cluster_list)) >>

LEMMA UnknownsBack ==
    ASSUME NEW us \in Seq(UnknownOnWire)
    PROVE  LET R == RawUnknown(us)
           IN  /\ Group(R, Bytes \ 1..10)
               /\ [i \in DOMAIN R |-> [flags |-> R[i][1], type_code |-> TypeCode(R[i]),
                                       value |-> Value(R[i])]] = us
<1> DEFINE R == RawUnknown(us)
           V == Seq(Bytes)
<1>1. /\ DOMAIN us = 1..Len(us) /\ Len(us) \in Nat
      /\ us = [i \in 1..Len(us) |-> us[i]]
      /\ \A i \in 1..Len(us) : us[i] \in UnknownOnWire
  OBVIOUS
<1>2. \A i \in 1..Len(us) : R[i] = WriteAttr(us[i].flags, us[i].type_code, us[i].value)
  BY <1>1 DEF RawUnknown
<1>3. DOMAIN R = 1..Len(us) /\ R = [i \in 1..Len(us) |-> R[i]]
  BY <1>1 DEF RawUnknown
<1> HIDE DEF R, V
<1>4. ASSUME NEW i \in 1..Len(us)
      PROVE  /\ R[i] \in V /\ IsRaw(R[i]) /\ TypeCode(R[i]) \in Bytes \ 1..10
             /\ [flags |-> R[i][1], type_code |-> TypeCode(R[i]), value |-> Value(R[i])] = us[i]
  <2> DEFINE q == us[i]
             x == R[i]
  <2>1. q \in UnknownOnWire
    BY <1>1
  <2>2. x = WriteAttr(q.flags, q.type_code, q.value)
    BY <1>2
  <2> HIDE DEF q, x
  <2>3. IsAttr(x, q.flags, q.type_code, q.value)
    BY <2>1, <2>2, UnknownBack
  <2>4. /\ q = [flags |-> q.flags, type_code |-> q.type_code, value |-> q.value]
        /\ q.type_code \in Bytes \ 1..10
    BY <2>1 DEF UnknownOnWire
  <2>5. /\ x \in Seq(Bytes) /\ Len(x) >= 3 /\ AttrSize(x) = Len(x)
        /\ x[1] = q.flags /\ TypeCode(x) = q.type_code /\ Value(x) = q.value
    BY <2>3 DEF IsAttr
  <2>6. ValueOK(x)
    <3>1. /\ TypeCode(x) # 1 /\ TypeCode(x) # 2 /\ TypeCode(x) # 7
          /\ TypeCode(x) \notin {3, 4, 5, 9}
      BY <2>4, <2>5
    <3> QED  BY <3>1 DEF ValueOK
  <2> QED  BY <2>4, <2>5, <2>6 DEF IsRaw, q, x, V
<1>5. R \in Seq(V) /\ Len(R) = Len(us)
  <2>1. R \in [1..Len(us) -> V]
    BY <1>3, <1>4
  <2> QED  BY <1>1, <2>1
<1>6. Group(R, Bytes \ 1..10)
  BY <1>4, <1>5 DEF Group, V
<1>7. [i \in DOMAIN R |-> [flags |-> R[i][1], type_code |-> TypeCode(R[i]),
                           value |-> Value(R[i])]] = us
  BY <1>1, <1>3, <1>4
<1> QED  BY <1>6, <1>7 DEF R

\* The fields of the attributes one by one.
LEMMA OptionsBack ==
    ASSUME NEW a \in AttributesOnWire
    PROVE  /\ SomeFacts(RawSome(Transitive, 1, a.origin), Transitive, 1, a.origin, 1)
           /\ SomeFacts(RawSome(Transitive, 3, a.next_hop), Transitive, 3, a.next_hop, Word)
           /\ SomeFacts(RawSome(Optional, 4, a.multi_exit_disc), Optional, 4,
                        a.multi_exit_disc, Word)
           /\ SomeFacts(RawSome(Transitive, 5, a.local_pref), Transitive, 5,
                        a.local_pref, Word)
           /\ SomeFacts(RawSome(Optional + Transitive, 7, a.aggregator),
                        Optional + Transitive, 7, a.aggregator, 2 + Word)
           /\ SomeFacts(RawSome(Optional, 9, a.originator_id), Optional, 9,
                        a.originator_id, Word)
<1>1. /\ Transitive \in KnownFlags /\ Optional \in KnownFlags
      /\ Optional + Transitive \in KnownFlags
  BY DEF KnownFlags
<1>2. 1 \in Bytes /\ 3 \in Bytes /\ 4 \in Bytes /\ 5 \in Bytes /\ 7 \in Bytes /\ 9 \in Bytes
  BY ByteFacts
<1>3. /\ 1 < Byte * Byte /\ Word < Byte * Byte /\ 2 + Word < Byte * Byte
      /\ Word \in Nat /\ 2 + Word \in Nat
  <2>1. Byte \in Nat /\ Byte >= 16 /\ Word \in Nat /\ 2 + Word < Byte
    BY ByteFacts, OctetsAssumption DEF Byte
  <2>2. Byte * Byte >= Byte /\ Byte * Byte \in Nat
    BY <2>1
  <2> DEFINE bb == Byte * Byte
  <2> HIDE DEF bb
  <2>3. bb >= Byte /\ bb \in Nat
    BY <2>2 DEF bb
  <2>4. 1 < bb /\ Word < bb /\ 2 + Word < bb
    BY <2>1, <2>3
  <2> QED  BY <2>1, <2>4 DEF bb
<1>4. SomeFacts(RawSome(Transitive, 1, a.origin), Transitive, 1, a.origin, 1)
  <2>1. a.origin # None => /\ a.origin \in Seq(Bytes) /\ Len(a.origin) = 1
                           /\ ValueFits(1, a.origin)
    <3> SUFFICES ASSUME a.origin # None
                 PROVE  /\ a.origin \in Seq(Bytes) /\ Len(a.origin) = 1
                        /\ ValueFits(1, a.origin)
      OBVIOUS
    <3>1. PICK x \in {0, 1, 2} : a.origin = <<x>>
      BY DEF AttributesOnWire
    <3>2. x \in Bytes
      BY ByteFacts
    <3>3. <<x>> \in Seq(Bytes) /\ Len(<<x>>) = 1 /\ <<x>> # <<>> /\ <<x>>[1] \in 0..2
      BY <3>2
    <3> QED  BY <3>1, <3>3 DEF ValueFits
  <2> QED  BY <1>1, <1>2, <1>3, <2>1, SomeBack
<1>5. ASSUME NEW n \in Nat, NEW v \in {None} \cup AddressesOf(n), v # None
      PROVE  v \in Seq(Bytes) /\ Len(v) = n
  BY <1>5 DEF AddressesOf
<1>6. ASSUME NEW v \in {None} \cup AddressesOf(Word), NEW t \in {3, 4, 5, 9}, v # None
      PROVE  v \in Seq(Bytes) /\ Len(v) = Word /\ ValueFits(t, v)
  <2>1. v \in Seq(Bytes) /\ Len(v) = Word
    BY <1>3, <1>5, <1>6
  <2>2. t # 1 /\ t # 2 /\ t # 7 /\ Len(v) >= Word
    BY <1>3, <2>1
  <2> QED  BY <2>1, <2>2 DEF ValueFits
<1>7. /\ a.next_hop \in {None} \cup AddressesOf(Word)
      /\ a.multi_exit_disc \in {None} \cup AddressesOf(Word)
      /\ a.local_pref \in {None} \cup AddressesOf(Word)
      /\ a.originator_id \in {None} \cup AddressesOf(Word)
      /\ a.aggregator \in {None} \cup AddressesOf(2 + Word)
  BY DEF AttributesOnWire
<1>8. /\ SomeFacts(RawSome(Transitive, 3, a.next_hop), Transitive, 3, a.next_hop, Word)
      /\ SomeFacts(RawSome(Optional, 4, a.multi_exit_disc), Optional, 4,
                   a.multi_exit_disc, Word)
      /\ SomeFacts(RawSome(Transitive, 5, a.local_pref), Transitive, 5, a.local_pref, Word)
      /\ SomeFacts(RawSome(Optional, 9, a.originator_id), Optional, 9, a.originator_id, Word)
  <2>1. ASSUME NEW v \in {None} \cup AddressesOf(Word), NEW t \in {3, 4, 5, 9},
               NEW flags \in KnownFlags
        PROVE  SomeFacts(RawSome(flags, t, v), flags, t, v, Word)
    <3>1. v # None => v \in Seq(Bytes) /\ Len(v) = Word /\ ValueFits(t, v)
      BY <1>6
    <3>2. t \in Bytes
      BY <1>2
    <3> QED  BY <1>3, <3>1, <3>2, SomeBack
  <2> QED  BY <1>1, <1>7, <2>1
<1>9. SomeFacts(RawSome(Optional + Transitive, 7, a.aggregator),
                Optional + Transitive, 7, a.aggregator, 2 + Word)
  <2> DEFINE v == a.aggregator
  <2> HIDE DEF v
  <2>1. v # None => v \in Seq(Bytes) /\ Len(v) = 2 + Word
    BY <1>3, <1>5, <1>7 DEF v
  <2>2. v # None => ValueFits(7, v)
    <3> SUFFICES ASSUME v # None PROVE ValueFits(7, v)
      OBVIOUS
    <3>1. Len(v) >= 2 + Word
      BY <1>3, <2>1
    <3> QED  BY <3>1 DEF ValueFits
  <2>3. SomeFacts(RawSome(Optional + Transitive, 7, v), Optional + Transitive, 7, v, 2 + Word)
    BY <1>1, <1>2, <1>3, <2>1, <2>2, SomeBack
  <2> QED  BY <2>3 DEF v
<1> QED  BY <1>4, <1>8, <1>9

LEMMA ListsBack ==
    ASSUME NEW a \in AttributesOnWire
    PROVE  /\ ListFacts(RawList(Transitive, 2, a.as_path, SegmentsBytes(a.as_path)),
                        Transitive, 2, a.as_path, SegmentsBytes(a.as_path))
           /\ ListFacts(RawList(Optional + Transitive, 8, a.communities, FlattenSeq(a.communities)),
                        Optional + Transitive, 8, a.communities, FlattenSeq(a.communities))
           /\ ListFacts(RawList(Optional, 10, a.cluster_list, FlattenSeq(a.cluster_list)),
                        Optional, 10, a.cluster_list, FlattenSeq(a.cluster_list))
           /\ Segments(SegmentsBytes(a.as_path)) = a.as_path
           /\ Words(FlattenSeq(a.communities)) = a.communities
           /\ Words(FlattenSeq(a.cluster_list)) = a.cluster_list
<1>1. /\ Transitive \in KnownFlags /\ Optional \in KnownFlags
      /\ Optional + Transitive \in KnownFlags
  BY DEF KnownFlags
<1>2. 2 \in Bytes /\ 8 \in Bytes /\ 10 \in Bytes /\ Word \in Nat \ {0}
  BY ByteFacts, OctetsAssumption
<1>3. /\ a.as_path \in Seq(SegmentsOnWire) /\ Len(SegmentsBytes(a.as_path)) < Byte * Byte
      /\ a.communities \in Seq(AddressesOf(Word))
      /\ Len(FlattenSeq(a.communities)) < Byte * Byte
      /\ a.cluster_list \in Seq(AddressesOf(Word))
      /\ Len(FlattenSeq(a.cluster_list)) < Byte * Byte
  BY DEF AttributesOnWire
<1>4. /\ SegmentsBytes(a.as_path) \in Seq(Bytes)
      /\ Segments(SegmentsBytes(a.as_path)) = a.as_path
  BY <1>3, SegmentsBack
<1>5. /\ FlattenSeq(a.communities) \in Seq(Bytes)
      /\ Words(FlattenSeq(a.communities)) = a.communities
  BY <1>2, <1>3, ItemsBack DEF Words
<1>6. /\ FlattenSeq(a.cluster_list) \in Seq(Bytes)
      /\ Words(FlattenSeq(a.cluster_list)) = a.cluster_list
  BY <1>2, <1>3, ItemsBack DEF Words
<1>7. ValueFits(2, SegmentsBytes(a.as_path))
  <2>1. a.as_path # Err /\ \A i \in DOMAIN a.as_path : a.as_path[i].type \in {1, 2}
    <3>1. a.as_path # Err
      BY <1>3, CodecsAssumption
    <3>2. \A i \in DOMAIN a.as_path : a.as_path[i] \in SegmentsOnWire
      BY <1>3
    <3> QED  BY <3>1, <3>2 DEF SegmentsOnWire
  <2> QED  BY <1>4, <2>1 DEF ValueFits
<1>8. \A v : ValueFits(8, v) /\ ValueFits(10, v)
  BY DEF ValueFits
<1>9. ListFacts(RawList(Transitive, 2, a.as_path, SegmentsBytes(a.as_path)),
                Transitive, 2, a.as_path, SegmentsBytes(a.as_path))
  BY <1>1, <1>2, <1>3, <1>4, <1>7, ListBack
<1>10. ListFacts(RawList(Optional + Transitive, 8, a.communities, FlattenSeq(a.communities)),
                 Optional + Transitive, 8, a.communities, FlattenSeq(a.communities))
  BY <1>1, <1>2, <1>3, <1>5, <1>8, ListBack
<1>11. ListFacts(RawList(Optional, 10, a.cluster_list, FlattenSeq(a.cluster_list)),
                 Optional, 10, a.cluster_list, FlattenSeq(a.cluster_list))
  BY <1>1, <1>2, <1>3, <1>6, <1>8, ListBack
<1> QED  BY <1>4, <1>5, <1>6, <1>9, <1>10, <1>11

LEMMA AtomicBack ==
    ASSUME NEW set \in BOOLEAN
    PROVE  LET R == RawAtomic(set)
           IN  /\ Group(R, {6})
               /\ FlattenSeq(R) = IF set THEN WriteAttr(Transitive, 6, <<>>) ELSE <<>>
               /\ (ValuesOf(R) # <<>>) = set
<1>1. CASE set = FALSE
  BY <1>1, NoneKnown DEF RawAtomic
<1>2. CASE set = TRUE
  <2>1. /\ Transitive \in KnownFlags /\ 6 \in Bytes /\ <<>> \in Seq(Bytes)
        /\ Len(<<>>) < Byte * Byte /\ ValueFits(6, <<>>)
    <3>1. Byte \in Nat /\ Byte >= 16
      BY ByteFacts
    <3>2. 0 < Byte * Byte
      BY <3>1
    <3> QED  BY <3>1, <3>2, ByteFacts DEF KnownFlags, ValueFits
  <2> DEFINE R == <<WriteAttr(Transitive, 6, <<>>)>>
  <2>2. Group(R, {6}) /\ FlattenSeq(R) = WriteAttr(Transitive, 6, <<>>)
        /\ ValuesOf(R) = << <<>> >>
    BY <2>1, OneKnown
  <2> HIDE DEF R
  <2>3. ValuesOf(R) # <<>>
    BY <2>2
  <2> QED  BY <1>2, <2>2, <2>3 DEF RawAtomic, R
<1> QED  BY <1>1, <1>2

\* The groups of the known attributes, and what they are on the wire.
LEMMA RawsFacts ==
    ASSUME NEW a \in AttributesOnWire
    PROVE  /\ RawsOf(a) \in Seq(Seq(Seq(Bytes))) /\ Len(RawsOf(a)) = 10
           /\ \A j \in 1..10 : Group(RawsOf(a)[j], {j})
<1> DEFINE s == RawsOf(a)
           V == Seq(Seq(Bytes))
<1>1. /\ Group(RawSome(Transitive, 1, a.origin), {1})
      /\ Group(RawSome(Transitive, 3, a.next_hop), {3})
      /\ Group(RawSome(Optional, 4, a.multi_exit_disc), {4})
      /\ Group(RawSome(Transitive, 5, a.local_pref), {5})
      /\ Group(RawSome(Optional + Transitive, 7, a.aggregator), {7})
      /\ Group(RawSome(Optional, 9, a.originator_id), {9})
  BY OptionsBack DEF SomeFacts
<1>2. /\ Group(RawList(Transitive, 2, a.as_path, SegmentsBytes(a.as_path)), {2})
      /\ Group(RawList(Optional + Transitive, 8, a.communities, FlattenSeq(a.communities)), {8})
      /\ Group(RawList(Optional, 10, a.cluster_list, FlattenSeq(a.cluster_list)), {10})
  BY ListsBack DEF ListFacts
<1>3. Group(RawAtomic(a.atomic_aggregate), {6})
  <2>1. a.atomic_aggregate \in BOOLEAN
    BY DEF AttributesOnWire
  <2> QED  BY <2>1, AtomicBack
<1>4. /\ Len(s) = 10 /\ DOMAIN s = 1..10 /\ s = [j \in 1..10 |-> s[j]]
      /\ s[1] = RawSome(Transitive, 1, a.origin)
      /\ s[2] = RawList(Transitive, 2, a.as_path, SegmentsBytes(a.as_path))
      /\ s[3] = RawSome(Transitive, 3, a.next_hop)
      /\ s[4] = RawSome(Optional, 4, a.multi_exit_disc)
      /\ s[5] = RawSome(Transitive, 5, a.local_pref)
      /\ s[6] = RawAtomic(a.atomic_aggregate)
      /\ s[7] = RawSome(Optional + Transitive, 7, a.aggregator)
      /\ s[8] = RawList(Optional + Transitive, 8, a.communities, FlattenSeq(a.communities))
      /\ s[9] = RawSome(Optional, 9, a.originator_id)
      /\ s[10] = RawList(Optional, 10, a.cluster_list, FlattenSeq(a.cluster_list))
  BY DEF RawsOf
<1> HIDE DEF s
<1>5. \A j \in 1..10 : Group(s[j], {j})
  <2> SUFFICES ASSUME NEW j \in 1..10 PROVE Group(s[j], {j})
    OBVIOUS
  <2>1. j \in {1, 2, 3, 4, 5, 6, 7, 8, 9, 10}
    OBVIOUS
  <2>2. /\ Group(s[1], {1}) /\ Group(s[3], {3}) /\ Group(s[4], {4})
        /\ Group(s[5], {5}) /\ Group(s[7], {7}) /\ Group(s[9], {9})
    BY <1>1, <1>4, Zenon
  <2>3. Group(s[2], {2}) /\ Group(s[6], {6}) /\ Group(s[8], {8}) /\ Group(s[10], {10})
    BY <1>2, <1>3, <1>4, Zenon
  <2> QED  BY <2>1, <2>2, <2>3, Zenon
<1>6. \A j \in 1..10 : s[j] \in V
  BY <1>5 DEF Group
<1>7. s \in Seq(V)
  <2> HIDE DEF V
  <2>1. s \in [1..10 -> V]
    BY <1>4, <1>6
  <2>2. 10 \in Nat
    OBVIOUS
  <2>3. [1..10 -> V] \in {[1..n -> V] : n \in Nat}
    BY <2>2, Zenon
  <2> QED  BY <2>1, <2>3, SeqDef, Zenon
<1> QED  BY <1>4, <1>5, <1>7 DEF s

\* PathAttributes::serialize writes the known attributes by type, then the others.
LEMMA SerializedRaws ==
    ASSUME NEW a \in AttributesOnWire
    PROVE  SerializeAttributes(a) = FlattenSeq(FlattenSeq(RawsOf(a)) \o RawUnknown(a.unknown))
<1> DEFINE s == RawsOf(a)
           V == Seq(Bytes)
           U == RawUnknown(a.unknown)
<1>1. s \in Seq(Seq(V)) /\ Len(s) = 10 /\ \A j \in 1..10 : s[j] \in Seq(V)
  BY RawsFacts DEF Group
<1>2. U \in Seq(V)
  <2>1. a.unknown \in Seq(UnknownOnWire)
    BY DEF AttributesOnWire
  <2> QED  BY <2>1, UnknownsBack DEF Group
<1>3. PICK h \in [0..Len(s) -> Seq(V)] : Steps(h, s)
  <2> HIDE DEF V, s
  <2> QED  BY <1>1, StepsExist
<1>4. FlattenSeq(s) = h[10]
  <2> HIDE DEF V, s
  <2>1. FlattenSeq(s) = h[Len(s)]
    BY <1>1, <1>3, FlattenSteps
  <2> QED  BY <1>1, <2>1
<1> DEFINE g(k) == FlattenSeq(h[k])
           B(k) == FlattenSeq(s[k])
<1>5. \A k \in 1..10 : g(k) = g(k - 1) \o B(k)
  <2> SUFFICES ASSUME NEW k \in 1..10 PROVE g(k) = g(k - 1) \o B(k)
    OBVIOUS
  <2>1. k - 1 \in 0..10 /\ h[k] = h[k - 1] \o s[k]
    <3> HIDE DEF s, V
    <3>1. \A i \in 1..Len(s) : h[i] = h[i - 1] \o s[i]
      BY <1>3, Zenon DEF Steps
    <3>2. k \in 1..Len(s) /\ k - 1 \in 0..10
      BY <1>1
    <3> QED  BY <3>1, <3>2, Zenon
  <2>2. h[k - 1] \in Seq(Seq(Bytes)) /\ s[k] \in Seq(Seq(Bytes))
    BY <1>1, <1>3, <2>1
  <2>3. FlattenSeq(h[k - 1] \o s[k]) = FlattenSeq(h[k - 1]) \o FlattenSeq(s[k])
    BY <2>2, FlattenConcat
  <2> QED  BY <2>1, <2>3
<1>6. g(0) = <<>> /\ B(1) \in Seq(Bytes)
  <2>1. h[0] = <<>>
    BY <1>3 DEF Steps
  <2>2. s[1] \in Seq(Seq(Bytes))
    BY <1>1
  <2> QED  BY <2>1, <2>2, FlattenNone, FlattenType
<1>7. g(1) = B(1)
  <2>1. g(1) = <<>> \o B(1)
    <3> HIDE DEF g, B
    <3>1. 1 \in 1..10 /\ 1 - 1 = 0
      OBVIOUS
    <3>2. g(1) = g(1 - 1) \o B(1)
      BY <1>5, <3>1, Zenon
    <3>3. g(1 - 1) = g(0)
      BY <3>1, Zenon
    <3> QED  BY <1>6, <3>2, <3>3, Zenon
  <2> HIDE DEF g, B
  <2> QED  BY <1>6, <2>1, ConcatEmptySeq
<1>8. g(10) = ((((((((B(1) \o B(2)) \o B(3)) \o B(4)) \o B(5)) \o B(6)) \o B(7)) \o B(8))
                 \o B(9)) \o B(10)
  <2>1. /\ g(2) = g(1) \o B(2) /\ g(3) = g(2) \o B(3) /\ g(4) = g(3) \o B(4)
        /\ g(5) = g(4) \o B(5) /\ g(6) = g(5) \o B(6) /\ g(7) = g(6) \o B(7)
        /\ g(8) = g(7) \o B(8) /\ g(9) = g(8) \o B(9) /\ g(10) = g(9) \o B(10)
    <3> HIDE DEF g, B
    <3>1. \A k \in 1..10, n \in 0..10 : k - 1 = n => g(k) = g(n) \o B(k)
      BY <1>5, Zenon
    <3>2. g(2) = g(1) \o B(2)
      <4>1. 2 \in 1..10 /\ 1 \in 0..10 /\ 2 - 1 = 1
        OBVIOUS
      <4> QED  BY <3>1, <4>1, Zenon
    <3>3. g(3) = g(2) \o B(3)
      <4>1. 3 \in 1..10 /\ 2 \in 0..10 /\ 3 - 1 = 2
        OBVIOUS
      <4> QED  BY <3>1, <4>1, Zenon
    <3>4. g(4) = g(3) \o B(4)
      <4>1. 4 \in 1..10 /\ 3 \in 0..10 /\ 4 - 1 = 3
        OBVIOUS
      <4> QED  BY <3>1, <4>1, Zenon
    <3>5. g(5) = g(4) \o B(5)
      <4>1. 5 \in 1..10 /\ 4 \in 0..10 /\ 5 - 1 = 4
        OBVIOUS
      <4> QED  BY <3>1, <4>1, Zenon
    <3>6. g(6) = g(5) \o B(6)
      <4>1. 6 \in 1..10 /\ 5 \in 0..10 /\ 6 - 1 = 5
        OBVIOUS
      <4> QED  BY <3>1, <4>1, Zenon
    <3>7. g(7) = g(6) \o B(7)
      <4>1. 7 \in 1..10 /\ 6 \in 0..10 /\ 7 - 1 = 6
        OBVIOUS
      <4> QED  BY <3>1, <4>1, Zenon
    <3>8. g(8) = g(7) \o B(8)
      <4>1. 8 \in 1..10 /\ 7 \in 0..10 /\ 8 - 1 = 7
        OBVIOUS
      <4> QED  BY <3>1, <4>1, Zenon
    <3>9. g(9) = g(8) \o B(9)
      <4>1. 9 \in 1..10 /\ 8 \in 0..10 /\ 9 - 1 = 8
        OBVIOUS
      <4> QED  BY <3>1, <4>1, Zenon
    <3>10. g(10) = g(9) \o B(10)
      <4>1. 10 \in 1..10 /\ 9 \in 0..10 /\ 10 - 1 = 9
        OBVIOUS
      <4> QED  BY <3>1, <4>1, Zenon
    <3> QED  BY <3>2, <3>3, <3>4, <3>5, <3>6, <3>7, <3>8, <3>9, <3>10, Zenon
  <2> HIDE DEF g, B
  <2> QED  BY <1>7, <2>1, Zenon
<1>9. FlattenSeq(FlattenSeq(s) \o U) = g(10) \o FlattenSeq(U)
  <2>1. h[10] \in Seq(V)
    BY <1>1, <1>3
  <2>2. FlattenSeq(h[10] \o U) = FlattenSeq(h[10]) \o FlattenSeq(U)
    BY <1>2, <2>1, FlattenConcat
  <2> QED  BY <1>4, <2>2
<1>10. /\ B(1) = (IF a.origin = None THEN <<>> ELSE WriteAttr(Transitive, 1, a.origin))
       /\ B(3) = (IF a.next_hop = None THEN <<>> ELSE WriteAttr(Transitive, 3, a.next_hop))
       /\ B(4) = (IF a.multi_exit_disc = None THEN <<>>
                  ELSE WriteAttr(Optional, 4, a.multi_exit_disc))
       /\ B(5) = (IF a.local_pref = None THEN <<>> ELSE WriteAttr(Transitive, 5, a.local_pref))
       /\ B(7) = (IF a.aggregator = None THEN <<>>
                  ELSE WriteAttr(Optional + Transitive, 7, a.aggregator))
       /\ B(9) = (IF a.originator_id = None THEN <<>>
                  ELSE WriteAttr(Optional, 9, a.originator_id))
  <2>1. /\ s[1] = RawSome(Transitive, 1, a.origin)
        /\ s[3] = RawSome(Transitive, 3, a.next_hop)
        /\ s[4] = RawSome(Optional, 4, a.multi_exit_disc)
        /\ s[5] = RawSome(Transitive, 5, a.local_pref)
        /\ s[7] = RawSome(Optional + Transitive, 7, a.aggregator)
        /\ s[9] = RawSome(Optional, 9, a.originator_id)
    BY DEF RawsOf
  <2> HIDE DEF s
  <2> QED  BY <2>1, OptionsBack DEF SomeFacts
<1>11. /\ B(2) = (IF a.as_path = <<>> THEN <<>>
                  ELSE WriteAttr(Transitive, 2, SegmentsBytes(a.as_path)))
       /\ B(8) = (IF a.communities = <<>> THEN <<>>
                  ELSE WriteAttr(Optional + Transitive, 8, FlattenSeq(a.communities)))
       /\ B(10) = (IF a.cluster_list = <<>> THEN <<>>
                   ELSE WriteAttr(Optional, 10, FlattenSeq(a.cluster_list)))
  <2>1. /\ s[2] = RawList(Transitive, 2, a.as_path, SegmentsBytes(a.as_path))
        /\ s[8] = RawList(Optional + Transitive, 8, a.communities, FlattenSeq(a.communities))
        /\ s[10] = RawList(Optional, 10, a.cluster_list, FlattenSeq(a.cluster_list))
    BY DEF RawsOf
  <2> HIDE DEF s
  <2> QED  BY <2>1, ListsBack DEF ListFacts
<1>12. B(6) = (IF a.atomic_aggregate THEN WriteAttr(Transitive, 6, <<>>) ELSE <<>>)
  <2>1. s[6] = RawAtomic(a.atomic_aggregate) /\ a.atomic_aggregate \in BOOLEAN
    BY DEF RawsOf, AttributesOnWire
  <2> HIDE DEF s
  <2> QED  BY <2>1, AtomicBack
<1>13. SerializeAttributes(a) =
         (((((((((B(1) \o B(2)) \o B(3)) \o B(4)) \o B(5)) \o B(6)) \o B(7)) \o B(8))
                 \o B(9)) \o B(10)) \o FlattenSeq(U)
  <2> DEFINE E1 == IF a.origin = None THEN <<>> ELSE WriteAttr(Transitive, 1, a.origin)
             E2 == IF a.as_path = <<>> THEN <<>> ELSE WriteAttr(Transitive, 2, SegmentsBytes(a.as_path))
             E3 == IF a.next_hop = None THEN <<>> ELSE WriteAttr(Transitive, 3, a.next_hop)
             E4 == IF a.multi_exit_disc = None THEN <<>> ELSE WriteAttr(Optional, 4, a.multi_exit_disc)
             E5 == IF a.local_pref = None THEN <<>> ELSE WriteAttr(Transitive, 5, a.local_pref)
             E6 == IF a.atomic_aggregate THEN WriteAttr(Transitive, 6, <<>>) ELSE <<>>
             E7 == IF a.aggregator = None THEN <<>> ELSE WriteAttr(Optional + Transitive, 7, a.aggregator)
             E8 == IF a.communities = <<>> THEN <<>>
                ELSE WriteAttr(Optional + Transitive, 8, FlattenSeq(a.communities))
             E9 == IF a.originator_id = None THEN <<>> ELSE WriteAttr(Optional, 9, a.originator_id)
             E10 == IF a.cluster_list = <<>> THEN <<>> ELSE WriteAttr(Optional, 10, FlattenSeq(a.cluster_list))
  <2>1. SerializeAttributes(a) =
          (((((((((E1 \o E2) \o E3) \o E4) \o E5) \o E6) \o E7) \o E8) \o E9) \o E10) \o FlattenSeq(U)
    BY DEF SerializeAttributes, RawUnknown
  <2> HIDE DEF B
  <2>2. B(1) = E1 /\ B(3) = E3 /\ B(4) = E4 /\ B(5) = E5 /\ B(7) = E7 /\ B(9) = E9
    BY <1>10
  <2>3. B(2) = E2 /\ B(8) = E8 /\ B(10) = E10 /\ B(6) = E6
    BY <1>11, <1>12
  <2> HIDE DEF U, E1, E2, E3, E4, E5, E6, E7, E8, E9, E10
  <2> QED  BY <2>1, <2>2, <2>3
<1> HIDE DEF B, g
<1> QED  BY <1>8, <1>9, <1>13

\* All attributes of a, as they are written one after the other.
AttrsWritten(a) == FlattenSeq(RawsOf(a)) \o RawUnknown(a.unknown)

LEMMA AttributesSorted ==
    ASSUME NEW a \in AttributesOnWire
    PROVE  /\ Group(AttrsWritten(a), Bytes)
           /\ \A j \in 1..10 : OfType(AttrsWritten(a), {j}) = RawsOf(a)[j]
           /\ OfType(AttrsWritten(a), Bytes \ 1..10) = RawUnknown(a.unknown)
<1> DEFINE s == RawsOf(a)
           K == FlattenSeq(s)
           U == RawUnknown(a.unknown)
           raws == K \o U
           V == Seq(Bytes)
<1>1. s \in Seq(Seq(Seq(Bytes))) /\ Len(s) = 10 /\ \A j \in 1..10 : Group(s[j], {j})
  BY RawsFacts
<1>2. Group(U, Bytes \ 1..10)
  <2>1. a.unknown \in Seq(UnknownOnWire)
    BY DEF AttributesOnWire
  <2> QED  BY <2>1, UnknownsBack
<1>3. SortedTo(K, 10, s)
  <2> HIDE DEF s
  <2>1. PICK h \in [0..Len(s) -> Seq(V)] : Steps(h, s)
    <3> HIDE DEF V
    <3>1. s \in Seq(Seq(V))
      BY <1>1 DEF V
    <3> QED  BY <3>1, StepsExist
  <2>2. K = h[Len(s)]
    <3> HIDE DEF V
    <3>1. s \in Seq(Seq(V))
      BY <1>1 DEF V
    <3> QED  BY <2>1, <3>1, FlattenSteps
  <2>3. \A k \in 0..Len(s) : SortedTo(h[k], k, s)
    BY <1>1, <2>1, SortedAll
  <2>4. Len(s) \in 0..Len(s) /\ Len(s) = 10
    BY <1>1
  <2> QED  BY <2>2, <2>3, <2>4
<1> HIDE DEF s, K, U
<1>4. Group(raws, Bytes)
  <2>1. Group(raws, (1..10) \cup (Bytes \ 1..10))
    BY <1>2, <1>3, GroupConcat DEF SortedTo
  <2>2. (1..10) \cup (Bytes \ 1..10) = Bytes
    BY ByteFacts
  <2> QED  BY <2>1, <2>2, Zenon
<1>5. K \in Seq(V) /\ U \in Seq(V) /\ raws \in Seq(V)
  BY <1>2, <1>3, <1>4 DEF SortedTo, Group
<1>6. \A j \in 1..10 : OfType(raws, {j}) = s[j]
  <2> SUFFICES ASSUME NEW j \in 1..10 PROVE OfType(raws, {j}) = s[j]
    OBVIOUS
  <2>1. OfType(raws, {j}) = OfType(K, {j}) \o OfType(U, {j})
    <3> HIDE DEF V
    <3>1. Splits(K, U, {j})
      BY <1>5, OfTypeSplits, Zenon
    <3> QED  BY <3>1, Zenon DEF Splits
  <2>2. OfType(U, {j}) = <<>>
    <3>1. (Bytes \ 1..10) \cap {j} = {}
      OBVIOUS
    <3> QED  BY <1>2, <3>1, GroupOfType
  <2>3. OfType(K, {j}) = s[j] /\ s[j] \in Seq(V)
    BY <1>1, <1>3 DEF SortedTo, Group
  <2>4. s[j] \o <<>> = s[j]
    <3> HIDE DEF V
    <3> QED  BY <2>3, ConcatEmptySeq
  <2> QED  BY <2>1, <2>2, <2>3, <2>4
<1>7. OfType(raws, Bytes \ 1..10) = U
  <2>1. OfType(raws, Bytes \ 1..10) = OfType(K, Bytes \ 1..10) \o OfType(U, Bytes \ 1..10)
    <3> HIDE DEF V
    <3>1. Splits(K, U, Bytes \ 1..10)
      BY <1>5, OfTypeSplits, Zenon
    <3> QED  BY <3>1, Zenon DEF Splits
  <2>2. OfType(U, Bytes \ 1..10) = U
    BY <1>2, GroupOfType
  <2>3. OfType(K, Bytes \ 1..10) = <<>>
    <3>1. (1..10) \cap (Bytes \ 1..10) = {}
      OBVIOUS
    <3> QED  BY <1>3, <3>1, GroupOfType DEF SortedTo
  <2>4. <<>> \o U = U
    <3> HIDE DEF V
    <3> QED  BY <1>5, ConcatEmptySeq
  <2> QED  BY <2>1, <2>2, <2>3, <2>4
<1> QED  BY <1>4, <1>6, <1>7, Zenon DEF AttrsWritten, s, K, U

\* PathAttributes::parse takes back what PathAttributes::serialize did.
LEMMA AttributesBack ==
    ASSUME NEW a \in AttributesOnWire
    PROVE  /\ SerializeAttributes(a) \in Seq(Bytes)
           /\ ParseAttributes(SerializeAttributes(a)) = a
<1> DEFINE s == RawsOf(a)
           U == RawUnknown(a.unknown)
           raws == AttrsWritten(a)
<1>1. /\ Group(raws, Bytes) /\ \A j \in 1..10 : OfType(raws, {j}) = s[j]
      /\ OfType(raws, Bytes \ 1..10) = U
  BY AttributesSorted
<1>2. [i \in DOMAIN U |-> [flags |-> U[i][1], type_code |-> TypeCode(U[i]),
                           value |-> Value(U[i])]] = a.unknown
  <2>1. a.unknown \in Seq(UnknownOnWire)
    BY DEF AttributesOnWire
  <2> QED  BY <2>1, UnknownsBack
<1>3. SerializeAttributes(a) = FlattenSeq(raws)
  BY SerializedRaws DEF AttrsWritten
<1> HIDE DEF s, U, raws
<1>4. \A j \in 1..10 : Values(raws, j) = ValuesOf(s[j])
  BY <1>1 DEF Values, ValuesOf
<1>5. ParseAttributes(FlattenSeq(raws)) = Collected(raws)
  <2>1. raws \in Seq(Seq(Bytes)) /\ \A i \in 1..Len(raws) : IsRaw(raws[i])
    BY <1>1 DEF Group
  <2> QED  BY <2>1, AttrsBack
<1>6. FlattenSeq(raws) \in Seq(Bytes)
  BY <1>1, FlattenType DEF Group
<1>7. /\ LastValue(raws, 1, 1) = a.origin
      /\ LastValue(raws, 3, Word) = a.next_hop
      /\ LastValue(raws, 4, Word) = a.multi_exit_disc
      /\ LastValue(raws, 5, Word) = a.local_pref
      /\ LastValue(raws, 7, 2 + Word) = a.aggregator
      /\ LastValue(raws, 9, Word) = a.originator_id
  <2>1. /\ s[1] = RawSome(Transitive, 1, a.origin)
        /\ s[3] = RawSome(Transitive, 3, a.next_hop)
        /\ s[4] = RawSome(Optional, 4, a.multi_exit_disc)
        /\ s[5] = RawSome(Transitive, 5, a.local_pref)
        /\ s[7] = RawSome(Optional + Transitive, 7, a.aggregator)
        /\ s[9] = RawSome(Optional, 9, a.originator_id)
    BY DEF RawsOf, s
  <2>2. /\ Values(raws, 1) = ValuesOf(s[1]) /\ Values(raws, 3) = ValuesOf(s[3])
        /\ Values(raws, 4) = ValuesOf(s[4]) /\ Values(raws, 5) = ValuesOf(s[5])
        /\ Values(raws, 7) = ValuesOf(s[7]) /\ Values(raws, 9) = ValuesOf(s[9])
    BY <1>4
  <2> QED  BY <2>1, <2>2, OptionsBack DEF SomeFacts, LastValue
<1>8. (Values(raws, 6) # <<>>) = a.atomic_aggregate
  <2>1. s[6] = RawAtomic(a.atomic_aggregate) /\ a.atomic_aggregate \in BOOLEAN
    BY DEF RawsOf, AttributesOnWire, s
  <2>2. Values(raws, 6) = ValuesOf(s[6])
    BY <1>4
  <2> QED  BY <2>1, <2>2, AtomicBack
<1>9. /\ Values(raws, 2) = IF a.as_path = <<>> THEN <<>> ELSE <<SegmentsBytes(a.as_path)>>
      /\ Values(raws, 8) = IF a.communities = <<>> THEN <<>> ELSE <<FlattenSeq(a.communities)>>
      /\ Values(raws, 10) = IF a.cluster_list = <<>> THEN <<>>
                            ELSE <<FlattenSeq(a.cluster_list)>>
  <2>1. /\ s[2] = RawList(Transitive, 2, a.as_path, SegmentsBytes(a.as_path))
        /\ s[8] = RawList(Optional + Transitive, 8, a.communities, FlattenSeq(a.communities))
        /\ s[10] = RawList(Optional, 10, a.cluster_list, FlattenSeq(a.cluster_list))
    BY DEF RawsOf, s
  <2>2. /\ Values(raws, 2) = ValuesOf(s[2]) /\ Values(raws, 8) = ValuesOf(s[8])
        /\ Values(raws, 10) = ValuesOf(s[10])
    BY <1>4
  <2> QED  BY <2>1, <2>2, ListsBack DEF ListFacts
<1>10. Collected(raws) = a
  <2>1. FlattenSeq([i \in DOMAIN Values(raws, 2) |-> Segments(Values(raws, 2)[i])]) = a.as_path
    <3>1. CASE a.as_path = <<>>
      <4>1. [i \in DOMAIN <<>> |-> Segments(<<>>[i])] = <<>>
        OBVIOUS
      <4> QED  BY <1>9, <3>1, <4>1, FlattenNone
    <3>2. CASE a.as_path # <<>>
      <4> DEFINE v == SegmentsBytes(a.as_path)
      <4>1. Values(raws, 2) = <<v>> /\ Segments(v) = a.as_path
        BY <1>9, <3>2, ListsBack
      <4> HIDE DEF v
      <4>2. [i \in DOMAIN <<v>> |-> Segments(<<v>>[i])] = <<a.as_path>>
        BY <4>1
      <4>3. FlattenSeq(<<a.as_path>>) = a.as_path
        <5>1. a.as_path \in Seq(SegmentsOnWire)
          BY DEF AttributesOnWire
        <5> QED  BY <5>1, FlattenOne
      <4> QED  BY <4>1, <4>2, <4>3
    <3> QED  BY <3>1, <3>2
  <2>2. FlattenSeq([i \in DOMAIN Values(raws, 8) |-> Words(Values(raws, 8)[i])]) = a.communities
    <3>1. CASE a.communities = <<>>
      <4>1. [i \in DOMAIN <<>> |-> Words(<<>>[i])] = <<>>
        OBVIOUS
      <4> QED  BY <1>9, <3>1, <4>1, FlattenNone
    <3>2. CASE a.communities # <<>>
      <4> DEFINE v == FlattenSeq(a.communities)
      <4>1. Values(raws, 8) = <<v>> /\ Words(v) = a.communities
        BY <1>9, <3>2, ListsBack
      <4> HIDE DEF v
      <4>2. [i \in DOMAIN <<v>> |-> Words(<<v>>[i])] = <<a.communities>>
        BY <4>1
      <4>3. FlattenSeq(<<a.communities>>) = a.communities
        <5>1. a.communities \in Seq(AddressesOf(Word))
          BY DEF AttributesOnWire
        <5> QED  BY <5>1, FlattenOne
      <4> QED  BY <4>1, <4>2, <4>3
    <3> QED  BY <3>1, <3>2
  <2>3. FlattenSeq([i \in DOMAIN Values(raws, 10) |-> Words(Values(raws, 10)[i])])
          = a.cluster_list
    <3>1. CASE a.cluster_list = <<>>
      <4>1. [i \in DOMAIN <<>> |-> Words(<<>>[i])] = <<>>
        OBVIOUS
      <4> QED  BY <1>9, <3>1, <4>1, FlattenNone
    <3>2. CASE a.cluster_list # <<>>
      <4> DEFINE v == FlattenSeq(a.cluster_list)
      <4>1. Values(raws, 10) = <<v>> /\ Words(v) = a.cluster_list
        BY <1>9, <3>2, ListsBack
      <4> HIDE DEF v
      <4>2. [i \in DOMAIN <<v>> |-> Words(<<v>>[i])] = <<a.cluster_list>>
        BY <4>1
      <4>3. FlattenSeq(<<a.cluster_list>>) = a.cluster_list
        <5>1. a.cluster_list \in Seq(AddressesOf(Word))
          BY DEF AttributesOnWire
        <5> QED  BY <5>1, FlattenOne
      <4> QED  BY <4>1, <4>2, <4>3
    <3> QED  BY <3>1, <3>2
  <2>4. Collected(raws) =
          [origin |-> a.origin, as_path |-> a.as_path, next_hop |-> a.next_hop,
           multi_exit_disc |-> a.multi_exit_disc, local_pref |-> a.local_pref,
           atomic_aggregate |-> a.atomic_aggregate, aggregator |-> a.aggregator,
           communities |-> a.communities, originator_id |-> a.originator_id,
           cluster_list |-> a.cluster_list, unknown |-> a.unknown]
    BY <1>1, <1>2, <1>7, <1>8, <2>1, <2>2, <2>3 DEF Collected
  <2>5. a = [origin |-> a.origin, as_path |-> a.as_path, next_hop |-> a.next_hop,
             multi_exit_disc |-> a.multi_exit_disc, local_pref |-> a.local_pref,
             atomic_aggregate |-> a.atomic_aggregate, aggregator |-> a.aggregator,
             communities |-> a.communities, originator_id |-> a.originator_id,
             cluster_list |-> a.cluster_list, unknown |-> a.unknown]
    BY DEF AttributesOnWire
  <2> QED  BY <2>4, <2>5
<1> QED  BY <1>3, <1>5, <1>6, <1>10

\* A part of a message behind its length, with z behind the part.
IsCounted(b, x, z) ==
    /\ b \in Seq(Bytes) /\ Len(b) = 2 + Len(x) + Len(z)
    /\ GetU16(b) = Len(x)
    /\ Rest(b, 2) \in Seq(Bytes) /\ Len(Rest(b, 2)) = Len(x) + Len(z)
    /\ SubSeq(Rest(b, 2), 1, Len(x)) = x
    /\ Rest(Rest(b, 2), Len(x)) = z

LEMMA Counted ==
    ASSUME NEW x \in Seq(Bytes), NEW z \in Seq(Bytes), Len(x) < Byte * Byte
    PROVE  IsCounted(U16(Len(x)) \o (x \o z), x, z)
<1> DEFINE u == U16(Len(x))
           y == x \o z
           b == u \o y
<1>1. Len(x) \in Nat /\ Len(z) \in Nat /\ Len(x) \in U16s
  <2>1. Byte * Byte \in Nat
    BY ByteFacts
  <2> QED  BY <2>1 DEF U16s
<1>2. /\ u \in Seq(Bytes) /\ Len(u) = 2
      /\ \A c : c[1] = u[1] /\ c[2] = u[2] => GetU16(c) = Len(x)
  BY <1>1, U16Back
<1>3. IsTwo(y, Bytes, x, z)
  BY TwoParts
<1> HIDE DEF u, y
<1>4. y \in Seq(Bytes) /\ Len(y) = Len(x) + Len(z)
  BY <1>3, Zenon DEF IsTwo
<1>5. SubSeq(y, 1, Len(x)) = x /\ Rest(y, Len(x)) = z
  BY <1>3, Zenon DEF IsTwo
<1>6. IsTwo(b, Bytes, u, y)
  BY <1>2, <1>4, TwoParts
<1> HIDE DEF b
<1>7. b \in Seq(Bytes) /\ Len(b) = Len(u) + Len(y)
  BY <1>6, Zenon DEF IsTwo
<1>8. b[1] = u[1] /\ b[2] = u[2]
  <2>1. \A j \in 1..Len(u) : b[j] = u[j]
    BY <1>6, Zenon DEF IsTwo
  <2>2. 1 \in 1..Len(u) /\ 2 \in 1..Len(u)
    BY <1>2
  <2> QED  BY <2>1, <2>2, Zenon
<1>9. Rest(b, 2) = y
  BY <1>2, <1>6 DEF IsTwo
<1>10. GetU16(b) = Len(x)
  BY <1>2, <1>8, Zenon
<1>11. Len(b) = 2 + Len(x) + Len(z)
  BY <1>1, <1>2, <1>4, <1>7
<1>12. IsCounted(b, x, z)
  BY <1>4, <1>5, <1>7, <1>9, <1>10, <1>11, Zenon DEF IsCounted
<1> QED  BY <1>12 DEF b, u, y

\* Pieces of a message put together from the left are put together from the right.
RegroupsAll(S, u, w, v, a, n) ==
    /\ (((u \o w) \o v) \o a) \o n = u \o (w \o (v \o (a \o n)))
    /\ v \o (a \o n) \in Seq(S)

LEMMA AllRegrouped ==
    ASSUME NEW S, NEW u \in Seq(S), NEW w \in Seq(S), NEW v \in Seq(S), NEW a \in Seq(S),
           NEW n \in Seq(S)
    PROVE  RegroupsAll(S, u, w, v, a, n)
<1> DEFINE an  == a \o n
           van == v \o an
           uw  == u \o w
           uwv == uw \o v
<1>1. an \in Seq(S) /\ uw \in Seq(S)
  BY ConcatType, Zenon
<1>2. uwv \in Seq(S) /\ van \in Seq(S)
  <2> HIDE DEF an, uw
  <2> QED  BY <1>1, ConcatType, Zenon
<1>3. Regroups(uwv, a, n)
  <2> HIDE DEF uwv
  <2> QED  BY <1>2, Regrouped, Zenon
<1>4. Regroups(uw, v, an)
  <2> HIDE DEF uw, an
  <2> QED  BY <1>1, Regrouped, Zenon
<1>5. Regroups(u, w, van)
  <2> HIDE DEF van
  <2> QED  BY <1>2, Regrouped, Zenon
<1> QED  BY <1>2, <1>3, <1>4, <1>5, Zenon DEF Regroups, RegroupsAll

\* UpdateMessage::parse takes back what UpdateMessage::serialize did.
UpdateLayout(b, m) ==
    \E w, a, n, c \in Seq(Bytes) :
       /\ ParsePrefixes(w, Word) = m.withdrawn_routes
       /\ ParseAttributes(a) = m.path_attributes
       /\ n = SerializePrefixes(m.nlri)
       /\ IsCounted(b, w, c) /\ IsCounted(c, a, n)

LEMMA UpdateBack ==
    ASSUME NEW m \in Updates
    PROVE  /\ ParseUpdate(SerializeUpdate(m)) = m
           /\ UpdateLayout(SerializeUpdate(m), m)
<1> DEFINE W == m.withdrawn_routes
           A == m.path_attributes
           N == m.nlri
           w == SerializePrefixes(W)
           a == SerializeAttributes(A)
           n == SerializePrefixes(N)
           c == U16(Len(a)) \o (a \o n)
           b == U16(Len(w)) \o (w \o c)
           R == [withdrawn_routes |-> W, path_attributes |-> A, nlri |-> N]
<1>1. /\ m = R
      /\ W \in Seq(PrefixesOf(Word)) /\ A \in AttributesOnWire /\ N \in Seq(PrefixesOf(Word))
      /\ Len(w) < Byte * Byte /\ Len(a) < Byte * Byte
  BY DEF Updates
<1>2. SerializeUpdate(m) = (((U16(Len(w)) \o w) \o U16(Len(a))) \o a) \o n
  BY DEF SerializeUpdate
<1> HIDE DEF W, A, N, R
<1>3. /\ Word \in Nat \ {0} /\ Word \in {Word, LongWord}
      /\ Err \notin Seq(Seq(Bytes)) /\ Panic \notin Seq(Seq(Bytes))
  BY OctetsAssumption, CodecsAssumption
<1>4. /\ W \notin {Err, Panic} /\ A \notin {Err, Panic} /\ N \notin {Err, Panic}
  BY <1>1, <1>3, CodecsAssumption
<1>5. /\ ParsePrefixes(w, Word) = W /\ w \in Seq(Bytes)
      /\ ParsePrefixes(n, Word) = N /\ n \in Seq(Bytes)
  BY <1>1, <1>3, PrefixesBack
<1>6. a \in Seq(Bytes) /\ ParseAttributes(a) = A
  BY <1>1, AttributesBack
<1> HIDE DEF w, a, n
<1>7. IsCounted(c, a, n)
  BY <1>1, <1>5, <1>6, Counted
<1>8. SerializeUpdate(m) = b /\ c \in Seq(Bytes)
  <2> DEFINE u == U16(Len(w))
             v == U16(Len(a))
  <2>1. u \in Seq(Bytes) /\ v \in Seq(Bytes)
    <3>1. Len(w) \in U16s /\ Len(a) \in U16s
      <4>1. Len(w) \in Nat /\ Len(a) \in Nat /\ Byte * Byte \in Nat
        BY <1>5, <1>6, ByteFacts
      <4> QED  BY <1>1, <4>1 DEF U16s
    <3> QED  BY <3>1, U16Back
  <2> HIDE DEF u, v
  <2>2. RegroupsAll(Bytes, u, w, v, a, n)
    BY <1>5, <1>6, <2>1, AllRegrouped, Zenon
  <2> QED  BY <1>2, <2>2, Zenon DEF u, v, RegroupsAll
<1> HIDE DEF c
<1>9. IsCounted(b, w, c)
  BY <1>1, <1>5, <1>8, Counted
<1> HIDE DEF b
<1>10. ParseRoutes(W, c) = R
  <2>1. /\ Len(c) = 2 + Len(a) + Len(n) /\ GetU16(c) = Len(a)
        /\ Len(Rest(c, 2)) = Len(a) + Len(n)
        /\ SubSeq(Rest(c, 2), 1, Len(a)) = a
        /\ Rest(Rest(c, 2), Len(a)) = n
    BY <1>7, Zenon DEF IsCounted
  <2>2. Len(a) \in Nat /\ Len(n) \in Nat
    BY <1>5, <1>6
  <2>3. ~(Len(c) < 2) /\ ~(Len(Rest(c, 2)) < GetU16(c))
    BY <2>1, <2>2
  <2>4. /\ ParseAttributes(SubSeq(Rest(c, 2), 1, GetU16(c))) = A
        /\ ParsePrefixes(Rest(Rest(c, 2), GetU16(c)), Word) = N
    BY <1>5, <1>6, <2>1, Zenon
  <2> QED  BY <1>4, <2>3, <2>4 DEF ParseRoutes, Try, R
<1>11. ParseUpdate(b) = ParseRoutes(W, c)
  <2>1. /\ Len(b) = 2 + Len(w) + Len(c) /\ GetU16(b) = Len(w)
        /\ Len(Rest(b, 2)) = Len(w) + Len(c)
        /\ SubSeq(Rest(b, 2), 1, Len(w)) = w
        /\ Rest(Rest(b, 2), Len(w)) = c
    BY <1>9, Zenon DEF IsCounted
  <2>2. Len(w) \in Nat /\ Len(c) \in Nat /\ Len(c) >= 2
    <3>1. Len(a) \in Nat /\ Len(n) \in Nat /\ Len(w) \in Nat
      BY <1>5, <1>6
    <3>2. Len(c) = 2 + Len(a) + Len(n)
      BY <1>7, Zenon DEF IsCounted
    <3> QED  BY <3>1, <3>2
  <2>3. ~(Len(b) < 4) /\ ~(Len(Rest(b, 2)) < GetU16(b))
    BY <2>1, <2>2
  <2>4. ParsePrefixes(SubSeq(Rest(b, 2), 1, GetU16(b)), Word) = W
    BY <1>5, <2>1, Zenon
  <2>5. Rest(Rest(b, 2), GetU16(b)) = c
    BY <2>1, Zenon
  <2> QED  BY <1>4, <2>3, <2>4, <2>5 DEF ParseUpdate, Try
<1>12. UpdateLayout(b, m)
  <2>1. /\ ParsePrefixes(w, Word) = m.withdrawn_routes
        /\ ParseAttributes(a) = m.path_attributes
        /\ n = SerializePrefixes(m.nlri)
    BY <1>5, <1>6, Zenon DEF W, A, N, n
  <2> QED  BY <1>5, <1>6, <1>7, <1>8, <1>9, <2>1, Zenon DEF UpdateLayout
<1> QED  BY <1>1, <1>8, <1>10, <1>11, <1>12, Zenon

-----------------------------------------------------------------------------

\* Every parser takes back what its serialiser did.
LEMMA EveryMessageBack ==
    ASSUME NEW k \in Kinds, NEW m \in MessagesOf(k)
    PROVE  Parse(k, Serialize(k, m)) = m
<1>1. CASE k = "Attributes"
  <2>1. m \in AttributesOnWire
    BY <1>1 DEF MessagesOf
  <2>2. ParseAttributes(SerializeAttributes(m)) = m
    BY <2>1, AttributesBack
  <2> QED  BY <1>1, <2>2 DEF Parse, Serialize
<1>2. CASE k = "Update"
  <2>1. m \in Updates
    BY <1>2 DEF MessagesOf
  <2>2. ParseUpdate(SerializeUpdate(m)) = m
    BY <2>1, UpdateBack
  <2> QED  BY <1>2, <2>2 DEF Parse, Serialize
<1>3. CASE k = "Open"
  <2>1. m \in Opens
    BY <1>3 DEF MessagesOf
  <2>2. ParseOpen(SerializeOpen(m)) = m
    BY <2>1, OpenBack
  <2> QED  BY <1>3, <2>2 DEF Parse, Serialize
<1>4. CASE k = "Notification"
  <2>1. ParseNotification(SerializeNotification(m)) = m
    BY <1>4, NotificationBack
  <2> QED  BY <1>4, <2>1 DEF Parse, Serialize
<1>5. CASE k = "RouteRefresh"
  <2>1. ParseRouteRefresh(SerializeRouteRefresh(m)) = m
    BY <1>5, RouteRefreshBack
  <2> QED  BY <1>5, <2>1 DEF Parse, Serialize
<1>6. CASE k = "MpReach"
  <2>1. m \in MpReaches
    BY <1>6 DEF MessagesOf
  <2>2. ParseMpReach(SerializeMpReach(m)) = m
    BY <2>1, MpReachBack
  <2> QED  BY <1>6, <2>2 DEF Parse, Serialize
<1>7. CASE k = "MpUnreach"
  <2>1. m \in MpUnreaches
    BY <1>7 DEF MessagesOf
  <2>2. ParseMpUnreach(SerializeMpUnreach(m)) = m
    BY <2>1, MpUnreachBack
  <2> QED  BY <1>7, <2>2 DEF Parse, Serialize
<1> QED  BY <1>1, <1>2, <1>3, <1>4, <1>5, <1>6, <1>7 DEF Kinds

\* What is sent is a message of its kind.
SentInv == kind \in Kinds /\ (sent # NoMessage => sent \in MessagesOf(kind))

LEMMA SentInit == CodecInit => SentInv
<1> SUFFICES ASSUME CodecInit PROVE SentInv
  OBVIOUS
<1>1. kind \in Kinds /\ (sent \in Samples[kind] \/ sent = NoMessage)
  BY DEF CodecInit
<1>2. ASSUME sent \in Samples[kind] PROVE sent \in MessagesOf(kind)
  BY <1>1, <1>2, CodecsAssumption
<1> QED  BY <1>1, <1>2 DEF SentInv

LEMMA SentStep == SentInv /\ [CodecNext]_codecVars => SentInv'
<1>1. CodecNext => UNCHANGED <<kind, sent>>
  BY DEF CodecNext, Truncate, Extend
<1>2. UNCHANGED codecVars => UNCHANGED <<kind, sent>>
  BY DEF codecVars
<1>3. SentInv /\ UNCHANGED <<kind, sent>> => SentInv'
  BY DEF SentInv
<1> QED  BY <1>1, <1>2, <1>3

\* A body that arrives as it was serialised is parsed to the message that was
\* sent, for every message that fits the wire and every width of a byte and an
\* address.
THEOREM CodecsRoundTrip == CodecSpec => []RoundTrip
<1>1. SentInv => RoundTrip
  BY EveryMessageBack DEF SentInv, RoundTrip
<1> QED  BY <1>1, SentInit, SentStep, PTL DEF CodecSpec

-----------------------------------------------------------------------------
(* The rounds of Cut *)

\* A round of Cut at p: it takes x off b and goes on at q.
Takes(p, q, x, b, min, size, used) ==
    /\ Len(b) - p >= min
    /\ size[p] \in Nat /\ p + size[p] <= Len(b)
    /\ x = SubSeq(b, p + 1, p + size[p])
    /\ q = p + used[p]

\* The rounds of Cut from p on, when none of them fails.
Walk(off, items, b, p, min, size, used) ==
    /\ off \in [0..Len(items) -> 0..Len(b)]
    /\ off[0] = p
    /\ Len(b) - off[Len(items)] < min
    /\ \A i \in 1..Len(items) : Takes(off[i - 1], off[i], items[i], b, min, size, used)

WalkFrom(x, S, b, p, min, size, used) ==
    \E items, off :
        items \in Seq(Seq(S)) /\ x = items /\ Walk(off, items, b, p, min, size, used)

LEMMA WalkEnds ==
    ASSUME NEW S, NEW b \in Seq(S), NEW min, NEW size, NEW used, NEW p \in 0..Len(b),
           Len(b) - p < min
    PROVE  WalkFrom(<<>>, S, b, p, min, size, used)
<1> DEFINE off == [i \in 0..0 |-> p]
<1>1. <<>> \in Seq(Seq(S)) /\ Len(<<>>) = 0
  OBVIOUS
<1>2. off \in [0..0 -> 0..Len(b)] /\ off[0] = p
  OBVIOUS
<1> HIDE DEF off
<1>3. Walk(off, <<>>, b, p, min, size, used)
  BY <1>1, <1>2 DEF Walk
<1> QED  BY <1>1, <1>3 DEF WalkFrom

LEMMA WalkGrows ==
    ASSUME NEW S, NEW b \in Seq(S), NEW min, NEW size, NEW used,
           NEW p \in 0..Len(b), NEW q \in 0..Len(b), NEW x \in Seq(S),
           Takes(p, q, x, b, min, size, used),
           NEW rest, WalkFrom(rest, S, b, q, min, size, used)
    PROVE  WalkFrom(<<x>> \o rest, S, b, p, min, size, used)
<1> DEFINE V == Seq(S)
           tk(a, c, y) == Takes(a, c, y, b, min, size, used)
<1>1. PICK items, off : /\ items \in Seq(V) /\ rest = items
                        /\ Walk(off, items, b, q, min, size, used)
  BY DEF WalkFrom
<1>2. x \in V
  OBVIOUS
<1> DEFINE n == Len(items)
           all == <<x>> \o items
           to == [i \in 0..(n + 1) |-> IF i = 0 THEN p ELSE off[i - 1]]
<1>3. /\ n \in Nat /\ off \in [0..n -> 0..Len(b)] /\ off[0] = q
      /\ Len(b) - off[n] < min
      /\ \A i \in 1..n : tk(off[i - 1], off[i], items[i])
  BY <1>1 DEF Walk
<1>4. tk(p, q, x)
  OBVIOUS
<1> HIDE DEF V, tk
<1>5. /\ all \in Seq(V) /\ Len(all) = n + 1 /\ all[1] = x
      /\ \A i \in 1..n : all[i + 1] = items[i]
  <2>1. items \in Seq(V)
    BY <1>1
  <2> QED  BY <1>2, <2>1
<1> HIDE DEF n, all
<1>6. to \in [0..(n + 1) -> 0..Len(b)]
  BY <1>3
<1>7. to[0] = p /\ to[1] = off[0] /\ to[n + 1] = off[n] /\ \A i \in 1..(n + 1) : to[i] = off[i - 1]
  BY <1>3
<1> HIDE DEF to
<1>8. ASSUME NEW i \in 1..(n + 1) PROVE tk(to[i - 1], to[i], all[i])
  <2>1. CASE i = 1
    <3>1. to[i - 1] = p /\ to[i] = q /\ all[i] = x
      BY <1>3, <1>5, <1>7, <2>1
    <3> QED  BY <1>4, <3>1
  <2>2. CASE i # 1
    <3>1. PICK j \in 1..n : j = i - 1
      BY <1>3, <2>2
    <3>2. j \in 1..(n + 1) /\ j + 1 = i /\ (j + 1) - 1 = j
      BY <1>3, <3>1
    <3>3. to[i - 1] = off[j - 1] /\ to[i] = off[j] /\ all[i] = items[j]
      BY <1>5, <1>7, <3>1, <3>2
    <3> QED  BY <1>3, <3>3
  <2> QED  BY <2>1, <2>2
<1>9. Walk(to, all, b, p, min, size, used)
  BY <1>3, <1>5, <1>6, <1>7, <1>8 DEF Walk, tk
<1>10. WalkFrom(all, S, b, p, min, size, used)
  BY <1>5, <1>9 DEF WalkFrom, V
<1> QED  BY <1>1, <1>10 DEF all

\* Cut fails with Err, or it walks through the buffer and returns what it took.
LEMMA CutWalks ==
    ASSUME NEW S, NEW b \in Seq(S), NEW min \in Nat \ {0}, NEW size, NEW used,
           Moves(b, min, size, used), NEW f, IsCut(f, b, min, size, used),
           Err \notin Seq(Seq(S)), Panic \notin Seq(Seq(S))
    PROVE  f[0] = Err \/ WalkFrom(f[0], S, b, 0, min, size, used)
<1> DEFINE N == Len(b)
           Res(p) == f[p] = Err \/ WalkFrom(f[p], S, b, p, min, size, used)
           T == {k \in Nat : \A p \in 0..N : N - p <= k => Res(p)}
<1>1. N \in Nat
  OBVIOUS
<1>2. ASSUME NEW p \in 0..N, \A q \in (p + 1)..N : Res(q) PROVE Res(p)
  <2> DEFINE q == p + used[p]
             x == SubSeq(b, p + 1, p + size[p])
  <2>1. f[p] = IF N - p < min THEN <<>>
               ELSE IF N - p < size[p] THEN Err
               ELSE IF f[q] \in {Err, Panic} THEN f[q]
               ELSE << x >> \o f[q]
    <3> DEFINE A(r) == IF Len(b) - r < min THEN <<>>
                       ELSE IF Len(b) - r < size[r] THEN Err
                       ELSE IF f[r + used[r]] \in {Err, Panic} THEN f[r + used[r]]
                       ELSE << SubSeq(b, r + 1, r + size[r]) >> \o f[r + used[r]]
    <3>1. f = [r \in 0..N |-> A(r)]
      BY DEF IsCut
    <3> HIDE DEF A
    <3>2. f[p] = A(p)
      BY <3>1
    <3> QED  BY <3>2 DEF A
  <2>2. CASE N - p < min
    <3>1. f[p] = <<>>
      BY <2>1, <2>2
    <3>2. WalkFrom(<<>>, S, b, p, min, size, used)
      BY <2>2, WalkEnds
    <3> QED  BY <3>1, <3>2
  <2>3. CASE ~(N - p < min) /\ N - p < size[p]
    BY <2>1, <2>3
  <2>4. CASE ~(N - p < min) /\ ~(N - p < size[p])
    <3>1. size[p] \in Nat /\ used[p] \in 1..size[p]
      BY <1>1, <2>4 DEF Moves
    <3>2. q \in (p + 1)..N /\ p + size[p] <= N /\ N - p >= min /\ q \in 0..N /\ p \in Nat
      BY <1>1, <2>4, <3>1
    <3>3. x \in Seq(S)
      BY <3>1, <3>2, Slice
    <3>4. Takes(p, q, x, b, min, size, used)
      BY <3>1, <3>2 DEF Takes
    <3> HIDE DEF q, x
    <3>5. f[q] = Err \/ WalkFrom(f[q], S, b, q, min, size, used)
      BY <1>2, <3>2
    <3>6. CASE f[q] = Err
      BY <2>1, <2>4, <3>6
    <3>7. CASE WalkFrom(f[q], S, b, q, min, size, used)
      <4>1. f[q] \notin {Err, Panic}
        BY <3>7 DEF WalkFrom
      <4>2. f[p] = <<x>> \o f[q]
        BY <2>1, <2>4, <4>1
      <4>3. WalkFrom(<<x>> \o f[q], S, b, p, min, size, used)
        BY <3>2, <3>3, <3>4, <3>7, WalkGrows
      <4> QED  BY <4>2, <4>3
    <3> QED  BY <3>5, <3>6, <3>7
  <2> QED  BY <2>2, <2>3, <2>4
<1> HIDE DEF Res, N
<1>3. 0 \in T
  <2> SUFFICES ASSUME NEW p \in 0..N, N - p <= 0 PROVE Res(p)
    OBVIOUS
  <2>1. \A q \in (p + 1)..N : FALSE
    BY <1>1
  <2> QED  BY <1>2, <2>1
<1>4. ASSUME NEW k \in Nat, k \in T PROVE k + 1 \in T
  <2> SUFFICES ASSUME NEW p \in 0..N, N - p <= k + 1 PROVE Res(p)
    OBVIOUS
  <2>1. \A q \in (p + 1)..N : q \in 0..N /\ N - q <= k
    BY <1>1
  <2>2. \A q \in (p + 1)..N : Res(q)
    BY <1>4, <2>1
  <2> QED  BY <1>2, <2>2
<1> HIDE DEF T
<1>5. \A k \in Nat : k \in T
  BY <1>3, <1>4, SetInduction
<1>6. 0 \in 0..N /\ N - 0 <= N
  BY <1>1
<1>7. Res(0)
  BY <1>1, <1>5, <1>6 DEF T
<1> QED  BY <1>7 DEF Res

-----------------------------------------------------------------------------
(* Bodies that lost bytes at their end *)

\* c is what is left of b.
Cropped(c, b, S) ==
    /\ c \in Seq(S) /\ Len(c) <= Len(b)
    /\ \A j \in 1..Len(c) : c[j] = b[j]

LEMMA CroppedSubSeq ==
    ASSUME NEW S, NEW b \in Seq(S), NEW n \in 0..Len(b)
    PROVE  Cropped(SubSeq(b, 1, n), b, S) /\ Len(SubSeq(b, 1, n)) = n
<1>1. 0 + n <= Len(b) /\ n \in Nat /\ 0 + 1 = 1 /\ 0 + n = n /\ \A j \in 1..n : 0 + j = j
  OBVIOUS
<1>2. /\ SubSeq(b, 0 + 1, 0 + n) \in Seq(S)
      /\ Len(SubSeq(b, 0 + 1, 0 + n)) = n
      /\ \A j \in 1..n : SubSeq(b, 0 + 1, 0 + n)[j] = b[0 + j]
  BY <1>1, Slice
<1> QED  BY <1>1, <1>2 DEF Cropped

LEMMA PlaceInside ==
    ASSUME NEW p \in Nat, NEW s \in Nat, NEW L \in Nat, p + s <= L, NEW j \in 1..s
    PROVE  p + j \in 1..L
  OBVIOUS

\* Items that are still whole are read right in what is left.
ReadAlike(c, b, items, min, size, used) ==
    \A i \in 1..Len(items), p \in 0..Len(c) :
       At(b, p, items[i]) /\ Len(c) - p >= min => /\ size[p] = Len(items[i])
                                                  /\ used[p] = Len(items[i])

FindsFirst(its, off, items, b) ==
    /\ Len(its) <= Len(items)
    /\ \A i \in 1..Len(its) : its[i] = items[i]
    /\ Len(its) = Len(items) => off[Len(its)] = Len(b)

\* Then the rounds of Cut over what is left find the first of the items.
LEMMA WalkCropped ==
    ASSUME NEW S, NEW items \in Seq(Seq(S)), NEW b, b = FlattenSeq(items),
           NEW c, Cropped(c, b, S), NEW min \in Nat \ {0}, NEW size, NEW used,
           ReadAlike(c, b, items, min, size, used),
           NEW its \in Seq(Seq(S)), NEW off, Walk(off, its, c, 0, min, size, used)
    PROVE  FindsFirst(its, off, items, b)
<1> DEFINE n == Len(items)
           m == Len(its)
           N == Len(b)
           L == Len(c)
           V == Seq(S)
<1>1. /\ n \in Nat /\ m \in Nat /\ b \in Seq(S) /\ N \in Nat
      /\ c \in Seq(S) /\ L \in Nat /\ L <= N /\ \A j \in 1..L : c[j] = b[j]
  BY FlattenType DEF Cropped
<1>2. PICK at : Offsets(at, items, b)
  BY FlattenOffsets
<1>3. /\ at \in [0..n -> 0..N] /\ at[0] = 0 /\ at[n] = N
      /\ \A i \in 1..n : /\ at[i] = at[i - 1] + Len(items[i])
                         /\ \A j \in 1..Len(items[i]) : b[at[i - 1] + j] = items[i][j]
  BY <1>2 DEF Offsets
<1>4. /\ off \in [0..m -> 0..L] /\ off[0] = 0
      /\ \A i \in 1..m : Takes(off[i - 1], off[i], its[i], c, min, size, used)
  BY DEF Walk
<1>5. /\ \A i \in 1..n : items[i] \in Seq(S) /\ Len(items[i]) \in Nat
      /\ \A i \in 1..m : its[i] \in Seq(S)
  OBVIOUS
<1>6. \A i \in 1..n, p \in 0..L :
        At(b, p, items[i]) /\ L - p >= min => size[p] = Len(items[i]) /\ used[p] = Len(items[i])
  BY DEF ReadAlike
<1> HIDE DEF n, m, N, L
<1> DEFINE T == {k \in Nat : k <= m => /\ k <= n /\ off[k] = at[k]
                                       /\ k >= 1 => its[k] = items[k]}
<1>7. 0 \in T
  BY <1>1, <1>3, <1>4
<1>8. ASSUME NEW k \in Nat, k \in T PROVE k + 1 \in T
  <2> SUFFICES ASSUME k + 1 <= m
               PROVE  k + 1 <= n /\ off[k + 1] = at[k + 1] /\ its[k + 1] = items[k + 1]
    OBVIOUS
  <2> DEFINE i == k + 1
             p == off[k]
  <2>1. k <= n /\ off[k] = at[k]
    BY <1>1, <1>8
  <2>2. i \in 1..m /\ i - 1 = k /\ k \in 0..m /\ k \in 0..n /\ i \in 0..m
    BY <1>1, <2>1
  <2> HIDE DEF i
  <2>3. Takes(p, off[i], its[i], c, min, size, used)
    BY <1>4, <2>2
  <2>4. p \in 0..L /\ p = at[k]
    BY <1>4, <2>1, <2>2
  <2> HIDE DEF p
  <2>5. /\ L - p >= min /\ size[p] \in Nat /\ p + size[p] <= L
        /\ its[i] = SubSeq(c, p + 1, p + size[p]) /\ off[i] = p + used[p]
    BY <2>3 DEF Takes, L
  <2>6. k < n
    <3>1. p < N
      BY <1>1, <2>4, <2>5
    <3> QED  BY <1>1, <1>3, <2>2, <2>4, <3>1
  <2>7. i \in 1..n
    BY <1>1, <2>2, <2>6
  <2>8. /\ at[i] = p + Len(items[i])
        /\ \A j \in 1..Len(items[i]) : b[p + j] = items[i][j]
    BY <1>3, <2>2, <2>4, <2>7
  <2>9. at[i] \in 0..N
    BY <1>1, <1>3, <2>7
  <2>10. At(b, p, items[i])
    BY <2>8, <2>9 DEF At, N
  <2>11. size[p] = Len(items[i]) /\ used[p] = Len(items[i])
    BY <1>6, <2>4, <2>5, <2>7, <2>10
  <2>12. its[i] = items[i]
    <3> DEFINE x == SubSeq(c, p + 1, p + size[p])
    <3>1. /\ x \in Seq(S) /\ Len(x) = size[p]
          /\ \A j \in 1..size[p] : x[j] = c[p + j]
      <4>1. p \in Nat /\ size[p] \in Nat /\ p + size[p] <= Len(c)
        BY <2>4, <2>5 DEF L
      <4>2. IsSlice(x, c, p, size[p], S)
        BY <1>1, <4>1, SliceIs, Zenon
      <4> QED  BY <4>2, Zenon DEF IsSlice
    <3> HIDE DEF x
    <3>2. ASSUME NEW j \in 1..Len(x) PROVE x[j] = items[i][j]
      <4>1. j \in 1..size[p] /\ j \in 1..Len(items[i])
        BY <2>11, <3>1
      <4>2. p + j \in 1..L
        <5>1. p \in Nat /\ L \in Nat
          BY <1>1, <2>4
        <5> QED  BY <2>5, <4>1, <5>1, PlaceInside, Zenon
      <4>3. x[j] = c[p + j] /\ c[p + j] = b[p + j] /\ b[p + j] = items[i][j]
        BY <1>1, <2>8, <3>1, <4>1, <4>2, Zenon
      <4> QED  BY <4>3
    <3>3. x = items[i]
      <4>1. items[i] \in Seq(S) /\ Len(x) = Len(items[i])
        BY <1>5, <2>7, <2>11, <3>1
      <4> QED  BY <3>1, <3>2, <4>1, SameSeq
    <3> QED  BY <2>5, <3>3 DEF x
  <2> QED  BY <2>5, <2>7, <2>8, <2>11, <2>12 DEF i
<1> HIDE DEF T
<1>9. \A k \in Nat : k \in T
  BY <1>7, <1>8, SetInduction
<1>10. \A k \in 0..m : /\ k <= n /\ off[k] = at[k] /\ (k >= 1 => its[k] = items[k])
  BY <1>1, <1>9 DEF T
<1>11. m <= n /\ off[m] = at[m]
  <2>1. m \in 0..m
    BY <1>1
  <2> QED  BY <1>10, <2>1, Zenon
<1>12. \A i \in 1..m : its[i] = items[i]
  BY <1>1, <1>10
<1> QED  BY <1>3, <1>11, <1>12 DEF n, m, N, FindsFirst

LEMMA StrictPrefix ==
    ASSUME NEW S, NEW s \in Seq(S), NEW m \in Nat, m < Len(s)
    PROVE  IsStrictPrefix([i \in 1..m |-> s[i]], s)
<1> DEFINE x == [i \in 1..m |-> s[i]]
<1>1. x \in Seq(S) /\ Len(x) = m /\ \A j \in 1..m : x[j] = s[j]
  OBVIOUS
<1> HIDE DEF x
<1>2. SubSeq(x, 1, m) = x
  BY <1>1, SubSeqFull
<1>3. SubSeq(s, 1, m) = x
  <2>1. Cropped(SubSeq(s, 1, m), s, S) /\ Len(SubSeq(s, 1, m)) = m
    BY CroppedSubSeq
  <2> HIDE DEF Cropped
  <2>2. /\ SubSeq(s, 1, m) \in Seq(S)
        /\ \A j \in 1..m : SubSeq(s, 1, m)[j] = s[j]
    BY <2>1 DEF Cropped
  <2> QED  BY <1>1, <2>1, <2>2, SameSeq
<1>4. IsStrictPrefix(x, s)
  BY <1>1, <1>2, <1>3 DEF IsStrictPrefix, IsPrefix
<1> QED  BY <1>4 DEF x

\* A list of prefixes that lost bytes fails to parse, or it lost the prefixes
\* that these bytes belong to.
LEMMA PrefixesCropped ==
    ASSUME NEW w \in Nat \ {0}, NEW ps \in Seq(PrefixesOf(w)),
           Err \notin Seq(Seq(Bytes)), Panic \notin Seq(Seq(Bytes)),
           NEW c, Cropped(c, SerializePrefixes(ps), Bytes),
           Len(c) < Len(SerializePrefixes(ps))
    PROVE  ParsePrefixes(c, w) = Err \/ IsStrictPrefix(ParsePrefixes(c, w), ps)
<1> DEFINE items == [i \in DOMAIN ps |-> PrefixBytes(ps[i])]
           b == SerializePrefixes(ps)
<1>1. DOMAIN ps = 1..Len(ps) /\ Len(ps) \in Nat /\ \A i \in 1..Len(ps) : ps[i] \in PrefixesOf(w)
  OBVIOUS
<1>2. /\ items \in Seq(Seq(Bytes)) /\ Len(items) = Len(ps)
      /\ \A i \in 1..Len(ps) : items[i] = PrefixBytes(ps[i])
  <2>1. \A i \in 1..Len(ps) : PrefixBytes(ps[i]) \in Seq(Bytes)
    BY <1>1, PrefixBack
  <2> QED  BY <1>1, <2>1
<1>3. b = FlattenSeq(items) /\ b \in Seq(Bytes)
  BY <1>2, FlattenType DEF SerializePrefixes
<1>4. Cropped(c, b, Bytes) /\ Len(c) < Len(b)
  OBVIOUS
<1> HIDE DEF items, b
<1>5. c \in Seq(Bytes) /\ Len(c) \in Nat /\ \A j \in 1..Len(c) : c[j] = b[j]
  BY <1>4 DEF Cropped
<1>6. PICK f : /\ IsCut(f, c, 1, PrefixSize(c), PrefixUsed(c, w))
               /\ ParsePrefixes(c, w) =
                    IF f[0] \in {Err, Panic} THEN f[0]
                    ELSE [i \in DOMAIN f[0] |-> PrefixOf(f[0][i], w)]
  BY <1>5, PrefixCut
<1>7. f[0] = Err \/ WalkFrom(f[0], Bytes, c, 0, 1, PrefixSize(c), PrefixUsed(c, w))
  <2>1. Moves(c, 1, PrefixSize(c), PrefixUsed(c, w)) /\ 1 \in Nat \ {0}
    BY <1>5, PrefixMoves
  <2> QED  BY <1>5, <1>6, <2>1, CutWalks
<1>8. CASE f[0] = Err
  BY <1>6, <1>8
<1>9. CASE WalkFrom(f[0], Bytes, c, 0, 1, PrefixSize(c), PrefixUsed(c, w))
  <2>1. PICK its, off :
          /\ its \in Seq(Seq(Bytes)) /\ f[0] = its
          /\ Walk(off, its, c, 0, 1, PrefixSize(c), PrefixUsed(c, w))
    BY <1>9 DEF WalkFrom
  <2>2. ReadAlike(c, b, items, 1, PrefixSize(c), PrefixUsed(c, w))
    <3> SUFFICES ASSUME NEW i \in 1..Len(items), NEW p \in 0..Len(c),
                        At(b, p, items[i]), Len(c) - p >= 1
                 PROVE  /\ PrefixSize(c)[p] = Len(items[i])
                        /\ PrefixUsed(c, w)[p] = Len(items[i])
      BY DEF ReadAlike
    <3> DEFINE x == items[i]
               n == EncodedLen(ps[i].prefix_len)
    <3>1. /\ x \in Seq(Bytes) /\ Len(x) = 1 + n /\ n \in 0..w
          /\ x[1] = ps[i].prefix_len
      <4>1. ps[i] \in PrefixesOf(w) /\ x = PrefixBytes(ps[i])
        BY <1>1, <1>2, Zenon
      <4>2. /\ PrefixBytes(ps[i]) \in Seq(Bytes) /\ Len(PrefixBytes(ps[i])) = 1 + n
            /\ n \in 0..w /\ PrefixBytes(ps[i])[1] = ps[i].prefix_len
        BY <4>1, PrefixBack, Zenon
      <4> QED  BY <4>1, <4>2, Zenon
    <3>2. \A j \in 1..Len(x) : b[p + j] = x[j]
      BY DEF At
    <3> HIDE DEF x, n
    <3>3. 1 \in 1..Len(x) /\ 1 \in 1..(Len(c) - p) /\ p + 1 \in 1..Len(c)
      BY <1>5, <3>1
    <3>4. Rest(c, p)[1] = c[p + 1]
      BY <1>5, <3>3, RestByte
    <3>5. Rest(c, p)[1] = ps[i].prefix_len
      BY <1>5, <3>1, <3>2, <3>3, <3>4
    <3>6. EncodedLen(Rest(c, p)[1]) = n
      BY <3>5 DEF n
    <3> QED  BY <3>1, <3>6 DEF PrefixSize, PrefixUsed, x
  <2>3. /\ Len(its) <= Len(items)
        /\ \A i \in 1..Len(its) : its[i] = items[i]
        /\ Len(its) = Len(items) => off[Len(its)] = Len(b)
    <3>1. 1 \in Nat \ {0}
      OBVIOUS
    <3>2. FindsFirst(its, off, items, b)
      BY <1>2, <1>3, <1>4, <2>1, <2>2, <3>1, WalkCropped, Zenon
    <3> QED  BY <3>2, Zenon DEF FindsFirst
  <2>4. Len(its) < Len(ps) /\ Len(its) \in Nat
    <3>1. off[Len(its)] \in 0..Len(c)
      <4>1. off \in [0..Len(its) -> 0..Len(c)]
        BY <2>1, Zenon DEF Walk
      <4>2. Len(its) \in 0..Len(its)
        OBVIOUS
      <4> QED  BY <4>1, <4>2, Zenon
    <3> QED  BY <1>1, <1>2, <1>4, <1>5, <2>3, <3>1
  <2>5. ParsePrefixes(c, w) = [i \in 1..Len(its) |-> PrefixOf(its[i], w)]
    <3>1. its \notin {Err, Panic}
      BY <2>1, Zenon
    <3>2. DOMAIN its = 1..Len(its)
      OBVIOUS
    <3> QED  BY <1>6, <2>1, <3>1, <3>2, Zenon
  <2>6. \A i \in 1..Len(its) : PrefixOf(its[i], w) = ps[i]
    <3> SUFFICES ASSUME NEW i \in 1..Len(its) PROVE PrefixOf(its[i], w) = ps[i]
      OBVIOUS
    <3>1. i \in 1..Len(ps)
      BY <1>1, <2>4
    <3>2. ps[i] \in PrefixesOf(w) /\ its[i] = PrefixBytes(ps[i])
      BY <1>1, <1>2, <2>3, <3>1, Zenon
    <3>3. PrefixOf(PrefixBytes(ps[i]), w) = ps[i]
      BY <3>2, PrefixBack, Zenon
    <3> QED  BY <3>2, <3>3, Zenon
  <2>7. ParsePrefixes(c, w) = [i \in 1..Len(its) |-> ps[i]]
    BY <2>5, <2>6
  <2> QED  BY <2>4, <2>7, StrictPrefix
<1> QED  BY <1>7, <1>8, <1>9

CropsRest(c, b, n, S) ==
    /\ Cropped(Rest(c, n), Rest(b, n), S)
    /\ Len(Rest(c, n)) = Len(c) - n /\ Len(Rest(b, n)) = Len(b) - n
    /\ Rest(b, n) \in Seq(S)

LEMMA CroppedRest ==
    ASSUME NEW S, NEW b \in Seq(S), NEW c, Cropped(c, b, S), NEW n \in 0..Len(c)
    PROVE  CropsRest(c, b, n, S)
<1>1. /\ c \in Seq(S) /\ Len(c) \in Nat /\ Len(b) \in Nat /\ Len(c) <= Len(b)
      /\ \A j \in 1..Len(c) : c[j] = b[j]
  BY DEF Cropped
<1>2. n \in 0..Len(b) /\ n \in Nat /\ Len(c) - n \in Nat /\ Len(b) - n \in Nat
      /\ Len(c) - n <= Len(b) - n /\ n + (Len(c) - n) <= Len(c)
  BY <1>1
<1> DEFINE r == Rest(c, n)
           t == Rest(b, n)
<1>3. /\ r \in Seq(S) /\ Len(r) = Len(c) - n
      /\ \A j \in 1..(Len(c) - n) : r[j] = c[n + j]
  BY <1>1, RestFacts, Zenon
<1>4. /\ t \in Seq(S) /\ Len(t) = Len(b) - n
      /\ \A j \in 1..(Len(b) - n) : t[j] = b[n + j]
  BY <1>2, RestFacts, Zenon
<1> HIDE DEF r, t
<1>5. ASSUME NEW j \in 1..(Len(c) - n) PROVE r[j] = t[j]
  <2>1. j \in 1..(Len(b) - n)
    BY <1>1, <1>2
  <2>2. n + j \in 1..Len(c)
    BY <1>1, <1>2, PlaceInside, Zenon
  <2>3. r[j] = c[n + j] /\ t[j] = b[n + j] /\ c[n + j] = b[n + j]
    BY <1>1, <1>3, <1>4, <2>1, <2>2, Zenon
  <2> QED  BY <2>3
<1>6. Cropped(r, t, S)
  <2>1. Len(r) <= Len(t)
    BY <1>2, <1>3, <1>4
  <2>2. \A j \in 1..Len(r) : r[j] = t[j]
    BY <1>3, <1>5, Zenon
  <2> QED  BY <1>3, <2>1, <2>2, Zenon DEF Cropped
<1> QED  BY <1>3, <1>4, <1>6, Zenon DEF r, t, CropsRest

SameSlice(c, b, p, n) == SubSeq(c, p + 1, p + n) = SubSeq(b, p + 1, p + n)

LEMMA CroppedSlice ==
    ASSUME NEW S, NEW b \in Seq(S), NEW c, Cropped(c, b, S), NEW p \in Nat, NEW n \in Nat,
           p + n <= Len(c)
    PROVE  SameSlice(c, b, p, n)
<1>1. /\ c \in Seq(S) /\ Len(c) \in Nat /\ Len(b) \in Nat /\ Len(c) <= Len(b)
      /\ \A j \in 1..Len(c) : c[j] = b[j]
  BY DEF Cropped
<1>2. p + n <= Len(b)
  BY <1>1
<1> DEFINE r == SubSeq(c, p + 1, p + n)
           t == SubSeq(b, p + 1, p + n)
<1>3. r \in Seq(S) /\ Len(r) = n /\ \A j \in 1..n : r[j] = c[p + j]
  BY <1>1, Slice
<1>4. t \in Seq(S) /\ Len(t) = n /\ \A j \in 1..n : t[j] = b[p + j]
  BY <1>2, Slice
<1> HIDE DEF r, t
<1>5. ASSUME NEW j \in 1..n PROVE r[j] = t[j]
  <2>1. p + j \in 1..Len(c)
    BY <1>1, PlaceInside, Zenon
  <2> QED  BY <1>1, <1>3, <1>4, <2>1, Zenon
<1>6. r = t
  BY <1>3, <1>4, <1>5, SameSeq, Zenon
<1> QED  BY <1>6, Zenon DEF r, t, SameSlice

LEMMA CroppedU16 ==
    ASSUME NEW b \in Seq(Bytes), NEW c, Cropped(c, b, Bytes), Len(c) >= 2
    PROVE  GetU16(c) = GetU16(b)
<1>1. 1 \in 1..Len(c) /\ 2 \in 1..Len(c)
  BY DEF Cropped
<1>2. c[1] = b[1] /\ c[2] = b[2]
  BY <1>1, Zenon DEF Cropped
<1> QED  BY <1>2, Zenon DEF GetU16

\* A part behind its length, in a body that lost bytes: it is missed, or it is
\* whole and the bytes are missing behind it.
CroppedPart(c, x, z) ==
    /\ GetU16(c) = Len(x)
    /\ ~(Len(Rest(c, 2)) < Len(x))
         => /\ SubSeq(Rest(c, 2), 1, Len(x)) = x
            /\ Cropped(Rest(Rest(c, 2), Len(x)), z, Bytes)
            /\ Len(Rest(Rest(c, 2), Len(x))) < Len(z)

LEMMA CroppedCounted ==
    ASSUME NEW b, NEW x \in Seq(Bytes), NEW z \in Seq(Bytes), IsCounted(b, x, z),
           NEW c, Cropped(c, b, Bytes), Len(c) < Len(b), Len(c) >= 2
    PROVE  CroppedPart(c, x, z)
<1> DEFINE d == Rest(c, 2)
           e == Rest(b, 2)
<1>1. /\ b \in Seq(Bytes) /\ Len(b) = 2 + Len(x) + Len(z) /\ GetU16(b) = Len(x)
      /\ SubSeq(e, 1, Len(x)) = x /\ Rest(e, Len(x)) = z
  BY Zenon DEF IsCounted
<1>2. GetU16(c) = Len(x)
  BY <1>1, CroppedU16, Zenon
<1>3. 2 \in 0..Len(c) /\ Len(c) \in Nat /\ Len(x) \in Nat /\ Len(z) \in Nat
  BY DEF Cropped
<1>4. Cropped(d, e, Bytes) /\ Len(d) = Len(c) - 2 /\ Len(e) = Len(b) - 2 /\ e \in Seq(Bytes)
  <2>1. CropsRest(c, b, 2, Bytes)
    BY <1>1, <1>3, CroppedRest, Zenon
  <2> QED  BY <2>1, Zenon DEF CropsRest
<1> HIDE DEF d, e
<1>5. ASSUME ~(Len(d) < Len(x))
      PROVE  /\ SubSeq(d, 1, Len(x)) = x
             /\ Cropped(Rest(d, Len(x)), z, Bytes) /\ Len(Rest(d, Len(x))) < Len(z)
  <2>1. /\ Len(x) \in 0..Len(d) /\ 0 + Len(x) <= Len(d) /\ 0 \in Nat
        /\ 0 + 1 = 1 /\ 0 + Len(x) = Len(x)
    BY <1>3, <1>4, <1>5
  <2>2. SubSeq(d, 0 + 1, 0 + Len(x)) = SubSeq(e, 0 + 1, 0 + Len(x))
    <3>1. SameSlice(d, e, 0, Len(x))
      BY <1>3, <1>4, <2>1, CroppedSlice, Zenon
    <3> QED  BY <3>1, Zenon DEF SameSlice
  <2>3. SubSeq(d, 1, Len(x)) = x
    BY <1>1, <2>1, <2>2
  <2>4. Cropped(Rest(d, Len(x)), z, Bytes) /\ Len(Rest(d, Len(x))) = Len(d) - Len(x)
    <3>1. CropsRest(d, e, Len(x), Bytes)
      BY <1>4, <2>1, CroppedRest, Zenon
    <3> QED  BY <1>1, <3>1, Zenon DEF CropsRest
  <2>5. Len(d) - Len(x) < Len(z)
    BY <1>1, <1>3, <1>4
  <2> QED  BY <2>3, <2>4, <2>5
<1> QED  BY <1>2, <1>5, Zenon DEF CroppedPart, d

\* What is parsed is the message without the end of the list f.
LostEnd(got, m, f) ==
    /\ f \in DOMAIN m
    /\ IsStrictPrefix(got[f], m[f])
    /\ got = [m EXCEPT ![f] = got[f]]

\* A message that lost bytes is refused, or it lost the end of its last list.
Refused(got) == got \in {Err, Panic}
Loses(got, m, k) == Refused(got) \/ LostEnd(got, m, LastList(k))

\* Records that differ in one field.
LEMMA OneField ==
    ASSUME NEW D, NEW m, m = [i \in D |-> m[i]], NEW got, got = [i \in D |-> got[i]],
           NEW f \in D, \A g \in D : g # f => got[g] = m[g], IsStrictPrefix(got[f], m[f])
    PROVE  LostEnd(got, m, f)
  BY DEF LostEnd

LEMMA NotificationLost ==
    ASSUME NEW m, m = [error_code |-> m.error_code, error_subcode |-> m.error_subcode,
                       data |-> m.data],
           NEW x, IsStrictPrefix(x, m.data)
    PROVE  LostEnd([error_code |-> m.error_code, error_subcode |-> m.error_subcode,
                    data |-> x], m, "data")
<1> DEFINE got == [error_code |-> m.error_code, error_subcode |-> m.error_subcode,
                   data |-> x]
           D == {"error_code", "error_subcode", "data"}
<1>1. m = [i \in D |-> m[i]]
  OBVIOUS
<1>2. got = [i \in D |-> got[i]]
  OBVIOUS
<1>3. \A g \in D : g # "data" => got[g] = m[g]
  OBVIOUS
<1>4. "data" \in D /\ IsStrictPrefix(got["data"], m["data"])
  OBVIOUS
<1> HIDE DEF D, got
<1>5. LostEnd(got, m, "data")
  BY <1>1, <1>2, <1>3, <1>4, OneField
<1> QED  BY <1>5 DEF got

LEMMA MpUnreachLost ==
    ASSUME NEW m, m = [afi |-> m.afi, safi |-> m.safi, withdrawn |-> m.withdrawn],
           NEW x, IsStrictPrefix(x, m.withdrawn)
    PROVE  LostEnd([afi |-> m.afi, safi |-> m.safi, withdrawn |-> x], m, "withdrawn")
<1> DEFINE got == [afi |-> m.afi, safi |-> m.safi, withdrawn |-> x]
           D == {"afi", "safi", "withdrawn"}
<1>1. m = [i \in D |-> m[i]]
  OBVIOUS
<1>2. got = [i \in D |-> got[i]]
  OBVIOUS
<1>3. \A g \in D : g # "withdrawn" => got[g] = m[g]
  OBVIOUS
<1>4. "withdrawn" \in D /\ IsStrictPrefix(got["withdrawn"], m["withdrawn"])
  OBVIOUS
<1> HIDE DEF D, got
<1>5. LostEnd(got, m, "withdrawn")
  BY <1>1, <1>2, <1>3, <1>4, OneField
<1> QED  BY <1>5 DEF got

LEMMA MpReachLost ==
    ASSUME NEW m, m = [afi |-> m.afi, safi |-> m.safi,
                       next_hops |-> m.next_hops, nlri |-> m.nlri],
           NEW x, IsStrictPrefix(x, m.nlri)
    PROVE  LostEnd([afi |-> m.afi, safi |-> m.safi,
                    next_hops |-> m.next_hops, nlri |-> x], m, "nlri")
<1> DEFINE got == [afi |-> m.afi, safi |-> m.safi,
                   next_hops |-> m.next_hops, nlri |-> x]
           D == {"afi", "safi", "next_hops", "nlri"}
<1>1. m = [i \in D |-> m[i]]
  OBVIOUS
<1>2. got = [i \in D |-> got[i]]
  OBVIOUS
<1>3. \A g \in D : g # "nlri" => got[g] = m[g]
  OBVIOUS
<1>4. "nlri" \in D /\ IsStrictPrefix(got["nlri"], m["nlri"])
  OBVIOUS
<1> HIDE DEF D, got
<1>5. LostEnd(got, m, "nlri")
  BY <1>1, <1>2, <1>3, <1>4, OneField
<1> QED  BY <1>5 DEF got

LEMMA UpdateLost ==
    ASSUME NEW m, m = [withdrawn_routes |-> m.withdrawn_routes, path_attributes |-> m.path_attributes,
                       nlri |-> m.nlri],
           NEW x, IsStrictPrefix(x, m.nlri)
    PROVE  LostEnd([withdrawn_routes |-> m.withdrawn_routes, path_attributes |-> m.path_attributes,
                    nlri |-> x], m, "nlri")
<1> DEFINE got == [withdrawn_routes |-> m.withdrawn_routes, path_attributes |-> m.path_attributes,
                   nlri |-> x]
           D == {"withdrawn_routes", "path_attributes", "nlri"}
<1>1. m = [i \in D |-> m[i]]
  OBVIOUS
<1>2. got = [i \in D |-> got[i]]
  OBVIOUS
<1>3. \A g \in D : g # "nlri" => got[g] = m[g]
  OBVIOUS
<1>4. "nlri" \in D /\ IsStrictPrefix(got["nlri"], m["nlri"])
  OBVIOUS
<1> HIDE DEF D, got
<1>5. LostEnd(got, m, "nlri")
  BY <1>1, <1>2, <1>3, <1>4, OneField
<1> QED  BY <1>5 DEF got

LEMMA NotificationCropped ==
    ASSUME NEW m \in MessagesOf("Notification"), NEW c,
           Cropped(c, SerializeNotification(m), Bytes), Len(c) < Len(SerializeNotification(m))
    PROVE  Loses(ParseNotification(c), m, "Notification")
<1> DEFINE b == SerializeNotification(m)
           d == Rest(c, 2)
<1>1. NotificationLayout(b, m)
  BY NotificationBack
<1>2. m = [error_code |-> m.error_code, error_subcode |-> m.error_subcode, data |-> m.data]
  BY DEF MessagesOf
<1>3. Cropped(c, b, Bytes) /\ Len(c) < Len(b)
  OBVIOUS
<1> HIDE DEF b
<1>4. /\ b \in Seq(Bytes) /\ m.data \in Seq(Bytes) /\ Len(b) = 2 + Len(m.data)
      /\ b[1] = m.error_code /\ b[2] = m.error_subcode /\ Rest(b, 2) = m.data
  BY <1>1, Zenon DEF NotificationLayout
<1>5. CASE Len(c) < 2
  BY <1>5 DEF ParseNotification, Loses, Refused
<1>6. CASE ~(Len(c) < 2)
  <2>1. 2 \in 0..Len(c) /\ 1 \in 1..Len(c) /\ 2 \in 1..Len(c) /\ Len(c) \in Nat
    BY <1>3, <1>6 DEF Cropped
  <2>2. c[1] = m.error_code /\ c[2] = m.error_subcode
    BY <1>3, <1>4, <2>1, Zenon DEF Cropped
  <2>3. CropsRest(c, b, 2, Bytes)
    BY <1>3, <1>4, <2>1, CroppedRest, Zenon
  <2>4. Cropped(d, m.data, Bytes) /\ Len(d) = Len(c) - 2
    BY <1>4, <2>3, Zenon DEF CropsRest
  <2>5. Len(c) - 2 < Len(m.data) /\ Len(m.data) \in Nat
    BY <1>3, <1>4, <2>1
  <2> HIDE DEF d
  <2>6. IsStrictPrefix(d, m.data)
    <3>1. d \in Seq(Bytes) /\ Len(d) < Len(m.data) /\ \A j \in 1..Len(d) : d[j] = m.data[j]
      BY <2>4, <2>5 DEF Cropped
    <3>2. Len(d) \in Nat /\ d = [j \in 1..Len(d) |-> d[j]]
      BY <3>1
    <3>3. [j \in 1..Len(d) |-> d[j]] = [j \in 1..Len(d) |-> m.data[j]]
      BY <3>1
    <3>4. IsStrictPrefix([j \in 1..Len(d) |-> m.data[j]], m.data)
      BY <1>4, <3>1, <3>2, StrictPrefix
    <3> QED  BY <3>2, <3>3, <3>4
  <2>7. ParseNotification(c) = [error_code |-> m.error_code, error_subcode |-> m.error_subcode,
                                data |-> d]
    BY <1>6, <2>2 DEF ParseNotification, d
  <2>8. LostEnd([error_code |-> m.error_code, error_subcode |-> m.error_subcode, data |-> d],
                m, "data")
    BY <1>2, <2>6, NotificationLost
  <2> QED  BY <2>7, <2>8 DEF Loses, LastList
<1> QED  BY <1>5, <1>6

LEMMA RouteRefreshCropped ==
    ASSUME NEW m \in MessagesOf("RouteRefresh"), NEW c, Len(c) < Len(SerializeRouteRefresh(m))
    PROVE  Loses(ParseRouteRefresh(c), m, "RouteRefresh")
  BY RouteRefreshBack DEF ParseRouteRefresh, Loses, Refused

LEMMA OpenCropped ==
    ASSUME NEW m \in Opens, NEW c, Cropped(c, SerializeOpen(m), Bytes),
           Len(c) < Len(SerializeOpen(m))
    PROVE  Loses(ParseOpen(c), m, "Open")
<1> DEFINE b == SerializeOpen(m)
           fixed == 6 + Word
<1>1. OpenLayout(b) /\ Cropped(c, b, Bytes) /\ Len(c) < Len(b)
  BY OpenBack
<1> HIDE DEF b
<1>2. b[fixed] \in Nat /\ Len(b) = fixed + b[fixed] /\ Word \in Nat
  BY <1>1, OctetsAssumption DEF OpenLayout
<1>3. CASE Len(c) < fixed
  BY <1>3 DEF ParseOpen, Loses, Refused
<1>4. CASE ~(Len(c) < fixed)
  <2>1. fixed \in 1..Len(c)
    BY <1>1, <1>2, <1>4 DEF Cropped
  <2>2. c[fixed] = b[fixed]
    BY <1>1, <2>1, Zenon DEF Cropped
  <2>3. Len(c) < fixed + c[fixed]
    BY <1>1, <1>2, <2>2
  <2> QED  BY <2>3 DEF ParseOpen, Loses, Refused
<1> QED  BY <1>3, <1>4

LEMMA MpUnreachCropped ==
    ASSUME NEW m \in MpUnreaches, NEW c, Cropped(c, SerializeMpUnreach(m), Bytes),
           Len(c) < Len(SerializeMpUnreach(m))
    PROVE  Loses(ParseMpUnreach(c), m, "MpUnreach")
<1> DEFINE b == SerializeMpUnreach(m)
           ps == SerializePrefixes(m.withdrawn)
           d == Rest(c, 3)
           w == AddressLen(m.afi)
           x == ParsePrefixes(d, w)
<1>1. MpUnreachLayout(b, m, ps) /\ Cropped(c, b, Bytes) /\ Len(c) < Len(b)
  BY MpUnreachBack
<1>2. /\ m = [afi |-> m.afi, safi |-> m.safi, withdrawn |-> m.withdrawn]
      /\ m.afi \in Afi /\ m.safi \in Safi /\ m.withdrawn \in Seq(PrefixesOf(w))
  BY DEF MpUnreaches
<1>3. /\ b \in Seq(Bytes) /\ ps \in Seq(Bytes) /\ Len(b) = 3 + Len(ps)
      /\ GetU16(b) = m.afi /\ b[3] = m.safi /\ Rest(b, 3) = ps
  BY <1>1, Zenon DEF MpUnreachLayout
<1>4. /\ w \in Nat \ {0} /\ Err \notin Seq(Seq(Bytes)) /\ Panic \notin Seq(Seq(Bytes))
  BY <1>2, PrefixesOfFamily, CodecsAssumption
<1> HIDE DEF b
<1>5. CASE Len(c) < 3
  BY <1>5 DEF ParseMpUnreach, Loses, Refused
<1>6. CASE ~(Len(c) < 3)
  <2>1. 3 \in 0..Len(c) /\ 3 \in 1..Len(c) /\ Len(c) \in Nat /\ Len(c) >= 2
    BY <1>1, <1>6 DEF Cropped
  <2>2. GetU16(c) = m.afi /\ c[3] = m.safi
    <3>1. GetU16(c) = GetU16(b)
      BY <1>1, <1>3, <2>1, CroppedU16, Zenon
    <3>2. c[3] = b[3]
      BY <1>1, <2>1, Zenon DEF Cropped
    <3> QED  BY <1>3, <3>1, <3>2
  <2>3. CropsRest(c, b, 3, Bytes)
    BY <1>1, <1>3, <2>1, CroppedRest, Zenon
  <2>4. Cropped(d, ps, Bytes) /\ Len(d) = Len(c) - 3
    BY <1>3, <2>3, Zenon DEF CropsRest
  <2>5. Len(d) < Len(ps)
    BY <1>1, <1>3, <2>1, <2>4
  <2> HIDE DEF d, w
  <2>6. x = Err \/ IsStrictPrefix(x, m.withdrawn)
    BY <1>2, <1>4, <2>4, <2>5, PrefixesCropped, Zenon
  <2> HIDE DEF x
  <2>7. ParseMpUnreach(c) = IF x \in {Err, Panic} THEN x
                            ELSE [afi |-> m.afi, safi |-> m.safi, withdrawn |-> x]
    BY <1>2, <1>6, <2>2 DEF ParseMpUnreach, Try, d, w, x
  <2>8. CASE x \in {Err, Panic}
    BY <2>7, <2>8 DEF Loses, Refused
  <2>9. CASE x \notin {Err, Panic}
    <3>1. LostEnd([afi |-> m.afi, safi |-> m.safi, withdrawn |-> x], m, "withdrawn")
      BY <1>2, <2>6, <2>9, MpUnreachLost
    <3> QED  BY <2>7, <2>9, <3>1 DEF Loses, LastList
  <2> QED  BY <2>8, <2>9
<1> QED  BY <1>5, <1>6

LEMMA MpReachCropped ==
    ASSUME NEW m \in MpReaches, NEW c, Cropped(c, SerializeMpReach(m), Bytes),
           Len(c) < Len(SerializeMpReach(m))
    PROVE  Loses(ParseMpReach(c), m, "MpReach")
<1> DEFINE b == SerializeMpReach(m)
           hops == FlattenSeq(m.next_hops)
           ps == SerializePrefixes(m.nlri)
           w == AddressLen(m.afi)
           n == 5 + Len(hops)
           d == Rest(c, n)
           x == ParsePrefixes(d, w)
<1>1. MpReachLayout(b, m, hops, ps) /\ Cropped(c, b, Bytes) /\ Len(c) < Len(b)
  BY MpReachBack
<1>2. /\ m = [afi |-> m.afi, safi |-> m.safi, next_hops |-> m.next_hops, nlri |-> m.nlri]
      /\ m.afi \in Afi /\ m.safi \in Safi /\ m.nlri \in Seq(PrefixesOf(w))
  BY DEF MpReaches
<1> HIDE DEF b, hops
<1>3. /\ b \in Seq(Bytes) /\ ps \in Seq(Bytes) /\ Len(hops) \in Nat
      /\ Len(b) = n + Len(ps)
      /\ GetU16(b) = m.afi /\ b[3] = m.safi /\ b[4] = Len(hops)
      /\ SubSeq(b, 5, 4 + Len(hops)) = hops /\ Items(hops, w) = m.next_hops
      /\ Rest(b, n) = ps
  BY <1>1, Zenon DEF MpReachLayout
<1>4. /\ w \in Nat \ {0} /\ Err \notin Seq(Seq(Bytes)) /\ Panic \notin Seq(Seq(Bytes))
  BY <1>2, PrefixesOfFamily, CodecsAssumption
<1>5. Len(c) \in Nat
  BY <1>1 DEF Cropped
<1>6. CASE Len(c) < 4
  BY <1>6 DEF ParseMpReach, Loses, Refused
<1>7. CASE ~(Len(c) < 4)
  <2>1. 3 \in 1..Len(c) /\ 4 \in 1..Len(c) /\ Len(c) >= 2
    BY <1>5, <1>7
  <2>2. GetU16(c) = m.afi /\ c[3] = m.safi /\ c[4] = Len(hops)
    <3>1. GetU16(c) = GetU16(b)
      BY <1>1, <1>3, <2>1, CroppedU16, Zenon
    <3>2. c[3] = b[3] /\ c[4] = b[4]
      BY <1>1, <2>1, Zenon DEF Cropped
    <3> QED  BY <1>3, <3>1, <3>2
  <2>3. CASE Len(c) < 4 + Len(hops)
    BY <2>2, <2>3 DEF ParseMpReach, Loses, Refused
  <2>4. CASE Len(c) = 4 + Len(hops)
    <3>1. ParseMpReach(c) \in {Err, Panic}
      BY <2>2, <2>4 DEF ParseMpReach
    <3> QED  BY <3>1 DEF Loses, Refused
  <2>5. CASE Len(c) > 4 + Len(hops)
    <3>1. n \in 0..Len(c) /\ 4 + Len(hops) <= Len(c) /\ 4 \in Nat /\ 4 + 1 = 5
      BY <1>3, <1>5, <2>5
    <3>2. CropsRest(c, b, n, Bytes)
      <4> HIDE DEF n
      <4> QED  BY <1>1, <1>3, <3>1, CroppedRest, Zenon
    <3>3. Cropped(d, ps, Bytes) /\ Len(d) = Len(c) - n
      BY <1>3, <3>2, Zenon DEF CropsRest
    <3>4. Len(d) < Len(ps)
      BY <1>1, <1>3, <1>5, <3>1, <3>3
    <3>5. SubSeq(c, 5, 4 + Len(hops)) = hops
      <4>1. SameSlice(c, b, 4, Len(hops))
        BY <1>1, <1>3, <3>1, CroppedSlice, Zenon
      <4> QED  BY <1>3, <3>1, <4>1, Zenon DEF SameSlice
    <3> HIDE DEF d, w
    <3>6. x = Err \/ IsStrictPrefix(x, m.nlri)
      BY <1>2, <1>4, <3>3, <3>4, PrefixesCropped, Zenon
    <3> HIDE DEF x
    <3> DEFINE R == [afi |-> m.afi, safi |-> m.safi, next_hops |-> m.next_hops, nlri |-> x]
    <3>7. ParseMpReach(c) = IF x \in {Err, Panic} THEN x ELSE R
      <4>1. /\ ~(\/ Len(c) < 4 \/ GetU16(c) \notin Afi \/ c[3] \notin Safi
                 \/ Len(c) < 4 + c[4])
            /\ Len(c) # 4 + c[4]
        BY <1>2, <1>3, <1>5, <1>7, <2>2, <2>5
      <4>2. /\ ParsePrefixes(Rest(c, 5 + c[4]), AddressLen(GetU16(c))) = x
            /\ Items(SubSeq(c, 5, 4 + c[4]), AddressLen(GetU16(c))) = m.next_hops
        BY <1>3, <2>2, <3>5, Zenon DEF d, w, x
      <4> QED  BY <2>2, <4>1, <4>2 DEF ParseMpReach, Try
    <3>8. CASE x \in {Err, Panic}
      BY <3>7, <3>8 DEF Loses, Refused
    <3>9. CASE x \notin {Err, Panic}
      <4>1. LostEnd(R, m, "nlri")
        BY <1>2, <3>6, <3>9, MpReachLost
      <4> QED  BY <3>7, <3>9, <4>1 DEF Loses, LastList
    <3> QED  BY <3>8, <3>9
  <2> QED  BY <1>3, <1>5, <2>3, <2>4, <2>5
<1> QED  BY <1>6, <1>7

LEMMA UpdateCropped ==
    ASSUME NEW m \in Updates, NEW c, Cropped(c, SerializeUpdate(m), Bytes),
           Len(c) < Len(SerializeUpdate(m))
    PROVE  Loses(ParseUpdate(c), m, "Update")
<1> DEFINE b == SerializeUpdate(m)
           W == m.withdrawn_routes
           A == m.path_attributes
<1>1. UpdateLayout(b, m) /\ Cropped(c, b, Bytes) /\ Len(c) < Len(b)
  BY UpdateBack
<1>2. /\ m = [withdrawn_routes |-> W, path_attributes |-> A, nlri |-> m.nlri]
      /\ W \in Seq(PrefixesOf(Word)) /\ A \in AttributesOnWire
      /\ m.nlri \in Seq(PrefixesOf(Word))
  BY DEF Updates
<1> HIDE DEF b
<1>3. PICK w \in Seq(Bytes), a \in Seq(Bytes), n \in Seq(Bytes), z \in Seq(Bytes) :
        /\ ParsePrefixes(w, Word) = W /\ ParseAttributes(a) = A
        /\ n = SerializePrefixes(m.nlri)
        /\ IsCounted(b, w, z) /\ IsCounted(z, a, n)
  BY <1>1, Zenon DEF UpdateLayout
<1>4. /\ Word \in Nat \ {0} /\ Err \notin Seq(Seq(Bytes)) /\ Panic \notin Seq(Seq(Bytes))
      /\ W \notin {Err, Panic} /\ A \notin {Err, Panic}
  BY <1>2, OctetsAssumption, CodecsAssumption
<1>5. Len(c) \in Nat /\ Len(w) \in Nat
  BY <1>1 DEF Cropped
<1>6. CASE Len(c) < 4 \/ Len(Rest(c, 2)) < GetU16(c)
  BY <1>6 DEF ParseUpdate, Loses, Refused
<1>7. CASE ~(Len(c) < 4 \/ Len(Rest(c, 2)) < GetU16(c))
  <2> DEFINE d == Rest(Rest(c, 2), Len(w))
  <2>1. CroppedPart(c, w, z)
    <3>1. Len(c) >= 2
      BY <1>5, <1>7
    <3> QED  BY <1>1, <1>3, <3>1, CroppedCounted, Zenon
  <2>2. GetU16(c) = Len(w) /\ ~(Len(Rest(c, 2)) < Len(w))
    BY <1>7, <2>1, Zenon DEF CroppedPart
  <2>3. SubSeq(Rest(c, 2), 1, Len(w)) = w /\ Cropped(d, z, Bytes) /\ Len(d) < Len(z)
    BY <2>1, <2>2, Zenon DEF CroppedPart
  <2> HIDE DEF d
  <2>4. ParseUpdate(c) = ParseRoutes(W, d)
    <3>1. /\ ParsePrefixes(SubSeq(Rest(c, 2), 1, GetU16(c)), Word) = W
          /\ Rest(Rest(c, 2), GetU16(c)) = d
      BY <1>3, <2>2, <2>3, Zenon DEF d
    <3> QED  BY <1>4, <1>7, <3>1 DEF ParseUpdate, Try
  <2>5. CASE Len(d) < 2 \/ Len(Rest(d, 2)) < GetU16(d)
    <3>1. ParseRoutes(W, d) \in {Err, Panic}
      BY <2>5 DEF ParseRoutes
    <3> QED  BY <2>4, <3>1 DEF Loses, Refused
  <2>6. CASE ~(Len(d) < 2 \/ Len(Rest(d, 2)) < GetU16(d))
    <3> DEFINE e == Rest(Rest(d, 2), Len(a))
               x == ParsePrefixes(e, Word)
               R == [withdrawn_routes |-> W, path_attributes |-> A, nlri |-> x]
    <3>1. CroppedPart(d, a, n)
      <4>1. Len(d) >= 2
        BY <2>3, <2>6 DEF Cropped
      <4> QED  BY <1>3, <2>3, <4>1, CroppedCounted, Zenon
    <3>2. GetU16(d) = Len(a) /\ ~(Len(Rest(d, 2)) < Len(a))
      BY <2>6, <3>1, Zenon DEF CroppedPart
    <3>3. SubSeq(Rest(d, 2), 1, Len(a)) = a /\ Cropped(e, n, Bytes) /\ Len(e) < Len(n)
      BY <3>1, <3>2, Zenon DEF CroppedPart
    <3> HIDE DEF e
    <3>4. x = Err \/ IsStrictPrefix(x, m.nlri)
      BY <1>2, <1>3, <1>4, <3>3, PrefixesCropped, Zenon
    <3> HIDE DEF x
    <3>5. ParseRoutes(W, d) = IF x \in {Err, Panic} THEN x ELSE R
      <4>1. /\ ParseAttributes(SubSeq(Rest(d, 2), 1, GetU16(d))) = A
            /\ ParsePrefixes(Rest(Rest(d, 2), GetU16(d)), Word) = x
        BY <1>3, <3>2, <3>3, Zenon DEF e, x
      <4> QED  BY <1>4, <2>6, <4>1 DEF ParseRoutes, Try
    <3>6. CASE x \in {Err, Panic}
      BY <2>4, <3>5, <3>6 DEF Loses, Refused
    <3>7. CASE x \notin {Err, Panic}
      <4>1. LostEnd(R, m, "nlri")
        BY <1>2, <3>4, <3>7, UpdateLost
      <4> QED  BY <2>4, <3>5, <3>7, <4>1 DEF Loses, LastList
    <3> QED  BY <3>6, <3>7
  <2> QED  BY <2>5, <2>6
<1> QED  BY <1>6, <1>7

\* The same for messages of every kind that arrives as a body of its own.
LEMMA EveryMessageCropped ==
    ASSUME NEW k \in Kinds \ {"Attributes"}, NEW m \in MessagesOf(k)
    PROVE  /\ Serialize(k, m) \in Seq(Bytes)
           /\ \A c : Cropped(c, Serialize(k, m), Bytes) /\ Len(c) < Len(Serialize(k, m))
                        => Loses(Parse(k, c), m, k)
<1>1. CASE k = "Update"
  <2>1. m \in Updates
    BY <1>1 DEF MessagesOf
  <2>2. SerializeUpdate(m) \in Seq(Bytes)
    BY <2>1, UpdateBack DEF UpdateLayout, IsCounted
  <2> QED  BY <1>1, <2>1, <2>2, UpdateCropped DEF Parse, Serialize
<1>2. CASE k = "Open"
  <2>1. m \in Opens
    BY <1>2 DEF MessagesOf
  <2>2. SerializeOpen(m) \in Seq(Bytes)
    BY <2>1, OpenBack DEF OpenLayout
  <2> QED  BY <1>2, <2>1, <2>2, OpenCropped DEF Parse, Serialize
<1>3. CASE k = "Notification"
  <2>1. m \in MessagesOf("Notification")
    BY <1>3
  <2>2. SerializeNotification(m) \in Seq(Bytes)
    BY <2>1, NotificationBack DEF NotificationLayout
  <2> QED  BY <1>3, <2>1, <2>2, NotificationCropped DEF Parse, Serialize
<1>4. CASE k = "RouteRefresh"
  <2>1. m \in MessagesOf("RouteRefresh")
    BY <1>4
  <2>2. SerializeRouteRefresh(m) \in Seq(Bytes)
    BY <2>1, RouteRefreshBack
  <2> QED  BY <1>4, <2>1, <2>2, RouteRefreshCropped DEF Parse, Serialize
<1>5. CASE k = "MpReach"
  <2>1. m \in MpReaches
    BY <1>5 DEF MessagesOf
  <2>2. SerializeMpReach(m) \in Seq(Bytes)
    BY <2>1, MpReachBack DEF MpReachLayout
  <2> QED  BY <1>5, <2>1, <2>2, MpReachCropped DEF Parse, Serialize
<1>6. CASE k = "MpUnreach"
  <2>1. m \in MpUnreaches
    BY <1>6 DEF MessagesOf
  <2>2. SerializeMpUnreach(m) \in Seq(Bytes)
    BY <2>1, MpUnreachBack DEF MpUnreachLayout
  <2> QED  BY <1>6, <2>1, <2>2, MpUnreachCropped DEF Parse, Serialize
<1> QED  BY <1>1, <1>2, <1>3, <1>4, <1>5, <1>6 DEF Kinds

\* A body that begins as a message does is what is left of that message.
LeftInv ==
    /\ SentInv
    /\ sent # NoMessage =>
         IF kind = "Attributes" THEN body = Serialize(kind, sent)
         ELSE Cropped(body, Serialize(kind, sent), Bytes)

LEMMA LeftIsInvariant == CodecSpec => []LeftInv
<1>1. CodecInit => LeftInv
  <2> SUFFICES ASSUME CodecInit, sent # NoMessage
               PROVE  IF kind = "Attributes" THEN body = Serialize(kind, sent)
                      ELSE Cropped(body, Serialize(kind, sent), Bytes)
    BY SentInit DEF LeftInv
  <2>1. SentInv /\ body = Serialize(kind, sent)
    BY SentInit DEF CodecInit
  <2>2. ASSUME kind # "Attributes" PROVE Cropped(body, body, Bytes)
    <3>1. kind \in Kinds \ {"Attributes"} /\ sent \in MessagesOf(kind)
      BY <2>1, <2>2 DEF SentInv
    <3>2. body \in Seq(Bytes)
      BY <2>1, <3>1, EveryMessageCropped, Zenon
    <3> QED  BY <3>2 DEF Cropped
  <2> QED  BY <2>1, <2>2
<1>2. LeftInv /\ [CodecNext]_codecVars => LeftInv'
  <2> SUFFICES ASSUME LeftInv, [CodecNext]_codecVars PROVE LeftInv'
    OBVIOUS
  <2>1. SentInv'
    BY SentStep DEF LeftInv
  <2>2. CASE UNCHANGED codecVars
    BY <2>2 DEF LeftInv, SentInv, codecVars
  <2>3. CASE Truncate
    <3> DEFINE b == Serialize(kind, sent)
    <3>1. /\ sent # NoMessage /\ kind # "Attributes" /\ body # <<>>
          /\ body' = SubSeq(body, 1, Len(body) - 1) /\ kind' = kind /\ sent' = sent
      BY <2>3 DEF Truncate, Front
    <3>2. Cropped(body, b, Bytes)
      BY <3>1 DEF LeftInv
    <3> HIDE DEF b
    <3>3. body \in Seq(Bytes) /\ Len(body) \in Nat /\ Len(body) <= Len(b)
          /\ \A j \in 1..Len(body) : body[j] = b[j]
      BY <3>2 DEF Cropped
    <3>4. kind \in Kinds \ {"Attributes"} /\ sent \in MessagesOf(kind)
      BY <3>1 DEF LeftInv, SentInv
    <3>5. b \in Seq(Bytes)
      BY <3>4, EveryMessageCropped, Zenon DEF b
    <3>6. Len(body) - 1 \in 0..Len(body)
      BY <3>1, <3>3
    <3>7. Cropped(body', body, Bytes)
      BY <3>1, <3>3, <3>6, CroppedSubSeq
    <3>8. Cropped(body', b, Bytes)
      BY <3>3, <3>5, <3>7 DEF Cropped
    <3>9. Serialize(kind', sent') = b
      BY <3>1 DEF b
    <3> QED  BY <2>1, <3>1, <3>8, <3>9 DEF LeftInv
  <2>4. CASE \E x \in Letters[kind] : Extend(x)
    BY <2>1, <2>4 DEF LeftInv, Extend
  <2> QED  BY <2>2, <2>3, <2>4 DEF CodecNext
<1> QED  BY <1>1, <1>2, PTL DEF CodecSpec

\* A message that lost bytes at its end is refused, or it is the message
\* without the end of its last list, for every message that fits the wire and
\* every number of bytes that it lost.
THEOREM CodecsSurviveTruncation == CodecSpec => []TruncationSafe
<1>1. LeftInv => TruncationSafe
  <2> SUFFICES ASSUME LeftInv, sent # NoMessage, body # Serialize(kind, sent)
               PROVE  Loses(Parse(kind, body), sent, kind)
    BY DEF TruncationSafe, Loses, LostEnd, Refused
  <2> DEFINE b == Serialize(kind, sent)
  <2>1. kind \in Kinds \ {"Attributes"} /\ sent \in MessagesOf(kind) /\ Cropped(body, b, Bytes)
    BY DEF LeftInv, SentInv
  <2>2. b \in Seq(Bytes) /\ (\A c : Cropped(c, b, Bytes) /\ Len(c) < Len(b)
                                      => Loses(Parse(kind, c), sent, kind))
    BY <2>1, EveryMessageCropped, Zenon
  <2>3. body # b
    OBVIOUS
  <2> HIDE DEF b
  <2>4. Len(body) < Len(b)
    <3>1. /\ body \in Seq(Bytes) /\ Len(body) \in Nat /\ Len(b) \in Nat /\ Len(body) <= Len(b)
          /\ \A j \in 1..Len(body) : body[j] = b[j]
      BY <2>1, <2>2 DEF Cropped
    <3>2. Len(body) # Len(b)
      BY <2>2, <2>3, <3>1, SameSeq
    <3> QED  BY <3>1, <3>2
  <2> QED  BY <2>1, <2>2, <2>4, Zenon
<1> QED  BY <1>1, LeftIsInvariant, PTL

-----------------------------------------------------------------------------
(* Loops that collect pieces, and the capabilities of an OPEN *)

\* The loop comes by the positions off[0], off[1]..., takes the members of segs
\* there, and stops behind the last.
ComesAlong(off, segs, N, Stop, base, next, piece) ==
    /\ off \in [0..Len(segs) -> 0..N]
    /\ off[Len(segs)] \in Stop /\ base[off[Len(segs)]] = <<>>
    /\ \A i \in 1..Len(segs) : /\ off[i - 1] \notin Stop
                               /\ next[off[i - 1]] = off[i]
                               /\ piece[off[i - 1]] = segs[i]

HasCollected(f, off, items) == f[off[0]] = items

LEMMA LoopHasCollected ==
    ASSUME NEW N \in Nat, NEW Stop, NEW base, NEW next, NEW piece, NEW f,
           IsLoop(f, N, Stop, base, next, piece, {}),
           NEW V, NEW items \in Seq(V),
           NEW off, ComesBy(off, items, N, Stop, base, next, piece)
    PROVE  HasCollected(f, off, items)
<1>1. {} \cap Seq(V) = {}
  OBVIOUS
<1> QED  BY <1>1, LoopCollects DEF HasCollected

LEMMA FlattenTail ==
    ASSUME NEW S, NEW segs \in Seq(Seq(S)), NEW i \in 1..Len(segs)
    PROVE  /\ FlattenSeq(SubSeq(segs, i, Len(segs)))
                = segs[i] \o FlattenSeq(SubSeq(segs, i + 1, Len(segs)))
           /\ FlattenSeq(SubSeq(segs, i + 1, Len(segs))) \in Seq(S)
<1> DEFINE V == Seq(S)
           x == segs[i]
           t == SubSeq(segs, i + 1, Len(segs))
<1>1. x \in V
  OBVIOUS
<1>2. segs \in Seq(V)
  OBVIOUS
<1> HIDE DEF V
<1>3. SubSeq(segs, i, Len(segs)) = <<x>> \o t /\ t \in Seq(V)
  BY <1>2
<1> HIDE DEF x, t
<1>4. <<x>> \in Seq(V)
  BY <1>1
<1> DEFINE o == <<x>>
<1> HIDE DEF o
<1>5. o \in Seq(Seq(S)) /\ t \in Seq(Seq(S))
  BY <1>3, <1>4, Zenon DEF V, o
<1>6. FlattenSeq(o \o t) = FlattenSeq(o) \o FlattenSeq(t)
  BY <1>5, FlattenConcat
<1>7. FlattenSeq(o) = x
  BY <1>1, FlattenOne DEF V, o
<1>8. FlattenSeq(t) \in Seq(S)
  BY <1>5, FlattenType
<1> QED  BY <1>3, <1>6, <1>7, <1>8, Zenon DEF o, x, t

\* Then it puts them together.
LEMMA LoopFlattens ==
    ASSUME NEW N \in Nat, NEW Stop, NEW base, NEW next, NEW piece, NEW f,
           IsLoop(f, N, Stop, base, next, piece, {}),
           NEW S, NEW segs \in Seq(Seq(S)),
           NEW off, ComesAlong(off, segs, N, Stop, base, next, piece)
    PROVE  f[off[0]] = FlattenSeq(segs)
<1> DEFINE n == Len(segs)
           Tail_(k) == FlattenSeq(SubSeq(segs, (n - k) + 1, n))
           T == {k \in Nat : k <= n => f[off[n - k]] = Tail_(k)}
<1>1. n \in Nat
  OBVIOUS
<1>2. Tail_(0) = <<>> /\ Tail_(n) = FlattenSeq(segs)
  <2>1. SubSeq(segs, n + 1, n) = <<>>
    BY SubSeqProperties
  <2>2. SubSeq(segs, 1, n) = segs
    BY SubSeqFull
  <2>3. (n - 0) + 1 = n + 1 /\ (n - n) + 1 = 1
    BY <1>1
  <2> QED  BY <2>1, <2>2, <2>3, FlattenNone
<1>3. ASSUME NEW i \in 1..n, NEW k, k = n - i
      PROVE  Tail_(k + 1) = segs[i] \o Tail_(k)
  <2>1. (n - (k + 1)) + 1 = i /\ (n - k) + 1 = i + 1
    BY <1>1, <1>3
  <2>2. FlattenSeq(SubSeq(segs, i, n)) = segs[i] \o FlattenSeq(SubSeq(segs, i + 1, n))
    BY FlattenTail
  <2> QED  BY <2>1, <2>2, Zenon
<1>4. /\ off \in [0..n -> 0..N]
      /\ off[n] \in Stop /\ base[off[n]] = <<>>
      /\ \A i \in 1..n : /\ off[i - 1] \notin Stop /\ next[off[i - 1]] = off[i]
                         /\ piece[off[i - 1]] = segs[i]
  BY DEF ComesAlong
<1>5. \A p \in 0..N : f[p] = Round(f, p, Stop, base, next, piece, {})
  <2> DEFINE B(p) == Round(f, p, Stop, base, next, piece, {})
  <2>1. f = [p \in 0..N |-> B(p)]
    BY DEF IsLoop
  <2> HIDE DEF B
  <2>2. \A p \in 0..N : f[p] = B(p)
    BY <2>1
  <2> QED  BY <2>2 DEF B
<1> HIDE DEF Tail_, n
<1>6. 0 \in T
  <2>1. n - 0 = n /\ n \in 0..n /\ off[n] \in 0..N
    BY <1>1, <1>4
  <2>2. f[off[n]] = base[off[n]]
    BY <1>4, <1>5, <2>1 DEF Round
  <2> QED  BY <1>2, <1>4, <2>1, <2>2
<1>7. ASSUME NEW k \in Nat, k \in T PROVE k + 1 \in T
  <2> SUFFICES ASSUME k + 1 <= n PROVE f[off[n - (k + 1)]] = Tail_(k + 1)
    OBVIOUS
  <2>1. n - k \in 1..n /\ (n - k) - 1 = n - (k + 1)
    BY <1>1
  <2>2. PICK i \in 1..n : i = n - k /\ i - 1 = n - (k + 1) /\ k = n - i
    BY <1>1, <2>1
  <2>3. i \in 0..n /\ i - 1 \in 0..n
    BY <1>1
  <2>4. off[i - 1] \in 0..N /\ off[i] \in 0..N
    BY <1>4, <2>3
  <2>5. f[off[i]] = Tail_(k)
    BY <1>1, <1>7, <2>2
  <2>6. /\ off[i - 1] \notin Stop /\ next[off[i - 1]] = off[i]
        /\ piece[off[i - 1]] = segs[i]
    BY <1>4, Zenon
  <2>7. f[off[i - 1]] = segs[i] \o f[off[i]]
    BY <1>5, <2>4, <2>6 DEF Round
  <2>8. Tail_(k + 1) = segs[i] \o Tail_(k)
    BY <1>3, <2>2
  <2> QED  BY <2>2, <2>5, <2>7, <2>8, Zenon
<1> HIDE DEF T
<1>8. \A k \in Nat : k \in T
  BY <1>6, <1>7, SetInduction
<1>9. f[off[n - n]] = Tail_(n)
  BY <1>1, <1>8 DEF T
<1>10. n - n = 0
  BY <1>1
<1> QED  BY <1>2, <1>9, <1>10

-----------------------------------------------------------------------------
(* Capabilities *)

\* A parameter, or a capability, that x takes off v between p and q.
TakenParam(x, v, p, q) ==
    /\ x \in Seq(Bytes) /\ x[1] \in Bytes /\ x[2] \in Bytes /\ Len(x) = 2 + x[2]
    /\ x[1] = v[p + 1] /\ x[2] = v[p + 2]
    /\ q = p + 2 + x[2] /\ q <= Len(v)
    /\ Rest(x, 2) \in Seq(Bytes) /\ Len(Rest(x, 2)) = x[2]
    /\ \A j \in 1..x[2] : Rest(x, 2)[j] = v[p + 2 + j]

LEMMA ParamTaken ==
    ASSUME NEW v \in Seq(Bytes), NEW p \in 0..Len(v), NEW q, NEW x,
           Takes(p, q, x, v, 2, ParamSize(v), ParamSize(v))
    PROVE  TakenParam(x, v, p, q)
<1> DEFINE z == ParamSize(v)[p]
<1>1. /\ Len(v) - p >= 2 /\ z \in Nat /\ p + z <= Len(v)
      /\ x = SubSeq(v, p + 1, p + z) /\ q = p + z
  BY DEF Takes
<1>2. z = 2 + v[p + 2] /\ v[p + 2] \in Bytes /\ v[p + 2] \in Nat
  <2>1. 2 \in 1..(Len(v) - p)
    BY <1>1
  <2>2. Rest(v, p)[2] = v[p + 2] /\ v[p + 2] \in Bytes /\ v[p + 2] \in Nat
    BY <2>1, RestByte, Zenon
  <2> QED  BY <2>2 DEF ParamSize
<1> HIDE DEF z
<1>3. x \in Seq(Bytes) /\ Len(x) = z /\ \A j \in 1..z : x[j] = v[p + j]
  <2>1. p \in Nat
    OBVIOUS
  <2>2. IsSlice(SubSeq(v, p + 1, p + z), v, p, z, Bytes)
    BY <1>1, <2>1, SliceIs, Zenon
  <2> QED  BY <1>1, <2>2, Zenon DEF IsSlice
<1>4. 1 \in 1..z /\ 2 \in 1..z /\ 2 \in 0..Len(x) /\ z - 2 = v[p + 2] /\ p \in Nat
  <2> DEFINE k == v[p + 2]
             l == Len(x)
  <2>1. z = 2 + k /\ k \in Nat /\ l = z
    BY <1>2, <1>3, Zenon
  <2> HIDE DEF k, l
  <2>2. 1 \in 1..z /\ 2 \in 1..z /\ 2 \in 0..l /\ z - 2 = k
    BY <2>1
  <2> QED  BY <2>2 DEF k, l
<1>5. x[1] = v[p + 1] /\ x[2] = v[p + 2]
  BY <1>3, <1>4, Zenon
<1>6. x[1] \in Bytes
  BY <1>3, <1>4
<1>7. IsRest(Rest(x, 2), x, 2, Bytes)
  BY <1>3, <1>4, RestIs, Zenon
<1> DEFINE r == Rest(x, 2)
<1>8. r \in Seq(Bytes) /\ Len(r) = x[2] /\ \A j \in 1..x[2] : r[j] = x[2 + j]
  BY <1>3, <1>4, <1>5, <1>7, Zenon DEF IsRest
<1> HIDE DEF r
<1>9. ASSUME NEW j \in 1..x[2] PROVE r[j] = v[p + 2 + j]
  <2>1. 2 + j \in 1..z /\ p + (2 + j) = p + 2 + j
    BY <1>2, <1>4, <1>5
  <2>2. x[2 + j] = v[p + (2 + j)]
    BY <1>3, <2>1, Zenon
  <2> QED  BY <1>8, <2>1, <2>2, Zenon
<1>10. q = p + 2 + x[2] /\ q <= Len(v) /\ Len(x) = 2 + x[2]
  <2> DEFINE k == x[2]
             l == Len(x)
             m == Len(v)
  <2>1. z = 2 + k /\ k \in Nat /\ l = z /\ q = p + z /\ p + z <= m
    BY <1>1, <1>2, <1>3, <1>5, Zenon
  <2> HIDE DEF k, l, m
  <2>2. q = p + 2 + k /\ q <= m /\ l = 2 + k
    BY <1>4, <2>1
  <2> QED  BY <2>2 DEF k, l, m
<1> QED  BY <1>2, <1>3, <1>5, <1>6, <1>8, <1>9, <1>10, Zenon DEF TakenParam, r

\* What CutParams finds when it does not fail.
CutsInto(v, items, off) ==
    /\ items \in Seq(Seq(Bytes)) /\ CutParams(v) = items /\ items \notin {Err, Panic}
    /\ off \in [0..Len(items) -> 0..Len(v)] /\ off[0] = 0
    /\ Len(v) - off[Len(items)] < 2
    /\ \A i \in 1..Len(items) : TakenParam(items[i], v, off[i - 1], off[i])

LEMMA ParamsCut ==
    ASSUME NEW v \in Seq(Bytes), CutParams(v) # Err
    PROVE  \E items, off : CutsInto(v, items, off)
<1> DEFINE size == ParamSize(v)
<1>1. PICK f : IsCut(f, v, 2, size, size) /\ CutParams(v) = f[0]
  BY ParamCut
<1>2. Moves(v, 2, size, size) /\ 2 \in Nat \ {0}
  BY ParamMoves
<1>3. Err \notin Seq(Seq(Bytes)) /\ Panic \notin Seq(Seq(Bytes))
  BY CodecsAssumption
<1> HIDE DEF size
<1>4. f[0] = Err \/ WalkFrom(f[0], Bytes, v, 0, 2, size, size)
  BY <1>1, <1>2, <1>3, CutWalks, Zenon
<1>5. PICK items, off : /\ items \in Seq(Seq(Bytes)) /\ f[0] = items
                        /\ Walk(off, items, v, 0, 2, size, size)
  BY <1>1, <1>4, Zenon DEF WalkFrom
<1>6. /\ off \in [0..Len(items) -> 0..Len(v)] /\ off[0] = 0
      /\ Len(v) - off[Len(items)] < 2
      /\ \A i \in 1..Len(items) : Takes(off[i - 1], off[i], items[i], v, 2, size, size)
  BY <1>5, Zenon DEF Walk
<1>7. ASSUME NEW i \in 1..Len(items) PROVE TakenParam(items[i], v, off[i - 1], off[i])
  <2>1. i - 1 \in 0..Len(items)
    OBVIOUS
  <2>2. off[i - 1] \in 0..Len(v)
    BY <1>6, <2>1, Zenon
  <2> QED  BY <1>6, <2>2, ParamTaken, Zenon DEF size
<1>8. CutsInto(v, items, off)
  BY <1>1, <1>3, <1>5, <1>6, <1>7, Zenon DEF CutsInto
<1> QED  BY <1>8

\* The inner loop of parse_optional_params.
CapStop(data, end) ==
    {q \in 0..Len(data) :
       q + 2 > end \/ q + 2 > Len(data) \/ q + 2 + data[q + 2] > Len(data)}
CapBase(data) == [q \in 0..Len(data) |-> <<>>]
CapNext(data) == [q \in 0..Len(data) |-> q + 2 + data[q + 2]]
CapPiece(data) ==
    [q \in 0..Len(data) |->
       <<ParseOne(data[q + 1], SubSeq(data, q + 3, q + 2 + data[q + 2]))>>]

LEMMA CapabilitiesLoop ==
    ASSUME NEW data \in Seq(Bytes), NEW end
    PROVE  IsLoop(CapabilitiesUntil(end, data), Len(data), CapStop(data, end), CapBase(data),
                  CapNext(data), CapPiece(data), {})
<1> DEFINE N == Len(data)
           A(f, q) == IF q + 2 > end \/ q + 2 > N \/ q + 2 + data[q + 2] > N THEN <<>>
                      ELSE <<ParseOne(data[q + 1], SubSeq(data, q + 3, q + 2 + data[q + 2]))>>
                             \o f[q + 2 + data[q + 2]]
           B(f, q) == Round(f, q, CapStop(data, end), CapBase(data), CapNext(data),
                            CapPiece(data), {})
           Eq(f) == f = [q \in 0..N |-> A(f, q)]
           Lp(f) == IsLoop(f, N, CapStop(data, end), CapBase(data), CapNext(data),
                           CapPiece(data), {})
<1>1. CapabilitiesUntil(end, data) = CHOOSE f : Eq(f)
  BY DEF CapabilitiesUntil
<1>2. ASSUME NEW f, NEW q \in 0..N PROVE A(f, q) = B(f, q)
  <2>1. CASE q \in CapStop(data, end)
    <3>1. q + 2 > end \/ q + 2 > N \/ q + 2 + data[q + 2] > N
      BY <2>1 DEF CapStop
    <3> QED  BY <2>1, <3>1 DEF Round, CapBase
  <2>2. CASE q \notin CapStop(data, end)
    <3>1. ~(q + 2 > end \/ q + 2 > N \/ q + 2 + data[q + 2] > N)
      BY <2>2, Zenon DEF CapStop
    <3>2. /\ CapNext(data)[q] = q + 2 + data[q + 2]
          /\ CapPiece(data)[q]
               = <<ParseOne(data[q + 1], SubSeq(data, q + 3, q + 2 + data[q + 2]))>>
      BY Zenon DEF CapNext, CapPiece
    <3> QED  BY <2>2, <3>1, <3>2, Zenon DEF Round
  <2> QED  BY <2>1, <2>2
<1> HIDE DEF A, B
<1>3. \A f : Eq(f) <=> Lp(f)
  <2> SUFFICES ASSUME NEW f PROVE Eq(f) <=> Lp(f)
    OBVIOUS
  <2>1. [q \in 0..N |-> A(f, q)] = [q \in 0..N |-> B(f, q)]
    BY <1>2
  <2> QED  BY <2>1, Zenon DEF IsLoop, B
<1>4. ASSUME NEW q \in 0..N, q \notin CapStop(data, end) PROVE CapNext(data)[q] \in (q + 1)..N
  <2>1. q + 2 <= N /\ ~(q + 2 + data[q + 2] > N)
    BY <1>4 DEF CapStop
  <2>2. data[q + 2] \in Bytes
    BY <2>1
  <2>3. data[q + 2] \in Nat
    BY <2>2, ByteFacts
  <2>4. CapNext(data)[q] = q + 2 + data[q + 2]
    BY DEF CapNext
  <2> QED  BY <2>1, <2>3, <2>4
<1>5. \E f : Lp(f)
  <2>1. N \in Nat
    OBVIOUS
  <2> HIDE DEF N
  <2> QED  BY <1>4, <2>1, LoopExists
<1> HIDE DEF Eq, Lp
<1>6. Lp(CHOOSE f : Eq(f))
  BY <1>3, <1>5, Zenon
<1> QED  BY <1>1, <1>6, Zenon DEF Lp

\* A member of v, where v begins behind p in data.
SameMember(data, p, v, a, k) == data[p + a + k] = v[a + k]

LEMMA AtMember ==
    ASSUME NEW data, NEW v, NEW p \in Nat, At(data, p, v), NEW a \in Nat, NEW k \in Nat \ {0},
           a + k <= Len(v), Len(v) \in Nat
    PROVE  SameMember(data, p, v, a, k)
<1>1. a + k \in 1..Len(v) /\ p + (a + k) = p + a + k
  OBVIOUS
<1>2. data[p + (a + k)] = v[a + k]
  BY <1>1, Zenon DEF At
<1> QED  BY <1>1, <1>2, Zenon DEF SameMember

CapPlaced(p, a, k, L, N, b) ==
    /\ p + a \in 0..N /\ ~(p + a + 2 > p + L) /\ ~(p + a + 2 > N)
    /\ ~(p + a + 2 + k > N) /\ p + a + 2 + k = p + b
    /\ p + a + 2 \in Nat /\ (p + a + 2) + k <= N /\ (p + a + 2) + 1 = p + a + 3

LEMMA CapPlaces ==
    ASSUME NEW p \in Nat, NEW a \in Nat, NEW k \in Nat, NEW L \in Nat, NEW N \in Nat,
           NEW b, b = a + 2 + k, b <= L, p + L <= N
    PROVE  CapPlaced(p, a, k, L, N, b)
  BY DEF CapPlaced

\* The round of the inner loop that reads the capability x.
CapRound(data, end, q, next, x) ==
    /\ q \notin CapStop(data, end)
    /\ CapNext(data)[q] = next
    /\ CapPiece(data)[q] = <<ParseOne(x[1], Rest(x, 2))>>

LEMMA CapStep ==
    ASSUME NEW data \in Seq(Bytes), NEW v \in Seq(Bytes), NEW p \in Nat, At(data, p, v),
           NEW a \in Nat, NEW b, NEW x, TakenParam(x, v, a, b)
    PROVE  CapRound(data, p + Len(v), p + a, p + b, x)
<1> DEFINE q == p + a
           k == x[2]
           N == Len(data)
           L == Len(v)
           end == p + L
           r == Rest(x, 2)
<1>1. /\ x[1] = v[a + 1] /\ k = v[a + 2] /\ k \in Bytes /\ b = a + 2 + k /\ b <= L
      /\ r \in Seq(Bytes) /\ Len(r) = k /\ \A j \in 1..k : r[j] = v[a + 2 + j]
  BY Zenon DEF TakenParam
<1>2. k \in Nat /\ L \in Nat /\ N \in Nat /\ end <= N
  BY <1>1, ByteFacts DEF At
<1> HIDE DEF k, N, L, r
<1>3. a + 1 <= L /\ a + 2 <= L /\ 1 \in Nat \ {0} /\ 2 \in Nat \ {0}
  BY <1>1, <1>2
<1>4. data[q + 1] = x[1] /\ data[q + 2] = k
  <2>1. SameMember(data, p, v, a, 1) /\ SameMember(data, p, v, a, 2)
    BY <1>2, <1>3, AtMember, Zenon DEF L
  <2> QED  BY <1>1, <2>1, Zenon DEF SameMember
<1>5. /\ q \in 0..N /\ ~(q + 2 > end) /\ ~(q + 2 > N) /\ ~(q + 2 + k > N)
      /\ q + 2 + k = p + b /\ q + 2 \in Nat /\ (q + 2) + k <= N /\ (q + 2) + 1 = q + 3
  <2>1. CapPlaced(p, a, k, L, N, b)
    BY <1>1, <1>2, CapPlaces, Zenon
  <2> QED  BY <2>1, Zenon DEF CapPlaced
<1>6. SubSeq(data, q + 3, q + 2 + k) = r
  <2> DEFINE y == SubSeq(data, (q + 2) + 1, (q + 2) + k)
  <2>1. IsSlice(y, data, q + 2, k, Bytes)
    <3> HIDE DEF q, end
    <3> QED  BY <1>2, <1>5, SliceIs, Zenon DEF N
  <2> HIDE DEF y
  <2>2. y \in Seq(Bytes) /\ Len(y) = k /\ \A j \in 1..k : y[j] = data[(q + 2) + j]
    BY <2>1, Zenon DEF IsSlice
  <2>3. ASSUME NEW j \in 1..k PROVE y[j] = r[j]
    <3>1. /\ (q + 2) + j = p + a + (2 + j) /\ a + (2 + j) = a + 2 + j
          /\ a + (2 + j) <= L /\ 2 + j \in Nat \ {0}
      <4>1. b = a + 2 + k /\ b <= L
        BY <1>1, Zenon
      <4>2. a \in Nat /\ p \in Nat /\ k \in Nat /\ L \in Nat
        BY <1>2, Zenon
      <4>3. j \in Nat /\ j <= k
        BY <4>2
      <4> QED  BY <4>1, <4>2, <4>3
    <3>2. data[p + a + (2 + j)] = v[a + (2 + j)]
      <4>1. SameMember(data, p, v, a, 2 + j)
        BY <1>2, <3>1, AtMember, Zenon DEF L
      <4> QED  BY <4>1, Zenon DEF SameMember
    <3>3. y[j] = data[(q + 2) + j] /\ r[j] = v[a + 2 + j]
      BY <1>1, <2>2, Zenon
    <3> QED  BY <3>1, <3>2, <3>3, Zenon
  <2>4. y = r
    BY <1>1, <2>2, <2>3, SameSeq, Zenon
  <2> QED  BY <1>5, <2>4, Zenon DEF y
<1> HIDE DEF q
<1>7. q \notin CapStop(data, end)
  BY <1>4, <1>5, Zenon DEF CapStop, N
<1>8. CapNext(data)[q] = p + b
  <2>1. CapNext(data)[q] = q + 2 + data[q + 2]
    BY <1>5, Zenon DEF CapNext, N
  <2> QED  BY <1>4, <1>5, <2>1, Zenon
<1>9. CapPiece(data)[q] = <<ParseOne(x[1], r)>>
  <2>1. CapPiece(data)[q]
          = <<ParseOne(data[q + 1], SubSeq(data, q + 3, q + 2 + data[q + 2]))>>
    BY <1>5, Zenon DEF CapPiece, N
  <2> QED  BY <1>4, <1>6, <2>1, Zenon
<1> QED  BY <1>7, <1>8, <1>9, Zenon DEF CapRound, q, L, r

\* Whatever parse_one returns.
ParsedCapabilities == {ParseOne(code, value) : code \in Bytes, value \in Seq(Bytes)}

LEMMA ParsedCapability ==
    ASSUME NEW code \in Bytes, NEW value \in Seq(Bytes)
    PROVE  ParseOne(code, value) \in ParsedCapabilities
  BY DEF ParsedCapabilities

\* The inner loop reads the capabilities of the parameter it is in.
LEMMA CapabilitiesRead ==
    ASSUME NEW data \in Seq(Bytes), NEW v \in Seq(Bytes), NEW p \in Nat, At(data, p, v),
           CutParams(v) # Err
    PROVE  /\ CapabilitiesUntil(p + Len(v), data)[p] = CapabilitiesIn(v)
           /\ CapabilitiesIn(v) \in Seq(ParsedCapabilities)
<1> DEFINE N == Len(data)
           L == Len(v)
           end == p + L
           caps == CapabilitiesIn(v)
           V == ParsedCapabilities
<1>1. PICK items, off : CutsInto(v, items, off)
  BY ParamsCut
<1> DEFINE n == Len(items)
           to == [i \in 0..n |-> p + off[i]]
<1>2. /\ items \in Seq(Seq(Bytes)) /\ CutParams(v) = items
      /\ off \in [0..n -> 0..L] /\ off[0] = 0 /\ L - off[n] < 2
      /\ \A i \in 1..n : TakenParam(items[i], v, off[i - 1], off[i])
  BY <1>1, Zenon DEF CutsInto
<1>3. /\ n \in Nat /\ DOMAIN items = 1..n /\ L \in Nat /\ N \in Nat /\ end <= N
  BY <1>2 DEF At
<1>4. caps = [i \in 1..n |-> ParseOne(items[i][1], Rest(items[i], 2))]
  BY <1>2, <1>3 DEF CapabilitiesIn
<1>5. \A i \in 1..n : ParseOne(items[i][1], Rest(items[i], 2)) \in V
  <2> SUFFICES ASSUME NEW i \in 1..n
               PROVE  ParseOne(items[i][1], Rest(items[i], 2)) \in V
    OBVIOUS
  <2>1. TakenParam(items[i], v, off[i - 1], off[i])
    BY <1>2, Zenon
  <2>2. items[i][1] \in Bytes /\ Rest(items[i], 2) \in Seq(Bytes)
    BY <2>1, Zenon DEF TakenParam
  <2> QED  BY <2>2, ParsedCapability, Zenon
<1> HIDE DEF caps, V, n
<1>6. /\ caps \in Seq(V) /\ Len(caps) = n
      /\ \A i \in 1..n : caps[i] = ParseOne(items[i][1], Rest(items[i], 2))
  BY <1>3, <1>4, <1>5
<1> HIDE DEF N, L
<1>7. /\ to \in [0..n -> 0..N] /\ \A i \in 0..n : to[i] = p + off[i]
  <2>1. ASSUME NEW i \in 0..n PROVE p + off[i] \in 0..N
    <3>1. off[i] \in 0..L
      BY <1>2
    <3> QED  BY <1>3, <3>1
  <2> QED  BY <2>1
<1> HIDE DEF to
<1>8. to[0] = p
  <2>1. 0 \in 0..n /\ p + 0 = p
    BY <1>3
  <2> QED  BY <1>2, <1>7, <2>1, Zenon
<1>9. to[n] \in CapStop(data, end) /\ CapBase(data)[to[n]] = <<>>
  <2>1. n \in 0..n
    BY <1>3
  <2>2. to[n] \in 0..N /\ to[n] = p + off[n] /\ off[n] \in 0..L
    BY <1>2, <1>7, <2>1, Zenon
  <2>3. to[n] + 2 > end
    BY <1>2, <1>3, <2>2
  <2>4. CapBase(data)[to[n]] = <<>>
    BY <2>2, Zenon DEF CapBase, N
  <2> QED  BY <2>2, <2>3, <2>4, Zenon DEF CapStop, N
<1>10. ASSUME NEW i \in 1..n
       PROVE  /\ to[i - 1] \notin CapStop(data, end)
              /\ CapNext(data)[to[i - 1]] = to[i]
              /\ CapPiece(data)[to[i - 1]] = <<caps[i]>>
  <2>1. i \in 0..n /\ i - 1 \in 0..n
    BY <1>3
  <2>2. off[i - 1] \in Nat
    BY <1>2, <1>3, <2>1
  <2>3. TakenParam(items[i], v, off[i - 1], off[i])
    BY <1>2, Zenon
  <2>4. CapRound(data, end, p + off[i - 1], p + off[i], items[i])
    BY <2>2, <2>3, CapStep, Zenon DEF L
  <2>5. to[i - 1] = p + off[i - 1] /\ to[i] = p + off[i]
    BY <1>7, <2>1, Zenon
  <2> QED  BY <1>6, <2>4, <2>5, Zenon DEF CapRound
<1>11. ComesBy(to, caps, N, CapStop(data, end), CapBase(data), CapNext(data), CapPiece(data))
  BY <1>6, <1>7, <1>9, <1>10, Zenon DEF ComesBy
<1>12. IsLoop(CapabilitiesUntil(end, data), N, CapStop(data, end), CapBase(data),
              CapNext(data), CapPiece(data), {})
  BY CapabilitiesLoop, Zenon DEF N
<1>13. HasCollected(CapabilitiesUntil(end, data), to, caps)
  BY <1>3, <1>6, <1>11, <1>12, LoopHasCollected, Zenon
<1> QED  BY <1>6, <1>8, <1>13, Zenon DEF HasCollected, L, caps, V

\* The outer loop of parse_optional_params.
ParStop(data) ==
    {p \in 0..Len(data) : p + 2 > Len(data) \/ p + 2 + data[p + 2] > Len(data)}
ParPiece(data) ==
    [p \in 0..Len(data) |->
       IF data[p + 1] = 2 THEN CapabilitiesUntil(p + 2 + data[p + 2], data)[p + 2] ELSE <<>>]
ParBase(data) ==
    [p \in 0..Len(data) |-> IF p + 2 > Len(data) THEN <<>> ELSE ParPiece(data)[p] \o <<>>]

LEMMA ParamsLoop ==
    ASSUME NEW data \in Seq(Bytes)
    PROVE  \E f : /\ IsLoop(f, Len(data), ParStop(data), ParBase(data), CapNext(data),
                            ParPiece(data), {})
                  /\ ParseOptionalParams(data) = f[0]
<1> DEFINE N == Len(data)
           C(p) == IF data[p + 1] = 2
                   THEN CapabilitiesUntil(p + 2 + data[p + 2], data)[p + 2] ELSE <<>>
           A(f, p) == IF p + 2 > N THEN <<>>
                      ELSE C(p) \o (IF p + 2 + data[p + 2] > N THEN <<>>
                                    ELSE f[p + 2 + data[p + 2]])
           B(f, p) == Round(f, p, ParStop(data), ParBase(data), CapNext(data),
                            ParPiece(data), {})
           Eq(f) == f = [p \in 0..N |-> A(f, p)]
           Lp(f) == IsLoop(f, N, ParStop(data), ParBase(data), CapNext(data),
                           ParPiece(data), {})
           g == CHOOSE f : Eq(f)
<1>1. ParseOptionalParams(data) = g[0]
  BY DEF ParseOptionalParams
<1>2. \A p \in 0..N : ParPiece(data)[p] = C(p)
  BY DEF ParPiece
<1> HIDE DEF C
<1>3. ASSUME NEW f, NEW p \in 0..N PROVE A(f, p) = B(f, p)
  <2>1. ParPiece(data)[p] = C(p)
    BY <1>2
  <2>2. ParBase(data)[p] = IF p + 2 > N THEN <<>> ELSE C(p) \o <<>>
    BY <2>1, Zenon DEF ParBase
  <2>3. CapNext(data)[p] = p + 2 + data[p + 2]
    BY Zenon DEF CapNext
  <2>4. CASE p + 2 > N
    <3>1. p \in ParStop(data)
      BY <2>4, Zenon DEF ParStop
    <3> QED  BY <2>2, <2>4, <3>1, Zenon DEF Round
  <2>5. CASE ~(p + 2 > N) /\ p + 2 + data[p + 2] > N
    <3>1. p \in ParStop(data)
      BY <2>5, Zenon DEF ParStop
    <3> QED  BY <2>2, <2>5, <3>1, Zenon DEF Round
  <2>6. CASE ~(p + 2 > N) /\ ~(p + 2 + data[p + 2] > N)
    <3>1. p \notin ParStop(data)
      BY <2>6, Zenon DEF ParStop
    <3> QED  BY <2>1, <2>3, <2>6, <3>1, Zenon DEF Round
  <2> QED  BY <2>4, <2>5, <2>6
<1> HIDE DEF A, B
<1>4. \A f : Eq(f) <=> Lp(f)
  <2> SUFFICES ASSUME NEW f PROVE Eq(f) <=> Lp(f)
    OBVIOUS
  <2>1. [p \in 0..N |-> A(f, p)] = [p \in 0..N |-> B(f, p)]
    BY <1>3
  <2> QED  BY <2>1, Zenon DEF IsLoop, B
<1>5. ASSUME NEW p \in 0..N, p \notin ParStop(data) PROVE CapNext(data)[p] \in (p + 1)..N
  <2>1. p + 2 <= N /\ ~(p + 2 + data[p + 2] > N)
    BY <1>5 DEF ParStop
  <2>2. data[p + 2] \in Bytes
    BY <2>1
  <2>3. data[p + 2] \in Nat
    BY <2>2, ByteFacts
  <2>4. CapNext(data)[p] = p + 2 + data[p + 2]
    BY DEF CapNext
  <2> QED  BY <2>1, <2>3, <2>4
<1>6. \E f : Lp(f)
  <2>1. N \in Nat
    OBVIOUS
  <2> HIDE DEF N
  <2> QED  BY <1>5, <2>1, LoopExists
<1> HIDE DEF Eq, Lp
<1>7. Lp(g)
  BY <1>4, <1>6, Zenon
<1> HIDE DEF g
<1> QED  BY <1>1, <1>7, Zenon DEF Lp

\* The round of the outer loop that reads the parameter q.
CapsOfParam(q) == IF q.param_type = 2 THEN CapabilitiesIn(q.value) ELSE <<>>

ParRound(data, p, next, q) ==
    /\ p \notin ParStop(data)
    /\ CapNext(data)[p] = next
    /\ ParPiece(data)[p] = CapsOfParam(q)
    /\ CapsOfParam(q) \in Seq(ParsedCapabilities)

LEMMA ParStep ==
    ASSUME NEW data \in Seq(Bytes), NEW p \in Nat,
           NEW q \in OptionalParams, Len(q.value) < Byte, At(data, p, ParamBytes(q)),
           q.param_type = 2 => CutParams(q.value) # Err
    PROVE  ParRound(data, p, p + Len(ParamBytes(q)), q)
<1> DEFINE x == ParamBytes(q)
           v == q.value
           k == Len(v)
           N == Len(data)
<1>1. /\ x \in Seq(Bytes) /\ Len(x) = 2 + k /\ k \in Nat
      /\ x[1] = q.param_type /\ x[2] = k /\ Rest(x, 2) = v
  BY ParamBack
<1>2. v \in Seq(Bytes)
  BY DEF OptionalParams
<1>3. At(data, p, x)
  OBVIOUS
<1> HIDE DEF x
<1>4. p + Len(x) <= N /\ \A j \in 1..Len(x) : data[p + j] = x[j]
  BY <1>3, Zenon DEF At
<1>5. IsRest(v, x, 2, Bytes)
  <2>1. 2 \in 0..Len(x)
    BY <1>1
  <2>2. IsRest(Rest(x, 2), x, 2, Bytes)
    BY <1>1, <2>1, RestIs, Zenon
  <2> QED  BY <1>1, <2>2, Zenon
<1> DEFINE l == Len(x)
<1> HIDE DEF v, k, N, l
<1>6. l = 2 + k /\ k \in Nat /\ N \in Nat /\ p + l <= N
  <2>1. N \in Nat
    BY DEF N
  <2> QED  BY <1>1, <1>4, <2>1, Zenon DEF l
<1>7. /\ 1 \in 1..l /\ 2 \in 1..l /\ p \in 0..N /\ p + 2 \in Nat /\ p + 2 + k = p + l
      /\ ~(p + 2 > N) /\ ~(p + 2 + k > N) /\ (p + 2) + k <= N /\ l - 2 = k
  BY <1>6
<1>8. data[p + 1] = q.param_type /\ data[p + 2] = k
  BY <1>1, <1>4, <1>7, Zenon DEF l
<1>9. At(data, p + 2, v)
  <2>1. \A j \in 1..k : v[j] = x[2 + j]
    BY <1>5, <1>7, Zenon DEF IsRest, l
  <2>2. ASSUME NEW j \in 1..k PROVE data[(p + 2) + j] = v[j]
    <3>1. 2 + j \in 1..l /\ p + (2 + j) = (p + 2) + j
      BY <1>6
    <3>2. data[p + (2 + j)] = x[2 + j]
      BY <1>4, <3>1, Zenon DEF l
    <3> QED  BY <2>1, <3>1, <3>2, Zenon
  <2> QED  BY <1>7, <2>2, Zenon DEF At, k, N
<1>10. p \notin ParStop(data)
  BY <1>7, <1>8, Zenon DEF ParStop, N
<1>11. CapNext(data)[p] = p + l
  <2>1. CapNext(data)[p] = p + 2 + data[p + 2]
    BY <1>7, Zenon DEF CapNext, N
  <2> QED  BY <1>7, <1>8, <2>1, Zenon
<1>12. ParPiece(data)[p] = IF data[p + 1] = 2
                           THEN CapabilitiesUntil(p + 2 + data[p + 2], data)[p + 2] ELSE <<>>
  BY <1>7, Zenon DEF ParPiece, N
<1>13. CASE q.param_type = 2
  <2>1. CutParams(v) # Err
    BY <1>13, Zenon DEF v
  <2>2. /\ CapabilitiesUntil(p + 2 + k, data)[p + 2] = CapabilitiesIn(v)
        /\ CapabilitiesIn(v) \in Seq(ParsedCapabilities)
    BY <1>2, <1>7, <1>9, <2>1, CapabilitiesRead DEF k
  <2>3. CapsOfParam(q) = CapabilitiesIn(v)
    BY <1>13, Zenon DEF CapsOfParam, v
  <2>4. ParPiece(data)[p] = CapabilitiesIn(v)
    BY <1>8, <1>12, <1>13, <2>2, Zenon
  <2> QED  BY <1>10, <1>11, <2>2, <2>3, <2>4, Zenon DEF ParRound, l, x
<1>14. CASE q.param_type # 2
  <2>1. CapsOfParam(q) = <<>> /\ ParPiece(data)[p] = <<>>
    BY <1>8, <1>12, <1>14, Zenon DEF CapsOfParam
  <2>2. <<>> \in Seq(ParsedCapabilities)
    OBVIOUS
  <2> QED  BY <1>10, <1>11, <2>1, <2>2, Zenon DEF ParRound, l, x
<1> QED  BY <1>13, <1>14

\* parse_from_open_params reads the capabilities of each parameter in turn.
LEMMA CapabilitiesInTurn ==
    ASSUME NEW ps \in Seq(OptionalParams),
           \A i \in DOMAIN ps : Len(ps[i].value) < Byte,
           \A i \in DOMAIN ps : ps[i].param_type = 2 => CutParams(ps[i].value) # Err
    PROVE  ParseFromOpenParams(ps) = FlattenSeq([i \in DOMAIN ps |-> CapsOfParam(ps[i])])
<1> DEFINE items == [i \in DOMAIN ps |-> ParamBytes(ps[i])]
           data == ParamsBytes(ps)
           segs == [i \in DOMAIN ps |-> CapsOfParam(ps[i])]
           n == Len(ps)
           N == Len(data)
           C == ParsedCapabilities
<1>1. /\ DOMAIN ps = 1..n /\ n \in Nat
      /\ \A i \in 1..n : /\ ps[i] \in OptionalParams /\ Len(ps[i].value) < Byte
                         /\ ps[i].param_type = 2 => CutParams(ps[i].value) # Err
  OBVIOUS
<1> HIDE DEF n
<1>2. \A i \in 1..n : ParamBytes(ps[i]) \in Seq(Bytes)
  BY <1>1, ParamBack
<1>3. items \in Seq(Seq(Bytes)) /\ Len(items) = n /\ \A i \in 1..n : items[i] = ParamBytes(ps[i])
  BY <1>1, <1>2
<1>4. data = FlattenSeq(items) /\ data \in Seq(Bytes) /\ N \in Nat
  BY <1>3, FlattenType DEF ParamsBytes
<1>5. segs = [i \in 1..n |-> CapsOfParam(ps[i])]
  BY <1>1
<1>6. ParseFromOpenParams(ps) = ParseOptionalParams(data)
  BY DEF ParseFromOpenParams
<1> HIDE DEF items, data, segs, N
<1>7. PICK off : Offsets(off, items, data)
  BY <1>3, <1>4, FlattenOffsets, Zenon
<1>8. /\ off \in [0..n -> 0..N] /\ off[0] = 0 /\ off[n] = N
      /\ \A i \in 1..n : /\ off[i] = off[i - 1] + Len(items[i])
                         /\ \A j \in 1..Len(items[i]) : data[off[i - 1] + j] = items[i][j]
  BY <1>3, <1>7, Zenon DEF Offsets, N
<1>9. ASSUME NEW i \in 1..n PROVE ParRound(data, off[i - 1], off[i], ps[i])
  <2> DEFINE p == off[i - 1]
             x == ParamBytes(ps[i])
  <2>1. i \in 0..n /\ i - 1 \in 0..n
    BY <1>1
  <2>2. p \in 0..N /\ off[i] \in 0..N
    BY <1>8, <2>1, Zenon
  <2> HIDE DEF p
  <2>3. off[i] = p + Len(x) /\ \A j \in 1..Len(x) : data[p + j] = x[j]
    <3>1. x = items[i]
      BY <1>3, Zenon
    <3> HIDE DEF x
    <3>2. off[i] = p + Len(items[i]) /\ \A j \in 1..Len(items[i]) : data[p + j] = items[i][j]
      BY <1>8, Zenon DEF p
    <3> QED  BY <3>1, <3>2, Zenon
  <2> HIDE DEF x
  <2>4. p \in Nat /\ p + Len(x) <= N
    BY <1>4, <2>2, <2>3
  <2>5. At(data, p, x)
    BY <2>3, <2>4, Zenon DEF At, N
  <2>6. ParRound(data, p, p + Len(x), ps[i])
    BY <1>1, <1>4, <2>4, <2>5, ParStep, Zenon DEF x
  <2> QED  BY <2>3, <2>6, Zenon DEF p
<1>10. segs \in Seq(Seq(C)) /\ Len(segs) = n /\ \A i \in 1..n : segs[i] = CapsOfParam(ps[i])
  <2>1. \A i \in 1..n : CapsOfParam(ps[i]) \in Seq(C)
    BY <1>9, Zenon DEF ParRound
  <2> DEFINE V == Seq(C)
  <2> HIDE DEF V, C
  <2>2. segs \in Seq(V) /\ Len(segs) = n /\ \A i \in 1..n : segs[i] = CapsOfParam(ps[i])
    BY <1>1, <1>5, <2>1 DEF V
  <2> QED  BY <2>2 DEF V
<1> HIDE DEF C
<1>11. off[n] \in ParStop(data) /\ ParBase(data)[off[n]] = <<>>
  <2>1. N + 2 > N /\ N \in 0..N
    BY <1>4
  <2> QED  BY <1>8, <2>1, Zenon DEF ParStop, ParBase, N
<1>12. ComesAlong(off, segs, N, ParStop(data), ParBase(data), CapNext(data), ParPiece(data))
  <2>1. \A i \in 1..n : /\ off[i - 1] \notin ParStop(data)
                        /\ CapNext(data)[off[i - 1]] = off[i]
                        /\ ParPiece(data)[off[i - 1]] = segs[i]
    BY <1>9, <1>10, Zenon DEF ParRound
  <2> QED  BY <1>8, <1>10, <1>11, <2>1, Zenon DEF ComesAlong
<1>13. PICK f : /\ IsLoop(f, N, ParStop(data), ParBase(data), CapNext(data),
                          ParPiece(data), {})
                /\ ParseOptionalParams(data) = f[0]
  BY <1>4, ParamsLoop, Zenon DEF N
<1>14. f[off[0]] = FlattenSeq(segs)
  BY <1>4, <1>10, <1>12, <1>13, LoopFlattens
<1> QED  BY <1>6, <1>8, <1>13, <1>14, Zenon DEF segs

\* Lengths of sequences that are put together, counted one after the other.
Sums(c, s) == c[0] = 0 /\ \A i \in 1..Len(s) : c[i] = c[i - 1] + Len(s[i])

LEMMA FlattenLength ==
    ASSUME NEW S, NEW s \in Seq(Seq(S)), NEW c, Sums(c, s)
    PROVE  Len(FlattenSeq(s)) = c[Len(s)]
<1>1. PICK off : Offsets(off, s, FlattenSeq(s))
  BY FlattenOffsets
<1> DEFINE T == {k \in Nat : k <= Len(s) => off[k] = c[k]}
<1>2. 0 \in T
  BY <1>1 DEF Offsets, Sums
<1>3. ASSUME NEW k \in Nat, k \in T PROVE k + 1 \in T
  <2> SUFFICES ASSUME k + 1 <= Len(s) PROVE off[k + 1] = c[k + 1]
    OBVIOUS
  <2>1. Len(s) \in Nat
    OBVIOUS
  <2>2. k + 1 \in 1..Len(s) /\ (k + 1) - 1 = k /\ off[k] = c[k]
    BY <1>3, <2>1
  <2>3. /\ off[k + 1] = off[(k + 1) - 1] + Len(s[k + 1])
        /\ c[k + 1] = c[(k + 1) - 1] + Len(s[k + 1])
    BY <1>1, <2>2, Zenon DEF Offsets, Sums
  <2> QED  BY <2>2, <2>3
<1> HIDE DEF T
<1>4. \A k \in Nat : k \in T
  BY <1>2, <1>3, SetInduction
<1>5. Len(s) \in Nat /\ Len(s) <= Len(s)
  OBVIOUS
<1>6. off[Len(s)] = c[Len(s)]
  BY <1>4, <1>5 DEF T
<1> QED  BY <1>1, <1>6, Zenon DEF Offsets

\* The parameters of a parsed OPEN have a type and at most as many bytes as
\* their length tells, and so have all of them together.
LEMMA ParsedParams ==
    ASSUME NEW b \in Seq(Bytes), ParseOpen(b) # Err
    PROVE  /\ ParseOpen(b).optional_params \in Seq(OptionalParams)
           /\ \A i \in DOMAIN ParseOpen(b).optional_params :
                Len(ParseOpen(b).optional_params[i].value) < Byte
           /\ Len(ParamsBytes(ParseOpen(b).optional_params)) < Byte
<1> DEFINE fixed == 6 + Word
           t == SubSeq(b, fixed + 1, fixed + b[fixed])
<1>1. ~(Len(b) < fixed) /\ ~(Len(b) < fixed + b[fixed])
  BY Zenon DEF ParseOpen
<1>2. fixed \in Nat \ {0} /\ Len(b) \in Nat
  BY OctetsAssumption
<1>3. b[fixed] \in Bytes /\ b[fixed] \in Nat
  <2> HIDE DEF fixed
  <2>1. fixed \in 1..Len(b)
    BY <1>1, <1>2
  <2>2. b[fixed] \in Bytes
    BY <2>1
  <2> QED  BY <2>2 DEF Bytes
<1>4. IsSlice(t, b, fixed, b[fixed], Bytes)
  <2> DEFINE k == b[fixed]
  <2> HIDE DEF fixed
  <2>1. fixed \in Nat /\ k \in Nat /\ fixed + k <= Len(b)
    BY <1>1, <1>2, <1>3
  <2> HIDE DEF k
  <2>2. IsSlice(SubSeq(b, fixed + 1, fixed + k), b, fixed, k, Bytes)
    BY <2>1, SliceIs, Zenon
  <2> QED  BY <2>2 DEF k
<1>5. t \in Seq(Bytes) /\ Len(t) = b[fixed]
  BY <1>4, Zenon DEF IsSlice
<1> DEFINE Params(c) == [i \in DOMAIN c |-> [param_type |-> c[i][1], value |-> Rest(c[i], 2)]]
           c0 == CutParams(t)
<1>6. /\ c0 \in {Err, Panic} => ParseOpen(b) = c0
      /\ c0 \notin {Err, Panic} => ParseOpen(b).optional_params = Params(c0)
  BY <1>1 DEF ParseOpen, Try
<1>7. c0 # Err
  BY <1>6
<1> HIDE DEF t
<1>8. PICK items, off : CutsInto(t, items, off)
  BY <1>5, <1>7, ParamsCut
<1>9. /\ items \in Seq(Seq(Bytes)) /\ c0 = items /\ items \notin {Err, Panic}
      /\ \A i \in 1..Len(items) : TakenParam(items[i], t, off[i - 1], off[i])
      /\ off \in [0..Len(items) -> 0..Len(t)] /\ off[0] = 0
  BY <1>8, Zenon DEF CutsInto
<1>10. ParseOpen(b).optional_params = Params(items)
  BY <1>6, <1>9, Zenon
<1> HIDE DEF c0
<1>11. ASSUME NEW i \in 1..Len(items)
       PROVE  /\ [param_type |-> items[i][1], value |-> Rest(items[i], 2)] \in OptionalParams
              /\ Len(Rest(items[i], 2)) < Byte
  <2> DEFINE r == Rest(items[i], 2)
             h == items[i][1]
             l == items[i][2]
  <2>1. h \in Bytes /\ r \in Seq(Bytes) /\ Len(r) = l /\ l \in Bytes
    BY <1>9, Zenon DEF TakenParam
  <2> HIDE DEF r, h, l
  <2>2. Len(r) < Byte
    BY <2>1, ByteFacts DEF Bytes
  <2>3. [param_type |-> h, value |-> r] \in OptionalParams
    BY <2>1 DEF OptionalParams
  <2> QED  BY <2>2, <2>3 DEF r, h
<1>12. DOMAIN items = 1..Len(items) /\ Len(items) \in Nat
  BY <1>9
<1> DEFINE n == Len(items)
           ps == Params(items)
<1>13. ps = [i \in 1..n |-> [param_type |-> items[i][1], value |-> Rest(items[i], 2)]] /\ n \in Nat
  BY <1>12
<1>14. \A i \in 1..n : ps[i] \in OptionalParams /\ Len(ps[i].value) < Byte
  BY <1>11, <1>13
<1>15. DOMAIN ps = 1..n
  BY <1>13
<1>16. ps = [i \in 1..n |-> ps[i]]
  BY <1>13, <1>15
<1> HIDE DEF ps, n
<1>17. ps \in Seq(OptionalParams)
  BY <1>13, <1>14, <1>16
<1>18. Len(ParamsBytes(ps)) < Byte
  <2> DEFINE R == [i \in DOMAIN ps |-> ParamBytes(ps[i])]
  <2>1. ASSUME NEW i \in 1..n
        PROVE  /\ ParamBytes(ps[i]) \in Seq(Bytes)
               /\ off[i] = off[i - 1] + Len(ParamBytes(ps[i]))
    <3> DEFINE x == items[i]
               y == ParamBytes(ps[i])
    <3>1. ps[i] \in OptionalParams /\ Len(ps[i].value) < Byte
      BY <1>14
    <3>2. y \in Seq(Bytes) /\ Len(y) = 2 + Len(ps[i].value)
      BY <3>1, ParamBack, Zenon
    <3>3. ps[i].value = Rest(x, 2)
      BY <1>13 DEF ps, n
    <3>4. off[i] = off[i - 1] + 2 + x[2] /\ Len(Rest(x, 2)) = x[2] /\ x[2] \in Bytes
      BY <1>9, Zenon DEF TakenParam, n
    <3>5. i - 1 \in 0..n
      BY <1>13
    <3>6. off[i - 1] \in 0..Len(t)
      BY <1>9, <3>5, Zenon DEF n
    <3>7. off[i - 1] \in Nat /\ x[2] \in Nat
      BY <3>4, <3>6, ByteFacts
    <3> HIDE DEF x, y
    <3>8. off[i] = off[i - 1] + Len(y)
      <4> DEFINE k == x[2]
                 o == off[i - 1]
      <4>1. Len(y) = 2 + k /\ off[i] = o + 2 + k /\ o \in Nat /\ k \in Nat
        BY <3>2, <3>3, <3>4, <3>7, Zenon
      <4> HIDE DEF k, o
      <4>2. o + 2 + k = o + (2 + k)
        BY <4>1
      <4> QED  BY <4>1, <4>2, Zenon DEF o
    <3> QED  BY <3>2, <3>8 DEF y
  <2>2. R \in Seq(Seq(Bytes)) /\ Len(R) = n /\ \A i \in 1..n : R[i] = ParamBytes(ps[i])
    BY <1>13, <1>15, <2>1
  <2> HIDE DEF R
  <2>3. Sums(off, R)
    BY <1>9, <2>1, <2>2 DEF Sums
  <2>4. Len(FlattenSeq(R)) = off[n]
    BY <2>2, <2>3, FlattenLength
  <2>5. off[n] \in 0..Len(t)
    <3>1. n \in 0..n
      BY <1>13
    <3> QED  BY <1>9, <3>1, Zenon DEF n
  <2>6. Len(t) < Byte /\ Len(t) \in Nat
    BY <1>3, <1>5, ByteFacts DEF Bytes
  <2>7. Len(FlattenSeq(R)) < Byte
    BY <2>4, <2>5, <2>6, ByteFacts
  <2> QED  BY <2>7 DEF ParamsBytes, R
<1> QED  BY <1>10, <1>14, <1>15, <1>17, <1>18 DEF ps

\* Whatever arrives as a body of its own is bytes, and attributes are no more
\* than an UPDATE has.
BytesInv ==
    /\ LeftInv
    /\ kind # "Attributes" \/ sent = NoMessage => body \in Seq(Bytes)
    /\ kind = "Attributes" /\ sent = NoMessage => Len(body) < Byte * Byte

LEMMA BytesIsInvariant == CodecSpec => []BytesInv
<1>1. LeftInv /\ sent # NoMessage /\ kind # "Attributes" => body \in Seq(Bytes)
  BY DEF LeftInv, Cropped
<1>2. CodecInit /\ LeftInv => BytesInv
  <2> SUFFICES ASSUME CodecInit, LeftInv PROVE BytesInv
    OBVIOUS
  <2>1. kind \in Kinds
    BY DEF CodecInit
  <2>2. CASE sent # NoMessage
    BY <1>1, <2>2 DEF BytesInv
  <2>3. CASE sent = NoMessage
    <3>1. sent \notin Samples[kind]
      BY <2>1, <2>3, CodecsAssumption, Zenon
    <3>2. body = Starts[kind]
      BY <3>1 DEF CodecInit
    <3>3. body \in Seq(Bytes) /\ (kind = "Attributes" => Len(body) < Byte * Byte)
      BY <2>1, <3>2, CodecsAssumption
    <3> QED  BY <3>3 DEF BytesInv
  <2> QED  BY <2>2, <2>3
<1>3. BytesInv /\ LeftInv' /\ [CodecNext]_codecVars => BytesInv'
  <2> SUFFICES ASSUME BytesInv, LeftInv', [CodecNext]_codecVars PROVE BytesInv'
    OBVIOUS
  <2>1. CASE UNCHANGED codecVars
    BY <2>1 DEF BytesInv, codecVars
  <2>2. CASE Truncate
    <3>1. sent' # NoMessage /\ kind' # "Attributes"
      BY <2>2 DEF Truncate
    <3>2. body' \in Seq(Bytes)
      BY <3>1 DEF LeftInv, Cropped
    <3> QED  BY <3>1, <3>2 DEF BytesInv
  <2>3. CASE \E x \in Letters[kind] : Extend(x)
    <3>1. PICK x \in Letters[kind] : Extend(x)
      BY <2>3
    <3>2. /\ sent = NoMessage /\ Len(body) < MaxBody[kind]
          /\ kind' = kind /\ sent' = sent /\ body' = Append(body, x)
      BY <3>1 DEF Extend
    <3>3. kind \in Kinds
      BY DEF BytesInv, LeftInv, SentInv
    <3>4. x \in Bytes
      BY <3>3, CodecsAssumption
    <3>5. body \in Seq(Bytes)
      BY <3>2 DEF BytesInv
    <3>6. body' \in Seq(Bytes) /\ Len(body') = Len(body) + 1 /\ Len(body) \in Nat
      BY <3>2, <3>4, <3>5
    <3>7. ASSUME kind = "Attributes" PROVE Len(body') < Byte * Byte
      <4> DEFINE M == MaxBody["Attributes"]
                 B == Byte * Byte
      <4>1. M \in Nat /\ M < B
        BY CodecsAssumption
      <4>2. Len(body) < M
        BY <3>2, <3>7
      <4>3. B \in Nat
        BY ByteFacts
      <4> HIDE DEF M, B
      <4>4. Len(body') < B
        BY <3>6, <4>1, <4>2, <4>3
      <4> QED  BY <4>4 DEF B
    <3> QED  BY <3>2, <3>6, <3>7 DEF BytesInv
  <2> QED  BY <2>1, <2>2, <2>3 DEF CodecNext
<1> QED  BY <1>2, <1>3, LeftIsInvariant, PTL DEF CodecSpec

\* It does not matter how a peer spreads its capabilities over the parameters
\* of its OPEN: parse_from_open_params finds those of each parameter of type 2
\* in turn, for every body that OpenMessage::parse takes and of which every
\* such parameter is a whole list.
THEOREM CapabilitiesStayInOrder == CodecSpec => []CapabilitiesInOrder
<1>1. BytesInv => CapabilitiesInOrder
  <2> DEFINE ps == Parse(kind, body).optional_params
  <2> SUFFICES ASSUME BytesInv, kind = "Open", Parse(kind, body) # Err,
                      \A i \in DOMAIN ps : ps[i].param_type = 2 => CutParams(ps[i].value) # Err
               PROVE  ParseFromOpenParams(ps)
                        = FlattenSeq([i \in DOMAIN ps |->
                                        IF ps[i].param_type = 2 THEN CapabilitiesIn(ps[i].value)
                                        ELSE <<>>])
    BY DEF CapabilitiesInOrder
  <2>1. body \in Seq(Bytes) /\ Parse(kind, body) = ParseOpen(body)
    BY DEF BytesInv, Parse
  <2>2. ps \in Seq(OptionalParams) /\ \A i \in DOMAIN ps : Len(ps[i].value) < Byte
    BY <2>1, ParsedParams
  <2> HIDE DEF ps
  <2>3. ParseFromOpenParams(ps) = FlattenSeq([i \in DOMAIN ps |-> CapsOfParam(ps[i])])
    BY <2>2, CapabilitiesInTurn
  <2> QED  BY <2>3 DEF CapsOfParam
<1> QED  BY <1>1, BytesIsInvariant, PTL

-----------------------------------------------------------------------------
(* What was read is written as it came *)

\* The items stand one behind the other in b, from its beginning on.
Adjacent(off, items, b) ==
    /\ off \in [0..Len(items) -> 0..Len(b)] /\ off[0] = 0
    /\ \A i \in 1..Len(items) : /\ off[i] = off[i - 1] + Len(items[i])
                                /\ \A j \in 1..Len(items[i]) : b[off[i - 1] + j] = items[i][j]

\* Rounds of Cut that take items off whole.
LEMMA WalkAdjacent ==
    ASSUME NEW S, NEW b \in Seq(S), NEW items \in Seq(Seq(S)), NEW off, NEW min,
           NEW size, NEW used, Walk(off, items, b, 0, min, size, used),
           \A i \in 1..Len(items) : used[off[i - 1]] = size[off[i - 1]]
    PROVE  Adjacent(off, items, b)
<1>1. /\ off \in [0..Len(items) -> 0..Len(b)] /\ off[0] = 0 /\ Len(items) \in Nat
      /\ \A i \in 1..Len(items) : Takes(off[i - 1], off[i], items[i], b, min, size, used)
  BY DEF Walk
<1>2. ASSUME NEW i \in 1..Len(items)
      PROVE  /\ off[i] = off[i - 1] + Len(items[i])
             /\ \A j \in 1..Len(items[i]) : b[off[i - 1] + j] = items[i][j]
  <2> DEFINE p == off[i - 1]
             n == size[p]
             x == items[i]
  <2>1. i - 1 \in 0..Len(items)
    BY <1>1
  <2>2. p \in 0..Len(b)
    BY <1>1, <2>1
  <2>3. n \in Nat /\ p + n <= Len(b) /\ x = SubSeq(b, p + 1, p + n) /\ off[i] = p + n
    BY <1>1, Zenon DEF Takes
  <2> HIDE DEF p, n, x
  <2>4. p \in Nat
    BY <2>2
  <2>5. IsSlice(x, b, p, n, S)
    BY <2>3, <2>4, SliceIs, Zenon
  <2>6. Len(x) = n /\ \A j \in 1..n : x[j] = b[p + j]
    BY <2>5, Zenon DEF IsSlice
  <2> QED  BY <2>3, <2>6, Zenon DEF p, x
<1> QED  BY <1>1, <1>2, Zenon DEF Adjacent

LEMMA SubSeqIs ==
    ASSUME NEW S, NEW b \in Seq(S), NEW n \in 0..Len(b)
    PROVE  IsSlice(SubSeq(b, 1, n), b, 0, n, S)
<1>1. n \in Nat /\ 0 \in Nat /\ 0 + n <= Len(b) /\ 0 + 1 = 1 /\ 0 + n = n
  OBVIOUS
<1>2. IsSlice(SubSeq(b, 0 + 1, 0 + n), b, 0, n, S)
  BY <1>1, SliceIs, Zenon
<1> QED  BY <1>1, <1>2, Zenon

IsConcat(z, x, y, S) ==
    /\ z \in Seq(S) /\ Len(z) = Len(x) + Len(y)
    /\ \A j \in 1..Len(x) : z[j] = x[j]
    /\ \A j \in 1..Len(y) : z[Len(x) + j] = y[j]

LEMMA ConcatIs ==
    ASSUME NEW S, NEW x \in Seq(S), NEW y \in Seq(S)
    PROVE  IsConcat(x \o y, x, y, S)
  BY DEF IsConcat

\* The slice of b in front of p, and what stands in b from p on.
LEMMA SliceGrows ==
    ASSUME NEW S, NEW b \in Seq(S), NEW p \in 0..Len(b), NEW x \in Seq(S),
           p + Len(x) <= Len(b), \A j \in 1..Len(x) : b[p + j] = x[j]
    PROVE  SubSeq(b, 1, p + Len(x)) = SubSeq(b, 1, p) \o x
<1> DEFINE l == Len(x)
           u == SubSeq(b, 1, p)
           v == SubSeq(b, 1, p + l)
<1>1. l \in Nat /\ p \in Nat /\ Len(b) \in Nat /\ p + l \in 0..Len(b)
  OBVIOUS
<1>2. IsSlice(u, b, 0, p, S) /\ IsSlice(v, b, 0, p + l, S)
  <2> HIDE DEF l
  <2> QED  BY <1>1, SubSeqIs, Zenon
<1>3. /\ u \in Seq(S) /\ Len(u) = p /\ v \in Seq(S) /\ Len(v) = p + l
      /\ \A j \in 1..p : u[j] = b[0 + j]
      /\ \A j \in 1..(p + l) : v[j] = b[0 + j]
  BY <1>2, Zenon DEF IsSlice
<1> HIDE DEF u, v
<1>4. /\ u \o x \in Seq(S) /\ Len(u \o x) = p + l
      /\ \A j \in 1..p : (u \o x)[j] = u[j]
      /\ \A j \in 1..l : (u \o x)[p + j] = x[j]
  <2>1. IsConcat(u \o x, u, x, S)
    BY <1>3, ConcatIs, Zenon
  <2>2. l = Len(x)
    OBVIOUS
  <2> HIDE DEF l
  <2> QED  BY <1>3, <2>1, <2>2, Zenon DEF IsConcat
<1> DEFINE y == u \o x
<1> HIDE DEF y, l
<1>5. ASSUME NEW j \in 1..Len(v) PROVE v[j] = y[j]
  <2>1. j \in 1..(p + l) /\ 0 + j = j
    BY <1>1, <1>3
  <2>2. v[j] = b[j]
    BY <1>3, <2>1
  <2>3. CASE j <= p
    <3>1. j \in 1..p
      BY <1>1, <2>1, <2>3
    <3> QED  BY <1>3, <1>4, <2>1, <2>2, <3>1 DEF y
  <2>4. CASE ~(j <= p)
    <3>1. j - p \in 1..l /\ p + (j - p) = j
      BY <1>1, <2>1, <2>4
    <3>2. y[p + (j - p)] = x[j - p] /\ b[p + (j - p)] = x[j - p]
      BY <1>4, <3>1 DEF y, l
    <3> QED  BY <2>2, <3>1, <3>2
  <2> QED  BY <2>3, <2>4
<1>6. v = y
  <2>1. y \in Seq(S) /\ Len(y) = Len(v)
    BY <1>3, <1>4 DEF y
  <2> QED  BY <1>3, <1>5, <2>1, SameSeq, Zenon
<1> QED  BY <1>6 DEF v, y, u, l

\* Put together again they are what they were taken from.
LEMMA AdjacentFlatten ==
    ASSUME NEW S, NEW b \in Seq(S), NEW items \in Seq(Seq(S)), NEW off,
           Adjacent(off, items, b)
    PROVE  FlattenSeq(items) = SubSeq(b, 1, off[Len(items)])
<1> DEFINE n == Len(items)
           h == [i \in 0..n |-> SubSeq(b, 1, off[i])]
<1>1. /\ n \in Nat /\ off \in [0..n -> 0..Len(b)] /\ off[0] = 0
      /\ \A i \in 1..n : /\ items[i] \in Seq(S) /\ off[i] = off[i - 1] + Len(items[i])
                         /\ \A j \in 1..Len(items[i]) : b[off[i - 1] + j] = items[i][j]
  BY DEF Adjacent
<1>2. \A i \in 0..n : h[i] = SubSeq(b, 1, off[i])
  OBVIOUS
<1>3. h \in [0..n -> Seq(S)]
  <2>1. \A i \in 0..n : SubSeq(b, 1, off[i]) \in Seq(S)
    <3> SUFFICES ASSUME NEW i \in 0..n PROVE SubSeq(b, 1, off[i]) \in Seq(S)
      OBVIOUS
    <3>1. off[i] \in 0..Len(b)
      BY <1>1
    <3>2. IsSlice(SubSeq(b, 1, off[i]), b, 0, off[i], S)
      BY <3>1, SubSeqIs, Zenon
    <3> QED  BY <3>2, Zenon DEF IsSlice
  <2> QED  BY <2>1
<1> HIDE DEF h
<1>4. Steps(h, items)
  <2>1. h[0] = <<>>
    <3>1. SubSeq(b, 1, 0) = <<>>
      OBVIOUS
    <3> QED  BY <1>1, <1>2, <3>1
  <2>2. ASSUME NEW i \in 1..n PROVE h[i] = h[i - 1] \o items[i]
    <3> DEFINE p == off[i - 1]
               x == items[i]
    <3>1. i - 1 \in 0..n /\ i \in 0..n
      BY <1>1
    <3>2. p \in 0..Len(b) /\ off[i] \in 0..Len(b) /\ h[i] = SubSeq(b, 1, off[i])
          /\ h[i - 1] = SubSeq(b, 1, p)
      BY <1>1, <1>2, <3>1
    <3>3. x \in Seq(S) /\ off[i] = p + Len(x) /\ \A j \in 1..Len(x) : b[p + j] = x[j]
      BY <1>1
    <3> HIDE DEF p, x
    <3>4. p + Len(x) <= Len(b)
      BY <3>2, <3>3
    <3>5. SubSeq(b, 1, p + Len(x)) = SubSeq(b, 1, p) \o x
      BY <3>2, <3>3, <3>4, SliceGrows
    <3> QED  BY <3>2, <3>3, <3>5, Zenon DEF x
  <2> QED  BY <2>1, <2>2 DEF Steps, n
<1>5. FlattenSeq(items) = h[n]
  BY <1>3, <1>4, FlattenSteps DEF n
<1>6. n \in 0..n
  BY <1>1
<1> QED  BY <1>2, <1>5, <1>6 DEF n

\* The prefix that an item is turned into is written as the item.
LEMMA PrefixRead ==
    ASSUME NEW w \in Nat \ {0}, NEW x \in Seq(Bytes), Len(x) = 1 + EncodedLen(x[1]),
           x[1] \in Bytes, EncodedLen(x[1]) <= w
    PROVE  PrefixOf(x, w) \in PrefixesOf(w) /\ PrefixBytes(PrefixOf(x, w)) = x
<1> DEFINE n == EncodedLen(x[1])
           A == [i \in 1..w |-> IF i < 1 + n THEN x[i + 1] ELSE 0]
           q == PrefixOf(x, w)
<1>1. n \in Nat /\ Len(x) = 1 + n /\ n <= w
  BY ByteFacts, EncodedLenType
<1>2. q = [prefix_len |-> x[1], address |-> A]
  BY DEF PrefixOf
<1>3. q.prefix_len = x[1] /\ q.address = A
  BY <1>2
<1>4. EncodedLen(q.prefix_len) = n
  BY <1>3
<1> HIDE DEF n, q
<1>5. ASSUME NEW i \in 1..w
      PROVE  /\ i <= n => A[i] = x[i + 1] /\ i + 1 \in 1..Len(x)
             /\ i > n => A[i] = 0
  BY <1>1
<1>6. A \in [1..w -> Bytes]
  <2>1. ASSUME NEW i \in 1..w PROVE A[i] \in Bytes
    <3>1. CASE i <= n
      <4>1. A[i] = x[i + 1] /\ i + 1 \in 1..Len(x)
        BY <1>5, <3>1
      <4>2. x[i + 1] \in Bytes
        BY <4>1
      <4> QED  BY <4>1, <4>2
    <3>2. CASE i > n
      BY <1>5, <3>2, ByteFacts
    <3> QED  BY <1>1, <3>1, <3>2
  <2>2. A = [i \in 1..w |-> A[i]]
    OBVIOUS
  <2> HIDE DEF A
  <2> QED  BY <2>1, <2>2
<1>7. q \in PrefixesOf(w)
  <2> HIDE DEF A
  <2>1. q \in [prefix_len : Bytes, address : AddressesOf(w)]
    BY <1>2, <1>6 DEF AddressesOf
  <2>2. EncodedLen(q.prefix_len) <= w
    BY <1>1, <1>4
  <2>3. \A i \in 1..w : i > EncodedLen(q.prefix_len) => q.address[i] = 0
    BY <1>3, <1>4, <1>5
  <2> QED  BY <2>1, <2>2, <2>3 DEF PrefixesOf
<1> HIDE DEF A
<1>8. PrefixBytes(q) = x
  <2> DEFINE a == SubSeq(A, 1, n)
             y == <<x[1]>> \o a
  <2>1. PrefixBytes(q) = y
    BY <1>3, <1>4 DEF PrefixBytes
  <2>2. A \in Seq(Bytes) /\ Len(A) = w /\ n \in 0..Len(A)
    BY <1>1, <1>6
  <2>3. IsSlice(a, A, 0, n, Bytes)
    BY <2>2, SubSeqIs, Zenon
  <2>4. a \in Seq(Bytes) /\ Len(a) = n /\ \A i \in 1..n : a[i] = A[0 + i]
    BY <2>3, Zenon DEF IsSlice
  <2> HIDE DEF a
  <2>5. /\ y \in Seq(Bytes) /\ Len(y) = 1 + n /\ y[1] = x[1]
        /\ \A i \in 1..n : y[i + 1] = a[i]
    BY <1>1, <2>4
  <2> HIDE DEF y
  <2>6. ASSUME NEW j \in 1..Len(y) PROVE y[j] = x[j]
    <3>1. CASE j = 1
      BY <2>5, <3>1
    <3>2. CASE j # 1
      <4> DEFINE i == j - 1
      <4>1. i \in 1..n /\ i + 1 = j /\ i \in 1..w /\ i <= n /\ 0 + i = i
        BY <1>1, <2>5, <3>2
      <4> HIDE DEF i
      <4>2. y[i + 1] = a[i] /\ a[i] = A[i]
        BY <2>4, <2>5, <4>1
      <4>3. A[i] = x[i + 1]
        BY <1>5, <4>1
      <4> QED  BY <4>1, <4>2, <4>3
    <3> QED  BY <3>1, <3>2
  <2>7. y = x
    BY <1>1, <2>5, <2>6, SameSeq
  <2> QED  BY <2>1, <2>7
<1> QED  BY <1>7, <1>8 DEF q

\* An item of prefixes, whose first byte says how long it is.
LEMMA PrefixTaken ==
    ASSUME NEW b \in Seq(Bytes), NEW w \in Nat \ {0}, NEW p \in 0..Len(b), NEW q, NEW x,
           Takes(p, q, x, b, 1, PrefixSize(b), PrefixUsed(b, w))
    PROVE  /\ x \in Seq(Bytes) /\ x[1] \in Bytes /\ EncodedLen(x[1]) \in Nat
           /\ Len(x) = 1 + EncodedLen(x[1])
           /\ EncodedLen(x[1]) <= w => PrefixUsed(b, w)[p] = PrefixSize(b)[p]
<1> DEFINE z == PrefixSize(b)[p]
           r == Rest(b, p)[1]
<1>1. /\ Len(b) - p >= 1 /\ z \in Nat /\ p + z <= Len(b)
      /\ x = SubSeq(b, p + 1, p + z)
  BY DEF Takes
<1>2. /\ z = 1 + EncodedLen(r)
      /\ PrefixUsed(b, w)[p] = IF 1 + EncodedLen(r) > 1 + w THEN 1 + w ELSE 1 + EncodedLen(r)
  BY DEF PrefixSize, PrefixUsed
<1>3. r = b[p + 1] /\ r \in Bytes /\ r \in Nat
  <2>1. 1 \in 1..(Len(b) - p)
    BY <1>1
  <2> QED  BY <2>1, RestByte, Zenon
<1>4. EncodedLen(r) \in Nat
  BY <1>3, EncodedLenType
<1> HIDE DEF z, r
<1>5. x \in Seq(Bytes) /\ Len(x) = z /\ \A j \in 1..z : x[j] = b[p + j]
  <2>1. p \in Nat
    OBVIOUS
  <2>2. IsSlice(SubSeq(b, p + 1, p + z), b, p, z, Bytes)
    BY <1>1, <2>1, SliceIs, Zenon
  <2> QED  BY <1>1, <2>2, Zenon DEF IsSlice
<1>6. 1 \in 1..z
  BY <1>2, <1>4
<1>7. x[1] = r
  BY <1>3, <1>5, <1>6, Zenon
<1>8. EncodedLen(r) <= w => PrefixUsed(b, w)[p] = z
  BY <1>2, <1>4
<1> QED  BY <1>2, <1>3, <1>4, <1>5, <1>7, <1>8, Zenon DEF z

\* Prefixes that are read and can be written are written as the bytes they
\* were read from.
LEMMA PrefixesRead ==
    ASSUME NEW w \in Nat \ {0}, NEW b \in Seq(Bytes),
           Err \notin Seq(Seq(Bytes)), Panic \notin Seq(Seq(Bytes)),
           ParsePrefixes(b, w) \notin {Err, Panic}, LegalPrefixes(ParsePrefixes(b, w))
    PROVE  /\ ParsePrefixes(b, w) \in Seq(PrefixesOf(w))
           /\ SerializePrefixes(ParsePrefixes(b, w)) = b
<1> DEFINE size == PrefixSize(b)
           used == PrefixUsed(b, w)
           ps == ParsePrefixes(b, w)
<1>1. PICK f : /\ IsCut(f, b, 1, size, used)
               /\ ps = IF f[0] \in {Err, Panic} THEN f[0]
                       ELSE [i \in DOMAIN f[0] |-> PrefixOf(f[0][i], w)]
  BY PrefixCut
<1>2. Moves(b, 1, size, used) /\ 1 \in Nat \ {0}
  BY PrefixMoves
<1>3. ps \notin {Err, Panic} /\ LegalPrefixes(ps)
  OBVIOUS
<1> HIDE DEF size, used, ps
<1>4. f[0] \notin {Err, Panic}
  BY <1>1, <1>3, Zenon
<1>5. f[0] = Err \/ WalkFrom(f[0], Bytes, b, 0, 1, size, used)
  BY <1>1, <1>2, CutWalks, Zenon
<1>6. PICK items, off : /\ items \in Seq(Seq(Bytes)) /\ f[0] = items
                        /\ Walk(off, items, b, 0, 1, size, used)
  BY <1>4, <1>5, Zenon DEF WalkFrom
<1>7. /\ off \in [0..Len(items) -> 0..Len(b)] /\ off[0] = 0
      /\ Len(b) - off[Len(items)] < 1
      /\ \A i \in 1..Len(items) : Takes(off[i - 1], off[i], items[i], b, 1, size, used)
  BY <1>6, Zenon DEF Walk
<1>8. DOMAIN items = 1..Len(items) /\ Len(items) \in Nat
  BY <1>6
<1>9. ps = [i \in 1..Len(items) |-> PrefixOf(items[i], w)]
  BY <1>1, <1>4, <1>6, <1>8, Zenon
<1>10. DOMAIN ps = 1..Len(items) /\ \A i \in 1..Len(items) : ps[i] = PrefixOf(items[i], w)
  BY <1>9
<1>11. ASSUME NEW i \in 1..Len(items)
       PROVE  /\ ps[i] \in PrefixesOf(w) /\ PrefixBytes(ps[i]) = items[i]
              /\ used[off[i - 1]] = size[off[i - 1]]
  <2> DEFINE x == items[i]
             p == off[i - 1]
  <2>1. i - 1 \in 0..Len(items)
    BY <1>8
  <2>2. p \in 0..Len(b)
    BY <1>7, <2>1, Zenon
  <2>3. Takes(p, off[i], x, b, 1, size, used)
    BY <1>7, Zenon
  <2> HIDE DEF x, p
  <2>4. /\ x \in Seq(Bytes) /\ x[1] \in Bytes /\ EncodedLen(x[1]) \in Nat
        /\ Len(x) = 1 + EncodedLen(x[1])
        /\ EncodedLen(x[1]) <= w => used[p] = size[p]
    BY <2>2, <2>3, PrefixTaken, Zenon DEF size, used
  <2>5. EncodedLen(x[1]) <= w
    <3>1. EncodedLen(ps[i].prefix_len) <= Len(ps[i].address)
      BY <1>3, <1>10, Zenon DEF LegalPrefixes
    <3>2. ps[i].prefix_len = x[1] /\ Len(ps[i].address) = w
      BY <1>10 DEF PrefixOf, x
    <3> QED  BY <3>1, <3>2, Zenon
  <2>6. PrefixOf(x, w) \in PrefixesOf(w) /\ PrefixBytes(PrefixOf(x, w)) = x
    BY <2>4, <2>5, PrefixRead, Zenon
  <2> QED  BY <1>10, <2>4, <2>5, <2>6, Zenon DEF x, p
<1>12. ps \in Seq(PrefixesOf(w))
  BY <1>8, <1>9, <1>10, <1>11
<1>13. [i \in DOMAIN ps |-> PrefixBytes(ps[i])] = items
  <2>1. items = [i \in 1..Len(items) |-> items[i]]
    BY <1>6
  <2> QED  BY <1>10, <1>11, <2>1
<1>14. Adjacent(off, items, b)
  <2>1. \A i \in 1..Len(items) : used[off[i - 1]] = size[off[i - 1]]
    BY <1>11, Zenon
  <2> QED  BY <1>6, <2>1, WalkAdjacent
<1>15. FlattenSeq(items) = SubSeq(b, 1, off[Len(items)])
  BY <1>6, <1>14, AdjacentFlatten, Zenon
<1>16. off[Len(items)] = Len(b)
  <2>1. Len(items) \in 0..Len(items) /\ Len(b) \in Nat
    BY <1>8
  <2>2. off[Len(items)] \in 0..Len(b)
    BY <1>7, <2>1, Zenon
  <2> QED  BY <1>7, <2>1, <2>2
<1>17. SubSeq(b, 1, Len(b)) = b
  BY SubSeqFull
<1>18. SerializePrefixes(ps) = b
  BY <1>13, <1>15, <1>16, <1>17, Zenon DEF SerializePrefixes
<1> QED  BY <1>12, <1>18 DEF ps

\* Numbers of two bytes, and addresses, in a body.
LEMMA GetU16Type ==
    ASSUME NEW b \in Seq(Bytes), Len(b) >= 2
    PROVE  GetU16(b) \in U16s /\ GetU16(b) \in Nat /\ GetU16(b) < Byte * Byte
<1>1. b[1] \in Bytes /\ b[2] \in Bytes /\ Byte \in Nat /\ Byte >= 16
  BY ByteFacts
<1> DEFINE x == b[1]
           y == b[2]
           B == Byte
<1>2. x \in 0..(B - 1) /\ y \in 0..(B - 1) /\ B \in Nat /\ B >= 16
  BY <1>1 DEF Bytes
<1> HIDE DEF x, y, B
<1>3. x * B <= (B - 1) * B /\ x * B \in Nat
  BY <1>2
<1>4. (B - 1) * B + B = B * B
  BY <1>2
<1>5. x * B + y \in 0..(B * B - 1) /\ x * B + y < B * B /\ x * B + y \in Nat
  BY <1>2, <1>3, <1>4
<1> QED  BY <1>5 DEF GetU16, U16s, x, y, B

LEMMA AddressAt ==
    ASSUME NEW b \in Seq(Bytes), NEW p \in Nat, NEW w \in Nat, p + w <= Len(b)
    PROVE  SubSeq(b, p + 1, p + w) \in AddressesOf(w)
<1> DEFINE x == SubSeq(b, p + 1, p + w)
<1>1. IsSlice(x, b, p, w, Bytes)
  BY SliceIs
<1> HIDE DEF x
<1>2. x \in Seq(Bytes) /\ Len(x) = w
  BY <1>1, Zenon DEF IsSlice
<1>3. x \in [1..w -> Bytes]
  BY <1>2
<1> QED  BY <1>3 DEF AddressesOf, x

\* An OPEN that is read is one that can be sent.
LEMMA OpenRead ==
    ASSUME NEW b \in Seq(Bytes), ParseOpen(b) \notin {Err, Panic}
    PROVE  ParseOpen(b) \in Opens
<1> DEFINE fixed == 6 + Word
           m == ParseOpen(b)
           t == SubSeq(b, fixed + 1, fixed + b[fixed])
           P == [i \in DOMAIN CutParams(t) |-> [param_type |-> CutParams(t)[i][1],
                                                value |-> Rest(CutParams(t)[i], 2)]]
<1>1. ~(Len(b) < fixed) /\ ~(Len(b) < fixed + b[fixed])
  BY Zenon DEF ParseOpen
<1>2. Word \in Nat /\ Len(b) \in Nat /\ Len(b) >= 6 + Word
  BY <1>1, OctetsAssumption
<1>3. m = [version |-> b[1], my_as |-> GetU16(SubSeq(b, 2, 3)),
           hold_time |-> GetU16(SubSeq(b, 4, 5)), bgp_id |-> SubSeq(b, 6, 5 + Word),
           optional_params |-> P]
  <2>1. CutParams(t) \notin {Err, Panic}
    BY <1>1 DEF ParseOpen, Try
  <2> QED  BY <1>1, <2>1 DEF ParseOpen, Try
<1> HIDE DEF P, t
<1>4. m.optional_params \in Seq(OptionalParams) /\ Len(ParamsBytes(m.optional_params)) < Byte
  BY ParsedParams
<1>5. b[1] \in Bytes
  BY <1>2
<1>6. GetU16(SubSeq(b, 2, 3)) \in U16s /\ GetU16(SubSeq(b, 4, 5)) \in U16s
  <2>1. IsSlice(SubSeq(b, 1 + 1, 1 + 2), b, 1, 2, Bytes) /\ IsSlice(SubSeq(b, 3 + 1, 3 + 2), b, 3, 2, Bytes)
    <3>1. 1 \in Nat /\ 2 \in Nat /\ 3 \in Nat /\ 1 + 2 <= Len(b) /\ 3 + 2 <= Len(b)
      BY <1>2
    <3> QED  BY <3>1, SliceIs, Zenon
  <2>2. 1 + 1 = 2 /\ 1 + 2 = 3 /\ 3 + 1 = 4 /\ 3 + 2 = 5 /\ 2 >= 2
    OBVIOUS
  <2>3. IsSlice(SubSeq(b, 2, 3), b, 1, 2, Bytes) /\ IsSlice(SubSeq(b, 4, 5), b, 3, 2, Bytes)
    BY <2>1, <2>2
  <2>4. /\ SubSeq(b, 2, 3) \in Seq(Bytes) /\ Len(SubSeq(b, 2, 3)) >= 2
        /\ SubSeq(b, 4, 5) \in Seq(Bytes) /\ Len(SubSeq(b, 4, 5)) >= 2
    BY <2>2, <2>3, Zenon DEF IsSlice
  <2> QED  BY <2>4, GetU16Type, Zenon
<1>7. SubSeq(b, 6, 5 + Word) \in AddressesOf(Word)
  <2>1. 5 \in Nat /\ 5 + Word <= Len(b) /\ 5 + 1 = 6
    BY <1>2
  <2>2. SubSeq(b, 5 + 1, 5 + Word) \in AddressesOf(Word)
    BY <1>2, <2>1, AddressAt, Zenon
  <2> QED  BY <2>1, <2>2
<1>8. P = m.optional_params
  BY <1>3
<1> HIDE DEF m
<1>9. m \in [version : Bytes, my_as : U16s, hold_time : U16s, bgp_id : AddressesOf(Word),
             optional_params : Seq(OptionalParams)]
  BY <1>3, <1>4, <1>5, <1>6, <1>7, <1>8
<1> QED  BY <1>4, <1>9 DEF Opens, m

\* So are the small messages.
LEMMA NotificationRead ==
    ASSUME NEW b \in Seq(Bytes), ParseNotification(b) \notin {Err, Panic}
    PROVE  ParseNotification(b) \in MessagesOf("Notification")
<1>1. ~(Len(b) < 2) /\ Len(b) \in Nat
  BY DEF ParseNotification
<1>2. ParseNotification(b) = [error_code |-> b[1], error_subcode |-> b[2], data |-> Rest(b, 2)]
  BY <1>1 DEF ParseNotification
<1>3. b[1] \in Bytes /\ b[2] \in Bytes /\ 2 \in 0..Len(b)
  BY <1>1
<1>4. IsRest(Rest(b, 2), b, 2, Bytes)
  BY <1>3, RestIs
<1>5. Rest(b, 2) \in Seq(Bytes)
  BY <1>4, Zenon DEF IsRest
<1> QED  BY <1>2, <1>3, <1>5 DEF MessagesOf

LEMMA RouteRefreshRead ==
    ASSUME NEW b \in Seq(Bytes), ParseRouteRefresh(b) \notin {Err, Panic}
    PROVE  ParseRouteRefresh(b) \in MessagesOf("RouteRefresh")
<1>1. ~(Len(b) < 4) /\ Len(b) \in Nat
  BY DEF ParseRouteRefresh
<1>2. ParseRouteRefresh(b) = [afi |-> GetU16(b), safi |-> b[4]]
  BY <1>1 DEF ParseRouteRefresh
<1>3. GetU16(b) \in U16s
  BY <1>1, GetU16Type
<1>4. b[4] \in Bytes
  BY <1>1
<1> QED  BY <1>2, <1>3, <1>4 DEF MessagesOf

LEMMA RestIsSuffix ==
    ASSUME NEW S, NEW b \in Seq(S), NEW n \in 0..Len(b)
    PROVE  IsSuffix(Rest(b, n), b)
<1> DEFINE L == Len(b)
           l == Len(b) - n
           r == Rest(b, n)
           x == Reverse(r)
           y == Reverse(b)
<1>1. L \in Nat /\ n \in 0..L /\ l = L - n /\ l \in 0..L
  OBVIOUS
<1>2. r \in Seq(S) /\ Len(r) = l /\ \A j \in 1..l : r[j] = b[n + j]
  <2>1. IsRest(r, b, n, S)
    BY RestIs
  <2> QED  BY <2>1 DEF IsRest
<1> HIDE DEF r, l
<1>3. x = [i \in 1..l |-> r[(l - i) + 1]] /\ y = [i \in 1..L |-> b[(L - i) + 1]]
  BY <1>2 DEF Reverse
<1>4. b \in [1..L -> S] /\ r \in [1..l -> S]
  BY <1>2
<1> HIDE DEF L
<1>5. x \in Seq(S) /\ Len(x) = l
  <2>1. \A i \in 1..l : r[(l - i) + 1] \in S
    BY <1>1, <1>4
  <2> QED  BY <1>1, <1>3, <2>1
<1>6. y \in Seq(S) /\ Len(y) = L
  <2>1. \A i \in 1..L : b[(L - i) + 1] \in S
    BY <1>1, <1>4
  <2> QED  BY <1>1, <1>3, <2>1
<1>7. ASSUME NEW j \in 1..l PROVE x[j] = y[j]
  <2>1. j \in 1..L /\ (l - j) + 1 \in 1..l /\ n + ((l - j) + 1) = (L - j) + 1
    BY <1>1
  <2>2. x[j] = r[(l - j) + 1] /\ y[j] = b[(L - j) + 1]
    BY <1>3, <2>1
  <2> QED  BY <1>2, <2>1, <2>2
<1> HIDE DEF x, y
<1>8. SubSeq(x, 1, l) = x
  BY <1>5, SubSeqFull
<1>9. SubSeq(y, 1, l) = x
  <2>1. l \in 0..Len(y)
    BY <1>1, <1>6
  <2>2. IsSlice(SubSeq(y, 1, l), y, 0, l, S)
    BY <1>6, <2>1, SubSeqIs, Zenon
  <2> DEFINE z == SubSeq(y, 1, l)
  <2>3. z \in Seq(S) /\ Len(z) = l /\ \A j \in 1..l : z[j] = y[0 + j]
    BY <2>2, Zenon DEF IsSlice
  <2> HIDE DEF z
  <2>4. \A j \in 1..Len(z) : z[j] = x[j]
    BY <1>7, <2>3
  <2> QED  BY <1>5, <2>3, <2>4, SameSeq DEF z
<1>10. IsPrefix(x, y)
  BY <1>1, <1>5, <1>6, <1>8, <1>9 DEF IsPrefix
<1> QED  BY <1>10 DEF IsSuffix, x, y, r

\* The whole words of a value.
LEMMA ItemsRead ==
    ASSUME NEW w \in Nat \ {0}, NEW v \in Seq(Bytes)
    PROVE  /\ Items(v, w) \in Seq(AddressesOf(w))
           /\ Len(FlattenSeq(Items(v, w))) \in Nat
           /\ Len(FlattenSeq(Items(v, w))) <= Len(v)
           /\ \A k \in Nat : Len(v) = k * w => Len(Items(v, w)) = k
<1> DEFINE n == Len(v) \div w
           s == Items(v, w)
           L == Len(v)
<1>1. n \in Nat /\ n * w \in Nat /\ n * w <= L /\ L \in Nat
  <2>1. L \in Nat /\ w \in Nat /\ w >= 1
    OBVIOUS
  <2> HIDE DEF L
  <2>2. L \div w \in Nat /\ L % w \in 0..(w - 1) /\ L = w * (L \div w) + (L % w)
    BY <2>1, DivMod
  <2> QED  BY <2>1, <2>2 DEF L
<1>2. s = [i \in 1..n |-> SubSeq(v, (i - 1) * w + 1, i * w)]
  BY DEF Items
<1> HIDE DEF n, s
<1>3. ASSUME NEW i \in 1..n PROVE SubSeq(v, (i - 1) * w + 1, i * w) \in AddressesOf(w)
  <2> DEFINE p == (i - 1) * w
  <2>1. p \in Nat /\ p + w = i * w /\ i * w <= n * w
    BY <1>1
  <2> HIDE DEF p
  <2>2. p + w <= L
    BY <1>1, <2>1
  <2>3. SubSeq(v, p + 1, p + w) \in AddressesOf(w)
    BY <2>1, <2>2, AddressAt
  <2> QED  BY <2>1, <2>3 DEF p
<1>4. s \in Seq(AddressesOf(w)) /\ Len(s) = n
  BY <1>1, <1>2, <1>3
<1>5. Len(FlattenSeq(s)) = n * w
  BY <1>4, ItemsBack
<1>6. ASSUME NEW k \in Nat, L = k * w PROVE n = k
  <2>1. w >= 1 /\ k \in Int /\ w * k <= L /\ L < w * k + w /\ L \in Nat
    BY <1>1, <1>6
  <2> HIDE DEF L
  <2> QED  BY <2>1, DivUnique DEF n, L
<1> QED  BY <1>1, <1>4, <1>5, <1>6 DEF s

LEMMA SeqSubset ==
    ASSUME NEW A, NEW B, A \subseteq B, NEW s \in Seq(A)
    PROVE  s \in Seq(B)
  OBVIOUS

LEMMA PrefixesAreRecords ==
    ASSUME NEW w \in Nat, NEW ps \in Seq(PrefixesOf(w))
    PROVE  ps \in Seq([prefix_len : Bytes, address : Seq(Bytes)])
<1>1. AddressesOf(w) \subseteq Seq(Bytes)
  BY DEF AddressesOf
<1>2. PrefixesOf(w) \subseteq [prefix_len : Bytes, address : Seq(Bytes)]
  BY <1>1 DEF PrefixesOf
<1> HIDE DEF PrefixesOf
<1> DEFINE R == [prefix_len : Bytes, address : Seq(Bytes)]
           Q == PrefixesOf(w)
<1> HIDE DEF R, Q
<1>3. Q \subseteq R
  BY <1>2 DEF Q, R
<1>4. ps \in Seq(Q)
  BY DEF Q
<1>5. ps \in Seq(R)
  BY <1>3, <1>4
<1> QED  BY <1>5, Zenon DEF R

\* Values of MP_UNREACH_NLRI and MP_REACH_NLRI that are read, if their prefixes
\* can be written.
LEMMA MpUnreachRead ==
    ASSUME NEW b \in Seq(Bytes), ParseMpUnreach(b) \notin {Err, Panic},
           LegalPrefixes(ParseMpUnreach(b).withdrawn)
    PROVE  /\ ParseMpUnreach(b) \in MpUnreaches
           /\ IsSuffix(SerializePrefixes(ParseMpUnreach(b).withdrawn), b)
<1> DEFINE m == ParseMpUnreach(b)
           w == AddressLen(GetU16(b))
           r == Rest(b, 3)
           ps == ParsePrefixes(r, w)
<1>1. ~(Len(b) < 3) /\ GetU16(b) \in Afi /\ b[3] \in Safi /\ Len(b) \in Nat
  <2>1. ~(Len(b) < 3) /\ GetU16(b) \in Afi /\ b[3] \in Safi
    BY Zenon DEF ParseMpUnreach
  <2> QED  BY <2>1
<1>2. 3 \in 0..Len(b)
  BY <1>1
<1>3. r \in Seq(Bytes)
  <2>1. IsRest(r, b, 3, Bytes)
    BY <1>2, RestIs
  <2> QED  BY <2>1 DEF IsRest
<1>4. ps \notin {Err, Panic} /\ m = [afi |-> GetU16(b), safi |-> b[3], withdrawn |-> ps]
  BY <1>1 DEF ParseMpUnreach, Try
<1>5. w \in Nat \ {0}
  BY OctetsAssumption DEF AddressLen
<1>6. m.withdrawn = ps /\ m.afi = GetU16(b)
  BY <1>4
<1>7. LegalPrefixes(ps)
  BY <1>6
<1> HIDE DEF m, r, w
<1>8. ps \in Seq(PrefixesOf(w)) /\ SerializePrefixes(ps) = r
  BY <1>3, <1>4, <1>5, <1>7, PrefixesRead, CodecsAssumption
<1> HIDE DEF ps
<1>9. ps \in Seq([prefix_len : Bytes, address : Seq(Bytes)])
  BY <1>5, <1>8, PrefixesAreRecords
<1>10. m.withdrawn \in Seq(PrefixesOf(AddressLen(m.afi)))
  BY <1>6, <1>8 DEF w
<1>11. m \in MpUnreaches
  BY <1>1, <1>4, <1>9, <1>10 DEF MpUnreaches
<1>12. IsSuffix(r, b)
  BY <1>2, RestIsSuffix DEF r
<1> QED  BY <1>6, <1>8, <1>11, <1>12 DEF m

LEMMA MpReachRead ==
    ASSUME NEW b \in Seq(Bytes), ParseMpReach(b) \notin {Err, Panic},
           LegalPrefixes(ParseMpReach(b).nlri)
    PROVE  /\ ParseMpReach(b) \in MpReaches
           /\ IsSuffix(SerializePrefixes(ParseMpReach(b).nlri), b)
<1> DEFINE m == ParseMpReach(b)
           w == AddressLen(GetU16(b))
           k == b[4]
           r == Rest(b, 5 + k)
           v == SubSeq(b, 5, 4 + k)
           ps == ParsePrefixes(r, w)
<1>1. /\ ~(Len(b) < 4) /\ GetU16(b) \in Afi /\ b[3] \in Safi /\ ~(Len(b) < 4 + k)
      /\ ~(Len(b) = 4 + k) /\ Len(b) \in Nat
  <2>1. /\ ~(Len(b) < 4) /\ GetU16(b) \in Afi /\ b[3] \in Safi /\ ~(Len(b) < 4 + k)
        /\ ~(Len(b) = 4 + k)
    BY Zenon DEF ParseMpReach
  <2> QED  BY <2>1
<1>2. k \in Bytes /\ k \in Nat /\ k < Byte
  <2>1. 4 \in 1..Len(b)
    BY <1>1
  <2>2. k \in Bytes
    BY <2>1
  <2> QED  BY <2>2, ByteFacts DEF Bytes
<1>3. ps \notin {Err, Panic} /\ m = [afi |-> GetU16(b), safi |-> b[3],
                                     next_hops |-> Items(v, w), nlri |-> ps]
  BY <1>1 DEF ParseMpReach, Try
<1> HIDE DEF k
<1>4. 5 + k \in 0..Len(b) /\ 4 + k <= Len(b)
  BY <1>1, <1>2
<1>5. r \in Seq(Bytes)
  <2>1. IsRest(r, b, 5 + k, Bytes)
    BY <1>4, RestIs
  <2> QED  BY <2>1 DEF IsRest
<1>6. v \in Seq(Bytes) /\ Len(v) = k
  <2>1. 4 \in Nat /\ 4 + 1 = 5
    OBVIOUS
  <2>2. IsSlice(SubSeq(b, 4 + 1, 4 + k), b, 4, k, Bytes)
    BY <1>2, <1>4, <2>1, SliceIs, Zenon
  <2> QED  BY <2>1, <2>2 DEF IsSlice
<1>7. w \in Nat \ {0}
  BY OctetsAssumption DEF AddressLen
<1>8. m.nlri = ps /\ m.afi = GetU16(b) /\ m.next_hops = Items(v, w)
  BY <1>3
<1>9. LegalPrefixes(ps)
  BY <1>8
<1> HIDE DEF m, r, w, v
<1>10. ps \in Seq(PrefixesOf(w)) /\ SerializePrefixes(ps) = r
  BY <1>3, <1>5, <1>7, <1>9, PrefixesRead, CodecsAssumption
<1> HIDE DEF ps
<1>11. ps \in Seq([prefix_len : Bytes, address : Seq(Bytes)])
  BY <1>7, <1>10, PrefixesAreRecords
<1>12. m.nlri \in Seq(PrefixesOf(AddressLen(m.afi)))
  BY <1>8, <1>10 DEF w
<1> DEFINE hops == Items(v, w)
<1>13. /\ hops \in Seq(AddressesOf(w)) /\ Len(FlattenSeq(hops)) \in Nat
       /\ Len(FlattenSeq(hops)) <= k
  BY <1>6, <1>7, ItemsRead
<1> HIDE DEF hops
<1>14. hops \in Seq(Seq(Bytes))
  <2> DEFINE A == AddressesOf(w)
             V == Seq(Bytes)
  <2>1. A \subseteq V
    BY <1>7 DEF AddressesOf
  <2>2. hops \in Seq(A)
    BY <1>13
  <2> HIDE DEF A, V
  <2>3. hops \in Seq(V)
    BY <2>1, <2>2
  <2> QED  BY <2>3, Zenon DEF V
<1>15. m.next_hops = hops
  BY <1>8 DEF hops
<1>16. /\ m.next_hops \in Seq(AddressesOf(AddressLen(m.afi)))
       /\ Len(FlattenSeq(m.next_hops)) < Byte
  <2>1. Len(FlattenSeq(hops)) < Byte
    BY <1>2, <1>13, ByteFacts
  <2> QED  BY <1>8, <1>13, <1>15, <2>1, Zenon DEF w
<1>17. m \in MpReaches
  BY <1>1, <1>3, <1>11, <1>12, <1>14, <1>15, <1>16 DEF MpReaches
<1>18. IsSuffix(r, b)
  BY <1>4, RestIsSuffix DEF r
<1> QED  BY <1>8, <1>10, <1>17, <1>18 DEF m

\* An attribute that is taken off the buffer is whole.
LEMMA AttrTaken ==
    ASSUME NEW b \in Seq(Bytes), NEW p \in 0..Len(b), NEW q, NEW x,
           Takes(p, q, x, b, 3, AttrSizes(b), AttrSizes(b))
    PROVE  x \in Seq(Bytes) /\ Len(x) >= 3 /\ AttrSize(x) = Len(x)
<1> DEFINE r == Rest(b, p)
           n == AttrSize(r)
<1>1. AttrSizes(b)[p] = n
  BY DEF AttrSizes
<1>2. /\ Len(b) - p >= 3 /\ n \in Nat /\ p + n <= Len(b)
      /\ x = SubSeq(b, p + 1, p + n)
  BY <1>1 DEF Takes
<1>3. /\ r \in Seq(Bytes) /\ Len(r) = Len(b) - p
      /\ \A j \in 1..(Len(b) - p) : r[j] = b[p + j]
  BY RestFacts
<1> HIDE DEF r
<1>4. n >= 3 /\ AttrHead(r) \in {3, 4} /\ n >= AttrHead(r)
  <2>1. n \in Nat /\ n >= 3 /\ AttrHead(r) \in {3, 4} /\ Len(r) >= 3
    BY <1>2, <1>3, AttrSizeType
  <2>2. CASE AttrHead(r) = 3
    BY <2>1, <2>2
  <2>3. CASE AttrHead(r) = 4
    <3>1. IsExtended(r[1])
      BY <2>3 DEF AttrHead
    <3>2. CASE Len(r) < AttrHead(r)
      BY <2>1, <3>2 DEF AttrSize
    <3>3. CASE ~(Len(r) < AttrHead(r))
      <4> DEFINE y == SubSeq(r, 3, 4)
                 g == GetU16(y)
      <4>1. 2 \in Nat /\ 2 + 2 <= Len(r) /\ 2 + 1 = 3 /\ 2 + 2 = 4
        BY <1>3, <2>3, <3>3
      <4>2. IsSlice(SubSeq(r, 2 + 1, 2 + 2), r, 2, 2, Bytes)
        BY <1>3, <4>1, SliceIs, Zenon
      <4>3. y \in Seq(Bytes) /\ Len(y) = 2
        BY <4>1, <4>2 DEF IsSlice
      <4> HIDE DEF y
      <4>4. g \in Nat
        <5>1. Len(y) >= 2
          BY <4>3
        <5> QED  BY <4>3, <5>1, GetU16Type, Zenon
      <4>5. n = AttrHead(r) + g
        BY <3>1, <3>3 DEF AttrSize, y
      <4> HIDE DEF g, n
      <4> QED  BY <2>1, <4>4, <4>5
    <3> QED  BY <3>2, <3>3
  <2> QED  BY <2>1, <2>2, <2>3
<1> HIDE DEF n
<1>5. x \in Seq(Bytes) /\ Len(x) = n /\ \A j \in 1..n : x[j] = b[p + j]
  <2>1. p \in Nat
    OBVIOUS
  <2>2. IsSlice(SubSeq(b, p + 1, p + n), b, p, n, Bytes)
    BY <1>2, <2>1, SliceIs, Zenon
  <2> QED  BY <1>2, <2>2, Zenon DEF IsSlice
<1>6. Len(r) >= Len(x) /\ \A j \in 1..Len(x) : r[j] = x[j]
  <2>1. Len(r) >= Len(x)
    <3> DEFINE L == Len(b)
    <3>1. L - p >= n
      <4>1. L \in Nat
        OBVIOUS
      <4> QED  BY <1>2, <4>1
    <3> QED  BY <1>3, <1>5, <3>1, Zenon
  <2>2. \A j \in 1..Len(x) : j \in 1..(Len(b) - p) /\ j \in 1..n
    BY <1>3, <1>5, <2>1
  <2> QED  BY <1>3, <1>5, <2>1, <2>2, Zenon
<1>7. AttrHead(x) = AttrHead(r)
  <2>1. x[1] = r[1]
    BY <1>4, <1>5, <1>6
  <2> QED  BY <2>1 DEF AttrHead
<1>8. AttrSize(r) = AttrSize(x)
  <2>1. Len(x) >= 3 /\ AttrHead(x) <= Len(x)
    BY <1>4, <1>5, <1>7
  <2> QED  BY <1>3, <1>5, <1>6, <2>1, AttrSizeSame
<1> QED  BY <1>4, <1>5, <1>8 DEF n

\* What is read as attributes: whole ones, that are no longer together than
\* what they were read from.
LEMMA AttrsRead ==
    ASSUME NEW b \in Seq(Bytes), ParseAttributes(b) \notin {Err, Panic}
    PROVE  \E raws : /\ Group(raws, Bytes) /\ ParseAttributes(b) = Collected(raws)
                     /\ Len(FlattenSeq(raws)) <= Len(b) /\ FlattenSeq(raws) \in Seq(Bytes)
<1> DEFINE size == AttrSizes(b)
           a == ParseAttributes(b)
<1>1. PICK f : /\ IsCut(f, b, 3, size, size)
               /\ a = IF f[0] \in {Err, Panic} THEN f[0]
                      ELSE IF \A i \in DOMAIN f[0] : ValueOK(f[0][i]) THEN Collected(f[0])
                      ELSE Err
  BY AttrCut
<1>2. Moves(b, 3, size, size) /\ 3 \in Nat \ {0}
  BY AttrMoves
<1>3. Err \notin Seq(Seq(Bytes)) /\ Panic \notin Seq(Seq(Bytes))
  BY CodecsAssumption
<1>4. a \notin {Err, Panic}
  OBVIOUS
<1> HIDE DEF size, a
<1>5. f[0] \notin {Err, Panic} /\ (\A i \in DOMAIN f[0] : ValueOK(f[0][i])) /\ a = Collected(f[0])
  BY <1>1, <1>4, Zenon
<1>6. f[0] = Err \/ WalkFrom(f[0], Bytes, b, 0, 3, size, size)
  BY <1>1, <1>2, <1>3, CutWalks, Zenon
<1>7. PICK raws, off : /\ raws \in Seq(Seq(Bytes)) /\ f[0] = raws
                       /\ Walk(off, raws, b, 0, 3, size, size)
  BY <1>5, <1>6, Zenon DEF WalkFrom
<1>8. /\ off \in [0..Len(raws) -> 0..Len(b)] /\ off[0] = 0
      /\ \A i \in 1..Len(raws) : Takes(off[i - 1], off[i], raws[i], b, 3, size, size)
  BY <1>7, Zenon DEF Walk
<1>9. DOMAIN raws = 1..Len(raws) /\ Len(raws) \in Nat
  BY <1>7
<1>10. ASSUME NEW i \in 1..Len(raws)
       PROVE  IsRaw(raws[i]) /\ TypeCode(raws[i]) \in Bytes
  <2>1. i - 1 \in 0..Len(raws)
    BY <1>9
  <2>2. off[i - 1] \in 0..Len(b)
    BY <1>8, <2>1, Zenon
  <2> DEFINE x == raws[i]
  <2>3. x \in Seq(Bytes) /\ Len(x) >= 3 /\ AttrSize(x) = Len(x)
    BY <1>8, <2>2, AttrTaken, Zenon DEF size
  <2>4. ValueOK(x)
    BY <1>5, <1>7, <1>9, Zenon
  <2> HIDE DEF x
  <2>5. TypeCode(x) \in Bytes
    BY <2>3 DEF TypeCode
  <2> QED  BY <2>3, <2>4, <2>5, Zenon DEF x, IsRaw
<1>11. Group(raws, Bytes)
  BY <1>7, <1>10, Zenon DEF Group
<1>12. FlattenSeq(raws) = SubSeq(b, 1, off[Len(raws)])
  <2>1. \A i \in 1..Len(raws) : size[off[i - 1]] = size[off[i - 1]]
    OBVIOUS
  <2>2. Adjacent(off, raws, b)
    BY <1>7, <2>1, WalkAdjacent
  <2> QED  BY <1>7, <2>2, AdjacentFlatten, Zenon
<1>13. off[Len(raws)] \in 0..Len(b)
  <2>1. Len(raws) \in 0..Len(raws)
    BY <1>9
  <2> QED  BY <1>8, <2>1, Zenon
<1>14. Len(FlattenSeq(raws)) <= Len(b) /\ FlattenSeq(raws) \in Seq(Bytes)
  <2> DEFINE n == off[Len(raws)]
             y == SubSeq(b, 1, n)
  <2> HIDE DEF n
  <2>1. n \in 0..Len(b)
    BY <1>13 DEF n
  <2>2. IsSlice(y, b, 0, n, Bytes)
    BY <2>1, SubSeqIs
  <2> HIDE DEF y
  <2>3. y \in Seq(Bytes) /\ Len(y) = n
    BY <2>2, Zenon DEF IsSlice
  <2>4. FlattenSeq(raws) = y
    BY <1>12 DEF y, n
  <2> QED  BY <2>1, <2>3, <2>4
<1> QED  BY <1>5, <1>7, <1>11, <1>14, Zenon DEF a

-----------------------------------------------------------------------------
(* How much room attributes take *)

\* What is in front of the value of an attribute that was read.
LEMMA RawRead ==
    ASSUME NEW x, IsRaw(x)
    PROVE  /\ Value(x) \in Seq(Bytes) /\ Len(Value(x)) \in Nat /\ x[1] \in Bytes
           /\ Len(Value(x)) < Byte * Byte
           /\ IsExtended(x[1]) => Len(x) = 4 + Len(Value(x))
           /\ ~IsExtended(x[1]) => Len(x) = 3 + Len(Value(x)) /\ Len(Value(x)) < Byte
<1> DEFINE h == AttrHead(x)
           v == Value(x)
           L == Len(x)
<1>1. x \in Seq(Bytes) /\ L >= 3 /\ L \in Nat /\ AttrSize(x) = L
  BY DEF IsRaw
<1>2. h \in {3, 4} /\ (h = 4 <=> IsExtended(x[1]))
  BY DEF AttrHead
<1>3. ~(L < h)
  BY <1>1, <1>2 DEF AttrSize
<1>4. h \in 0..Len(x)
  BY <1>1, <1>2, <1>3
<1>5. v \in Seq(Bytes) /\ Len(v) = L - h
  <2>1. IsRest(v, x, h, Bytes)
    BY <1>1, <1>4, RestIs DEF Value
  <2> QED  BY <2>1 DEF IsRest
<1>6. 1 \in 1..Len(x) /\ 3 \in 1..Len(x)
  BY <1>1
<1>7. x[1] \in Bytes /\ x[3] \in Bytes
  BY <1>1, <1>6
<1> HIDE DEF v
<1>8. CASE IsExtended(x[1])
  <2> DEFINE y == SubSeq(x, 3, 4)
             g == GetU16(y)
  <2>1. 2 \in Nat /\ 2 + 2 <= Len(x) /\ 2 + 1 = 3 /\ 2 + 2 = 4
    BY <1>1, <1>2, <1>3, <1>8
  <2>2. IsSlice(SubSeq(x, 2 + 1, 2 + 2), x, 2, 2, Bytes)
    BY <1>1, <2>1, SliceIs, Zenon
  <2>3. y \in Seq(Bytes) /\ Len(y) = 2
    BY <2>1, <2>2 DEF IsSlice
  <2> HIDE DEF y
  <2>4. g \in Nat /\ g < Byte * Byte
    <3>1. Len(y) >= 2
      BY <2>3
    <3> QED  BY <2>3, <3>1, GetU16Type, Zenon
  <2>5. L = h + g
    BY <1>1, <1>3, <1>8 DEF AttrSize, y
  <2> HIDE DEF g, h, L
  <2>6. Len(v) = g
    BY <1>1, <1>2, <1>5, <2>4, <2>5
  <2>7. L = 4 + g
    BY <1>2, <1>8, <2>5
  <2> QED  BY <1>5, <1>7, <1>8, <2>4, <2>6, <2>7 DEF v, L
<1>9. CASE ~IsExtended(x[1])
  <2> DEFINE g == x[3]
  <2>1. L = h + g
    BY <1>1, <1>3, <1>9 DEF AttrSize
  <2>2. g \in Nat /\ g < Byte /\ Byte \in Nat /\ Byte >= 16
    BY <1>7, ByteFacts DEF Bytes
  <2> HIDE DEF g, h, L
  <2>3. Len(v) = g
    BY <1>1, <1>2, <1>5, <2>1, <2>2
  <2>4. L = 3 + g
    BY <1>2, <1>9, <2>1
  <2>5. g < Byte * Byte
    <3> DEFINE B == Byte
    <3>1. B \in Nat /\ B >= 16 /\ g < B
      BY <2>2
    <3> HIDE DEF B
    <3>2. B <= B * B
      BY <3>1
    <3> QED  BY <2>2, <3>1, <3>2 DEF B
  <2> QED  BY <1>5, <1>7, <1>9, <2>2, <2>3, <2>4, <2>5 DEF v, L
<1> QED  BY <1>8, <1>9

\* What write_attr takes.
AttrRoom(n) == IF n < Byte THEN 3 + n ELSE 4 + n

LEMMA WriteAttrRoom ==
    ASSUME NEW flags \in Nat, NEW t \in Nat, NEW v \in Seq(Bytes)
    PROVE  Len(WriteAttr(flags, t, v)) = AttrRoom(Len(v))
<1> DEFINE n == Len(v)
           f == flags + (IF IsExtended(flags) THEN 0 ELSE ExtendedLen)
           u == U16(n)
<1>1. n \in Nat /\ Byte \in Nat /\ Byte >= 16 /\ ExtendedLen \in Nat
  BY ByteFacts, FlagFacts
<1>2. v \in Seq(Nat)
  BY ByteFacts, SeqSubset, Zenon
<1>3. f \in Nat
  BY <1>1
<1>4. u \in Seq(Nat) /\ Len(u) = 2
  <2> DEFINE B == Byte
  <2>1. n \in Nat /\ B \in Nat /\ B >= 1
    BY <1>1
  <2> HIDE DEF n, B
  <2>2. n \div B \in Nat /\ n % B \in Nat
    BY <2>1
  <2>3. (n \div B) % B \in Nat
    BY <2>1, <2>2
  <2> QED  BY <2>2, <2>3 DEF U16, B
<1> HIDE DEF f, u, n
<1>5. <<f, t>> \in Seq(Nat) /\ Len(<<f, t>>) = 2
  BY <1>3
<1>6. /\ <<f, t>> \o u \in Seq(Nat) /\ Len(<<f, t>> \o u) = 4
      /\ Len((<<f, t>> \o u) \o v) = 4 + Len(v)
  <2> DEFINE a == <<f, t>>
  <2> HIDE DEF a
  <2>1. a \in Seq(Nat) /\ Len(a) = 2
    BY <1>5 DEF a
  <2>2. a \o u \in Seq(Nat) /\ Len(a \o u) = 4
    <3>1. IsConcat(a \o u, a, u, Nat)
      BY <1>4, <2>1, ConcatIs, Zenon
    <3> QED  BY <1>4, <2>1, <3>1 DEF IsConcat
  <2> DEFINE c == a \o u
  <2> HIDE DEF c
  <2>3. c \in Seq(Nat) /\ Len(c) = 4
    BY <2>2 DEF c
  <2>4. Len(c \o v) = 4 + Len(v)
    <3>1. IsConcat(c \o v, c, v, Nat)
      BY <1>2, <2>3, ConcatIs, Zenon
    <3> QED  BY <2>3, <3>1, Zenon DEF IsConcat
  <2> QED  BY <2>2, <2>4 DEF a, c
<1>7. n < Byte => Len(<<flags, t, n>> \o v) = 3 + Len(v)
  <2> DEFINE a == <<flags, t, n>>
  <2>1. a \in Seq(Nat) /\ Len(a) = 3
    BY <1>1
  <2> HIDE DEF a
  <2>2. Len(a \o v) = 3 + Len(v)
    <3>1. IsConcat(a \o v, a, v, Nat)
      BY <1>2, <2>1, ConcatIs, Zenon
    <3> QED  BY <2>1, <3>1, Zenon DEF IsConcat
  <2> QED  BY <2>2 DEF a
<1>8. CASE n < Byte
  <2>1. ~(n > Byte - 1)
    BY <1>1, <1>8
  <2> QED  BY <1>7, <1>8, <2>1 DEF WriteAttr, AttrRoom, n
<1>9. CASE ~(n < Byte)
  <2>1. n > Byte - 1
    BY <1>1, <1>9
  <2> QED  BY <1>6, <1>9, <2>1 DEF WriteAttr, AttrRoom, n, f, u
<1> QED  BY <1>8, <1>9

\* The attributes of some types among those that were read.
LEMMA OfTypeGroup ==
    ASSUME NEW raws, NEW us, Group(raws, us), NEW ts
    PROVE  Group(OfType(raws, ts), ts)
<1> DEFINE R == {x \in Seq(Bytes) : IsRaw(x) /\ TypeCode(x) \in ts}
           s == Picked(raws, ts)
           V == Seq(Bytes)
<1>1. raws \in Seq(V) /\ \A i \in 1..Len(raws) : IsRaw(raws[i]) /\ raws[i] \in V
  BY DEF Group
<1>2. Len(raws) \in Nat
  BY <1>1
<1>3. /\ Len(s) = Len(raws) /\ s \in Seq(Seq(V))
      /\ \A i \in 1..Len(raws) : s[i] = IF TypeCode(raws[i]) \in ts THEN <<raws[i]>> ELSE <<>>
      /\ OfType(raws, ts) = FlattenSeq(s)
  <2> HIDE DEF V
  <2> QED  BY <1>1, PickedFacts
<1>4. ASSUME NEW i \in 1..Len(raws) PROVE s[i] \in Seq(R)
  <2>1. CASE TypeCode(raws[i]) \in ts
    <3> DEFINE x == raws[i]
    <3>1. x \in R /\ s[i] = <<x>>
      BY <1>1, <1>3, <2>1
    <3> HIDE DEF x, R
    <3> QED  BY <3>1
  <2>2. CASE TypeCode(raws[i]) \notin ts
    <3>1. s[i] = <<>>
      BY <1>3, <2>2
    <3> HIDE DEF R
    <3> QED  BY <3>1
  <2> QED  BY <2>1, <2>2
<1> DEFINE O == OfType(raws, ts)
<1> HIDE DEF R, s, V
<1>5. s \in Seq(Seq(R))
  <2>1. s = [i \in 1..Len(raws) |-> s[i]]
    BY <1>3
  <2> QED  BY <1>2, <1>4, <2>1
<1>6. O \in Seq(R)
  BY <1>3, <1>5, FlattenType
<1> HIDE DEF O
<1>7. \A i \in 1..Len(O) : O[i] \in R
  BY <1>6
<1>8. R \subseteq V
  BY DEF R, V
<1>9. O \in Seq(V)
  BY <1>6, <1>8
<1>10. \A i \in 1..Len(O) : IsRaw(O[i]) /\ TypeCode(O[i]) \in ts
  BY <1>7 DEF R
<1> QED  BY <1>9, <1>10, Zenon DEF Group, V, O

\* Bytes of the attributes of some types.
Room(raws, ts) == Len(FlattenSeq(OfType(raws, ts)))

LEMMA RoomType ==
    ASSUME NEW raws \in Seq(Seq(Bytes)), NEW ts
    PROVE  Room(raws, ts) \in Nat /\ OfType(raws, ts) \in Seq(Seq(Bytes))
<1> DEFINE V == Seq(Bytes)
           O == OfType(raws, ts)
<1>1. O \in Seq(V)
  <2> HIDE DEF V
  <2>1. raws \in Seq(V)
    BY DEF V
  <2> QED  BY <2>1, OfTypeType
<1> HIDE DEF O
<1>2. FlattenSeq(O) \in Seq(Bytes)
  BY <1>1, FlattenType
<1> DEFINE F == FlattenSeq(O)
<1> HIDE DEF F
<1>3. Len(F) \in Nat
  BY <1>2 DEF F
<1> QED  BY <1>1, <1>3 DEF Room, O, F

LEMMA RoomMore ==
    ASSUME NEW a \in Seq(Seq(Bytes)), NEW x \in Seq(Bytes), NEW ts
    PROVE  Room(a \o <<x>>, ts) = Room(a, ts) + (IF TypeCode(x) \in ts THEN Len(x) ELSE 0)
<1> DEFINE V == Seq(Bytes)
           O == OfType(a, ts)
           P == OfType(<<x>>, ts)
<1>1. x \in V /\ a \in Seq(V)
  OBVIOUS
<1>2. Room(a, ts) \in Nat /\ O \in Seq(V)
  BY RoomType
<1> HIDE DEF V
<1>3. <<x>> \in Seq(V) /\ Len(<<x>>) = 1 /\ <<x>>[1] = x
  BY <1>1
<1>4. OfType(a \o <<x>>, ts) = O \o P
  <2>1. Splits(a, <<x>>, ts)
    BY <1>1, <1>3, OfTypeSplits, Zenon
  <2> QED  BY <2>1, Zenon DEF Splits
<1>5. P = IF TypeCode(x) \in ts THEN <<x>> ELSE <<>>
  <2>1. \A i \in 1..Len(<<x>>) : <<x>>[i] = x
    BY <1>3
  <2>2. CASE TypeCode(x) \in ts
    <3>1. \A i \in 1..Len(<<x>>) : TypeCode(<<x>>[i]) \in ts
      BY <2>1, <2>2, Zenon
    <3> QED  BY <1>3, <2>2, <3>1, OfTypeAll, Zenon
  <2>3. CASE TypeCode(x) \notin ts
    <3>1. \A i \in 1..Len(<<x>>) : TypeCode(<<x>>[i]) \notin ts
      BY <2>1, <2>3, Zenon
    <3> QED  BY <1>3, <2>3, <3>1, OfTypeNone, Zenon
  <2> QED  BY <2>2, <2>3
<1> HIDE DEF O, P
<1>6. /\ FlattenSeq(P) \in Seq(Bytes)
      /\ Len(FlattenSeq(P)) = IF TypeCode(x) \in ts THEN Len(x) ELSE 0
  <2>1. CASE TypeCode(x) \in ts
    BY <1>5, <2>1, FlattenOne
  <2>2. CASE TypeCode(x) \notin ts
    <3>1. FlattenSeq(P) = <<>>
      BY <1>5, <2>2, FlattenNone, Zenon
    <3>2. <<>> \in Seq(Bytes) /\ Len(<<>>) = 0
      OBVIOUS
    <3> QED  BY <2>2, <3>1, <3>2
  <2> QED  BY <2>1, <2>2
<1>7. P \in Seq(V)
  <2>1. <<>> \in Seq(V)
    OBVIOUS
  <2> QED  BY <1>3, <1>5, <2>1, Zenon
<1>8. FlattenSeq(O \o P) = FlattenSeq(O) \o FlattenSeq(P)
  BY <1>2, <1>7, FlattenConcat DEF V
<1>9. FlattenSeq(O) \in Seq(Bytes)
  BY <1>2, FlattenType DEF V
<1> DEFINE A == FlattenSeq(O)
           B == FlattenSeq(P)
<1> HIDE DEF A, B
<1>10. Len(A \o B) = Len(A) + Len(B)
  <2>1. IsConcat(A \o B, A, B, Bytes)
    BY <1>6, <1>9, ConcatIs, Zenon DEF A, B
  <2> QED  BY <2>1, Zenon DEF IsConcat
<1> QED  BY <1>4, <1>6, <1>8, <1>10, Zenon DEF Room, O, A, B

Adds(raws, ts, us) == Room(raws, ts \cup us) = Room(raws, ts) + Room(raws, us)

LEMMA RoomsAdd ==
    ASSUME NEW raws \in Seq(Seq(Bytes)), NEW ts, NEW us, ts \cap us = {}
    PROVE  Adds(raws, ts, us)
<1> DEFINE V == Seq(Bytes)
           T == {n \in Nat : \A s \in Seq(V) : Len(s) = n => Adds(s, ts, us)}
<1>1. 0 \in T
  <2> SUFFICES ASSUME NEW s \in Seq(V), Len(s) = 0 PROVE Adds(s, ts, us)
    OBVIOUS
  <2> HIDE DEF V
  <2>1. \A i \in 1..Len(s) : TypeCode(s[i]) \notin ts /\ TypeCode(s[i]) \notin us
                             /\ TypeCode(s[i]) \notin ts \cup us
    OBVIOUS
  <2>2. OfType(s, ts) = <<>> /\ OfType(s, us) = <<>> /\ OfType(s, ts \cup us) = <<>>
    BY <2>1, OfTypeNone
  <2>3. Len(FlattenSeq(<<>>)) = 0
    BY FlattenNone
  <2> QED  BY <2>2, <2>3 DEF Adds, Room
<1>2. ASSUME NEW n \in Nat, n \in T PROVE n + 1 \in T
  <2> SUFFICES ASSUME NEW s \in Seq(V), Len(s) = n + 1 PROVE Adds(s, ts, us)
    OBVIOUS
  <2> DEFINE a == SubSeq(s, 1, n)
             x == s[n + 1]
  <2>1. n \in 0..Len(s) /\ n + 1 \in 1..Len(s)
    OBVIOUS
  <2>2. IsSlice(a, s, 0, n, V)
    <3> HIDE DEF V
    <3> QED  BY <2>1, SubSeqIs
  <2>3. a \in Seq(V) /\ Len(a) = n
    BY <2>2, Zenon DEF IsSlice
  <2>4. x \in V
    <3> HIDE DEF V
    <3> QED  BY <2>1
  <2>5. s = a \o <<x>>
    <3> HIDE DEF V
    <3>1. n \in 0..Len(s) /\ <<x>> \in Seq(V) /\ Len(<<x>>) = 1 /\ n + Len(<<x>>) <= Len(s)
      BY <2>1, <2>4
    <3>2. \A j \in 1..Len(<<x>>) : s[n + j] = <<x>>[j]
      BY <3>1
    <3>3. SubSeq(s, 1, n + Len(<<x>>)) = SubSeq(s, 1, n) \o <<x>>
      BY <3>1, <3>2, SliceGrows
    <3>4. SubSeq(s, 1, Len(s)) = s
      BY SubSeqFull
    <3> QED  BY <3>1, <3>3, <3>4
  <2>6. Adds(a, ts, us)
    BY <1>2, <2>3
  <2> HIDE DEF a, x
  <2> DEFINE D(vs) == IF TypeCode(x) \in vs THEN Len(x) ELSE 0
  <2>7. /\ Room(s, ts) = Room(a, ts) + D(ts) /\ Room(s, us) = Room(a, us) + D(us)
        /\ Room(s, ts \cup us) = Room(a, ts \cup us) + D(ts \cup us)
    BY <2>3, <2>4, <2>5, RoomMore
  <2>8. D(ts \cup us) = D(ts) + D(us) /\ D(ts) \in Nat /\ D(us) \in Nat
    <3> DEFINE l == Len(x)
               c == TypeCode(x)
    <3>1. l \in Nat
      BY <2>4
    <3> HIDE DEF l, c
    <3>2. c \in ts => c \notin us
      OBVIOUS
    <3>3. CASE c \in ts
      <4>1. D(ts \cup us) = l /\ D(ts) = l /\ D(us) = 0
        BY <3>2, <3>3 DEF l, c
      <4> HIDE DEF D
      <4> QED  BY <3>1, <4>1
    <3>4. CASE c \notin ts /\ c \in us
      <4>1. D(ts \cup us) = l /\ D(ts) = 0 /\ D(us) = l
        BY <3>4 DEF l, c
      <4> HIDE DEF D
      <4> QED  BY <3>1, <4>1
    <3>5. CASE c \notin ts /\ c \notin us
      <4>1. D(ts \cup us) = 0 /\ D(ts) = 0 /\ D(us) = 0
        BY <3>5 DEF l, c
      <4> HIDE DEF D
      <4> QED  BY <4>1
    <3> QED  BY <3>3, <3>4, <3>5
  <2>9. Room(a, ts) \in Nat /\ Room(a, us) \in Nat
    BY <2>3, RoomType
  <2> HIDE DEF D
  <2>10. Room(s, ts \cup us) = Room(s, ts) + Room(s, us)
    BY <2>6, <2>7, <2>8, <2>9 DEF Adds
  <2> QED  BY <2>10 DEF Adds
<1> HIDE DEF T
<1>3. \A n \in Nat : n \in T
  BY <1>1, <1>2, SetInduction
<1>4. Len(raws) \in Nat
  OBVIOUS
<1> QED  BY <1>3, <1>4 DEF T

\* Attributes w take no more than those of the same types among the attributes
\* raws.
Within(w, raws, ts) == Room(w, ts) <= Room(raws, ts)

LEMMA WithinBoth ==
    ASSUME NEW w \in Seq(Seq(Bytes)), NEW raws \in Seq(Seq(Bytes)), NEW ts, NEW us,
           ts \cap us = {}, Within(w, raws, ts), Within(w, raws, us)
    PROVE  Within(w, raws, ts \cup us)
<1>1. Adds(w, ts, us) /\ Adds(raws, ts, us)
  BY RoomsAdd
<1>2. Room(w, ts) \in Nat /\ Room(w, us) \in Nat /\ Room(raws, ts) \in Nat /\ Room(raws, us) \in Nat
  BY RoomType
<1> QED  BY <1>1, <1>2 DEF Adds, Within

LEMMA WithinAll ==
    ASSUME NEW w, NEW raws, Group(w, Bytes), Group(raws, Bytes),
           \A j \in 1..10 : Within(w, raws, {j}), Within(w, raws, Bytes \ 1..10)
    PROVE  Len(FlattenSeq(w)) <= Len(FlattenSeq(raws))
<1>1. w \in Seq(Seq(Bytes)) /\ raws \in Seq(Seq(Bytes))
  BY DEF Group
<1> DEFINE T == {k \in Nat : k <= 10 => Within(w, raws, 1..k)}
<1>2. 0 \in T
  <2>1. ASSUME NEW s, Group(s, Bytes) PROVE Room(s, 1..0) = 0
    <3>1. OfType(s, 1..0) = <<>>
      <4>1. Bytes \cap (1..0) = {}
        OBVIOUS
      <4> QED  BY <2>1, <4>1, GroupOfType
    <3> QED  BY <3>1, FlattenNone DEF Room
  <2>2. Room(w, 1..0) = 0 /\ Room(raws, 1..0) = 0
    BY <2>1
  <2> QED  BY <2>2 DEF Within
<1>3. ASSUME NEW k \in Nat, k \in T PROVE k + 1 \in T
  <2> SUFFICES ASSUME k + 1 <= 10 PROVE Within(w, raws, 1..(k + 1))
    OBVIOUS
  <2>1. Within(w, raws, 1..k) /\ k + 1 \in 1..10
    BY <1>3
  <2>2. (1..k) \cap {k + 1} = {} /\ 1..(k + 1) = (1..k) \cup {k + 1}
    OBVIOUS
  <2>3. Within(w, raws, (1..k) \cup {k + 1})
    BY <1>1, <2>1, <2>2, WithinBoth
  <2> QED  BY <2>2, <2>3
<1> HIDE DEF T
<1>4. 10 \in T
  BY <1>2, <1>3, SetInduction
<1>5. Within(w, raws, 1..10)
  BY <1>4 DEF T
<1> DEFINE all == (1..10) \cup (Bytes \ 1..10)
<1>6. Within(w, raws, all)
  <2>1. (1..10) \cap (Bytes \ 1..10) = {}
    OBVIOUS
  <2> QED  BY <1>1, <1>5, <2>1, WithinBoth
<1>7. OfType(w, all) = w /\ OfType(raws, all) = raws
  <2>1. Bytes \subseteq all
    OBVIOUS
  <2> HIDE DEF all
  <2> QED  BY <2>1, GroupOfType
<1> QED  BY <1>6, <1>7 DEF Within, Room

\* An attribute that takes up at most the values of those that were read fits
\* into the bytes that these took.
LEMMA GroupFits ==
    ASSUME NEW of, NEW ts, Group(of, ts), NEW c \in [0..Len(of) -> Nat], c[0] = 0,
           \A i \in 1..Len(of) : c[i] <= c[i - 1] + Len(Value(of[i])), Len(of) # 0
    PROVE  AttrRoom(c[Len(of)]) <= Len(FlattenSeq(of))
<1>1. of \in Seq(Seq(Bytes)) /\ \A i \in 1..Len(of) : IsRaw(of[i])
  BY DEF Group
<1>2. Len(of) \in Nat
  BY <1>1
<1>3. PICK off : Offsets(off, of, FlattenSeq(of))
  BY <1>1, FlattenOffsets
<1>4. /\ off \in [0..Len(of) -> 0..Len(FlattenSeq(of))] /\ off[0] = 0
      /\ off[Len(of)] = Len(FlattenSeq(of))
      /\ \A i \in 1..Len(of) : off[i] = off[i - 1] + Len(of[i])
  BY <1>3, Zenon DEF Offsets
<1> DEFINE T == {k \in Nat : k \in 1..Len(of) => AttrRoom(c[k]) <= off[k]}
<1>5. 0 \in T
  OBVIOUS
<1>6. ASSUME NEW k \in Nat, k \in T PROVE k + 1 \in T
  <2> SUFFICES ASSUME k + 1 \in 1..Len(of) PROVE AttrRoom(c[k + 1]) <= off[k + 1]
    OBVIOUS
  <2> DEFINE x == of[k + 1]
             l == Len(x)
             v == Len(Value(x))
             d == c[k]
             e == c[k + 1]
             o == off[k]
  <2>1. k \in 0..Len(of) /\ k + 1 \in 0..Len(of) /\ (k + 1) - 1 = k
    BY <1>2
  <2>2. d \in Nat /\ e \in Nat /\ o \in Nat
    <3>1. d \in Nat /\ e \in Nat /\ o \in 0..Len(FlattenSeq(of))
      BY <1>4, <2>1, Zenon
    <3> HIDE DEF o
    <3>2. o \in Nat
      BY <3>1
    <3> QED  BY <3>1, <3>2, Zenon
  <2>3. e <= d + v /\ off[k + 1] = o + l
    BY <1>4, <2>1
  <2>4. IsRaw(x)
    BY <1>1
  <2>5. /\ v \in Nat
        /\ IsExtended(x[1]) => l = 4 + v
        /\ ~IsExtended(x[1]) => l = 3 + v /\ v < Byte
    BY <2>4, RawRead, Zenon
  <2>6. k = 0 => d = 0 /\ o = 0
    BY <1>4
  <2>7. k # 0 => AttrRoom(d) <= o
    <3> SUFFICES ASSUME k # 0 PROVE AttrRoom(d) <= o
      OBVIOUS
    <3>1. k \in 1..Len(of)
      BY <2>1
    <3> QED  BY <1>6, <3>1
  <2> HIDE DEF x, l, v, d, e, o
  <2>8. Byte \in Nat /\ Byte >= 16
    BY ByteFacts
  <2>9. v \in Nat /\ l \in Nat /\ l >= 3 + v /\ (v < Byte \/ l = 4 + v)
    <3>1. v \in Nat /\ (l = 4 + v \/ (l = 3 + v /\ v < Byte))
      BY <2>5, Zenon
    <3> QED  BY <2>8, <3>1
  <2>10. CASE k = 0
    <3>1. AttrRoom(e) <= l
      BY <2>2, <2>3, <2>6, <2>8, <2>9, <2>10 DEF AttrRoom
    <3> QED  BY <2>2, <2>3, <2>6, <2>9, <2>10, <3>1 DEF e
  <2>11. CASE k # 0
    <3>1. 3 + d <= o
      BY <2>2, <2>7, <2>8, <2>11 DEF AttrRoom
    <3>2. AttrRoom(e) <= o + l
      BY <2>2, <2>3, <2>8, <2>9, <3>1 DEF AttrRoom
    <3> QED  BY <2>3, <3>2 DEF e
  <2> QED  BY <2>10, <2>11
<1> HIDE DEF T
<1>7. \A k \in Nat : k \in T
  BY <1>5, <1>6, SetInduction
<1>8. Len(of) \in 1..Len(of)
  BY <1>2
<1> QED  BY <1>2, <1>4, <1>7, <1>8 DEF T

\* The value that counts is that of some attribute, and there is room for it.
LastIs(y, raws, t, m) ==
    /\ \E x : IsRaw(x) /\ TypeCode(x) = t /\ y = SubSeq(Value(x), 1, m)
    /\ AttrRoom(m) <= Room(raws, {t})

LEMMA ValuesRead ==
    ASSUME NEW raws, Group(raws, Bytes), NEW t
    PROVE  /\ Group(OfType(raws, {t}), {t}) /\ Values(raws, t) = ValuesOf(OfType(raws, {t}))
           /\ Room(raws, {t}) = Len(FlattenSeq(OfType(raws, {t})))
  BY OfTypeGroup DEF Values, ValuesOf, Room

LEMMA LastRead ==
    ASSUME NEW raws, Group(raws, Bytes), NEW t, NEW m \in Nat,
           \A x : IsRaw(x) /\ TypeCode(x) = t => Len(Value(x)) >= m
    PROVE  LastValue(raws, t, m) = None \/ LastIs(LastValue(raws, t, m), raws, t, m)
<1> DEFINE of == OfType(raws, {t})
           n == Len(of)
           vs == ValuesOf(of)
<1>1. Group(of, {t}) /\ Values(raws, t) = vs /\ Room(raws, {t}) = Len(FlattenSeq(of))
  BY ValuesRead
<1> HIDE DEF of
<1>2. of \in Seq(Seq(Bytes)) /\ \A i \in 1..n : IsRaw(of[i]) /\ TypeCode(of[i]) = t
  BY <1>1 DEF Group
<1>3. n \in Nat /\ DOMAIN of = 1..n
  BY <1>2
<1>4. vs = [i \in 1..n |-> Value(of[i])]
  BY <1>3 DEF ValuesOf
<1> HIDE DEF vs
<1>5. CASE vs = <<>>
  BY <1>1, <1>5 DEF LastValue
<1>6. CASE vs # <<>>
  <2>1. n # 0
    <3> SUFFICES ASSUME n = 0 PROVE vs = <<>>
      BY <1>6
    <3> QED  BY <1>4
  <2>2. n \in 1..n
    BY <1>3, <2>1
  <2>3. Len(vs) = n /\ vs[n] = Value(of[n])
    BY <1>3, <1>4, <2>2
  <2>4. Last(vs) = Value(of[n])
    BY <2>3 DEF Last
  <2>5. LastValue(raws, t, m) = SubSeq(Value(of[n]), 1, m)
    BY <1>1, <1>6, <2>4 DEF LastValue
  <2>6. IsRaw(of[n]) /\ TypeCode(of[n]) = t
    BY <1>2, <2>2
  <2>7. Len(Value(of[n])) >= m
    BY <2>6
  <2> DEFINE c == [i \in 0..n |-> IF i = n THEN m ELSE 0]
  <2>8. /\ c \in [0..n -> Nat] /\ c[0] = 0 /\ c[n] = m
        /\ \A i \in 1..n : (i # n => c[i] = 0) /\ c[i - 1] = 0
    <3>1. n \in Nat /\ n # 0
      BY <1>3, <2>1
    <3> HIDE DEF n
    <3>2. c \in [0..n -> Nat] /\ 0 \in 0..n /\ n \in 0..n
      BY <3>1
    <3>3. ASSUME NEW i \in 1..n PROVE i \in 0..n /\ i - 1 \in 0..n /\ i - 1 # n
      BY <3>1
    <3> QED  BY <3>1, <3>2, <3>3
  <2> HIDE DEF c
  <2>9. \A i \in 1..n : c[i] <= c[i - 1] + Len(Value(of[i]))
    <3> SUFFICES ASSUME NEW i \in 1..n PROVE c[i] <= c[i - 1] + Len(Value(of[i]))
      OBVIOUS
    <3>1. Len(Value(of[i])) \in Nat
      BY <1>2, RawRead
    <3>2. c[i - 1] = 0 /\ c[i] \in {0, m} /\ (c[i] = m => m <= Len(Value(of[i])) \/ m = 0)
      BY <2>7, <2>8
    <3> QED  BY <3>1, <3>2
  <2>10. AttrRoom(c[n]) <= Len(FlattenSeq(of))
    BY <1>1, <2>1, <2>8, <2>9, GroupFits
  <2>11. LastIs(LastValue(raws, t, m), raws, t, m)
    BY <1>1, <2>5, <2>6, <2>8, <2>10 DEF LastIs
  <2> QED  BY <2>11
<1> QED  BY <1>5, <1>6

\* Lists of words: communities and cluster lists.
LEMMA WordsAre ==
    ASSUME NEW v \in Seq(Bytes)
    PROVE  /\ Words(v) \in Seq(AddressesOf(Word))
           /\ Len(FlattenSeq(Words(v))) \in Nat /\ Len(FlattenSeq(Words(v))) <= Len(v)
<1>1. Word \in Nat \ {0}
  BY OctetsAssumption
<1> QED  BY <1>1, ItemsRead DEF Words

AddressSeqs == Seq(AddressesOf(Word))

LEMMA AddressLists ==
    ASSUME NEW s \in AddressSeqs
    PROVE  s \in Seq(Seq(Bytes)) /\ FlattenSeq(s) \in Seq(Bytes)
<1>1. AddressesOf(Word) \subseteq Seq(Bytes)
  BY OctetsAssumption DEF AddressesOf
<1>2. s \in Seq(Seq(Bytes))
  BY <1>1, SeqSubset DEF AddressSeqs
<1> QED  BY <1>2, FlattenType

ListFits(y, bytes, raws, t) ==
    y # <<>> => AttrRoom(bytes) <= Room(raws, {t})

\* Lists of all attributes of a type, put together: m says how many bytes such
\* a list takes.
LEMMA ListRead ==
    ASSUME NEW A, NEW m \in [Seq(A) -> Nat], m[<<>>] = 0,
           \A x, y \in Seq(A) : m[x \o y] = m[x] + m[y],
           NEW raws, Group(raws, Bytes), NEW t, NEW s \in Seq(Seq(A)),
           Len(s) = Len(OfType(raws, {t})),
           \A i \in 1..Len(s) : m[s[i]] <= Len(Value(OfType(raws, {t})[i]))
    PROVE  FlattenSeq(s) \in Seq(A) /\ ListFits(FlattenSeq(s), m[FlattenSeq(s)], raws, t)
<1> DEFINE of == OfType(raws, {t})
           n == Len(of)
           y == FlattenSeq(s)
<1>1. Group(of, {t}) /\ Room(raws, {t}) = Len(FlattenSeq(of))
  BY ValuesRead
<1>2. Len(s) = n /\ \A i \in 1..n : m[s[i]] <= Len(Value(of[i]))
  OBVIOUS
<1> HIDE DEF of
<1>3. \A i \in 1..n : IsRaw(of[i])
  BY <1>1 DEF Group
<1>4. n \in Nat
  BY <1>1 DEF Group
<1> HIDE DEF n
<1>5. PICK h \in [0..Len(s) -> Seq(A)] : Steps(h, s)
  BY StepsExist
<1>6. y = h[n]
  BY <1>2, <1>5, FlattenSteps
<1>7. h[0] = <<>> /\ \A i \in 1..n : h[i] = h[i - 1] \o s[i]
  BY <1>2, <1>5 DEF Steps
<1>8. \A i \in 0..n : h[i] \in Seq(A)
  BY <1>2, <1>5
<1>9. \A i \in 1..n : s[i] \in Seq(A)
  BY <1>2
<1> DEFINE c == [i \in 0..n |-> m[h[i]]]
<1>10. \A i \in 0..n : c[i] = m[h[i]] /\ m[h[i]] \in Nat
  BY <1>8
<1>11. c \in [0..n -> Nat]
  BY <1>10
<1> HIDE DEF c
<1>12. c[0] = 0
  <2>1. 0 \in 0..n
    BY <1>4
  <2> QED  BY <1>7, <1>10, <2>1, Zenon
<1>13. \A i \in 1..n : c[i] <= c[i - 1] + Len(Value(of[i]))
  <2> SUFFICES ASSUME NEW i \in 1..n PROVE c[i] <= c[i - 1] + Len(Value(of[i]))
    OBVIOUS
  <2>1. i - 1 \in 0..n /\ i \in 0..n
    BY <1>4
  <2>2. c[i] = m[h[i - 1] \o s[i]] /\ c[i - 1] = m[h[i - 1]]
    BY <1>7, <1>10, <2>1, Zenon
  <2>3. c[i] = m[h[i - 1]] + m[s[i]]
    BY <1>8, <1>9, <2>1, <2>2, Zenon
  <2>4. m[h[i - 1]] \in Nat /\ m[s[i]] \in Nat
    BY <1>8, <1>9, <2>1, Zenon
  <2>5. Len(Value(of[i])) \in Nat
    BY <1>3, RawRead
  <2>6. m[s[i]] <= Len(Value(of[i]))
    BY <1>2, Zenon
  <2>7. ASSUME NEW j \in Nat, NEW k \in Nat, NEW l \in Nat, k <= l PROVE j + k <= j + l
    BY <2>7
  <2>8. m[h[i - 1]] + m[s[i]] <= m[h[i - 1]] + Len(Value(of[i]))
    BY <2>4, <2>5, <2>6, <2>7, Zenon
  <2> QED  BY <2>2, <2>3, <2>8, Zenon
<1>14. y \in Seq(A)
  <2>1. n \in 0..n
    BY <1>4
  <2> QED  BY <1>6, <1>8, <2>1
<1>15. ASSUME y # <<>> PROVE AttrRoom(m[y]) <= Room(raws, {t})
  <2>1. n # 0
    BY <1>6, <1>7, <1>15
  <2>2. AttrRoom(c[n]) <= Len(FlattenSeq(of))
    BY <1>1, <1>11, <1>12, <1>13, <2>1, GroupFits DEF n
  <2>3. c[n] = m[y]
    <3>1. n \in 0..n
      BY <1>4
    <3> QED  BY <1>6, <1>10, <3>1
  <2> QED  BY <1>1, <2>2, <2>3
<1> QED  BY <1>14, <1>15 DEF ListFits

LEMMA WordListRead ==
    ASSUME NEW raws, Group(raws, Bytes), NEW t, NEW y,
           y = FlattenSeq([i \in DOMAIN Values(raws, t) |-> Words(Values(raws, t)[i])])
    PROVE  y \in AddressSeqs /\ ListFits(y, Len(FlattenSeq(y)), raws, t)
<1> DEFINE of == OfType(raws, {t})
           n == Len(of)
           A == AddressesOf(Word)
           s == [i \in 1..n |-> Words(Value(of[i]))]
           m == [x \in Seq(A) |-> Len(FlattenSeq(x))]
<1>1. Group(of, {t}) /\ Values(raws, t) = ValuesOf(of)
  BY ValuesRead
<1> HIDE DEF of
<1>2. of \in Seq(Seq(Bytes)) /\ \A i \in 1..n : IsRaw(of[i])
  BY <1>1 DEF Group
<1>3. n \in Nat /\ DOMAIN of = 1..n
  BY <1>2
<1>4. Values(raws, t) = [i \in 1..n |-> Value(of[i])]
  BY <1>1, <1>3 DEF ValuesOf
<1> HIDE DEF n
<1>5. y = FlattenSeq(s)
  BY <1>4
<1>6. ASSUME NEW i \in 1..n
      PROVE  /\ Words(Value(of[i])) \in Seq(A)
             /\ Len(FlattenSeq(Words(Value(of[i])))) <= Len(Value(of[i]))
  <2>1. Value(of[i]) \in Seq(Bytes)
    BY <1>2, RawRead
  <2> QED  BY <2>1, WordsAre
<1>7. \A z \in Seq(A) : z \in Seq(Seq(Bytes)) /\ FlattenSeq(z) \in Seq(Bytes)
  BY AddressLists DEF AddressSeqs
<1> HIDE DEF A
<1>8. s \in Seq(Seq(A)) /\ Len(s) = n /\ \A i \in 1..n : s[i] = Words(Value(of[i]))
  BY <1>3, <1>6
<1> HIDE DEF s
<1>9. \A x \in Seq(A) : m[x] = Len(FlattenSeq(x)) /\ Len(FlattenSeq(x)) \in Nat
  BY <1>7
<1>10. m \in [Seq(A) -> Nat]
  BY <1>9
<1> HIDE DEF m
<1>11. m[<<>>] = 0
  <2>1. <<>> \in Seq(A) /\ Len(<<>>) = 0
    OBVIOUS
  <2> QED  BY <1>9, <2>1, FlattenNone
<1>12. ASSUME NEW x \in Seq(A), NEW z \in Seq(A) PROVE m[x \o z] = m[x] + m[z]
  <2> DEFINE fx == FlattenSeq(x)
             fz == FlattenSeq(z)
  <2>1. /\ x \in Seq(Seq(Bytes)) /\ z \in Seq(Seq(Bytes))
        /\ fx \in Seq(Bytes) /\ fz \in Seq(Bytes)
    BY <1>7, Zenon
  <2>2. FlattenSeq(x \o z) = fx \o fz
    BY <2>1, FlattenConcat
  <2>3. x \o z \in Seq(A)
    OBVIOUS
  <2>4. m[x \o z] = Len(fx \o fz) /\ m[x] = Len(fx) /\ m[z] = Len(fz)
    BY <1>9, <2>2, <2>3, Zenon
  <2> HIDE DEF fx, fz
  <2>5. IsConcat(fx \o fz, fx, fz, Bytes)
    BY <2>1, ConcatIs, Zenon
  <2> QED  BY <2>4, <2>5, Zenon DEF IsConcat
<1>13. \A i \in 1..Len(s) : m[s[i]] <= Len(Value(of[i]))
  BY <1>6, <1>8, <1>9
<1>14. FlattenSeq(s) \in Seq(A) /\ ListFits(FlattenSeq(s), m[FlattenSeq(s)], raws, t)
  BY <1>8, <1>10, <1>11, <1>12, <1>13, ListRead DEF of, n
<1>15. m[y] = Len(FlattenSeq(y))
  BY <1>5, <1>9, <1>14
<1> QED  BY <1>5, <1>14, <1>15 DEF A, AddressSeqs

\* A segment of an AS_PATH that was read is written in as many bytes.
LEMMA SegmentTaken ==
    ASSUME NEW b \in Seq(Bytes), NEW p \in 0..Len(b), NEW q, NEW x,
           Takes(p, q, x, b, 2, SegmentSize(b), SegmentSize(b)), x[1] \in {1, 2}
    PROVE  /\ SegmentOf(x) \in SegmentsOnWire
           /\ q = p + Len(SegmentBytes(SegmentOf(x)))
<1> DEFINE z == SegmentSize(b)[p]
           r == Rest(b, p)[2]
           m == r * Word
<1>1. /\ Len(b) - p >= 2 /\ z \in Nat /\ p + z <= Len(b)
      /\ x = SubSeq(b, p + 1, p + z) /\ q = p + z
  BY DEF Takes
<1>2. z = 2 + m
  BY DEF SegmentSize
<1>3. r = b[p + 2] /\ r \in Bytes /\ r \in Nat
  <2>1. 2 \in 1..(Len(b) - p)
    BY <1>1
  <2> QED  BY <2>1, RestByte, Zenon
<1>4. Word \in Nat \ {0} /\ m \in Nat
  BY <1>3, OctetsAssumption
<1> HIDE DEF z, r, m
<1>5. x \in Seq(Bytes) /\ Len(x) = z
  <2>1. p \in Nat
    OBVIOUS
  <2>2. IsSlice(SubSeq(b, p + 1, p + z), b, p, z, Bytes)
    BY <1>1, <2>1, SliceIs, Zenon
  <2> QED  BY <1>1, <2>2, Zenon DEF IsSlice
<1> DEFINE v == Rest(x, 2)
           a == Words(v)
           s == SegmentOf(x)
<1>6. 2 \in 0..Len(x)
  BY <1>2, <1>4, <1>5
<1>7. v \in Seq(Bytes) /\ Len(v) = m
  <2>1. IsRest(v, x, 2, Bytes)
    BY <1>5, <1>6, RestIs
  <2>2. v \in Seq(Bytes) /\ Len(v) = Len(x) - 2
    BY <2>1, Zenon DEF IsRest
  <2> HIDE DEF v
  <2> QED  BY <1>2, <1>4, <1>5, <2>2
<1> HIDE DEF v
<1>8. a \in Seq(AddressesOf(Word)) /\ Len(a) = r
  <2>1. Len(v) = r * Word
    BY <1>7 DEF m
  <2> QED  BY <1>3, <1>4, <1>7, <2>1, ItemsRead DEF Words
<1> HIDE DEF a
<1>9. s = [type |-> x[1], asns |-> a]
  BY DEF SegmentOf, a, v
<1>10. r < Byte
  BY <1>3, ByteFacts DEF Bytes
<1>11. s \in SegmentsOnWire /\ s.asns = a
  BY <1>8, <1>9, <1>10 DEF SegmentsOnWire
<1> HIDE DEF s
<1>12. Len(SegmentBytes(s)) = 2 + Len(a) * Word
  BY <1>11, SegmentBack
<1>13. Len(SegmentBytes(s)) = z
  BY <1>2, <1>8, <1>12 DEF m
<1> QED  BY <1>1, <1>11, <1>13 DEF s

SegmentLists == Seq(SegmentsOnWire)

LEMMA SegmentsRead ==
    ASSUME NEW v \in Seq(Bytes), Segments(v) # Err,
           \A i \in DOMAIN Segments(v) : Segments(v)[i].type \in {1, 2}
    PROVE  /\ Segments(v) \in SegmentLists
           /\ Len(SegmentsBytes(Segments(v))) \in Nat
           /\ Len(SegmentsBytes(Segments(v))) <= Len(v)
<1> DEFINE size == SegmentSize(v)
           ps == Segments(v)
<1>1. PICK f : /\ IsCut(f, v, 2, size, size)
               /\ ps = IF f[0] \in {Err, Panic} THEN f[0]
                       ELSE [i \in DOMAIN f[0] |-> SegmentOf(f[0][i])]
  BY SegmentCut
<1>2. Moves(v, 2, size, size) /\ 2 \in Nat \ {0}
  BY SegmentMoves
<1>3. ps # Err /\ \A i \in DOMAIN ps : ps[i].type \in {1, 2}
  OBVIOUS
<1> HIDE DEF size, ps
<1>4. f[0] # Err
  BY <1>1, <1>3, Zenon
<1>5. Err \notin Seq(Seq(Bytes)) /\ Panic \notin Seq(Seq(Bytes))
  BY CodecsAssumption
<1>6. f[0] = Err \/ WalkFrom(f[0], Bytes, v, 0, 2, size, size)
  BY <1>1, <1>2, <1>5, CutWalks, Zenon
<1>7. PICK items, off : /\ items \in Seq(Seq(Bytes)) /\ f[0] = items
                        /\ Walk(off, items, v, 0, 2, size, size)
  BY <1>4, <1>6, Zenon DEF WalkFrom
<1>8. /\ off \in [0..Len(items) -> 0..Len(v)] /\ off[0] = 0
      /\ \A i \in 1..Len(items) : Takes(off[i - 1], off[i], items[i], v, 2, size, size)
  BY <1>7, Zenon DEF Walk
<1>9. DOMAIN items = 1..Len(items) /\ Len(items) \in Nat
  BY <1>7
<1> DEFINE n == Len(items)
<1> HIDE DEF n
<1>10. ps = [i \in 1..n |-> SegmentOf(items[i])]
  BY <1>1, <1>5, <1>7, <1>9, Zenon DEF n
<1>11. DOMAIN ps = 1..n /\ \A i \in 1..n : ps[i] = SegmentOf(items[i])
  BY <1>10
<1>12. ASSUME NEW i \in 1..n
       PROVE  ps[i] \in SegmentsOnWire /\ off[i] = off[i - 1] + Len(SegmentBytes(ps[i]))
  <2> DEFINE x == items[i]
             p == off[i - 1]
  <2>1. i - 1 \in 0..Len(items)
    BY <1>9 DEF n
  <2>2. p \in 0..Len(v)
    BY <1>8, <2>1, Zenon
  <2>3. Takes(p, off[i], x, v, 2, size, size)
    BY <1>8, Zenon DEF n
  <2>4. ps[i].type \in {1, 2} /\ ps[i] = SegmentOf(x)
    BY <1>3, <1>11, Zenon
  <2> HIDE DEF x, p
  <2>5. x[1] \in {1, 2}
    BY <2>4 DEF SegmentOf
  <2>6. SegmentOf(x) \in SegmentsOnWire /\ off[i] = p + Len(SegmentBytes(SegmentOf(x)))
    BY <2>2, <2>3, <2>5, SegmentTaken DEF size
  <2> QED  BY <2>4, <2>6, Zenon DEF p
<1>13. ps \in Seq(SegmentsOnWire) /\ Len(ps) = n
  <2>1. n \in Nat
    BY <1>9 DEF n
  <2> QED  BY <1>10, <1>11, <1>12, <2>1
<1> DEFINE w == [i \in DOMAIN ps |-> SegmentBytes(ps[i])]
<1>14. w \in Seq(Seq(Bytes)) /\ Len(w) = n /\ \A i \in 1..n : w[i] = SegmentBytes(ps[i])
  <2>1. n \in Nat
    BY <1>9 DEF n
  <2>2. \A i \in 1..n : SegmentBytes(ps[i]) \in Seq(Bytes)
    BY <1>12, SegmentBack
  <2> QED  BY <1>11, <2>1, <2>2
<1>15. SegmentsBytes(ps) = FlattenSeq(w)
  BY DEF SegmentsBytes
<1> HIDE DEF w
<1>16. Sums(off, w)
  BY <1>8, <1>12, <1>14 DEF Sums
<1>17. Len(FlattenSeq(w)) = off[n]
  BY <1>14, <1>16, FlattenLength
<1>18. off[n] \in 0..Len(v)
  <2>1. n \in 0..Len(items)
    BY <1>9 DEF n
  <2> QED  BY <1>8, <2>1, Zenon
<1>19. Len(SegmentsBytes(ps)) \in Nat /\ Len(SegmentsBytes(ps)) <= Len(v)
  BY <1>15, <1>17, <1>18
<1> QED  BY <1>13, <1>19, Zenon DEF ps, SegmentLists

LEMMA SegmentsConcat ==
    ASSUME NEW x \in SegmentLists, NEW z \in SegmentLists
    PROVE  /\ x \o z \in SegmentLists
           /\ SegmentsBytes(x) \in Seq(Bytes) /\ SegmentsBytes(z) \in Seq(Bytes)
           /\ SegmentsBytes(x \o z) = SegmentsBytes(x) \o SegmentsBytes(z)
<1> DEFINE I(u) == [i \in DOMAIN u |-> SegmentBytes(u[i])]
           V == Seq(Bytes)
           G == SegmentsOnWire
<1>1. x \in Seq(G) /\ z \in Seq(G)
  BY DEF SegmentLists
<1>2. ASSUME NEW u \in Seq(G) PROVE I(u) \in Seq(V) /\ Len(I(u)) = Len(u)
  <2>1. \A i \in 1..Len(u) : SegmentBytes(u[i]) \in V
    BY SegmentBack
  <2> HIDE DEF V, G
  <2> QED  BY <2>1
<1> HIDE DEF G
<1>3. x \o z \in Seq(G)
  BY <1>1
<1>4. I(x \o z) = I(x) \o I(z)
  <2>1. Len(x \o z) = Len(x) + Len(z) /\ DOMAIN (x \o z) = 1..(Len(x) + Len(z))
    BY <1>1
  <2> QED  BY <1>1, <2>1
<1>5. I(x) \in Seq(V) /\ I(z) \in Seq(V)
  BY <1>1, <1>2
<1>6. /\ SegmentsBytes(x) = FlattenSeq(I(x)) /\ SegmentsBytes(z) = FlattenSeq(I(z))
      /\ SegmentsBytes(x \o z) = FlattenSeq(I(x \o z))
  BY DEF SegmentsBytes
<1> HIDE DEF I
<1>7. FlattenSeq(I(x)) \in Seq(Bytes) /\ FlattenSeq(I(z)) \in Seq(Bytes)
  BY <1>5, FlattenType
<1>8. FlattenSeq(I(x) \o I(z)) = FlattenSeq(I(x)) \o FlattenSeq(I(z))
  BY <1>5, FlattenConcat
<1> QED  BY <1>3, <1>4, <1>6, <1>7, <1>8, Zenon DEF G, SegmentLists

LEMMA SegmentListRead ==
    ASSUME NEW raws, Group(raws, Bytes), NEW y,
           y = FlattenSeq([i \in DOMAIN Values(raws, 2) |-> Segments(Values(raws, 2)[i])])
    PROVE  y \in SegmentLists /\ ListFits(y, Len(SegmentsBytes(y)), raws, 2)
<1> DEFINE of == OfType(raws, {2})
           n == Len(of)
           G == SegmentsOnWire
           s == [i \in 1..n |-> Segments(Value(of[i]))]
           m == [x \in Seq(G) |-> Len(SegmentsBytes(x))]
<1>1. Group(of, {2}) /\ Values(raws, 2) = ValuesOf(of)
  BY ValuesRead
<1> HIDE DEF of
<1>2. of \in Seq(Seq(Bytes)) /\ \A i \in 1..n : IsRaw(of[i]) /\ TypeCode(of[i]) = 2
  BY <1>1 DEF Group
<1>3. n \in Nat /\ DOMAIN of = 1..n
  BY <1>2
<1>4. Values(raws, 2) = [i \in 1..n |-> Value(of[i])]
  BY <1>1, <1>3 DEF ValuesOf
<1> HIDE DEF n
<1>5. y = FlattenSeq(s)
  BY <1>4
<1>6. ASSUME NEW i \in 1..n
      PROVE  /\ Segments(Value(of[i])) \in Seq(G)
             /\ Len(SegmentsBytes(Segments(Value(of[i])))) <= Len(Value(of[i]))
  <2> DEFINE x == of[i]
             v == Value(x)
  <2>1. IsRaw(x) /\ TypeCode(x) = 2
    BY <1>2
  <2>2. v \in Seq(Bytes)
    BY <2>1, RawRead
  <2>3. ValueOK(x)
    BY <2>1 DEF IsRaw
  <2> HIDE DEF x
  <2>4. Segments(v) # Err /\ \A j \in DOMAIN Segments(v) : Segments(v)[j].type \in {1, 2}
    BY <2>1, <2>3 DEF ValueOK
  <2> HIDE DEF v
  <2>5. Segments(v) \in SegmentLists /\ Len(SegmentsBytes(Segments(v))) <= Len(v)
    BY <2>2, <2>4, SegmentsRead
  <2> QED  BY <2>5 DEF v, x, SegmentLists
<1>7. \A z \in Seq(G) : SegmentsBytes(z) \in Seq(Bytes)
  BY SegmentsConcat DEF SegmentLists
<1>8. \A x, z \in Seq(G) : x \o z \in Seq(G) /\ SegmentsBytes(x \o z) = SegmentsBytes(x) \o SegmentsBytes(z)
  BY SegmentsConcat DEF SegmentLists
<1> HIDE DEF G
<1>9. s \in Seq(Seq(G)) /\ Len(s) = n /\ \A i \in 1..n : s[i] = Segments(Value(of[i]))
  BY <1>3, <1>6
<1> HIDE DEF s
<1>10. \A x \in Seq(G) : m[x] = Len(SegmentsBytes(x)) /\ Len(SegmentsBytes(x)) \in Nat
  BY <1>7
<1>11. m \in [Seq(G) -> Nat]
  BY <1>10
<1> HIDE DEF m
<1>12. m[<<>>] = 0
  <2>1. <<>> \in Seq(G) /\ Len(<<>>) = 0
    OBVIOUS
  <2>2. SegmentsBytes(<<>>) = FlattenSeq(<<>>)
    <3>1. [i \in DOMAIN <<>> |-> SegmentBytes(<<>>[i])] = <<>>
      OBVIOUS
    <3> QED  BY <3>1, Zenon DEF SegmentsBytes
  <2> QED  BY <1>10, <2>1, <2>2, FlattenNone
<1>13. ASSUME NEW x \in Seq(G), NEW z \in Seq(G) PROVE m[x \o z] = m[x] + m[z]
  <2> DEFINE fx == SegmentsBytes(x)
             fz == SegmentsBytes(z)
  <2>1. fx \in Seq(Bytes) /\ fz \in Seq(Bytes)
    BY <1>7, Zenon
  <2>2. m[x \o z] = Len(fx \o fz) /\ m[x] = Len(fx) /\ m[z] = Len(fz)
    <3>1. x \o z \in Seq(G) /\ SegmentsBytes(x \o z) = fx \o fz
      BY <1>8, Zenon
    <3>2. m[x \o z] = Len(SegmentsBytes(x \o z))
      BY <1>10, <3>1, Zenon
    <3> QED  BY <1>10, <3>1, <3>2, Zenon
  <2> HIDE DEF fx, fz
  <2>3. IsConcat(fx \o fz, fx, fz, Bytes)
    BY <2>1, ConcatIs, Zenon
  <2> QED  BY <2>2, <2>3, Zenon DEF IsConcat
<1>14. \A i \in 1..Len(s) : m[s[i]] <= Len(Value(of[i]))
  BY <1>6, <1>9, <1>10
<1>15. FlattenSeq(s) \in Seq(G) /\ ListFits(FlattenSeq(s), m[FlattenSeq(s)], raws, 2)
  BY <1>9, <1>11, <1>12, <1>13, <1>14, ListRead DEF of, n
<1>16. m[y] = Len(SegmentsBytes(y))
  BY <1>5, <1>10, <1>15
<1> QED  BY <1>5, <1>15, <1>16 DEF G, SegmentLists

\* Attributes that the program does not know, unless a long length is given up.
LEMMA UnknownsRead ==
    ASSUME NEW of, Group(of, Bytes \ 1..10), NEW us,
           us = [i \in DOMAIN of |-> [flags |-> of[i][1], type_code |-> TypeCode(of[i]),
                                      value |-> Value(of[i])]],
           \A i \in DOMAIN us : IsExtended(us[i].flags) => ~(Len(us[i].value) < Byte)
    PROVE  /\ us \in Seq(UnknownOnWire)
           /\ Len(FlattenSeq(RawUnknown(us))) = Len(FlattenSeq(of))
<1> DEFINE n == Len(of)
           R == RawUnknown(us)
<1>1. /\ of \in Seq(Seq(Bytes)) /\ n \in Nat /\ DOMAIN of = 1..n
      /\ \A i \in 1..n : IsRaw(of[i]) /\ TypeCode(of[i]) \in Bytes \ 1..10
  BY DEF Group
<1>2. /\ DOMAIN us = 1..n
      /\ \A i \in 1..n : us[i] = [flags |-> of[i][1], type_code |-> TypeCode(of[i]),
                                  value |-> Value(of[i])]
  BY <1>1
<1>3. Byte \in Nat
  BY ByteFacts
<1>4. ASSUME NEW i \in 1..n
      PROVE  us[i] \in UnknownOnWire /\ Len(WriteAttr(us[i].flags, us[i].type_code, us[i].value)) = Len(of[i])
  <2> DEFINE x == of[i]
             q == us[i]
             f == x[1]
             t == TypeCode(x)
             v == Value(x)
             l == Len(v)
  <2>1. IsRaw(x) /\ t \in Bytes \ 1..10
    BY <1>1
  <2>2. q = [flags |-> f, type_code |-> t, value |-> v]
    BY <1>2
  <2>3. /\ v \in Seq(Bytes) /\ l \in Nat /\ f \in Bytes /\ l < Byte * Byte
        /\ IsExtended(f) => Len(x) = 4 + l
        /\ ~IsExtended(f) => Len(x) = 3 + l /\ l < Byte
    BY <2>1, RawRead, Zenon
  <2>4. IsExtended(q.flags) => ~(Len(q.value) < Byte)
    BY <1>2
  <2> HIDE DEF x, q, f, t, v
  <2>5. q.flags = f /\ q.type_code = t /\ q.value = v
    BY <2>2
  <2>6. IsExtended(f) <=> l >= Byte
    BY <1>3, <2>3, <2>4, <2>5
  <2>7. q \in UnknownOnWire
    BY <2>1, <2>2, <2>3, <2>5, <2>6 DEF UnknownOnWire
  <2>8. Len(WriteAttr(f, t, v)) = AttrRoom(l)
    <3>1. f \in Nat /\ t \in Nat
      BY <2>1, <2>3, ByteFacts
    <3> QED  BY <2>3, <3>1, WriteAttrRoom
  <2>9. AttrRoom(l) = Len(x)
    BY <1>3, <2>3, <2>6 DEF AttrRoom
  <2> QED  BY <2>5, <2>7, <2>8, <2>9 DEF q, x
<1>5. us \in Seq(UnknownOnWire)
  <2>1. us = [i \in 1..n |-> us[i]]
    BY <1>1
  <2> QED  BY <1>1, <1>4, <2>1
<1>6. R \in Seq(Seq(Bytes)) /\ Len(R) = n /\ \A i \in 1..n : Len(R[i]) = Len(of[i])
  <2>1. R \in Seq(Seq(Bytes))
    BY <1>5, UnknownsBack DEF Group
  <2>2. DOMAIN R = 1..n /\ \A i \in 1..n : R[i] = WriteAttr(us[i].flags, us[i].type_code, us[i].value)
    BY <1>2 DEF RawUnknown
  <2>3. Len(R) = n
    BY <1>1, <2>1, <2>2
  <2> QED  BY <1>4, <2>1, <2>2, <2>3
<1> HIDE DEF R
<1>7. PICK off : Offsets(off, of, FlattenSeq(of))
  BY <1>1, FlattenOffsets
<1>8. off[0] = 0 /\ off[n] = Len(FlattenSeq(of)) /\ \A i \in 1..n : off[i] = off[i - 1] + Len(of[i])
  BY <1>7, Zenon DEF Offsets
<1>9. Sums(off, R)
  BY <1>6, <1>8 DEF Sums
<1>10. Len(FlattenSeq(R)) = off[Len(R)]
  BY <1>6, <1>9, FlattenLength
<1> QED  BY <1>5, <1>6, <1>8, <1>10 DEF R

LEMMA RoomInside ==
    ASSUME NEW raws, Group(raws, Bytes), NEW ts \in SUBSET Bytes
    PROVE  Room(raws, ts) \in Nat /\ Room(raws, ts) <= Len(FlattenSeq(raws))
<1> DEFINE us == Bytes \ ts
<1>1. raws \in Seq(Seq(Bytes))
  BY DEF Group
<1>2. Room(raws, ts) \in Nat /\ Room(raws, us) \in Nat
  BY <1>1, RoomType
<1>3. ts \cap us = {} /\ Bytes \subseteq ts \cup us
  OBVIOUS
<1> HIDE DEF us
<1>4. Adds(raws, ts, us)
  BY <1>1, <1>3, RoomsAdd
<1>5. OfType(raws, ts \cup us) = raws
  BY <1>3, GroupOfType
<1>6. Len(FlattenSeq(raws)) = Room(raws, ts) + Room(raws, us)
  BY <1>4, <1>5 DEF Adds, Room
<1> QED  BY <1>2, <1>6

\* A value of n bytes that may be missing.
LastFits(v, n, S, raws, t) == v # None => v \in S /\ AttrRoom(n) <= Room(raws, {t})

LEMMA LastFields ==
    ASSUME NEW raws, Group(raws, Bytes)
    PROVE  /\ LastFits(LastValue(raws, 1, 1), 1, {<<0>>, <<1>>, <<2>>}, raws, 1)
           /\ \A t \in {3, 4, 5, 9} :
                LastFits(LastValue(raws, t, Word), Word, AddressesOf(Word), raws, t)
           /\ LastFits(LastValue(raws, 7, 2 + Word), 2 + Word, AddressesOf(2 + Word), raws, 7)
<1>1. Word \in Nat /\ 2 + Word \in Nat /\ 1 \in Nat
  BY OctetsAssumption
<1>2. \A x : IsRaw(x) => ValueOK(x) /\ Value(x) \in Seq(Bytes) /\ Len(Value(x)) \in Nat
  BY RawRead DEF IsRaw
<1>3. ASSUME NEW t, NEW n \in Nat, \A x : IsRaw(x) /\ TypeCode(x) = t => Len(Value(x)) >= n
      PROVE  LastFits(LastValue(raws, t, n), n, AddressesOf(n), raws, t)
  <2> SUFFICES ASSUME LastValue(raws, t, n) # None
               PROVE  LastValue(raws, t, n) \in AddressesOf(n) /\ AttrRoom(n) <= Room(raws, {t})
    BY DEF LastFits
  <2> DEFINE y == LastValue(raws, t, n)
  <2>1. y = None \/ LastIs(y, raws, t, n)
    BY <1>3, LastRead
  <2> HIDE DEF y
  <2>2. LastIs(y, raws, t, n)
    BY <2>1 DEF y
  <2>3. PICK x : IsRaw(x) /\ TypeCode(x) = t /\ y = SubSeq(Value(x), 1, n)
    BY <2>2, Zenon DEF LastIs
  <2> DEFINE v == Value(x)
  <2>4. v \in Seq(Bytes) /\ Len(v) \in Nat /\ Len(v) >= n
    BY <1>2, <1>3, <2>3
  <2> HIDE DEF v
  <2>5. n \in 0..Len(v)
    BY <2>4
  <2>6. IsSlice(SubSeq(v, 1, n), v, 0, n, Bytes)
    BY <2>4, <2>5, SubSeqIs
  <2>7. y \in Seq(Bytes) /\ Len(y) = n
    BY <2>3, <2>6, Zenon DEF IsSlice, v
  <2>8. y \in AddressesOf(n)
    BY <2>7 DEF AddressesOf
  <2> QED  BY <2>2, <2>8 DEF LastIs, y
<1>4. \A t \in {3, 4, 5, 9} : LastFits(LastValue(raws, t, Word), Word, AddressesOf(Word), raws, t)
  <2> SUFFICES ASSUME NEW t \in {3, 4, 5, 9}
               PROVE  LastFits(LastValue(raws, t, Word), Word, AddressesOf(Word), raws, t)
    OBVIOUS
  <2>1. \A x : IsRaw(x) /\ TypeCode(x) = t => Len(Value(x)) >= Word
    BY <1>2 DEF ValueOK
  <2> QED  BY <1>1, <1>3, <2>1
<1>5. LastFits(LastValue(raws, 7, 2 + Word), 2 + Word, AddressesOf(2 + Word), raws, 7)
  <2>1. \A x : IsRaw(x) /\ TypeCode(x) = 7 => Len(Value(x)) >= 2 + Word
    BY <1>2 DEF ValueOK
  <2> QED  BY <1>1, <1>3, <2>1
<1>6. LastFits(LastValue(raws, 1, 1), 1, {<<0>>, <<1>>, <<2>>}, raws, 1)
  <2> SUFFICES ASSUME LastValue(raws, 1, 1) # None
               PROVE  /\ LastValue(raws, 1, 1) \in {<<0>>, <<1>>, <<2>>}
                      /\ AttrRoom(1) <= Room(raws, {1})
    BY DEF LastFits
  <2> DEFINE y == LastValue(raws, 1, 1)
  <2>1. ASSUME NEW x, IsRaw(x), TypeCode(x) = 1
        PROVE  Len(Value(x)) >= 1 /\ Value(x)[1] \in 0..2
    <3>1. Value(x) # <<>> /\ Value(x)[1] \in 0..2 /\ Value(x) \in Seq(Bytes)
      BY <1>2, <2>1 DEF ValueOK
    <3> DEFINE v == Value(x)
    <3> HIDE DEF v
    <3>2. Len(v) >= 1
      BY <3>1 DEF v
    <3> QED  BY <3>1, <3>2 DEF v
  <2>2. y = None \/ LastIs(y, raws, 1, 1)
    BY <1>1, <2>1, LastRead
  <2> HIDE DEF y
  <2>3. LastIs(y, raws, 1, 1)
    BY <2>2 DEF y
  <2>4. PICK x : IsRaw(x) /\ TypeCode(x) = 1 /\ y = SubSeq(Value(x), 1, 1)
    BY <2>3, Zenon DEF LastIs
  <2> DEFINE v == Value(x)
  <2>5. v \in Seq(Bytes) /\ Len(v) \in Nat /\ Len(v) >= 1 /\ v[1] \in 0..2
    BY <1>2, <2>1, <2>4
  <2>6. y = SubSeq(v, 1, 1)
    BY <2>4
  <2> HIDE DEF v
  <2>7. y = <<v[1]>>
    <3>1. 1 \in 0..Len(v) /\ 0 + 1 = 1 /\ 1 \in 1..1
      BY <2>5
    <3>2. IsSlice(y, v, 0, 1, Bytes)
      BY <2>5, <2>6, <3>1, SubSeqIs, Zenon
    <3>3. y \in Seq(Bytes) /\ Len(y) = 1 /\ y[1] = v[0 + 1]
      BY <3>1, <3>2, Zenon DEF IsSlice
    <3>4. y = <<y[1]>>
      BY <3>3
    <3> QED  BY <3>1, <3>3, <3>4, Zenon
  <2>8. v[1] \in {0, 1, 2}
    BY <2>5
  <2>9. y \in {<<0>>, <<1>>, <<2>>}
    BY <2>7, <2>8
  <2> QED  BY <2>3, <2>9 DEF LastIs, y
<1> QED  BY <1>4, <1>5, <1>6

\* ATOMIC_AGGREGATE, which has no value.
LEMMA AtomicRead ==
    ASSUME NEW raws, Group(raws, Bytes), NEW t, Values(raws, t) # <<>>
    PROVE  AttrRoom(0) <= Room(raws, {t})
<1> DEFINE of == OfType(raws, {t})
           n == Len(of)
           c == [i \in 0..n |-> 0]
<1>1. Group(of, {t}) /\ Values(raws, t) = ValuesOf(of) /\ Room(raws, {t}) = Len(FlattenSeq(of))
  BY ValuesRead
<1> HIDE DEF of
<1>2. of \in Seq(Seq(Bytes)) /\ n \in Nat /\ DOMAIN of = 1..n /\ \A i \in 1..n : IsRaw(of[i])
  BY <1>1 DEF Group
<1>3. n # 0
  <2> SUFFICES ASSUME n = 0 PROVE Values(raws, t) = <<>>
    OBVIOUS
  <2>1. DOMAIN of = {}
    BY <1>2
  <2> QED  BY <1>1, <2>1 DEF ValuesOf
<1>4. c \in [0..n -> Nat] /\ \A i \in 0..n : c[i] = 0
  OBVIOUS
<1> HIDE DEF c
<1>5. \A i \in 1..n : c[i] <= c[i - 1] + Len(Value(of[i]))
  <2> SUFFICES ASSUME NEW i \in 1..n PROVE c[i] <= c[i - 1] + Len(Value(of[i]))
    OBVIOUS
  <2>1. i - 1 \in 0..n /\ i \in 0..n
    BY <1>2
  <2>2. c[i] = 0 /\ c[i - 1] = 0 /\ Len(Value(of[i])) \in Nat
    BY <1>2, <1>4, <2>1, RawRead
  <2> QED  BY <2>2
<1>6. c[0] = 0 /\ c[n] = 0
  BY <1>2, <1>4
<1>7. AttrRoom(c[n]) <= Len(FlattenSeq(of))
  BY <1>1, <1>3, <1>4, <1>5, <1>6, GroupFits
<1> QED  BY <1>1, <1>6, <1>7

\* What fits into the bytes of an attribute that was read has a length of two
\* bytes.
LEMMA RoomIsShort ==
    ASSUME NEW raws, Group(raws, Bytes), Len(FlattenSeq(raws)) < Byte * Byte,
           NEW t \in Bytes, NEW l \in Nat, AttrRoom(l) <= Room(raws, {t})
    PROVE  l < Byte * Byte
<1> DEFINE r == Room(raws, {t})
           B == Byte * Byte
           F == Len(FlattenSeq(raws))
<1>1. r \in Nat /\ r <= F
  BY RoomInside
<1>2. B \in Nat /\ Byte \in Nat
  BY ByteFacts
<1>3. F \in Nat
  <2>1. raws \in Seq(Seq(Bytes))
    BY DEF Group
  <2>2. FlattenSeq(raws) \in Seq(Bytes)
    BY <2>1, FlattenType
  <2> QED  BY <2>2
<1>4. AttrRoom(l) <= r /\ F < B
  OBVIOUS
<1> HIDE DEF r, B, F
<1>5. AttrRoom(l) >= l /\ AttrRoom(l) \in Nat
  BY <1>2 DEF AttrRoom
<1>6. l < B
  BY <1>1, <1>2, <1>3, <1>4, <1>5
<1> QED  BY <1>6 DEF B

\* There is room for every field of a.
Housed(a, raws) ==
    /\ LastFits(a.origin, 1, {<<0>>, <<1>>, <<2>>}, raws, 1)
    /\ ListFits(a.as_path, Len(SegmentsBytes(a.as_path)), raws, 2)
    /\ LastFits(a.next_hop, Word, AddressesOf(Word), raws, 3)
    /\ LastFits(a.multi_exit_disc, Word, AddressesOf(Word), raws, 4)
    /\ LastFits(a.local_pref, Word, AddressesOf(Word), raws, 5)
    /\ a.atomic_aggregate => AttrRoom(0) <= Room(raws, {6})
    /\ LastFits(a.aggregator, 2 + Word, AddressesOf(2 + Word), raws, 7)
    /\ ListFits(a.communities, Len(FlattenSeq(a.communities)), raws, 8)
    /\ LastFits(a.originator_id, Word, AddressesOf(Word), raws, 9)
    /\ ListFits(a.cluster_list, Len(FlattenSeq(a.cluster_list)), raws, 10)
    /\ Len(FlattenSeq(RawUnknown(a.unknown))) = Room(raws, Bytes \ 1..10)

\* What PathAttributes::parse collects can be written.
LEMMA CollectedRead ==
    ASSUME NEW raws, Group(raws, Bytes), Len(FlattenSeq(raws)) < Byte * Byte,
           NEW a, a = Collected(raws), ~LongFlagKept(a)
    PROVE  a \in AttributesOnWire /\ Housed(a, raws)
<1> DEFINE of == OfType(raws, Bytes \ 1..10)
           us == [i \in DOMAIN of |-> [flags |-> of[i][1], type_code |-> TypeCode(of[i]),
                                       value |-> Value(of[i])]]
           P == FlattenSeq([i \in DOMAIN Values(raws, 2) |-> Segments(Values(raws, 2)[i])])
           C(t) == FlattenSeq([i \in DOMAIN Values(raws, t) |-> Words(Values(raws, t)[i])])
<1>1. a = [origin |-> LastValue(raws, 1, 1), as_path |-> P,
           next_hop |-> LastValue(raws, 3, Word), multi_exit_disc |-> LastValue(raws, 4, Word),
           local_pref |-> LastValue(raws, 5, Word),
           atomic_aggregate |-> Values(raws, 6) # <<>>,
           aggregator |-> LastValue(raws, 7, 2 + Word), communities |-> C(8),
           originator_id |-> LastValue(raws, 9, Word), cluster_list |-> C(10),
           unknown |-> us]
  BY DEF Collected
<1>2. /\ a.origin = LastValue(raws, 1, 1) /\ a.as_path = P
      /\ a.next_hop = LastValue(raws, 3, Word) /\ a.multi_exit_disc = LastValue(raws, 4, Word)
      /\ a.local_pref = LastValue(raws, 5, Word)
      /\ a.atomic_aggregate = (Values(raws, 6) # <<>>)
      /\ a.aggregator = LastValue(raws, 7, 2 + Word) /\ a.communities = C(8)
      /\ a.originator_id = LastValue(raws, 9, Word) /\ a.cluster_list = C(10)
      /\ a.unknown = us
  <2> HIDE DEF us, P, C
  <2> QED  BY <1>1
<1>3. /\ LastFits(a.origin, 1, {<<0>>, <<1>>, <<2>>}, raws, 1)
      /\ LastFits(a.next_hop, Word, AddressesOf(Word), raws, 3)
      /\ LastFits(a.multi_exit_disc, Word, AddressesOf(Word), raws, 4)
      /\ LastFits(a.local_pref, Word, AddressesOf(Word), raws, 5)
      /\ LastFits(a.aggregator, 2 + Word, AddressesOf(2 + Word), raws, 7)
      /\ LastFits(a.originator_id, Word, AddressesOf(Word), raws, 9)
  <2>1. /\ LastFits(LastValue(raws, 1, 1), 1, {<<0>>, <<1>>, <<2>>}, raws, 1)
        /\ \A t \in {3, 4, 5, 9} :
             LastFits(LastValue(raws, t, Word), Word, AddressesOf(Word), raws, t)
        /\ LastFits(LastValue(raws, 7, 2 + Word), 2 + Word, AddressesOf(2 + Word), raws, 7)
    BY LastFields
  <2> HIDE DEF us, P, C
  <2> QED  BY <1>2, <2>1
<1>4. a.as_path \in SegmentLists /\ ListFits(a.as_path, Len(SegmentsBytes(a.as_path)), raws, 2)
  BY <1>2, SegmentListRead
<1>5. /\ a.communities \in AddressSeqs
      /\ ListFits(a.communities, Len(FlattenSeq(a.communities)), raws, 8)
  BY <1>2, WordListRead
<1>6. /\ a.cluster_list \in AddressSeqs
      /\ ListFits(a.cluster_list, Len(FlattenSeq(a.cluster_list)), raws, 10)
  BY <1>2, WordListRead
<1>7. a.atomic_aggregate \in BOOLEAN /\ (a.atomic_aggregate => AttrRoom(0) <= Room(raws, {6}))
  <2>1. a.atomic_aggregate = (Values(raws, 6) # <<>>)
    BY <1>2
  <2> QED  BY <2>1, AtomicRead
<1>8. /\ a.unknown \in Seq(UnknownOnWire)
      /\ Len(FlattenSeq(RawUnknown(a.unknown))) = Room(raws, Bytes \ 1..10)
  <2>1. Group(of, Bytes \ 1..10)
    BY OfTypeGroup
  <2>2. \A i \in DOMAIN us : IsExtended(us[i].flags) => ~(Len(us[i].value) < Byte)
    <3> DEFINE u == a.unknown
    <3>1. u = us
      BY <1>2
    <3>2. \A i \in DOMAIN u : ~(IsExtended(u[i].flags) /\ Len(u[i].value) < Byte)
      BY DEF LongFlagKept
    <3> HIDE DEF u, us
    <3> QED  BY <3>1, <3>2, Zenon
  <2>3. us \in Seq(UnknownOnWire) /\ Len(FlattenSeq(RawUnknown(us))) = Len(FlattenSeq(of))
    BY <2>1, <2>2, UnknownsRead
  <2> HIDE DEF us
  <2> QED  BY <1>2, <2>3 DEF Room
<1> HIDE DEF us, P, C
<1>9. ASSUME NEW y, NEW l \in Nat, NEW t \in {2, 8, 10}, y = <<>> => l = 0, ListFits(y, l, raws, t)
      PROVE  l < Byte * Byte
  <2>1. t \in Bytes
    BY ByteFacts
  <2>2. CASE y = <<>>
    <3>1. l = 0 /\ Byte \in Nat /\ Byte >= 16
      BY <1>9, <2>2, ByteFacts
    <3> QED  BY <3>1
  <2>3. CASE y # <<>>
    BY <1>9, <2>1, <2>3, RoomIsShort DEF ListFits
  <2> QED  BY <2>2, <2>3
<1>10. Len(SegmentsBytes(a.as_path)) < Byte * Byte
  <2> DEFINE y == a.as_path
             l == Len(SegmentsBytes(y))
  <2>1. SegmentsBytes(y) \in Seq(Bytes)
    BY <1>4, SegmentsConcat
  <2>2. y = <<>> => l = 0
    <3> SUFFICES ASSUME y = <<>> PROVE l = 0
      OBVIOUS
    <3>1. [i \in DOMAIN <<>> |-> SegmentBytes(<<>>[i])] = <<>> /\ Len(<<>>) = 0
      OBVIOUS
    <3>2. SegmentsBytes(<<>>) = <<>>
      BY <3>1, FlattenNone, Zenon DEF SegmentsBytes
    <3> QED  BY <3>1, <3>2
  <2>3. l \in Nat
    BY <2>1
  <2> HIDE DEF l
  <2> QED  BY <1>4, <1>9, <2>2, <2>3 DEF l
<1>11. ASSUME NEW y \in AddressSeqs, NEW t \in {8, 10}, ListFits(y, Len(FlattenSeq(y)), raws, t)
       PROVE  Len(FlattenSeq(y)) < Byte * Byte
  <2> DEFINE l == Len(FlattenSeq(y))
  <2>1. FlattenSeq(y) \in Seq(Bytes)
    BY AddressLists
  <2>2. y = <<>> => l = 0
    BY FlattenNone
  <2>3. l \in Nat
    BY <2>1
  <2> HIDE DEF l
  <2> QED  BY <1>9, <1>11, <2>2, <2>3 DEF l
<1>12. Len(FlattenSeq(a.communities)) < Byte * Byte /\ Len(FlattenSeq(a.cluster_list)) < Byte * Byte
  BY <1>5, <1>6, <1>11
<1>13. a \in [origin : {None, <<0>>, <<1>>, <<2>>}, as_path : Seq(SegmentsOnWire),
              next_hop : {None} \cup AddressesOf(Word),
              multi_exit_disc : {None} \cup AddressesOf(Word),
              local_pref : {None} \cup AddressesOf(Word), atomic_aggregate : BOOLEAN,
              aggregator : {None} \cup AddressesOf(2 + Word),
              communities : Seq(AddressesOf(Word)),
              originator_id : {None} \cup AddressesOf(Word),
              cluster_list : Seq(AddressesOf(Word)), unknown : Seq(UnknownOnWire)]
  <2>1. /\ a.origin \in {None, <<0>>, <<1>>, <<2>>}
        /\ a.next_hop \in {None} \cup AddressesOf(Word)
        /\ a.multi_exit_disc \in {None} \cup AddressesOf(Word)
        /\ a.local_pref \in {None} \cup AddressesOf(Word)
        /\ a.aggregator \in {None} \cup AddressesOf(2 + Word)
        /\ a.originator_id \in {None} \cup AddressesOf(Word)
    BY <1>3 DEF LastFits
  <2>2. /\ a.as_path \in Seq(SegmentsOnWire) /\ a.communities \in Seq(AddressesOf(Word))
        /\ a.cluster_list \in Seq(AddressesOf(Word)) /\ a.atomic_aggregate \in BOOLEAN
        /\ a.unknown \in Seq(UnknownOnWire)
    BY <1>4, <1>5, <1>6, <1>7, <1>8 DEF SegmentLists, AddressSeqs
  <2>3. a = [origin |-> a.origin, as_path |-> a.as_path, next_hop |-> a.next_hop,
             multi_exit_disc |-> a.multi_exit_disc, local_pref |-> a.local_pref,
             atomic_aggregate |-> a.atomic_aggregate, aggregator |-> a.aggregator,
             communities |-> a.communities, originator_id |-> a.originator_id,
             cluster_list |-> a.cluster_list, unknown |-> a.unknown]
    BY <1>1, <1>2, Zenon
  <2> QED  BY <2>1, <2>2, <2>3, Zenon
<1>14. a \in AttributesOnWire
  BY <1>10, <1>12, <1>13, Zenon DEF AttributesOnWire
<1> QED  BY <1>3, <1>4, <1>5, <1>6, <1>7, <1>8, <1>14, Zenon DEF Housed

\* What is written for a field is no longer than what it was read from.
LEMMA SomeWithin ==
    ASSUME NEW raws, Group(raws, Bytes), NEW R, NEW flags \in KnownFlags, NEW t \in Bytes,
           NEW v, NEW n \in Nat, NEW S, SomeFacts(R, flags, t, v, n),
           LastFits(v, n, S, raws, t), v # None => v \in Seq(Bytes) /\ Len(v) = n
    PROVE  Len(FlattenSeq(R)) <= Room(raws, {t})
<1>1. Room(raws, {t}) \in Nat
  BY RoomInside
<1>2. flags \in Nat /\ t \in Nat
  BY KnownFlagFacts, ByteFacts
<1>3. CASE v = None
  <2>1. FlattenSeq(R) = <<>> /\ Len(<<>>) = 0
    BY <1>3 DEF SomeFacts
  <2> QED  BY <1>1, <2>1
<1>4. CASE v # None
  <2>1. FlattenSeq(R) = WriteAttr(flags, t, v)
    BY <1>4 DEF SomeFacts
  <2>2. Len(WriteAttr(flags, t, v)) = AttrRoom(n)
    BY <1>2, <1>4, WriteAttrRoom
  <2> QED  BY <1>4, <2>1, <2>2 DEF LastFits
<1> QED  BY <1>3, <1>4

LEMMA ListWithin ==
    ASSUME NEW raws, Group(raws, Bytes), NEW R, NEW flags \in KnownFlags, NEW t \in Bytes,
           NEW vs, NEW v \in Seq(Bytes), ListFacts(R, flags, t, vs, v),
           ListFits(vs, Len(v), raws, t)
    PROVE  Len(FlattenSeq(R)) <= Room(raws, {t})
<1>1. Room(raws, {t}) \in Nat
  BY RoomInside
<1>2. flags \in Nat /\ t \in Nat
  BY KnownFlagFacts, ByteFacts
<1>3. CASE vs = <<>>
  <2>1. FlattenSeq(R) = <<>> /\ Len(<<>>) = 0
    BY <1>3 DEF ListFacts
  <2> QED  BY <1>1, <2>1
<1>4. CASE vs # <<>>
  <2>1. FlattenSeq(R) = WriteAttr(flags, t, v)
    BY <1>4 DEF ListFacts
  <2>2. Len(WriteAttr(flags, t, v)) = AttrRoom(Len(v))
    BY <1>2, WriteAttrRoom
  <2> QED  BY <1>4, <2>1, <2>2 DEF ListFits
<1> QED  BY <1>3, <1>4

\* Attributes that are written again are no longer than they were.
LEMMA AttributesShrink ==
    ASSUME NEW raws, Group(raws, Bytes), NEW a \in AttributesOnWire, Housed(a, raws)
    PROVE  Len(SerializeAttributes(a)) <= Len(FlattenSeq(raws))
<1> DEFINE W == AttrsWritten(a)
           s == RawsOf(a)
<1>1. /\ Group(W, Bytes) /\ \A j \in 1..10 : OfType(W, {j}) = s[j]
      /\ OfType(W, Bytes \ 1..10) = RawUnknown(a.unknown)
  BY AttributesSorted
<1>2. /\ s[1] = RawSome(Transitive, 1, a.origin)
      /\ s[2] = RawList(Transitive, 2, a.as_path, SegmentsBytes(a.as_path))
      /\ s[3] = RawSome(Transitive, 3, a.next_hop)
      /\ s[4] = RawSome(Optional, 4, a.multi_exit_disc)
      /\ s[5] = RawSome(Transitive, 5, a.local_pref)
      /\ s[6] = RawAtomic(a.atomic_aggregate)
      /\ s[7] = RawSome(Optional + Transitive, 7, a.aggregator)
      /\ s[8] = RawList(Optional + Transitive, 8, a.communities, FlattenSeq(a.communities))
      /\ s[9] = RawSome(Optional, 9, a.originator_id)
      /\ s[10] = RawList(Optional, 10, a.cluster_list, FlattenSeq(a.cluster_list))
  BY DEF RawsOf
<1>3. /\ Transitive \in KnownFlags /\ Optional \in KnownFlags
      /\ Optional + Transitive \in KnownFlags
  BY DEF KnownFlags
<1>4. \A j \in 1..10 : j \in Bytes
  BY ByteFacts
<1>5. Word \in Nat /\ 2 + Word \in Nat /\ 1 \in Nat
  BY OctetsAssumption
<1>6. \A n \in Nat : \A v \in AddressesOf(n) : v \in Seq(Bytes) /\ Len(v) = n
  BY DEF AddressesOf
<1> HIDE DEF s, W
<1> DEFINE L(j) == Len(FlattenSeq(s[j])) <= Room(raws, {j})
<1>7. L(1)
  <2>1. SomeFacts(s[1], Transitive, 1, a.origin, 1)
    BY <1>2, OptionsBack
  <2>2. LastFits(a.origin, 1, {<<0>>, <<1>>, <<2>>}, raws, 1)
    BY DEF Housed
  <2>3. a.origin # None => a.origin \in Seq(Bytes) /\ Len(a.origin) = 1
    <3> SUFFICES ASSUME a.origin # None PROVE a.origin \in Seq(Bytes) /\ Len(a.origin) = 1
      OBVIOUS
    <3>1. PICK x \in {0, 1, 2} : a.origin = <<x>>
      BY DEF AttributesOnWire
    <3>2. x \in Bytes
      BY ByteFacts
    <3> QED  BY <3>1, <3>2
  <2>4. 1 \in Bytes
    BY <1>4
  <2> QED  BY <1>3, <1>5, <2>1, <2>2, <2>3, <2>4, SomeWithin
<1>8. ASSUME NEW j \in {3, 4, 5, 7, 9}, NEW flags \in KnownFlags, NEW v, NEW n \in Nat,
             SomeFacts(s[j], flags, j, v, n), LastFits(v, n, AddressesOf(n), raws, j)
      PROVE  L(j)
  <2>1. j \in Bytes
    BY <1>4
  <2>2. v # None => v \in Seq(Bytes) /\ Len(v) = n
    BY <1>6, <1>8 DEF LastFits
  <2> QED  BY <1>8, <2>1, <2>2, SomeWithin
<1>9. L(3) /\ L(4) /\ L(5) /\ L(7) /\ L(9)
  <2>1. /\ SomeFacts(s[3], Transitive, 3, a.next_hop, Word)
        /\ SomeFacts(s[4], Optional, 4, a.multi_exit_disc, Word)
        /\ SomeFacts(s[5], Transitive, 5, a.local_pref, Word)
        /\ SomeFacts(s[7], Optional + Transitive, 7, a.aggregator, 2 + Word)
        /\ SomeFacts(s[9], Optional, 9, a.originator_id, Word)
    BY <1>2, OptionsBack
  <2>2. /\ LastFits(a.next_hop, Word, AddressesOf(Word), raws, 3)
        /\ LastFits(a.multi_exit_disc, Word, AddressesOf(Word), raws, 4)
        /\ LastFits(a.local_pref, Word, AddressesOf(Word), raws, 5)
        /\ LastFits(a.aggregator, 2 + Word, AddressesOf(2 + Word), raws, 7)
        /\ LastFits(a.originator_id, Word, AddressesOf(Word), raws, 9)
    BY Zenon DEF Housed
  <2> HIDE DEF L
  <2> QED  BY <1>3, <1>5, <1>8, <2>1, <2>2
<1>10. L(2) /\ L(8) /\ L(10)
  <2>1. /\ ListFacts(s[2], Transitive, 2, a.as_path, SegmentsBytes(a.as_path))
        /\ ListFacts(s[8], Optional + Transitive, 8, a.communities, FlattenSeq(a.communities))
        /\ ListFacts(s[10], Optional, 10, a.cluster_list, FlattenSeq(a.cluster_list))
    BY <1>2, ListsBack
  <2>2. /\ ListFits(a.as_path, Len(SegmentsBytes(a.as_path)), raws, 2)
        /\ ListFits(a.communities, Len(FlattenSeq(a.communities)), raws, 8)
        /\ ListFits(a.cluster_list, Len(FlattenSeq(a.cluster_list)), raws, 10)
    BY Zenon DEF Housed
  <2>3. /\ SegmentsBytes(a.as_path) \in Seq(Bytes)
        /\ FlattenSeq(a.communities) \in Seq(Bytes) /\ FlattenSeq(a.cluster_list) \in Seq(Bytes)
    <3>1. /\ a.as_path \in SegmentLists /\ a.communities \in AddressSeqs
          /\ a.cluster_list \in AddressSeqs
      BY DEF AttributesOnWire, SegmentLists, AddressSeqs
    <3> QED  BY <3>1, SegmentsConcat, AddressLists
  <2>4. 2 \in Bytes /\ 8 \in Bytes /\ 10 \in Bytes
    BY <1>4
  <2> QED  BY <1>3, <2>1, <2>2, <2>3, <2>4, ListWithin
<1>11. L(6)
  <2>1. a.atomic_aggregate \in BOOLEAN /\ (a.atomic_aggregate => AttrRoom(0) <= Room(raws, {6}))
    BY DEF Housed, AttributesOnWire
  <2>2. FlattenSeq(s[6]) = IF a.atomic_aggregate THEN WriteAttr(Transitive, 6, <<>>) ELSE <<>>
    BY <1>2, <2>1, AtomicBack
  <2>3. Room(raws, {6}) \in Nat
    BY <1>4, RoomInside
  <2>4. <<>> \in Seq(Bytes) /\ Len(<<>>) = 0 /\ 6 \in Nat
    OBVIOUS
  <2>5. Len(WriteAttr(Transitive, 6, <<>>)) = AttrRoom(0)
    <3>1. Transitive \in Nat
      BY <1>3, KnownFlagFacts, ByteFacts
    <3> QED  BY <2>4, <3>1, WriteAttrRoom
  <2> QED  BY <2>1, <2>2, <2>3, <2>4, <2>5
<1>12. \A j \in 1..10 : Within(W, raws, {j})
  <2> SUFFICES ASSUME NEW j \in 1..10 PROVE Within(W, raws, {j})
    OBVIOUS
  <2>1. L(j)
    <3>1. j \in {1, 2, 3, 4, 5, 6, 7, 8, 9, 10}
      OBVIOUS
    <3> HIDE DEF L
    <3> QED  BY <1>7, <1>9, <1>10, <1>11, <3>1, Zenon
  <2> QED  BY <1>1, <2>1 DEF Within, Room
<1>13. Within(W, raws, Bytes \ 1..10)
  <2>1. Len(FlattenSeq(RawUnknown(a.unknown))) = Room(raws, Bytes \ 1..10)
    BY DEF Housed
  <2>2. Room(W, Bytes \ 1..10) = Room(raws, Bytes \ 1..10)
    BY <1>1, <2>1 DEF Room
  <2>3. Room(raws, Bytes \ 1..10) \in Nat
    BY RoomInside
  <2> QED  BY <2>2, <2>3 DEF Within
<1>14. Len(FlattenSeq(W)) <= Len(FlattenSeq(raws))
  BY <1>1, <1>12, <1>13, WithinAll
<1>15. SerializeAttributes(a) = FlattenSeq(W)
  BY SerializedRaws DEF AttrsWritten, W
<1> QED  BY <1>14, <1>15

\* Attributes that were read can be written, in no more bytes.
LEMMA AttributesRead ==
    ASSUME NEW b \in Seq(Bytes), Len(b) < Byte * Byte,
           ParseAttributes(b) \notin {Err, Panic}, ~LongFlagKept(ParseAttributes(b))
    PROVE  /\ ParseAttributes(b) \in AttributesOnWire
           /\ Len(SerializeAttributes(ParseAttributes(b))) <= Len(b)
<1> DEFINE a == ParseAttributes(b)
<1>1. PICK raws : /\ Group(raws, Bytes) /\ a = Collected(raws)
                  /\ Len(FlattenSeq(raws)) <= Len(b) /\ FlattenSeq(raws) \in Seq(Bytes)
  BY AttrsRead
<1>2. ~LongFlagKept(a)
  OBVIOUS
<1> HIDE DEF a
<1> DEFINE F == Len(FlattenSeq(raws))
<1>3. F \in Nat /\ Len(b) \in Nat /\ Byte * Byte \in Nat
  BY <1>1, ByteFacts
<1>4. F < Byte * Byte /\ F <= Len(b)
  <2> DEFINE B == Byte * Byte
  <2>1. F <= Len(b) /\ Len(b) < B /\ B \in Nat
    BY <1>1, <1>3
  <2> HIDE DEF B, F
  <2>2. F < B
    BY <1>3, <2>1
  <2> QED  BY <2>1, <2>2 DEF B
<1>5. a \in AttributesOnWire /\ Housed(a, raws)
  BY <1>1, <1>2, <1>4, CollectedRead
<1>6. Len(SerializeAttributes(a)) <= F
  BY <1>1, <1>5, AttributesShrink
<1>7. Len(SerializeAttributes(a)) \in Nat
  <2>1. SerializeAttributes(a) \in Seq(Bytes)
    BY <1>5, AttributesBack
  <2> QED  BY <2>1
<1> HIDE DEF F
<1>8. Len(SerializeAttributes(a)) <= Len(b)
  BY <1>3, <1>4, <1>6, <1>7
<1> QED  BY <1>5, <1>8 DEF a

LEMMA RestOfRest ==
    ASSUME NEW S, NEW b \in Seq(S), NEW p \in 0..Len(b), NEW q \in 0..(Len(b) - p)
    PROVE  Rest(Rest(b, p), q) = Rest(b, p + q) /\ p + q \in 0..Len(b)
<1> DEFINE x == Rest(b, p)
           y == Rest(x, q)
           z == Rest(b, p + q)
           n == Len(b)
<1>1. n \in Nat /\ p \in 0..n /\ q \in 0..(n - p) /\ p + q \in 0..n
  OBVIOUS
<1>2. x \in Seq(S) /\ Len(x) = n - p /\ \A j \in 1..(n - p) : x[j] = b[p + j]
  <2>1. IsRest(x, b, p, S)
    BY RestIs
  <2> QED  BY <2>1, Zenon DEF IsRest
<1>3. z \in Seq(S) /\ Len(z) = n - (p + q) /\ \A j \in 1..(n - (p + q)) : z[j] = b[(p + q) + j]
  <2>1. IsRest(z, b, p + q, S)
    BY <1>1, RestIs
  <2> QED  BY <2>1, Zenon DEF IsRest
<1> HIDE DEF x, z, n
<1>4. y \in Seq(S) /\ Len(y) = Len(x) - q /\ \A j \in 1..(Len(x) - q) : y[j] = x[q + j]
  <2>1. q \in 0..Len(x)
    BY <1>1, <1>2
  <2>2. IsRest(y, x, q, S)
    BY <1>2, <2>1, RestIs
  <2> QED  BY <2>2, Zenon DEF IsRest
<1> HIDE DEF y
<1>5. ASSUME NEW j \in 1..Len(y) PROVE y[j] = z[j]
  <2>1. j \in 1..(Len(x) - q) /\ j \in 1..(n - (p + q)) /\ q + j \in 1..(n - p)
    BY <1>1, <1>2, <1>4
  <2>2. y[j] = x[q + j] /\ x[q + j] = b[p + (q + j)] /\ z[j] = b[(p + q) + j]
    BY <1>2, <1>3, <1>4, <2>1
  <2>3. p + (q + j) = (p + q) + j
    BY <1>1, <2>1
  <2> QED  BY <2>2, <2>3
<1>6. Len(y) = Len(z)
  BY <1>1, <1>2, <1>3, <1>4
<1>7. y = z
  BY <1>3, <1>4, <1>5, <1>6, SameSeq
<1> QED  BY <1>1, <1>7 DEF x, y, z, n

\* A length of two bytes and what is behind it: a part of that length, and the
\* rest.
CountedRead(b, l, x, c) ==
    /\ l \in Nat /\ l < Byte * Byte /\ 2 + l \in 0..Len(b)
    /\ x \in Seq(Bytes) /\ Len(x) = l
    /\ c \in Seq(Bytes) /\ c = Rest(b, 2 + l)

LEMMA PartRead ==
    ASSUME NEW b \in Seq(Bytes), Len(b) >= 2, ~(Len(Rest(b, 2)) < GetU16(b))
    PROVE  CountedRead(b, GetU16(b), SubSeq(Rest(b, 2), 1, GetU16(b)), Rest(Rest(b, 2), GetU16(b)))
<1> DEFINE l == GetU16(b)
           y == Rest(b, 2)
           x == SubSeq(y, 1, l)
           c == Rest(y, l)
<1>1. l \in Nat /\ l < Byte * Byte
  BY GetU16Type
<1>2. Len(b) \in Nat /\ 2 \in 0..Len(b)
  OBVIOUS
<1>3. y \in Seq(Bytes) /\ Len(y) = Len(b) - 2
  <2>1. IsRest(y, b, 2, Bytes)
    BY <1>2, RestIs
  <2> QED  BY <2>1, Zenon DEF IsRest
<1>4. ~(Len(y) < l)
  OBVIOUS
<1> HIDE DEF l, y
<1>5. l \in 0..Len(y) /\ l \in 0..(Len(b) - 2)
  BY <1>1, <1>2, <1>3, <1>4
<1>6. x \in Seq(Bytes) /\ Len(x) = l
  <2>1. IsSlice(x, y, 0, l, Bytes)
    BY <1>3, <1>5, SubSeqIs
  <2> QED  BY <2>1, Zenon DEF IsSlice
<1>7. c \in Seq(Bytes)
  <2>1. IsRest(c, y, l, Bytes)
    BY <1>3, <1>5, RestIs
  <2> QED  BY <2>1, Zenon DEF IsRest
<1>8. c = Rest(b, 2 + l) /\ 2 + l \in 0..Len(b)
  BY <1>2, <1>5, RestOfRest DEF y
<1>9. CountedRead(b, l, x, c)
  BY <1>1, <1>6, <1>7, <1>8, Zenon DEF CountedRead
<1> QED  BY <1>9 DEF l, x, c, y

LEMMA UpdateRead ==
    ASSUME NEW b \in Seq(Bytes), NEW m, m = ParseUpdate(b), m \notin {Err, Panic},
           LegalPrefixes(m.withdrawn_routes), LegalPrefixes(m.nlri),
           ~LongFlagKept(m.path_attributes)
    PROVE  m \in Updates /\ IsSuffix(SerializePrefixes(m.nlri), b)
<1> DEFINE l == GetU16(b)
           x == SubSeq(Rest(b, 2), 1, l)
           c == Rest(Rest(b, 2), l)
           W == ParsePrefixes(x, Word)
           k == GetU16(c)
           u == SubSeq(Rest(c, 2), 1, k)
           r == Rest(Rest(c, 2), k)
           A == ParseAttributes(u)
           N == ParsePrefixes(r, Word)
<1>1. /\ ~(Len(b) < 4) /\ ~(Len(Rest(b, 2)) < l) /\ W \notin {Err, Panic}
      /\ m = ParseRoutes(W, c)
  <2> HIDE DEF W, c
  <2>1. m = IF Len(b) < 4 THEN Err
            ELSE IF Len(Rest(b, 2)) < l THEN Err
            ELSE IF W \in {Err, Panic} THEN W
            ELSE ParseRoutes(W, c)
    BY Zenon DEF ParseUpdate, Try, W, c
  <2> QED  BY <2>1, Zenon
<1>2. Len(b) \in Nat /\ Len(b) >= 2
  BY <1>1
<1>3. CountedRead(b, l, x, c)
  BY <1>1, <1>2, PartRead
<1> HIDE DEF l, x, c
<1>4. /\ ~(Len(c) < 2) /\ ~(Len(Rest(c, 2)) < k) /\ A \notin {Err, Panic} /\ N \notin {Err, Panic}
      /\ m = [withdrawn_routes |-> W, path_attributes |-> A, nlri |-> N]
  <2> HIDE DEF W, A, N
  <2> DEFINE res == [withdrawn_routes |-> W, path_attributes |-> A, nlri |-> N]
  <2>1. m = IF Len(c) < 2 THEN Panic
            ELSE IF Len(Rest(c, 2)) < k THEN Err
            ELSE IF A \in {Err, Panic} THEN A
            ELSE IF N \in {Err, Panic} THEN N
            ELSE res
    BY <1>1, Zenon DEF ParseRoutes, Try, A, N
  <2> HIDE DEF res
  <2>2. ~(Len(c) < 2) /\ ~(Len(Rest(c, 2)) < k) /\ A \notin {Err, Panic} /\ N \notin {Err, Panic} /\ m = res
    BY <2>1, Zenon
  <2> QED  BY <2>2, Zenon DEF res
<1>5. /\ l \in Nat /\ l < Byte * Byte /\ 2 + l \in 0..Len(b) /\ x \in Seq(Bytes) /\ Len(x) = l
      /\ c \in Seq(Bytes) /\ c = Rest(b, 2 + l)
  BY <1>3, Zenon DEF CountedRead
<1>6. CountedRead(c, k, u, r)
  <2>1. Len(c) >= 2
    BY <1>4, <1>5
  <2> QED  BY <1>4, <1>5, <2>1, PartRead
<1> HIDE DEF k, u, r
<1>7. /\ k \in Nat /\ k < Byte * Byte /\ 2 + k \in 0..Len(c) /\ u \in Seq(Bytes) /\ Len(u) = k
      /\ r \in Seq(Bytes) /\ r = Rest(c, 2 + k)
  BY <1>6, Zenon DEF CountedRead
<1>8. Word \in Nat \ {0} /\ Err \notin Seq(Seq(Bytes)) /\ Panic \notin Seq(Seq(Bytes))
  BY OctetsAssumption, CodecsAssumption
<1>9. m.withdrawn_routes = W /\ m.path_attributes = A /\ m.nlri = N
  <2> HIDE DEF W, A, N
  <2> QED  BY <1>4
<1>10. W \in Seq(PrefixesOf(Word)) /\ SerializePrefixes(W) = x
  <2>1. LegalPrefixes(W)
    BY <1>9
  <2> QED  BY <1>1, <1>5, <1>8, <2>1, PrefixesRead
<1>11. N \in Seq(PrefixesOf(Word)) /\ SerializePrefixes(N) = r
  <2>1. LegalPrefixes(N)
    BY <1>9
  <2> QED  BY <1>4, <1>7, <1>8, <2>1, PrefixesRead
<1>12. A \in AttributesOnWire /\ Len(SerializeAttributes(A)) <= k
  <2>1. ~LongFlagKept(A)
    BY <1>9
  <2>2. Len(u) < Byte * Byte
    BY <1>7
  <2> QED  BY <1>4, <1>7, <2>1, <2>2, AttributesRead
<1> HIDE DEF W, A, N
<1>13. Len(SerializeAttributes(A)) < Byte * Byte
  <2> DEFINE B == Byte * Byte
             n == Len(SerializeAttributes(A))
  <2>1. SerializeAttributes(A) \in Seq(Bytes)
    BY <1>12, AttributesBack
  <2>2. n \in Nat /\ B \in Nat /\ n <= k /\ k < B
    BY <1>7, <1>12, <2>1, ByteFacts
  <2> HIDE DEF B, n
  <2>3. n < B
    BY <1>7, <2>2
  <2> QED  BY <2>3 DEF B, n
<1>14. m \in Updates
  <2>1. m \in [withdrawn_routes : Seq(PrefixesOf(Word)), path_attributes : AttributesOnWire,
               nlri : Seq(PrefixesOf(Word))]
    BY <1>4, <1>10, <1>11, <1>12
  <2>2. Len(SerializePrefixes(m.withdrawn_routes)) < Byte * Byte
    BY <1>5, <1>9, <1>10, Zenon
  <2>3. Len(SerializeAttributes(m.path_attributes)) < Byte * Byte
    BY <1>9, <1>13, Zenon
  <2> QED  BY <2>1, <2>2, <2>3, Zenon DEF Updates
<1>15. IsSuffix(SerializePrefixes(m.nlri), b)
  <2> DEFINE p == 2 + l
             q == 2 + k
  <2>1. p \in 0..Len(b) /\ Len(c) = Len(b) - p
    <3>1. p \in 0..Len(b)
      BY <1>5
    <3> HIDE DEF p
    <3>2. IsRest(Rest(b, p), b, p, Bytes)
      BY <3>1, RestIs
    <3>3. Len(Rest(b, p)) = Len(b) - p
      BY <3>2, Zenon DEF IsRest
    <3> QED  BY <1>5, <3>1, <3>3 DEF p
  <2>2. q \in 0..(Len(b) - p) /\ r = Rest(Rest(b, p), q)
    BY <1>5, <1>7, <2>1, Zenon
  <2> HIDE DEF p, q
  <2>3. r = Rest(b, p + q) /\ p + q \in 0..Len(b)
    BY <2>1, <2>2, RestOfRest
  <2>4. IsSuffix(Rest(b, p + q), b)
    BY <2>3, RestIsSuffix
  <2> QED  BY <1>9, <1>11, <2>3, <2>4, Zenon
<1> QED  BY <1>14, <1>15

\* Every message that was read can be written, and its last list of prefixes is
\* the end of its body.
LEMMA MessageRead ==
    ASSUME NEW k \in Kinds, NEW b \in Seq(Bytes), k = "Attributes" => Len(b) < Byte * Byte,
           NEW m, m = Parse(k, b), m \notin {Err, Panic},
           \A ps \in PrefixLists(k, m) : LegalPrefixes(ps),
           k = "Attributes" => ~LongFlagKept(m),
           k = "Update" => ~LongFlagKept(m.path_attributes)
    PROVE  /\ m \in MessagesOf(k)
           /\ LastList(k) \in {"nlri", "withdrawn"}
                => IsSuffix(SerializePrefixes(m[LastList(k)]), b)
<1>1. CASE k = "Attributes"
  <2>1. m = ParseAttributes(b)
    BY <1>1 DEF Parse
  <2>2. m \in AttributesOnWire
    BY <1>1, <2>1, AttributesRead
  <2> QED  BY <1>1, <2>2 DEF MessagesOf, LastList
<1>2. CASE k = "Update"
  <2>1. m = ParseUpdate(b) /\ LegalPrefixes(m.withdrawn_routes) /\ LegalPrefixes(m.nlri)
    BY <1>2 DEF Parse, PrefixLists
  <2>2. m \in Updates /\ IsSuffix(SerializePrefixes(m.nlri), b)
    BY <1>2, <2>1, UpdateRead
  <2> QED  BY <1>2, <2>2 DEF MessagesOf, LastList
<1>3. CASE k = "Open"
  <2>1. m = ParseOpen(b)
    BY <1>3 DEF Parse
  <2>2. m \in Opens
    BY <2>1, OpenRead
  <2> QED  BY <1>3, <2>2 DEF MessagesOf, LastList
<1>4. CASE k = "Notification"
  <2>1. m = ParseNotification(b)
    BY <1>4 DEF Parse
  <2>2. m \in MessagesOf("Notification")
    BY <2>1, NotificationRead
  <2> QED  BY <1>4, <2>2 DEF LastList
<1>5. CASE k = "RouteRefresh"
  <2>1. m = ParseRouteRefresh(b)
    BY <1>5 DEF Parse
  <2>2. m \in MessagesOf("RouteRefresh")
    BY <2>1, RouteRefreshRead
  <2> QED  BY <1>5, <2>2 DEF LastList
<1>6. CASE k = "MpReach"
  <2>1. m = ParseMpReach(b) /\ LegalPrefixes(m.nlri)
    BY <1>6 DEF Parse, PrefixLists
  <2>2. m \in MpReaches /\ IsSuffix(SerializePrefixes(m.nlri), b)
    BY <2>1, MpReachRead
  <2> QED  BY <1>6, <2>2 DEF MessagesOf, LastList
<1>7. CASE k = "MpUnreach"
  <2>1. m = ParseMpUnreach(b) /\ LegalPrefixes(m.withdrawn)
    BY <1>7 DEF Parse, PrefixLists
  <2>2. m \in MpUnreaches /\ IsSuffix(SerializePrefixes(m.withdrawn), b)
    BY <2>1, MpUnreachRead
  <2> QED  BY <1>7, <2>2 DEF MessagesOf, LastList
<1> QED  BY <1>1, <1>2, <1>3, <1>4, <1>5, <1>6, <1>7 DEF Kinds

\* What the daemon has read it can pass on: whatever bytes a message came from,
\* as long as its prefixes are no longer than addresses and no unknown attribute
\* has a long length for a short value, it is written so that it is read as the
\* same message again, and the prefixes at its end are written as they came.
THEOREM CodecsForwardWhatTheyRead == CodecSpec => []ForwardsWhatItRead
<1>1. BytesInv => ForwardsWhatItRead
  <2> DEFINE got == Parse(kind, body)
             back == /\ Parse(kind, Serialize(kind, got)) = got
                     /\ LastList(kind) \in {"nlri", "withdrawn"}
                          => IsSuffix(SerializePrefixes(got[LastList(kind)]), body)
  <2> SUFFICES ASSUME BytesInv, got \notin {Err, Panic},
                      \A ps \in PrefixLists(kind, got) : LegalPrefixes(ps),
                      kind = "Attributes" => ~LongFlagKept(got),
                      kind = "Update" => ~LongFlagKept(got.path_attributes)
               PROVE  back
    BY Zenon DEF ForwardsWhatItRead
  <2>1. kind \in Kinds
    BY DEF BytesInv, LeftInv, SentInv
  <2>2. CASE kind = "Attributes" /\ sent # NoMessage
    <3>1. body = Serialize(kind, sent) /\ sent \in MessagesOf(kind)
      BY <2>2 DEF BytesInv, LeftInv, SentInv
    <3>2. Parse(kind, Serialize(kind, sent)) = sent
      BY <2>1, <3>1, EveryMessageBack
    <3>3. got = sent
      BY <3>1, <3>2
    <3>4. LastList(kind) \notin {"nlri", "withdrawn"}
      BY <2>2 DEF LastList
    <3> QED  BY <3>2, <3>3, <3>4, Zenon
  <2>3. CASE kind # "Attributes" \/ sent = NoMessage
    <3>1. body \in Seq(Bytes) /\ (kind = "Attributes" => Len(body) < Byte * Byte)
      BY <2>3 DEF BytesInv
    <3> HIDE DEF got
    <3>2. /\ got \in MessagesOf(kind)
          /\ LastList(kind) \in {"nlri", "withdrawn"}
               => IsSuffix(SerializePrefixes(got[LastList(kind)]), body)
      BY <2>1, <3>1, MessageRead, Zenon DEF got
    <3>3. Parse(kind, Serialize(kind, got)) = got
      BY <2>1, <3>2, EveryMessageBack, Zenon
    <3> QED  BY <3>2, <3>3, Zenon
  <2> QED  BY <2>2, <2>3, Zenon
<1> QED  BY <1>1, BytesIsInvariant, PTL
=============================================================================
