----------------------------- MODULE Arithmetic -----------------------------
(***************************************************************************)
(* Facts about natural numbers that the other proofs rest on: induction,   *)
(* powers of two and division by them.  Induction is stated for a set, so  *)
(* that it can be cited by name: the predicate is put into a set           *)
(* comprehension.  Powers of two come from the number of subsets of 1..n.  *)
(* At the end, concatenations of any number of sequences.                  *)
(***************************************************************************)
EXTENDS Integers, Sequences, FiniteSetTheorems, TLAPS

-----------------------------------------------------------------------------
(* Induction *)

\* Every set of natural numbers that is not empty has a least element.
LEMMA LeastElement ==
    ASSUME NEW T, T \subseteq Nat, T # {}
    PROVE  \E x \in T : \A y \in T : x <= y
  <1> DEFINE R == OpToRel(<, Nat)
  <1>1. IsWellFoundedOn(R, Nat)
    BY NatLessThanWellFounded
  <1>2. \A x, y \in Nat : x < y => <<x, y>> \in R
    BY DEF OpToRel
  <1>3. PICK x \in T : \A y \in T : ~(<<y, x>> \in R)
    <2> HIDE DEF R
    <2> QED  BY <1>1, WFMin
  <1>4. ASSUME NEW y \in T PROVE x <= y
    <2>1. ~(<<y, x>> \in R)
      BY <1>3
    <2>2. x \in Nat /\ y \in Nat
      OBVIOUS
    <2>3. ~(y < x)
      <3> HIDE DEF R
      <3> QED  BY <1>2, <2>1, <2>2
    <2> QED  BY <2>2, <2>3
  <1> QED  BY <1>4

\* Induction, for the set of numbers that have the property.
LEMMA SetInduction ==
    ASSUME NEW T, 0 \in T, \A n \in Nat : n \in T => n + 1 \in T
    PROVE  \A n \in Nat : n \in T
  <1> DEFINE Bad == {n \in Nat : n \notin T}
  <1> SUFFICES ASSUME Bad # {} PROVE FALSE
    OBVIOUS
  <1>1. PICK x \in Bad : \A y \in Bad : x <= y
    BY LeastElement
  <1>2. x \in Nat /\ x # 0
    OBVIOUS
  <1>3. x - 1 \in Nat /\ x - 1 \notin Bad
    BY <1>1, <1>2
  <1>4. x - 1 \in T
    BY <1>3
  <1>5. (x - 1) + 1 \in T
    BY <1>3, <1>4
  <1> QED  BY <1>2, <1>5

-----------------------------------------------------------------------------
(* Powers of two *)

\* 2^n is the number of subsets of 1..n.
LEMMA PowerCounts ==
    ASSUME NEW n \in Nat
    PROVE  /\ 2^n \in Nat
           /\ IsFiniteSet(SUBSET (1..n))
           /\ Cardinality(SUBSET (1..n)) = 2^n
  <1>1. IsFiniteSet(1..n) /\ Cardinality(1..n) = n
    BY FS_Interval
  <1>2. IsFiniteSet(SUBSET (1..n)) /\ Cardinality(SUBSET (1..n)) = 2^Cardinality(1..n)
    BY <1>1, FS_SUBSET
  <1>3. Cardinality(SUBSET (1..n)) \in Nat
    BY <1>2, FS_CardinalityType
  <1> QED  BY <1>1, <1>2, <1>3

\* Each further bit doubles the number.
LEMMA PowerDoubles ==
    ASSUME NEW n \in Nat
    PROVE  2^(n + 1) = 2 * 2^n
  <1> DEFINE A == SUBSET (1..n)
             B == {T \cup {n + 1} : T \in A}
             f == [T \in A |-> T \cup {n + 1}]
  <1>1. SUBSET (1..(n + 1)) = A \cup B
    <2>1. ASSUME NEW U \in SUBSET (1..(n + 1)) PROVE U \in A \cup B
      <3>1. CASE n + 1 \in U
        <4>1. U = (U \ {n + 1}) \cup {n + 1}
          BY <3>1
        <4>2. U \ {n + 1} \in SUBSET (1..n)
          OBVIOUS
        <4> QED  BY <4>1, <4>2
      <3>2. CASE n + 1 \notin U
        BY <3>2
      <3> QED  BY <3>1, <3>2
    <2>2. ASSUME NEW U \in A \cup B PROVE U \in SUBSET (1..(n + 1))
      OBVIOUS
    <2> QED  BY <2>1, <2>2
  <1>2. A \cap B = {}
    OBVIOUS
  <1>3. ExistsBijection(A, B)
    <2>1. \A T, U \in A : T \cup {n + 1} = U \cup {n + 1} => T = U
      <3> SUFFICES ASSUME NEW T \in A, NEW U \in A, T \cup {n + 1} = U \cup {n + 1}
                   PROVE  T = U
        OBVIOUS
      <3>1. n + 1 \notin T /\ n + 1 \notin U
        OBVIOUS
      <3> QED  BY <3>1
    <2>2. f \in [A -> B]
      OBVIOUS
    <2>3. \A T, U \in A : f[T] = f[U] => T = U
      <3>1. \A T \in A : f[T] = T \cup {n + 1}
        OBVIOUS
      <3> QED  BY <2>1, <3>1
    <2>4. \A U \in B : \E T \in A : f[T] = U
      OBVIOUS
    <2> HIDE DEF f, A, B
    <2>5. f \in Bijection(A, B)
      BY <2>2, <2>3, <2>4 DEF Bijection, Injection, Surjection, IsInjective
    <2> QED  BY <2>5 DEF ExistsBijection
  <1>4. IsFiniteSet(A) /\ Cardinality(A) = 2^n /\ 2^n \in Nat
    BY PowerCounts
  <1>5. IsFiniteSet(B) /\ Cardinality(B) = Cardinality(A)
    <2> HIDE DEF A, B
    <2> QED  BY <1>3, <1>4, FS_Bijection
  <1>6. Cardinality(A \cup B) = Cardinality(A) + Cardinality(A)
    <2> HIDE DEF A, B
    <2>1. Cardinality(A \cap B) = 0
      BY <1>2, FS_EmptySet
    <2>2. Cardinality(A \cup B) = Cardinality(A) + Cardinality(B) - Cardinality(A \cap B)
      BY <1>4, <1>5, FS_Union
    <2>3. Cardinality(A) \in Nat
      BY <1>4
    <2> QED  BY <1>5, <2>1, <2>2, <2>3
  <1>7. 2^(n + 1) = Cardinality(SUBSET (1..(n + 1)))
    BY PowerCounts, n + 1 \in Nat
  <1>8. 2^(n + 1) = 2^n + 2^n
    BY <1>1, <1>4, <1>6, <1>7
  <1> QED  BY <1>4, <1>8

\* 2^n is positive, and at least 2 unless n is 0.
LEMMA PowerPositive ==
    ASSUME NEW n \in Nat
    PROVE  2^n \in Nat /\ 2^n >= 1 /\ (n # 0 => 2^n >= 2)
  <1> DEFINE T == {m \in Nat : 2^m \in Nat /\ 2^m >= 1}
  <1>1. 0 \in T
    <2>1. 2^0 = 1
      OBVIOUS
    <2> QED  BY <2>1
  <1>2. \A m \in Nat : m \in T => m + 1 \in T
    <2> SUFFICES ASSUME NEW m \in Nat, 2^m \in Nat, 2^m >= 1 PROVE 2^(m + 1) \in Nat /\ 2^(m + 1) >= 1
      OBVIOUS
    <2> QED  BY PowerDoubles
  <1>3. \A m \in Nat : m \in T
    <2> HIDE DEF T
    <2> QED  BY <1>1, <1>2, SetInduction
  <1>4. ASSUME n # 0 PROVE 2^n >= 2
    <2>1. n - 1 \in Nat /\ (n - 1) + 1 = n
      BY <1>4
    <2>2. 2^n = 2 * 2^(n - 1)
      BY <2>1, PowerDoubles
    <2>3. 2^(n - 1) \in Nat /\ 2^(n - 1) >= 1
      BY <1>3, <2>1
    <2> QED  BY <2>2, <2>3
  <1> QED  BY <1>3, <1>4

\* The powers of a sum.
LEMMA PowerOfSum ==
    ASSUME NEW m \in Nat, NEW n \in Nat
    PROVE  2^(m + n) = 2^m * 2^n
  <1> DEFINE T == {k \in Nat : 2^(m + k) = 2^m * 2^k}
  <1>1. 0 \in T
    <2>1. m + 0 = m /\ 2^0 = 1 /\ 2^m \in Nat
      BY PowerPositive
    <2> QED  BY <2>1
  <1>2. ASSUME NEW k \in Nat, k \in T PROVE k + 1 \in T
    <2> DEFINE a == 2^m
               b == 2^k
    <2>1. 2^(m + (k + 1)) = 2 * 2^(m + k)
      <3>1. m + (k + 1) = (m + k) + 1 /\ m + k \in Nat
        OBVIOUS
      <3> QED  BY <3>1, PowerDoubles
    <2>2. 2^(k + 1) = 2 * b
      BY PowerDoubles
    <2>3. 2^(m + k) = a * b
      BY <1>2
    <2>4. a \in Nat /\ b \in Nat
      BY PowerPositive
    <2> HIDE DEF a, b
    <2>5. 2 * (a * b) = a * (2 * b)
      BY <2>4
    <2>6. 2^(m + (k + 1)) = a * 2^(k + 1)
      BY <2>1, <2>2, <2>3, <2>5
    <2> QED  BY <2>6 DEF a
  <1>3. \A k \in Nat : k \in T
    <2> HIDE DEF T
    <2> QED  BY <1>1, <1>2, SetInduction
  <1> QED  BY <1>3

-----------------------------------------------------------------------------
(* Division *)

\* Quotient and remainder.
LEMMA DivMod ==
    ASSUME NEW x \in Nat, NEW d \in Nat, d >= 1
    PROVE  /\ x \div d \in Nat /\ x % d \in 0..(d - 1)
           /\ x = d * (x \div d) + (x % d)
  OBVIOUS

LEMMA TimesMonotone ==
    ASSUME NEW a \in Int, NEW b \in Int, NEW d \in Nat, a <= b
    PROVE  d * a <= d * b
  OBVIOUS

\* There is one quotient only.
LEMMA DivUnique ==
    ASSUME NEW x \in Nat, NEW d \in Nat, d >= 1, NEW q \in Int,
           d * q <= x, x < d * q + d
    PROVE  x \div d = q
  <1> DEFINE p == x \div d
  <1>1. p \in Nat /\ x % d \in 0..(d - 1) /\ x = d * p + (x % d)
    BY DivMod
  <1>2. d * p <= x /\ x < d * p + d
    BY <1>1
  <1> HIDE DEF p
  <1>3. CASE p < q
    <2>1. d * (p + 1) <= d * q
      BY <1>1, <1>3, TimesMonotone
    <2> QED  BY <1>1, <1>2, <2>1
  <1>4. CASE q < p
    <2>1. d * (q + 1) <= d * p
      BY <1>1, <1>4, TimesMonotone
    <2> QED  BY <1>1, <1>2, <2>1
  <1> QED  BY <1>1, <1>3, <1>4 DEF p

\* Division by a product is division by its factors.
LEMMA DivProduct ==
    ASSUME NEW x \in Nat, NEW u \in Nat, u >= 1, NEW w \in Nat, w >= 1
    PROVE  x \div (u * w) = (x \div u) \div w
  <1> DEFINE y == x \div u
             z == y \div w
  <1>1. y \in Nat /\ x % u \in 0..(u - 1) /\ x = u * y + (x % u)
    BY DivMod
  <1>2. u * y <= x /\ x < u * y + u
    BY <1>1
  <1> HIDE DEF y
  <1>3. z \in Nat /\ y % w \in 0..(w - 1) /\ y = w * z + (y % w)
    BY <1>1, DivMod
  <1> HIDE DEF z
  <1>4. w * z <= y /\ y + 1 <= w * z + w
    BY <1>1, <1>3
  <1>5. u * (w * z) <= u * y /\ u * (y + 1) <= u * (w * z + w)
    BY <1>1, <1>3, <1>4, TimesMonotone
  <1>6. (u * w) * z <= x /\ x < (u * w) * z + u * w
    BY <1>1, <1>2, <1>3, <1>5
  <1>7. u * w \in Nat /\ u * w >= 1
    OBVIOUS
  <1>8. x \div (u * w) = z
    <2> DEFINE d == u * w
    <2>1. d \in Nat /\ d >= 1 /\ d * z <= x /\ x < d * z + d
      BY <1>6, <1>7
    <2> HIDE DEF d
    <2>2. x \div d = z
      BY <1>3, <2>1, DivUnique
    <2> QED  BY <2>2 DEF d
  <1> QED  BY <1>8 DEF y, z

-----------------------------------------------------------------------------
(* Numbers of W bits that share their first bits *)

\* The numbers of W bits whose first n bits are those of a.
Sharing(W, a, n) == {x \in 0..(2^W - 1) : x \div 2^(W - n) = a \div 2^(W - n)}

\* A number shares its bits with itself.
LEMMA SharingReflexive ==
    ASSUME NEW W, NEW a \in 0..(2^W - 1), NEW n
    PROVE  a \in Sharing(W, a, n)
  BY DEF Sharing

\* More bits are shared by fewer numbers.
LEMMA SharingNested ==
    ASSUME NEW W \in Nat, NEW m \in 0..W, NEW n \in 0..m,
           NEW a \in 0..(2^W - 1), NEW b \in 0..(2^W - 1),
           a \div 2^(W - n) = b \div 2^(W - n)
    PROVE  Sharing(W, a, m) \subseteq Sharing(W, b, n)
  <1> DEFINE u == 2^(W - m)
             w == 2^(m - n)
             v == 2^(W - n)
  <1>1. W - m \in Nat /\ m - n \in Nat /\ (W - m) + (m - n) = W - n
    OBVIOUS
  <1>2. u \in Nat /\ u >= 1 /\ w \in Nat /\ w >= 1 /\ v = u * w
    BY <1>1, PowerPositive, PowerOfSum
  <1>3. 0..(2^W - 1) \subseteq Nat
    BY PowerPositive
  <1> SUFFICES ASSUME NEW x \in 0..(2^W - 1), x \div u = a \div u
               PROVE  x \div v = b \div v
    BY DEF Sharing
  <1> HIDE DEF u, w, v
  <1>4. \A y \in Nat : y \div v = (y \div u) \div w
    BY <1>2, DivProduct
  <1>5. x \in Nat /\ a \in Nat
    BY <1>3
  <1>6. x \div v = a \div v
    BY <1>4, <1>5
  <1> QED  BY <1>6 DEF v

\* Fewer bits are shared by some number that differs in a further one.
LEMMA SharingWider ==
    ASSUME NEW W \in Nat, NEW n \in 0..W, NEW m \in 0..W, m < n,
           NEW a \in 0..(2^W - 1)
    PROVE  \E x, y \in Sharing(W, a, m) : x \div 2^(W - n) # y \div 2^(W - n)
  <1> DEFINE u == 2^(W - m)
             w == 2^(n - m)
             v == 2^(W - n)
             q == a \div u
             N == 2^W
             r == 2^m
  <1>1. /\ W - n \in Nat /\ n - m \in Nat \ {0} /\ (W - n) + (n - m) = W - m
        /\ W - m \in Nat /\ (W - m) + m = W /\ m \in Nat
    OBVIOUS
  <1>2. /\ u \in Nat /\ u >= 1 /\ w \in Nat /\ w >= 2 /\ v \in Nat /\ v >= 1
        /\ r \in Nat /\ r >= 1 /\ u = v * w /\ N = u * r /\ N \in Nat
    <2>1. u = v * w
      BY <1>1, PowerOfSum
    <2>2. N = u * r
      BY <1>1, PowerOfSum
    <2>3. u \in Nat /\ u >= 1 /\ v \in Nat /\ v >= 1 /\ r \in Nat /\ r >= 1 /\ N \in Nat
      BY <1>1, PowerPositive
    <2>4. w \in Nat /\ w >= 2
      BY <1>1, PowerPositive
    <2> QED  BY <2>1, <2>2, <2>3, <2>4
  <1>3. a \in Nat /\ a < N
    BY <1>2
  <1>4. Sharing(W, a, m) = {x \in 0..(N - 1) : x \div u = q}
    BY DEF Sharing
  <1> HIDE DEF u, w, v, N, r
  <1>5. q \in Nat /\ a % u \in 0..(u - 1) /\ a = u * q + (a % u)
    BY <1>2, <1>3, DivMod
  <1>6. u * q <= a
    BY <1>2, <1>5
  <1> HIDE DEF q
  <1>7. q + 1 <= r
    <2>1. CASE r <= q
      <3>1. u * r <= u * q
        BY <1>2, <1>5, <2>1, TimesMonotone
      <3> QED  BY <1>2, <1>3, <1>5, <1>6, <3>1
    <2> QED  BY <1>2, <1>5, <2>1
  <1>8. u * q + u <= N
    <2>1. u * (q + 1) <= u * r
      BY <1>2, <1>5, <1>7, TimesMonotone
    <2> QED  BY <1>2, <1>5, <2>1
  <1>9. 2 * v <= u
    <2>1. v * 2 <= v * w
      BY <1>2, TimesMonotone
    <2> QED  BY <1>2, <2>1
  <1> DEFINE x == u * q
             y == u * q + v
             p == w * q
  <1>10. x \in Nat /\ x = v * p /\ p \in Nat
    BY <1>2, <1>5
  <1>11. /\ x \in 0..(N - 1) /\ y \in 0..(N - 1) /\ x \in Nat /\ y \in Nat
         /\ u * q <= x /\ x < u * q + u /\ u * q <= y /\ y < u * q + u
    BY <1>2, <1>8, <1>9, <1>10
  <1>12. v * p <= x /\ x < v * p + v /\ v * (p + 1) <= y /\ y < v * (p + 1) + v
    <2> HIDE DEF p
    <2> QED  BY <1>2, <1>10
  <1> HIDE DEF x, y, p
  <1>13. x \div u = q /\ y \div u = q
    BY <1>2, <1>5, <1>11, DivUnique
  <1>14. x \div v = p /\ y \div v = p + 1
    <2>1. x \div v = p
      BY <1>2, <1>10, <1>11, <1>12, DivUnique
    <2> DEFINE o == p + 1
    <2>2. o \in Int /\ v * o <= y /\ y < v * o + v
      BY <1>10, <1>12
    <2> HIDE DEF o
    <2>3. y \div v = o
      BY <1>2, <1>11, <2>2, DivUnique
    <2> QED  BY <2>1, <2>3 DEF o
  <1>15. x \div v # y \div v
    BY <1>10, <1>14
  <1>16. x \in Sharing(W, a, m) /\ y \in Sharing(W, a, m)
    BY <1>4, <1>11, <1>13
  <1> QED  BY <1>15, <1>16 DEF v

\* One such set is within the other exactly when it shares more bits, and
\* among them those of the other.
LEMMA SharingContained ==
    ASSUME NEW W \in Nat, NEW m \in 0..W, NEW n \in 0..W,
           NEW a \in 0..(2^W - 1), NEW b \in 0..(2^W - 1)
    PROVE  Sharing(W, a, m) \subseteq Sharing(W, b, n)
             <=> n <= m /\ a \div 2^(W - n) = b \div 2^(W - n)
  <1>1. ASSUME Sharing(W, a, m) \subseteq Sharing(W, b, n)
        PROVE  n <= m /\ a \div 2^(W - n) = b \div 2^(W - n)
    <2>1. \A x \in Sharing(W, a, m) : x \div 2^(W - n) = b \div 2^(W - n)
      BY <1>1 DEF Sharing
    <2>2. a \div 2^(W - n) = b \div 2^(W - n)
      BY <2>1, SharingReflexive
    <2>3. CASE m < n
      BY <2>1, <2>3, SharingWider
    <2> QED  BY <2>2, <2>3
  <1>2. ASSUME n <= m, a \div 2^(W - n) = b \div 2^(W - n)
        PROVE  Sharing(W, a, m) \subseteq Sharing(W, b, n)
    <2>1. n \in 0..m
      BY <1>2
    <2> QED  BY <1>2, <2>1, SharingNested
  <1> QED  BY <1>1, <1>2
-----------------------------------------------------------------------------
(* Concatenations *)

\* The concatenation of the first i members of s, for each i.
Steps(h, s) ==
    /\ h[0] = <<>>
    /\ \A i \in 1..Len(s) : h[i] = h[i - 1] \o s[i]

LEMMA StepsExist ==
    ASSUME NEW S, NEW s \in Seq(Seq(S))
    PROVE  \E h \in [0..Len(s) -> Seq(S)] : Steps(h, s)
<1> DEFINE Upto(k, h) == /\ h[0] = <<>>
                         /\ \A i \in 1..k : h[i] = h[i - 1] \o s[i]
           T == {k \in Nat : k <= Len(s) => \E h \in [0..k -> Seq(S)] : Upto(k, h)}
<1>1. 0 \in T
  <2>1. [i \in 0..0 |-> <<>>] \in [0..0 -> Seq(S)] /\ Upto(0, [i \in 0..0 |-> <<>>])
    OBVIOUS
  <2> HIDE DEF Upto
  <2> QED  BY <2>1
<1>2. ASSUME NEW k \in Nat, k \in T PROVE k + 1 \in T
  <2> HIDE DEF Upto
  <2> SUFFICES ASSUME k + 1 <= Len(s)
               PROVE  \E h \in [0..(k + 1) -> Seq(S)] : Upto(k + 1, h)
    OBVIOUS
  <2>1. PICK h \in [0..k -> Seq(S)] : Upto(k, h)
    BY <1>2
  <2>2. k + 1 \in 1..Len(s) /\ s[k + 1] \in Seq(S) /\ h[k] \in Seq(S)
    OBVIOUS
  <2> DEFINE g == [i \in 0..(k + 1) |-> IF i = k + 1 THEN h[k] \o s[k + 1] ELSE h[i]]
  <2>3. h[k] \o s[k + 1] \in Seq(S)
    BY <2>2
  <2>4. g \in [0..(k + 1) -> Seq(S)]
    BY <2>3
  <2>5. \A i \in 0..k : g[i] = h[i]
    OBVIOUS
  <2>6. g[k + 1] = h[k] \o s[k + 1]
    OBVIOUS
  <2> HIDE DEF g
  <2>7. ASSUME NEW i \in 1..(k + 1) PROVE g[i] = g[i - 1] \o s[i]
    <3>1. CASE i = k + 1
      <4>1. i - 1 = k /\ g[k] = h[k]
        BY <2>5, <3>1
      <4> QED  BY <2>6, <3>1, <4>1
    <3>2. CASE i # k + 1
      <4>1. i \in 1..k /\ i \in 0..k /\ i - 1 \in 0..k
        BY <3>2
      <4> QED  BY <2>1, <2>5, <4>1 DEF Upto
    <3> QED  BY <3>1, <3>2
  <2>8. g[0] = <<>>
    BY <2>1, <2>5 DEF Upto
  <2>9. Upto(k + 1, g)
    BY <2>7, <2>8 DEF Upto
  <2> QED  BY <2>4, <2>9
<1> HIDE DEF T
<1>3. \A k \in Nat : k \in T
  BY <1>1, <1>2, SetInduction
<1> HIDE DEF Upto
<1>4. Len(s) \in T /\ Len(s) \in Nat
  BY <1>3
<1>5. PICK h \in [0..Len(s) -> Seq(S)] : Upto(Len(s), h)
  BY <1>4 DEF T
<1>6. Steps(h, s)
  BY <1>5 DEF Upto, Steps
<1> QED  BY <1>6

\* There is one such function only, where it matters.
LEMMA StepsAgree ==
    ASSUME NEW s, Len(s) \in Nat, NEW g, Steps(g, s), NEW h, Steps(h, s)
    PROVE  \A i \in 0..Len(s) : g[i] = h[i]
<1> DEFINE T == {k \in Nat : k <= Len(s) => g[k] = h[k]}
<1>1. 0 \in T
  BY DEF Steps
<1>2. ASSUME NEW k \in Nat, k \in T PROVE k + 1 \in T
  <2> SUFFICES ASSUME k + 1 <= Len(s) PROVE g[k + 1] = h[k + 1]
    OBVIOUS
  <2>1. k + 1 \in 1..Len(s) /\ (k + 1) - 1 = k /\ g[k] = h[k]
    BY <1>2
  <2>2. g[k + 1] = g[k] \o s[k + 1] /\ h[k + 1] = h[k] \o s[k + 1]
    BY <2>1 DEF Steps
  <2> QED  BY <2>1, <2>2
<1> HIDE DEF T
<1>3. \A k \in Nat : k \in T
  BY <1>1, <1>2, SetInduction
<1> QED  BY <1>3 DEF T

\* What the recursion of FlattenSeq (SequencesExt) computes.
LastStep(s) ==
    LET flatten[i \in 1..Len(s)] == IF i = 1 THEN s[i] ELSE flatten[i - 1] \o s[i]
    IN  flatten[Len(s)]

LEMMA LastStepOf ==
    ASSUME NEW S, NEW s \in Seq(Seq(S)), NEW h \in [0..Len(s) -> Seq(S)], Steps(h, s),
           Len(s) # 0
    PROVE  LastStep(s) = h[Len(s)]
<1> DEFINE n == Len(s)
           Eq(f) == f = [i \in 1..n |-> IF i = 1 THEN s[i] ELSE f[i - 1] \o s[i]]
           f == CHOOSE g : Eq(g)
           h1 == [i \in 1..n |-> h[i]]
<1>1. n \in Nat \ {0}
  OBVIOUS
<1>2. LastStep(s) = f[n]
  BY DEF LastStep
<1>3. Eq(h1)
  <2>1. ASSUME NEW i \in 1..n
        PROVE  h1[i] = IF i = 1 THEN s[i] ELSE h1[i - 1] \o s[i]
    <3>1. h[i] = h[i - 1] \o s[i] /\ s[i] \in Seq(S)
      <4> HIDE DEF Eq, f, h1
      <4>1. s[i] \in Seq(S)
        OBVIOUS
      <4>2. h[i] = h[i - 1] \o s[i]
        BY Zenon DEF Steps
      <4> QED  BY <4>1, <4>2
    <3>2. CASE i = 1
      <4>1. h[i - 1] = <<>>
        BY <3>2 DEF Steps
      <4>2. h[i] = s[i]
        BY <3>1, <4>1
      <4> QED  BY <3>2, <4>2
    <3>3. CASE i # 1
      <4>1. i - 1 \in 1..n
        BY <3>3
      <4> QED  BY <3>1, <3>3, <4>1
    <3> QED  BY <3>2, <3>3
  <2> QED  BY <2>1
<1>4. Eq(f)
  <2> HIDE DEF Eq
  <2> QED  BY <1>3
<1> HIDE DEF f
<1> DEFINE g == [i \in 0..n |-> IF i = 0 THEN <<>> ELSE f[i]]
<1>5. \A i \in 1..n : f[i] = IF i = 1 THEN s[i] ELSE f[i - 1] \o s[i]
  BY <1>4
<1>6. g[0] = <<>> /\ \A i \in 1..n : g[i] = f[i]
  BY <1>1
<1> HIDE DEF g, Eq, n
<1>7. ASSUME NEW i \in 1..n PROVE g[i] = g[i - 1] \o s[i]
  <2>1. s[i] \in Seq(S)
    BY DEF n
  <2>2. CASE i = 1
    <3>1. g[i] = s[i] /\ g[i - 1] = <<>>
      BY <1>5, <1>6, <2>2
    <3> QED  BY <2>1, <3>1
  <2>3. CASE i # 1
    <3>1. i - 1 \in 1..n
      BY <1>1, <2>3
    <3>2. f[i] = f[i - 1] \o s[i]
      BY <1>5, <2>3
    <3>3. g[i] = f[i] /\ g[i - 1] = f[i - 1]
      BY <1>6, <3>1
    <3> QED  BY <3>2, <3>3
  <2> QED  BY <2>2, <2>3
<1>8. Steps(g, s)
  BY <1>6, <1>7 DEF Steps, n
<1>9. \A i \in 0..Len(s) : g[i] = h[i]
  BY <1>1, <1>8, StepsAgree DEF n
<1>10. g[n] = h[n]
  BY <1>1, <1>9 DEF n
<1>11. g[n] = f[n]
  BY <1>1, <1>6
<1> QED  BY <1>2, <1>10, <1>11 DEF n
=============================================================================
