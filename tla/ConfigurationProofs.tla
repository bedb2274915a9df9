------------------------- MODULE ConfigurationProofs -------------------------
(***************************************************************************)
(* Proofs about what the operator writes: the ROA table and the prefix     *)
(* lists, for addresses of every width and tables and lists of every       *)
(* length.                                                                 *)
(*                                                                         *)
(* Shifts and masks are compared with containment of address blocks, which *)
(* Arithmetic has settled: of two blocks one is within the other exactly   *)
(* when it has the longer prefix and agrees with the other on the shorter. *)
(***************************************************************************)
EXTENDS RpkiValidator, Policy, Arithmetic

-----------------------------------------------------------------------------
(* Blocks of addresses *)

LEMMA AddressNat == Address \subseteq Nat
  BY WidthAssumption, PowerPositive DEF Address

\* Containment of blocks, in terms of the lengths and of the shorter prefix.
LEMMA BlockContained ==
    ASSUME NEW a \in Address, NEW m \in 0..Width, NEW b \in Address, NEW n \in 0..Width
    PROVE  Block(a, m) \subseteq Block(b, n)
             <=> n <= m /\ a \div 2^(Width - n) = b \div 2^(Width - n)
  <1>1. Block(a, m) = Sharing(Width, a, m) /\ Block(b, n) = Sharing(Width, b, n)
    BY DEF Block, Address, Sharing
  <1>2. Width \in Nat /\ a \in 0..(2^Width - 1) /\ b \in 0..(2^Width - 1)
    BY WidthAssumption DEF Address
  <1> QED  BY <1>1, <1>2, SharingContained

\* Two numbers cut down to multiples of d are equal when their quotients are.
LEMMA MultiplesEqual ==
    ASSUME NEW d \in Nat, d >= 1, NEW p \in Nat, NEW q \in Nat
    PROVE  p * d = q * d <=> p = q
  <1>1. ASSUME p < q PROVE p * d # q * d
    <2>1. d * (p + 1) <= d * q
      BY <1>1, TimesMonotone
    <2> QED  BY <2>1
  <1>2. ASSUME q < p PROVE p * d # q * d
    <2>1. d * (q + 1) <= d * p
      BY <1>2, TimesMonotone
    <2> QED  BY <2>1
  <1> QED  BY <1>1, <1>2

-----------------------------------------------------------------------------
(* The ROA table *)

RpkiInv == roas \subseteq RoaOf(ASes)

\* The table holds ROAs only: add_roa takes nothing else.
THEOREM RpkiTypeCorrect == RpkiSpec => []RpkiInv
  <1>1. RpkiInit => RpkiInv
    BY DEF RpkiInit, RpkiInv
  <1>2. RpkiInv /\ [RpkiNext]_roas => RpkiInv'
    BY DEF RpkiInv, RpkiNext, AddRoa
  <1> QED  BY <1>1, <1>2, PTL DEF RpkiSpec

\* The shifts of Roa::covers, for a ROA that is not of length 0.
LEMMA CoversContains ==
    ASSUME NEW roa \in RoaOf(ASes), NEW k \in PrefixKey, roa.prefix_len > 0
    PROVE  Covers(roa, k) <=> Contains(roa, k) /\ k.prefix_len <= roa.max_length
  <1> DEFINE n == roa.prefix_len
             m == k.prefix_len
             a == k.address
             b == roa.prefix
             s == Width - n
             d == 2^s
  <1>1. /\ n \in 0..Width /\ n > 0 /\ m \in 0..Width /\ a \in Address /\ b \in Address
        /\ roa.max_length \in 0..Width
    BY DEF RoaOf, PrefixKey
  <1>2. s \in Nat /\ s < Width /\ Width \in Nat /\ Width >= 1
    BY <1>1, WidthAssumption
  <1>3. s % Width = s
    <2> HIDE DEF s
    <2> QED  BY <1>2
  <1>4. d \in Nat /\ d >= 1 /\ a \in Nat /\ b \in Nat
    <2> HIDE DEF s
    <2> QED  BY <1>1, <1>2, PowerPositive, AddressNat
  <1>5. a \div d \in Nat /\ b \div d \in Nat
    <2> HIDE DEF d
    <2> QED  BY <1>4, DivMod
  <1>6. Network(b, s) = (b \div d) * d /\ Network(a, s) = (a \div d) * d
    BY <1>3 DEF Network
  <1>7. Network(b, s) = Network(a, s) <=> a \div d = b \div d
    <2> HIDE DEF d, s, a, b
    <2> QED  BY <1>4, <1>5, <1>6, MultiplesEqual
  <1>8. Contains(roa, k) <=> n <= m /\ a \div d = b \div d
    BY <1>1, BlockContained DEF Contains
  <1>9. Covers(roa, k) <=> m >= n /\ m <= roa.max_length /\ Network(b, s) = Network(a, s)
    BY DEF Covers
  <1> HIDE DEF n, m, d, s, a, b
  <1>10. n <= m <=> m >= n
    BY <1>1
  <1>11. Covers(roa, k) <=> Contains(roa, k) /\ m <= roa.max_length
    BY <1>7, <1>8, <1>9, <1>10
  <1> QED  BY <1>11 DEF m

\* Roa::covers is containment of address blocks, with the max-length as an
\* upper bound.
THEOREM RpkiCoversIsContainment == RpkiSpec => []CoversIsContainment
  <1>1. RpkiInv => CoversIsContainment
    BY CoversContains DEF RpkiInv, CoversIsContainment
  <1> QED  BY <1>1, RpkiTypeCorrect, PTL

\* add_roa, whatever ROA it adds to whatever table, takes no verdict of
\* validate back to NotFound and leaves what is Valid valid.
THEOREM RpkiVerdictsMonotone == RpkiSpec => VerdictsMonotone
  <1>1. ASSUME [RpkiNext]_roas
        PROVE  [\A k \in PrefixKey, as \in ASes :
                  /\ Validate(Mode, roas, k, as) = "Valid" => Validate(Mode, roas', k, as) = "Valid"
                  /\ Validate(Mode, roas, k, as) = "Invalid" => Validate(Mode, roas', k, as) # "NotFound"]_roas
    <2>1. roas \subseteq roas'
      BY <1>1 DEF RpkiNext, AddRoa
    <2>2. ASSUME NEW k \in PrefixKey, NEW as \in ASes
          PROVE  /\ Validate(Mode, roas, k, as) = "Valid" => Validate(Mode, roas', k, as) = "Valid"
                 /\ Validate(Mode, roas, k, as) = "Invalid" => Validate(Mode, roas', k, as) # "NotFound"
      BY <2>1 DEF Validate
    <2> QED  BY <2>2
  <1> QED  BY <1>1, PTL DEF RpkiSpec, VerdictsMonotone

-----------------------------------------------------------------------------
(* Prefix lists *)

PrefixLists == [name : Names, entries : Seq(PrefixListEntry)]

PolicyInv == prefix_lists \in Seq(PrefixLists)

\* Lists hold entries as the file spells them.
THEOREM PolicyTypeCorrect == PolicySpec => []PolicyInv
  <1>1. PolicyInit => PolicyInv
    BY DEF PolicyInit, PolicyInv
  <1>2. ASSUME PolicyInv, [PolicyNext]_prefix_lists PROVE PolicyInv'
    <2>1. ASSUME NEW name \in Names, AddList(name) PROVE PolicyInv'
      <3>1. [name |-> name, entries |-> <<>>] \in PrefixLists
        BY DEF PrefixLists
      <3> QED  BY <1>2, <2>1, <3>1 DEF PolicyInv, AddList
    <2>2. ASSUME NEW e \in PrefixListEntry, AddEntry(e) PROVE PolicyInv'
      <3> DEFINE n == Len(prefix_lists)
                 l == prefix_lists[n]
                 new == [l EXCEPT !.entries = Append(@, e)]
      <3>1. prefix_lists # <<>> /\ prefix_lists \in Seq(PrefixLists)
        BY <1>2, <2>2 DEF PolicyInv, AddEntry
      <3>2. prefix_lists' = [prefix_lists EXCEPT ![n].entries = Append(@, e)]
        BY <2>2 DEF AddEntry
      <3>3. n \in 1..Len(prefix_lists) /\ l \in PrefixLists
        BY <3>1
      <3>4. Append(l.entries, e) \in Seq(PrefixListEntry)
        BY <3>3 DEF PrefixLists
      <3>5. new \in PrefixLists
        BY <3>3, <3>4 DEF PrefixLists
      <3>6. prefix_lists' = [prefix_lists EXCEPT ![n] = new]
        BY <3>2
      <3> HIDE DEF new, n
      <3> QED  BY <3>1, <3>3, <3>5, <3>6 DEF PolicyInv
    <2> QED  BY <1>2, <2>1, <2>2 DEF PolicyNext, PolicyInv
  <1> QED  BY <1>1, <1>2, PTL DEF PolicySpec

\* is_subnet, with its special case for the default route, is containment.
LEMMA SubnetContained ==
    ASSUME NEW k \in PrefixKey, NEW net \in PrefixKey
    PROVE  IsSubnet(k, net)
             <=> Block(k.address, k.prefix_len) \subseteq Block(net.address, net.prefix_len)
  <1> DEFINE n == net.prefix_len
             m == k.prefix_len
             a == k.address
             b == net.address
             d == 2^(Width - n)
  <1>1. /\ n \in 0..Width /\ m \in 0..Width /\ a \in Address /\ b \in Address
        /\ Width \in Nat /\ a \in Nat /\ b \in Nat
    BY AddressNat, WidthAssumption DEF PrefixKey
  <1>2. d \in Nat /\ d >= 1
    <2>1. Width - n \in Nat
      BY <1>1
    <2> QED  BY <2>1, PowerPositive
  <1>3. Block(a, m) \subseteq Block(b, n) <=> n <= m /\ a \div d = b \div d
    BY <1>1, BlockContained
  <1>4. IsSubnet(k, net) <=> m >= n /\ (n = 0 \/ b - (b % d) = a - (a % d))
    BY DEF IsSubnet, Masked
  <1>5. n = 0 => a \div d = b \div d
    <2> SUFFICES ASSUME n = 0 PROVE a \div d = 0 /\ b \div d = 0
      OBVIOUS
    <2>1. d = 2^Width
      BY <1>1
    <2>2. a < d /\ b < d
      BY <1>1, <1>2, <2>1 DEF Address
    <2> HIDE DEF d, a, b, n
    <2>3. d * 0 <= a /\ a < d * 0 + d /\ d * 0 <= b /\ b < d * 0 + d
      BY <1>1, <1>2, <2>2
    <2> QED  BY <1>1, <1>2, <2>3, DivUnique
  <1> HIDE DEF d, a, b, n, m
  <1>6. /\ a \div d \in Nat /\ a % d \in Nat /\ a = d * (a \div d) + (a % d)
        /\ b \div d \in Nat /\ b % d \in Nat /\ b = d * (b \div d) + (b % d)
    <2>1. ASSUME NEW x \in Nat PROVE x \div d \in Nat /\ x % d \in Nat /\ x = d * (x \div d) + (x % d)
      <3>1. x \div d \in Nat /\ x % d \in 0..(d - 1) /\ x = d * (x \div d) + (x % d)
        BY <1>2, DivMod
      <3> QED  BY <1>2, <3>1
    <2> QED  BY <1>1, <2>1
  <1>7. b - (b % d) = a - (a % d) <=> a \div d = b \div d
    <2> DEFINE p == a \div d
               q == b \div d
               x == a % d
               y == b % d
    <2>1. p \in Nat /\ x \in Nat /\ a = d * p + x /\ q \in Nat /\ y \in Nat /\ b = d * q + y
      BY <1>6
    <2> HIDE DEF p, q, x, y
    <2>2. b - y = q * d /\ a - x = p * d
      BY <1>1, <1>2, <2>1
    <2>3. p * d = q * d <=> p = q
      BY <1>2, <2>1, MultiplesEqual
    <2>4. b - y = a - x <=> p = q
      BY <2>2, <2>3
    <2> QED  BY <2>4 DEF p, q, x, y
  <1>8. n <= m <=> m >= n
    BY <1>1
  <1>9. IsSubnet(k, net) <=> Block(a, m) \subseteq Block(b, n)
    BY <1>3, <1>4, <1>5, <1>7, <1>8
  <1> QED  BY <1>9 DEF a, b, n, m

\* matches_entry, with ge and le given or not, is the set that the entry
\* stands for.
LEMMA MatchesSelected ==
    ASSUME NEW e \in PrefixListEntry, NEW k \in PrefixKey
    PROVE  MatchesEntry(e, k) <=> k \in Selected(e)
  <1>1. CASE e.prefix = None
    BY <1>1 DEF MatchesEntry, Selected
  <1>2. CASE e.prefix # None
    <2> DEFINE net == e.prefix
               within == Block(k.address, k.prefix_len) \subseteq Block(net.address, net.prefix_len)
               m == k.prefix_len
               n == net.prefix_len
               ge == e.ge
               le == e.le
    <2>1. net \in PrefixKey /\ ge \in Bounds \cup {None} /\ le \in Bounds \cup {None}
      BY <1>2 DEF PrefixListEntry
    <2>2. n \in 0..Width /\ m \in 0..Width /\ Width \in Nat
      BY <2>1, WidthAssumption DEF PrefixKey
    <2>3. IsSubnet(k, net) <=> within
      BY <2>1, SubnetContained
    <2>4. within => n <= m
      <3>1. IsSubnet(k, net) => m >= n
        BY DEF IsSubnet
      <3> QED  BY <2>2, <2>3, <3>1
    <2>5. MatchesEntry(e, k) <=> /\ within
                                 /\ ge # None => m >= ge
                                 /\ le # None => m <= le
                                 /\ (ge = None /\ le = None) => m = n
      BY <1>2, <2>3 DEF MatchesEntry
    <2>6. k \in Selected(e) <=> /\ within
                                /\ UnwrapOr(ge, n) <= m
                                /\ m <= UnwrapOr(le, IF ge = None THEN n ELSE Width)
      BY <1>2 DEF Selected
    <2>7. (ge = None \/ ge \in Nat) /\ (le = None \/ le \in Nat)
      BY <2>1, PolicyAssumption
    <2> HIDE DEF within, m, n, ge, le
    <2>8. ASSUME within
          PROVE  (/\ ge # None => m >= ge
                  /\ le # None => m <= le
                  /\ (ge = None /\ le = None) => m = n)
                 <=> /\ UnwrapOr(ge, n) <= m
                     /\ m <= UnwrapOr(le, IF ge = None THEN n ELSE Width)
      <3>1. n <= m /\ m <= Width
        BY <2>2, <2>4, <2>8
      <3>2. CASE ge = None /\ le = None
        BY <2>2, <3>1, <3>2 DEF UnwrapOr
      <3>3. CASE ge = None /\ le # None
        BY <2>2, <2>7, <3>1, <3>3 DEF UnwrapOr
      <3>4. CASE ge # None /\ le = None
        BY <2>2, <2>7, <3>1, <3>4 DEF UnwrapOr
      <3>5. CASE ge # None /\ le # None
        BY <2>2, <2>7, <3>1, <3>5 DEF UnwrapOr
      <3> QED  BY <3>2, <3>3, <3>4, <3>5
    <2> QED  BY <2>5, <2>6, <2>8
  <1> QED  BY <1>1, <1>2

\* The least of a set of natural numbers.
LEMMA MinIsLeast ==
    ASSUME NEW S, S \subseteq Nat, S # {}
    PROVE  Min(S) \in S /\ \A y \in S : Min(S) <= y
  BY LeastElement DEF Min

\* The verdict of a list is that of its first matching entry.
LEMMA FirstEntryDecides ==
    ASSUME NEW entries \in Seq(PrefixListEntry), NEW k \in PrefixKey
    PROVE  EvaluatePrefixList(entries, k)
             <=> \E j \in DOMAIN entries :
                   /\ k \in Selected(entries[j])
                   /\ \A h \in 1..(j - 1) : ~(k \in Selected(entries[h]))
                   /\ entries[j].action = "Permit"
  <1> DEFINE H(j) == k \in Selected(entries[j])
             hits == {i \in DOMAIN entries : MatchesEntry(entries[i], k)}
  <1>1. DOMAIN entries = 1..Len(entries) /\ Len(entries) \in Nat
    OBVIOUS
  <1>2. \A i \in DOMAIN entries : MatchesEntry(entries[i], k) <=> H(i)
    <2>1. \A i \in DOMAIN entries : entries[i] \in PrefixListEntry
      BY <1>1
    <2> QED  BY <2>1, MatchesSelected
  <1> HIDE DEF H
  <1>3. hits = {i \in 1..Len(entries) : H(i)}
    BY <1>1, <1>2
  <1>4. EvaluatePrefixList(entries, k) <=> hits # {} /\ entries[Min(hits)].action = "Permit"
    BY DEF EvaluatePrefixList
  <1> HIDE DEF hits
  <1>5. ASSUME hits # {}, entries[Min(hits)].action = "Permit"
        PROVE  \E j \in 1..Len(entries) :
                 H(j) /\ (\A h \in 1..(j - 1) : ~H(h)) /\ entries[j].action = "Permit"
    <2>1. Min(hits) \in hits /\ \A y \in hits : Min(hits) <= y
      <3>1. hits \in SUBSET Nat
        BY <1>3
      <3> QED  BY <1>5, <3>1, MinIsLeast
    <2> DEFINE j == Min(hits)
    <2>2. j \in 1..Len(entries) /\ H(j)
      BY <1>3, <2>1
    <2>3. \A h \in 1..(j - 1) : ~H(h)
      <3> SUFFICES ASSUME NEW h \in 1..(j - 1), H(h) PROVE FALSE
        OBVIOUS
      <3>1. h \in hits
        BY <1>1, <1>3, <2>2
      <3> QED  BY <1>1, <2>1, <2>2, <3>1
    <2> HIDE DEF j
    <2>4. entries[j].action = "Permit"
      BY <1>5 DEF j
    <2> QED  BY <2>2, <2>3, <2>4
  <1>6. ASSUME NEW j \in 1..Len(entries), H(j), \A h \in 1..(j - 1) : ~H(h),
               entries[j].action = "Permit"
        PROVE  hits # {} /\ entries[Min(hits)].action = "Permit"
    <2>1. j \in hits
      BY <1>3, <1>6
    <2>2. Min(hits) \in hits /\ Min(hits) <= j
      <3>1. hits \subseteq Nat /\ hits # {}
        BY <1>3, <2>1
      <3> QED  BY <2>1, <3>1, MinIsLeast
    <2>3. Min(hits) = j
      BY <1>1, <1>3, <1>6, <2>2
    <2> QED  BY <1>6, <2>1, <2>3
  <1> QED  BY <1>1, <1>4, <1>5, <1>6 DEF H

\* evaluate_prefix_list and apply, on lists of every length: the masks, ge and
\* le and the default route come out as containment of address blocks, the
\* first entry that matches decides, and the first list of a name hides the
\* others.
THEOREM PolicyVerdictIsFirstMatch == PolicySpec => []VerdictIsFirstMatch
  <1>1. ASSUME PolicyInv PROVE VerdictIsFirstMatch
    <2> SUFFICES ASSUME NEW name \in Names, NEW k \in PrefixKey
                 PROVE  LET Named(l) == prefix_lists[l].name = name
                            Hits(l, j) == k \in Selected(prefix_lists[l].entries[j])
                            first == {l \in DOMAIN prefix_lists :
                                        Named(l) /\ \A i \in 1..(l - 1) : ~Named(i)}
                        IN  Apply(prefix_lists, name, k)
                              <=> \A l \in first :
                                    \E j \in DOMAIN prefix_lists[l].entries :
                                      /\ Hits(l, j)
                                      /\ \A h \in 1..(j - 1) : ~Hits(l, h)
                                      /\ prefix_lists[l].entries[j].action = "Permit"
      BY DEF VerdictIsFirstMatch
    <2> DEFINE N(l) == prefix_lists[l].name = name
               first == {l \in DOMAIN prefix_lists : N(l) /\ \A i \in 1..(l - 1) : ~N(i)}
               named == {i \in DOMAIN prefix_lists : prefix_lists[i].name = name}
               V(l) == EvaluatePrefixList(prefix_lists[l].entries, k)
    <2>1. DOMAIN prefix_lists = 1..Len(prefix_lists) /\ Len(prefix_lists) \in Nat
      BY <1>1 DEF PolicyInv
    <2>2. \A l \in DOMAIN prefix_lists :
            V(l) <=> \E j \in DOMAIN prefix_lists[l].entries :
                       /\ k \in Selected(prefix_lists[l].entries[j])
                       /\ \A h \in 1..(j - 1) : ~(k \in Selected(prefix_lists[l].entries[h]))
                       /\ prefix_lists[l].entries[j].action = "Permit"
      <3> SUFFICES ASSUME NEW l \in DOMAIN prefix_lists
                   PROVE  prefix_lists[l].entries \in Seq(PrefixListEntry)
        BY FirstEntryDecides
      <3>1. prefix_lists[l] \in PrefixLists
        BY <1>1, <2>1 DEF PolicyInv
      <3> QED  BY <3>1 DEF PrefixLists
    <2>3. Apply(prefix_lists, name, k) <=> (named # {} => V(Min(named)))
      BY DEF Apply
    <2> HIDE DEF V
    <2>4. named = {} => first = {}
      OBVIOUS
    <2>5. named # {} => first = {Min(named)}
      <3> SUFFICES ASSUME named # {} PROVE first = {Min(named)}
        OBVIOUS
      <3>1. Min(named) \in named /\ \A y \in named : Min(named) <= y
        <4>1. named \subseteq Nat
          BY <2>1
        <4> HIDE DEF named
        <4> QED  BY <4>1, MinIsLeast
      <3> DEFINE x == Min(named)
      <3>2. x \in 1..Len(prefix_lists) /\ N(x) /\ \A y \in 1..Len(prefix_lists) : N(y) => x <= y
        BY <2>1, <3>1
      <3> HIDE DEF x, N, named
      <3>3. x \in first
        BY <2>1, <3>2
      <3>4. ASSUME NEW l \in first PROVE l = x
        <4>1. l \in 1..Len(prefix_lists) /\ N(l) /\ \A i \in 1..(l - 1) : ~N(i)
          BY <2>1
        <4>2. x <= l /\ ~(x < l)
          BY <2>1, <3>2, <4>1
        <4> QED  BY <2>1, <3>2, <4>1, <4>2
      <3> HIDE DEF first
      <3>5. first = {x}
        BY <3>3, <3>4
      <3> QED  BY <3>5 DEF x
    <2>6. Apply(prefix_lists, name, k) <=> \A l \in first : V(l)
      <3> HIDE DEF first, named
      <3> QED  BY <2>3, <2>4, <2>5
    <2>7. first \subseteq DOMAIN prefix_lists
      OBVIOUS
    <2> QED  BY <2>2, <2>6, <2>7
  <1> QED  BY <1>1, PolicyTypeCorrect, PTL

=============================================================================
