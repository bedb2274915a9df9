-------------------------- MODULE ReflectionProofs --------------------------
(***************************************************************************)
(* Proofs about Reflection, for every set of routers and sessions: no      *)
(* announcement passes a cluster twice, the router that brought the route  *)
(* in never takes it back, and loop detection costs nobody the route.      *)
(***************************************************************************)
EXTENDS Reflection, FiniteSetTheorems, TLAPS

\* Who has set ORIGINATOR_ID, and that announcements use sessions: an
\* announcement without it comes from the origin itself, and any other names
\* the origin.
OriginatorNamed ==
    \A m \in inflight :
        /\ role[m.from][m.to] # NoSession
        /\ m.attrs.originator_id \in {None, origin}
        /\ m.attrs.originator_id = None => m.from = origin

\* No router has a session with itself.
NotOwnPeer == \A r \in Routers : role[r][r] = NoSession

\* The inductive invariant.
ReflectionInv ==
    /\ ReflectionTypeOK
    /\ NotOwnPeer
    /\ ClusterListsSimple
    /\ OriginatorNamed
    /\ OriginNeverLearnsItsOwn

\* Reflected attributes are attributes.
LEMMA PreparedType ==
    ASSUME NEW r \in Routers, NEW attrs \in Attributes, NEW o \in Routers,
           ReflectionTypeOK
    PROVE  PrepareReflectedAttrs(r, attrs, o) \in Attributes
BY DEF ReflectionTypeOK, PrepareReflectedAttrs, Attributes

\* A cluster that is not in the list yet may be put in front of it.
LEMMA PreparedSimple ==
    ASSUME NEW r \in Routers, NEW attrs \in Attributes, NEW o \in Routers,
           ReflectionTypeOK,
           IsInjective(attrs.cluster_list), ~HasClusterLoop(r, attrs)
    PROVE  IsInjective(PrepareReflectedAttrs(r, attrs, o).cluster_list)
<1> DEFINE old == attrs.cluster_list
           new == <<cluster_id[r]>> \o old
<1>1. old \in Seq(ClusterIds) /\ cluster_id[r] \in ClusterIds
  BY DEF Attributes, ReflectionTypeOK
<1>2. /\ DOMAIN old = 1..Len(old) /\ DOMAIN new = 1..(Len(old) + 1)
      /\ Len(old) \in Nat
      /\ new[1] = cluster_id[r]
      /\ \A i \in 2..(Len(old) + 1) : new[i] = old[i - 1]
  BY <1>1
<1>3. \A i \in 1..Len(old) : old[i] # cluster_id[r]
  BY <1>2 DEF HasClusterLoop, Range
<1>4. \A i, j \in 1..Len(old) : old[i] = old[j] => i = j
  BY <1>2 DEF IsInjective
<1>5. ASSUME NEW i \in 1..(Len(old) + 1), NEW j \in 1..(Len(old) + 1),
             new[i] = new[j]
      PROVE  i = j
  <2> HIDE DEF old, new
  <2>1. CASE i = 1 /\ j # 1
    <3>1. j - 1 \in 1..Len(old) /\ new[j] = old[j - 1]
      BY <1>2, <2>1
    <3> QED  BY <1>2, <1>3, <1>5, <2>1, <3>1
  <2>2. CASE i # 1 /\ j = 1
    <3>1. i - 1 \in 1..Len(old) /\ new[i] = old[i - 1]
      BY <1>2, <2>2
    <3> QED  BY <1>2, <1>3, <1>5, <2>2, <3>1
  <2>3. CASE i # 1 /\ j # 1
    <3>1. /\ i - 1 \in 1..Len(old) /\ j - 1 \in 1..Len(old)
          /\ new[i] = old[i - 1] /\ new[j] = old[j - 1]
      BY <1>2, <2>3
    <3>2. i - 1 = j - 1
      BY <1>4, <1>5, <3>1
    <3> QED  BY <1>2, <3>2
  <2> QED  BY <2>1, <2>2, <2>3
<1>6. PrepareReflectedAttrs(r, attrs, o).cluster_list = new
  BY DEF PrepareReflectedAttrs
<1> QED  BY <1>2, <1>5, <1>6 DEF IsInjective

-----------------------------------------------------------------------------

LEMMA ReflectionInitInv == ReflectionInit => ReflectionInv
<1> SUFFICES ASSUME ReflectionInit PROVE ReflectionInv
  OBVIOUS
<1>1. PICK top \in Topologies : role = top.role /\ cluster_id = top.cluster
  BY DEF ReflectionInit
<1>2. ReflectionTypeOK
  <2>1. /\ role \in [Routers -> [Routers -> RrRole \cup {NoSession}]]
        /\ cluster_id \in [Routers -> ClusterIds]
    BY <1>1, ReflectionAssumption
  <2> QED  BY <2>1 DEF ReflectionInit, ReflectionTypeOK
<1>3. NotOwnPeer
  BY <1>1, ReflectionAssumption DEF NotOwnPeer
<1> QED
  BY <1>2, <1>3 DEF ReflectionInit, ReflectionInv, ClusterListsSimple,
                    OriginatorNamed, OriginNeverLearnsItsOwn

LEMMA BringInv == ReflectionInv /\ Bring => ReflectionInv'
<1> SUFFICES ASSUME ReflectionInv, Bring PROVE ReflectionInv'
  OBVIOUS
<1> DEFINE plain == [originator_id |-> None, cluster_list |-> <<>>]
<1>1. plain \in Attributes /\ IsInjective(plain.cluster_list)
      /\ ~HasClusterLoop(origin, plain) /\ plain.originator_id = None
  BY DEF Attributes, IsInjective, HasClusterLoop, Range
<1>2. origin \in Routers /\ ReflectionTypeOK
  BY DEF ReflectionInv, ReflectionTypeOK
<1>3. PICK attrs \in {plain, PrepareReflectedAttrs(origin, plain, origin)} :
        inflight' = {[from |-> origin, to |-> t, attrs |-> attrs] :
                       t \in {s \in Peers(origin) :
                                ShouldReflect("None", role[origin][s], None, s)}}
  BY DEF Bring
<1>4. /\ attrs \in Attributes
      /\ IsInjective(attrs.cluster_list)
      /\ attrs.originator_id \in {None, origin}
  <2>1. CASE attrs = plain
    BY <1>1, <2>1
  <2>2. CASE attrs = PrepareReflectedAttrs(origin, plain, origin)
    <3>1. attrs.originator_id = origin
      BY <1>1, <2>2 DEF PrepareReflectedAttrs
    <3> HIDE DEF plain
    <3> QED  BY <1>1, <1>2, <2>2, <3>1, PreparedType, PreparedSimple
  <2> QED  BY <1>3, <2>1, <2>2
<1>5. \A m \in inflight' :
        /\ m \in [from : Routers, to : Routers, attrs : Attributes]
        /\ m.from = origin /\ m.attrs = attrs
        /\ role[origin][m.to] # NoSession
  BY <1>2, <1>3, <1>4 DEF Peers
<1>6. UNCHANGED <<role, cluster_id, origin, accepted>> /\ brought' = TRUE
  BY DEF Bring
<1>7. ReflectionTypeOK'
  BY <1>2, <1>5, <1>6 DEF ReflectionTypeOK
<1>8. ClusterListsSimple' /\ OriginatorNamed'
  BY <1>4, <1>5, <1>6 DEF ClusterListsSimple, OriginatorNamed
<1> QED
  BY <1>6, <1>7, <1>8 DEF ReflectionInv, NotOwnPeer, OriginNeverLearnsItsOwn

LEMMA DiscardInv ==
    ASSUME ReflectionInv, NEW m \in inflight, Discard(m)
    PROVE  ReflectionInv'
BY DEF Discard, ReflectionInv, ReflectionTypeOK, NotOwnPeer, ClusterListsSimple,
       OriginatorNamed, OriginNeverLearnsItsOwn

LEMMA AcceptInv ==
    ASSUME ReflectionInv, NEW m \in inflight, Accept(m)
    PROVE  ReflectionInv'
<1>1. /\ m.from \in Routers /\ m.to \in Routers /\ m.attrs \in Attributes
      /\ ReflectionTypeOK /\ IsInjective(m.attrs.cluster_list)
      /\ role[m.from][m.to] # NoSession
      /\ m.attrs.originator_id \in {None, origin}
      /\ m.attrs.originator_id = None => m.from = origin
  BY DEF ReflectionInv, ReflectionTypeOK, ClusterListsSimple, OriginatorNamed
<1> DEFINE out == PrepareReflectedAttrs(m.to, m.attrs, m.from)
<1>2. /\ ~HasClusterLoop(m.to, m.attrs)
      /\ m.attrs.originator_id # m.to
      /\ accepted' = [accepted EXCEPT ![m.to] = @ \cup {m.attrs}]
      /\ UNCHANGED <<role, cluster_id, origin, brought>>
  BY DEF Accept, HasLoop, HasOriginatorLoop
<1>3. m.to # origin
  BY <1>1, <1>2 DEF ReflectionInv, NotOwnPeer
<1>4. /\ out \in Attributes /\ IsInjective(out.cluster_list)
  BY <1>1, <1>2, PreparedType, PreparedSimple
<1>5. out.originator_id = origin
  BY <1>1, ReflectionAssumption DEF PrepareReflectedAttrs
<1>6. \A n \in inflight' :
        \/ n \in inflight
        \/ /\ n \in [from : Routers, to : Routers, attrs : Attributes]
           /\ n.from = m.to /\ n.attrs = out
           /\ role[m.to][n.to] # NoSession
  <2> HIDE DEF out
  <2>1. inflight' = (inflight \ {m}) \cup
           {[from |-> m.to, to |-> t, attrs |-> out] :
              t \in {s \in Peers(m.to) :
                       ShouldReflect(role[m.to][m.from], role[m.to][s], m.from, s)}}
    BY DEF Accept, out
  <2> QED  BY <1>1, <1>4, <2>1 DEF Peers
<1> HIDE DEF out
<1>7. ReflectionTypeOK'
  <2>1. accepted' \in [Routers -> SUBSET Attributes]
    BY <1>1, <1>2 DEF ReflectionTypeOK
  <2> QED  BY <1>1, <1>2, <1>6, <2>1 DEF ReflectionTypeOK
<1>8. ClusterListsSimple'
  BY <1>4, <1>6 DEF ReflectionInv, ClusterListsSimple
<1>9. OriginatorNamed'
  <2>1. origin # None
    BY <1>1, ReflectionAssumption DEF ReflectionTypeOK
  <2> QED  BY <1>2, <1>5, <1>6, <2>1 DEF ReflectionInv, OriginatorNamed
<1>10. OriginNeverLearnsItsOwn'
  BY <1>1, <1>2, <1>3 DEF ReflectionInv, ReflectionTypeOK, OriginNeverLearnsItsOwn
<1> QED
  BY <1>2, <1>7, <1>8, <1>9, <1>10 DEF ReflectionInv, NotOwnPeer

\* Every state of a behaviour satisfies the invariant.
LEMMA ReflectionInvariant == ReflectionSpec => []ReflectionInv
<1>1. ReflectionInv /\ [ReflectionNext]_vars => ReflectionInv'
  <2> SUFFICES ASSUME ReflectionInv, [ReflectionNext]_vars PROVE ReflectionInv'
    OBVIOUS
  <2>1. CASE Bring
    BY <2>1, BringInv
  <2>2. ASSUME NEW m \in inflight, Deliver(m) PROVE ReflectionInv'
    BY <2>2, DiscardInv, AcceptInv DEF Deliver
  <2>3. CASE UNCHANGED vars
    BY <2>3 DEF vars, ReflectionInv, ReflectionTypeOK, NotOwnPeer,
                ClusterListsSimple, OriginatorNamed, OriginNeverLearnsItsOwn
  <2> QED  BY <2>1, <2>2, <2>3 DEF ReflectionNext
<1> QED  BY <1>1, ReflectionInitInv, PTL DEF ReflectionSpec

\* No announcement passes a cluster twice (rr.rs, has_cluster_loop and
\* prepare_reflected_attrs), whatever the sessions and whoever shares a
\* cluster.
THEOREM ReflectionClusterListsSimple == ReflectionSpec => []ClusterListsSimple
<1>1. ReflectionInv => ClusterListsSimple
  BY DEF ReflectionInv
<1> QED  BY <1>1, ReflectionInvariant, PTL

\* The router that brought a route in never takes it back (rr.rs,
\* has_originator_loop), whatever the sessions are.
THEOREM ReflectionOriginNeverLearns == ReflectionSpec => []OriginNeverLearnsItsOwn
<1>1. ReflectionInv => OriginNeverLearnsItsOwn
  BY DEF ReflectionInv
<1> QED  BY <1>1, ReflectionInvariant, PTL

-----------------------------------------------------------------------------
(* Who has the route in the end.  Every announcement runs along a path of  *)
(* reflection, so only routers at the end of one take the route; and on    *)
(* every such path the route is either still under way or has arrived.     *)

\* The paths of reflection of n routers: SimplePaths without its bound.
PathsOf(n) ==
    {p \in [1..n -> Routers] :
       /\ p[1] = origin
       /\ IsInjective(p)
       /\ \A i \in 1..(n - 1) : role[p[i]][p[i + 1]] # NoSession
       /\ \A i \in 2..(n - 1) : "Client" \in {role[p[i]][p[i - 1]],
                                              role[p[i]][p[i + 1]]}}

\* A session has two ends.
SessionsMutual ==
    \A r, s \in Routers : (role[r][s] = NoSession) <=> (role[s][r] = NoSession)

\* Announcement m has come along path p of n routers and may go on: its
\* CLUSTER_LIST names everybody on the way but possibly the origin.
Along(m, p, n) ==
    /\ p[n] = m.from
    /\ n > 1 => "Client" \in {role[p[n]][p[n - 1]], role[p[n]][m.to]}
    /\ \A i \in 2..n : cluster_id[p[i]] \in Range(m.attrs.cluster_list)

\* Every announcement has come along some path.
OnPaths ==
    \A m \in inflight : \E n \in Nat \ {0} : \E p \in PathsOf(n) : Along(m, p, n)

\* Who has taken the route is at the end of some path.
TakenOnPaths ==
    \A r \in Routers : accepted[r] # {} =>
        \E n \in Nat \ {0, 1} : \E p \in PathsOf(n) : p[n] = r

\* Announcement m is on its way from router i of path p to the next, and names
\* clusters of the routers before only.
Reaches(m, p, i) ==
    /\ m.from = p[i]
    /\ m.to = p[i + 1]
    /\ \A c \in Range(m.attrs.cluster_list) :
         \E j \in 1..i : c = cluster_id[p[j]]

\* Path p of n routers: the last has the route, or it is still on its way.
Served(p, n) ==
    \/ accepted[p[n]] # {}
    \/ \E i \in 1..(n - 1) : \E m \in inflight : Reaches(m, p, i)

PathsServed ==
    (brought /\ IsInjective(cluster_id))
      => \A n \in Nat \ {0, 1} : \A p \in PathsOf(n) : Served(p, n)

\* The inductive invariant of the paths.
PathInv == SessionsMutual /\ OnPaths /\ TakenOnPaths /\ PathsServed

\* A path may be continued by a router that is not on it yet.
LEMMA PathGrows ==
    ASSUME ReflectionTypeOK, NEW n \in Nat \ {0}, NEW p \in PathsOf(n),
           NEW r \in Routers, \A i \in 1..n : p[i] # r,
           role[p[n]][r] # NoSession,
           n > 1 => "Client" \in {role[p[n]][p[n - 1]], role[p[n]][r]}
    PROVE  LET q == [i \in 1..(n + 1) |-> IF i = n + 1 THEN r ELSE p[i]]
           IN  q \in PathsOf(n + 1)
<1> DEFINE q == [i \in 1..(n + 1) |-> IF i = n + 1 THEN r ELSE p[i]]
<1>1. /\ p \in [1..n -> Routers] /\ p[1] = origin
      /\ \A i, j \in 1..n : p[i] = p[j] => i = j
      /\ \A i \in 1..(n - 1) : role[p[i]][p[i + 1]] # NoSession
      /\ \A i \in 2..(n - 1) : "Client" \in {role[p[i]][p[i - 1]],
                                             role[p[i]][p[i + 1]]}
  BY DEF PathsOf, IsInjective
<1>2. /\ q \in [1..(n + 1) -> Routers] /\ q[n + 1] = r
      /\ \A i \in 1..n : q[i] = p[i]
  BY <1>1
<1> HIDE DEF q
<1>3. q[1] = origin
  BY <1>1, <1>2
<1>4. ASSUME NEW i \in 1..(n + 1), NEW j \in 1..(n + 1), q[i] = q[j]
      PROVE  i = j
  <2>1. CASE i \in 1..n /\ j \in 1..n
    BY <1>1, <1>2, <1>4, <2>1
  <2>2. CASE i = n + 1 /\ j \in 1..n
    BY <1>2, <1>4, <2>2
  <2>3. CASE i \in 1..n /\ j = n + 1
    BY <1>2, <1>4, <2>3
  <2> QED  BY <2>1, <2>2, <2>3
<1>5. ASSUME NEW i \in 1..((n + 1) - 1) PROVE role[q[i]][q[i + 1]] # NoSession
  <2>1. CASE i = n
    BY <1>2, <2>1
  <2>2. CASE i # n
    <3>1. i \in 1..(n - 1) /\ q[i] = p[i] /\ q[i + 1] = p[i + 1]
      BY <1>2, <2>2
    <3> QED  BY <1>1, <3>1
  <2> QED  BY <2>1, <2>2
<1>6. ASSUME NEW i \in 2..((n + 1) - 1)
      PROVE  "Client" \in {role[q[i]][q[i - 1]], role[q[i]][q[i + 1]]}
  <2>1. CASE i = n
    <3>1. q[i] = p[n] /\ q[i - 1] = p[n - 1] /\ q[i + 1] = r /\ n > 1
      BY <1>2, <2>1
    <3> QED  BY <3>1
  <2>2. CASE i # n
    <3>1. /\ i \in 2..(n - 1)
          /\ q[i] = p[i] /\ q[i - 1] = p[i - 1] /\ q[i + 1] = p[i + 1]
      BY <1>2, <2>2
    <3> QED  BY <1>1, <3>1
  <2> QED  BY <2>1, <2>2
<1>7. q \in PathsOf(n + 1)
  BY <1>2, <1>3, <1>4, <1>5, <1>6 DEF PathsOf, IsInjective
<1> QED  BY <1>7 DEF q

\* Paths depend on the sessions only.
LEMMA PathsKept ==
    ASSUME UNCHANGED <<role, origin>>
    PROVE  \A n : PathsOf(n)' = PathsOf(n)
BY DEF PathsOf

\* A path without a repeated router has no more routers than there are.
LEMMA PathBounded ==
    ASSUME NEW n \in Nat \ {0}, NEW p \in PathsOf(n)
    PROVE  n <= Cardinality(Routers)
<1>1. p \in Injection(1..n, Routers)
  BY DEF PathsOf, IsInjective, Injection
<1>2. Cardinality(1..n) <= Cardinality(Routers)
  BY <1>1, FS_Injection, ReflectionAssumption
<1>3. Cardinality(1..n) = n
  BY FS_Interval
<1> QED  BY <1>2, <1>3

LEMMA PathInitInv == ReflectionInit => PathInv
<1> SUFFICES ASSUME ReflectionInit PROVE PathInv
  OBVIOUS
<1>1. PICK top \in Topologies : role = top.role
  BY DEF ReflectionInit
<1>2. SessionsMutual
  BY <1>1, ReflectionAssumption DEF SessionsMutual
<1> QED
  BY <1>2 DEF ReflectionInit, PathInv, OnPaths, TakenOnPaths, PathsServed

\* The origin alone is a path.
LEMMA OriginPath ==
    ASSUME ReflectionTypeOK
    PROVE  [i \in 1..1 |-> origin] \in PathsOf(1)
<1> DEFINE p == [i \in 1..1 |-> origin]
<1>1. p \in [1..1 -> Routers] /\ p[1] = origin /\ DOMAIN p = 1..1
  BY DEF ReflectionTypeOK
<1> HIDE DEF p
<1>2. /\ IsInjective(p)
      /\ \A i \in 1..(1 - 1) : role[p[i]][p[i + 1]] # NoSession
      /\ \A i \in 2..(1 - 1) : "Client" \in {role[p[i]][p[i - 1]],
                                             role[p[i]][p[i + 1]]}
  BY <1>1 DEF IsInjective
<1>3. p \in PathsOf(1)
  BY <1>1, <1>2 DEF PathsOf
<1> QED  BY <1>3 DEF p

LEMMA BringPathInv == ReflectionInv /\ PathInv /\ Bring => PathInv'
<1> SUFFICES ASSUME ReflectionInv, PathInv, Bring PROVE PathInv'
  OBVIOUS
<1> DEFINE plain == [originator_id |-> None, cluster_list |-> <<>>]
           marked == PrepareReflectedAttrs(origin, plain, origin)
<1>1. /\ origin \in Routers /\ ReflectionTypeOK
      /\ UNCHANGED <<role, cluster_id, origin, accepted>>
  BY DEF ReflectionInv, ReflectionTypeOK, Bring
<1>2. PICK attrs \in {plain, marked} :
        inflight' = {[from |-> origin, to |-> t, attrs |-> attrs] :
                       t \in {s \in Peers(origin) :
                                ShouldReflect("None", role[origin][s], None, s)}}
  BY DEF Bring
<1>3. \A c \in Range(attrs.cluster_list) : c = cluster_id[origin]
  <2>1. CASE attrs = plain
    BY <2>1 DEF Range
  <2>2. CASE attrs = marked
    <3>1. attrs.cluster_list = <<cluster_id[origin]>> \o <<>>
      BY <2>2 DEF PrepareReflectedAttrs
    <3>2. attrs.cluster_list = <<cluster_id[origin]>>
      BY <1>1, <3>1 DEF ReflectionTypeOK
    <3> QED  BY <3>2 DEF Range
  <2> QED  BY <1>2, <2>1, <2>2
<1> HIDE DEF plain, marked
<1>4. OnPaths'
  <2> SUFFICES ASSUME NEW m \in inflight'
               PROVE  \E n \in Nat \ {0} : \E p \in PathsOf(n) : Along(m, p, n)'
    BY <1>1, PathsKept DEF OnPaths
  <2>1. m.from = origin
    BY <1>2
  <2>2. PICK p \in PathsOf(1) : p[1] = origin
    BY <1>1, OriginPath DEF PathsOf
  <2>3. Along(m, p, 1)'
    BY <2>1, <2>2 DEF Along
  <2> QED  BY <2>3
<1>5. TakenOnPaths'
  BY <1>1, PathsKept DEF PathInv, TakenOnPaths
<1>6. PathsServed'
  <2> SUFFICES ASSUME NEW n \in Nat \ {0, 1}, NEW p \in PathsOf(n)
               PROVE  Served(p, n)'
    BY <1>1, PathsKept DEF PathsServed
  <2>1. /\ p[1] = origin /\ p[2] \in Routers /\ 1 \in 1..(n - 1)
        /\ role[p[1]][p[1 + 1]] # NoSession
    BY DEF PathsOf
  <2>2. [from |-> origin, to |-> p[2], attrs |-> attrs] \in inflight'
    <3>1. None # p[2]
      BY <2>1, ReflectionAssumption
    <3> QED  BY <1>2, <2>1, <3>1 DEF Peers, ShouldReflect
  <2>3. PICK m \in inflight' : m.from = p[1] /\ m.to = p[1 + 1] /\ m.attrs = attrs
    BY <2>1, <2>2
  <2>4. Reaches(m, p, 1)'
    <3>1. \A c \in Range(m.attrs.cluster_list) :
             \E j \in 1..1 : c = cluster_id'[p[j]]
      BY <1>1, <1>3, <2>1, <2>3
    <3> QED  BY <2>3, <3>1 DEF Reaches
  <2> QED  BY <2>1, <2>4 DEF Served
<1> QED
  BY <1>1, <1>4, <1>5, <1>6 DEF PathInv, SessionsMutual

\* An announcement that is on its way along a path finds no loop, where every
\* router is a cluster of its own.
LEMMA NoLoopOnPath ==
    ASSUME ReflectionInv, IsInjective(cluster_id),
           NEW n \in Nat \ {0, 1}, NEW p \in PathsOf(n), NEW i \in 1..(n - 1),
           NEW m \in inflight, Reaches(m, p, i)
    PROVE  ~HasLoop(m.to, m.attrs)
<1>1. /\ p \in [1..n -> Routers] /\ p[1] = origin /\ m.to = p[i + 1]
      /\ \A j, k \in 1..n : p[j] = p[k] => j = k
      /\ i + 1 \in 1..n /\ i + 1 # 1 /\ 1 \in 1..n
  BY DEF PathsOf, IsInjective, Reaches
<1>2. /\ m.attrs.originator_id \in {None, origin}
      /\ None \notin Routers
  BY ReflectionAssumption DEF ReflectionInv, OriginatorNamed
<1>3. p[i + 1] # origin /\ p[i + 1] \in Routers
  BY <1>1
<1>4. ~HasOriginatorLoop(m.to, m.attrs)
  BY <1>1, <1>2, <1>3 DEF HasOriginatorLoop
<1>5. ASSUME NEW j \in 1..i, cluster_id[p[i + 1]] = cluster_id[p[j]]
      PROVE  FALSE
  <2>1. j \in 1..n /\ j # i + 1
    OBVIOUS
  <2>2. /\ p[j] \in DOMAIN cluster_id /\ p[i + 1] \in DOMAIN cluster_id
    BY <1>1, <2>1 DEF ReflectionInv, ReflectionTypeOK
  <2>3. p[j] = p[i + 1]
    BY <1>5, <2>2 DEF IsInjective
  <2> QED  BY <1>1, <2>1, <2>3
<1>6. ~HasClusterLoop(m.to, m.attrs)
  BY <1>1, <1>5 DEF HasClusterLoop, Reaches
<1> QED  BY <1>4, <1>6 DEF HasLoop

LEMMA DiscardPathInv ==
    ASSUME ReflectionInv, PathInv, NEW m \in inflight, Discard(m)
    PROVE  PathInv'
<1>1. /\ HasLoop(m.to, m.attrs) /\ inflight' = inflight \ {m}
      /\ UNCHANGED <<role, cluster_id, origin, brought, accepted>>
  BY DEF Discard
<1>2. OnPaths'
  BY <1>1, PathsKept DEF PathInv, OnPaths, Along
<1>3. TakenOnPaths'
  BY <1>1, PathsKept DEF PathInv, TakenOnPaths
<1>4. PathsServed'
  <2> SUFFICES ASSUME brought, IsInjective(cluster_id),
                      NEW n \in Nat \ {0, 1}, NEW p \in PathsOf(n)
               PROVE  Served(p, n)'
    BY <1>1, PathsKept DEF PathsServed
  <2>1. CASE accepted[p[n]] # {}
    BY <1>1, <2>1 DEF Served
  <2>2. ASSUME NEW i \in 1..(n - 1), NEW k \in inflight, Reaches(k, p, i)
        PROVE  Served(p, n)'
    <3>1. k # m
      BY <1>1, <2>2, NoLoopOnPath
    <3>2. k \in inflight' /\ Reaches(k, p, i)'
      BY <1>1, <2>2, <3>1 DEF Reaches
    <3> QED  BY <3>2 DEF Served
  <2>3. Served(p, n)
    BY DEF PathInv, PathsServed
  <2> QED  BY <2>1, <2>2, <2>3 DEF Served
<1> QED
  BY <1>1, <1>2, <1>3, <1>4 DEF PathInv, SessionsMutual

\* What taking m leads to, for each announcement that comes of it.
LEMMA AcceptedAnnouncements ==
    ASSUME ReflectionInv, NEW m \in inflight, Accept(m)
    PROVE  /\ \A k \in inflight \ {m} : k \in inflight'
           /\ \A s \in Routers :
                (/\ role[m.to][s] # NoSession
                 /\ ShouldReflect(role[m.to][m.from], role[m.to][s], m.from, s))
                  => \E k \in inflight' :
                       /\ k.from = m.to /\ k.to = s
                       /\ k.attrs.cluster_list
                            = <<cluster_id[m.to]>> \o m.attrs.cluster_list
           /\ \A k \in inflight' :
                \/ k \in inflight
                \/ /\ k.from = m.to
                   /\ k.attrs.cluster_list
                        = <<cluster_id[m.to]>> \o m.attrs.cluster_list
                   /\ k.to \in Routers
                   /\ role[m.to][k.to] # NoSession
                   /\ ShouldReflect(role[m.to][m.from], role[m.to][k.to], m.from, k.to)
<1> DEFINE out == PrepareReflectedAttrs(m.to, m.attrs, m.from)
<1>1. out.cluster_list = <<cluster_id[m.to]>> \o m.attrs.cluster_list
  BY DEF PrepareReflectedAttrs
<1> HIDE DEF out
<1>2. inflight' = (inflight \ {m}) \cup
           {[from |-> m.to, to |-> t, attrs |-> out] :
              t \in {s \in Peers(m.to) :
                       ShouldReflect(role[m.to][m.from], role[m.to][s], m.from, s)}}
  BY DEF Accept, out
<1>3. ASSUME NEW s \in Routers, role[m.to][s] # NoSession,
             ShouldReflect(role[m.to][m.from], role[m.to][s], m.from, s)
      PROVE  [from |-> m.to, to |-> s, attrs |-> out] \in inflight'
  BY <1>2, <1>3 DEF Peers
<1>4. ASSUME NEW k \in inflight', k \notin inflight
      PROVE  \E s \in Routers :
               /\ role[m.to][s] # NoSession
               /\ ShouldReflect(role[m.to][m.from], role[m.to][s], m.from, s)
               /\ k = [from |-> m.to, to |-> s, attrs |-> out]
  BY <1>2, <1>4 DEF Peers
<1>5. \A k \in inflight \ {m} : k \in inflight'
  BY <1>2
<1>6. ASSUME NEW s \in Routers, role[m.to][s] # NoSession,
             ShouldReflect(role[m.to][m.from], role[m.to][s], m.from, s)
      PROVE  \E k \in inflight' :
               /\ k.from = m.to /\ k.to = s
               /\ k.attrs.cluster_list
                    = <<cluster_id[m.to]>> \o m.attrs.cluster_list
  <2>1. [from |-> m.to, to |-> s, attrs |-> out] \in inflight'
    BY <1>3, <1>6
  <2> QED  BY <1>1, <2>1
<1>7. ASSUME NEW k \in inflight', k \notin inflight
      PROVE  /\ k.from = m.to
             /\ k.attrs.cluster_list
                  = <<cluster_id[m.to]>> \o m.attrs.cluster_list
             /\ k.to \in Routers
             /\ role[m.to][k.to] # NoSession
             /\ ShouldReflect(role[m.to][m.from], role[m.to][k.to], m.from, k.to)
  <2>1. PICK s \in Routers :
               /\ role[m.to][s] # NoSession
               /\ ShouldReflect(role[m.to][m.from], role[m.to][s], m.from, s)
               /\ k = [from |-> m.to, to |-> s, attrs |-> out]
    BY <1>4, <1>7
  <2>2. k.from = m.to /\ k.to = s /\ k.attrs = out
    BY <2>1
  <2> QED  BY <1>1, <2>1, <2>2
<1> QED  BY <1>5, <1>6, <1>7

\* Members of a list that one was put in front of.
LEMMA RangeOfCons ==
    ASSUME NEW S, NEW c \in S, NEW s \in Seq(S)
    PROVE  Range(<<c>> \o s) = {c} \cup Range(s)
<1> DEFINE t == <<c>> \o s
<1>1. /\ DOMAIN t = 1..(Len(s) + 1) /\ t[1] = c /\ Len(s) \in Nat
      /\ DOMAIN s = 1..Len(s)
      /\ \A i \in 1..Len(s) : t[i + 1] = s[i]
  OBVIOUS
<1> HIDE DEF t
<1>2. \A i \in 2..(Len(s) + 1) : i - 1 \in 1..Len(s) /\ t[i] = s[i - 1]
  BY <1>1
<1>3. \A i \in 1..Len(s) : i + 1 \in DOMAIN t
  BY <1>1
<1>4. \A x \in Range(t) : x \in {c} \cup Range(s)
  BY <1>1, <1>2 DEF Range
<1>5. \A x \in {c} \cup Range(s) : x \in Range(t)
  BY <1>1, <1>3 DEF Range
<1>6. Range(t) = {c} \cup Range(s)
  BY <1>4, <1>5
<1> QED  BY <1>6 DEF t

LEMMA AcceptPathInv ==
    ASSUME ReflectionInv, PathInv, NEW m \in inflight, Accept(m)
    PROVE  PathInv'
<1>1. /\ ReflectionTypeOK
      /\ m.from \in Routers /\ m.to \in Routers /\ m.attrs \in Attributes
      /\ m.attrs.cluster_list \in Seq(ClusterIds)
      /\ cluster_id[m.to] \in ClusterIds
      /\ role[m.from][m.to] # NoSession
      /\ m.attrs.originator_id \in {None, origin}
      /\ m.attrs.originator_id = None => m.from = origin
  BY DEF ReflectionInv, ReflectionTypeOK, OriginatorNamed, Attributes
<1>2. /\ ~HasClusterLoop(m.to, m.attrs)
      /\ m.attrs.originator_id # m.to
      /\ accepted' = [accepted EXCEPT ![m.to] = @ \cup {m.attrs}]
      /\ UNCHANGED <<role, cluster_id, origin, brought>>
  BY DEF Accept, HasLoop, HasOriginatorLoop
<1>3. m.to # origin
  BY <1>1, <1>2 DEF ReflectionInv, NotOwnPeer
<1>4. /\ accepted' \in [Routers -> SUBSET Attributes]
      /\ m.attrs \in accepted'[m.to]
      /\ \A r \in Routers : accepted[r] \subseteq accepted'[r]
      /\ \A r \in Routers \ {m.to} : accepted'[r] = accepted[r]
  BY <1>1, <1>2 DEF ReflectionTypeOK
<1>5. Range(<<cluster_id[m.to]>> \o m.attrs.cluster_list)
        = {cluster_id[m.to]} \cup Range(m.attrs.cluster_list)
  BY <1>1, RangeOfCons
\* The path that m has come along leads on to m.to.
<1>6. \E n \in Nat \ {0} : \E q \in PathsOf(n + 1) :
        /\ q[n] = m.from /\ q[n + 1] = m.to
        /\ \A i \in 2..n : cluster_id[q[i]] \in Range(m.attrs.cluster_list)
  <2>1. PICK n \in Nat \ {0} : \E p \in PathsOf(n) : Along(m, p, n)
    BY DEF PathInv, OnPaths
  <2>2. PICK p \in PathsOf(n) : Along(m, p, n)
    BY <2>1
  <2>3. p[1] = origin /\ p \in [1..n -> Routers]
    BY DEF PathsOf
  <2>4. \A i \in 1..n : p[i] # m.to
    BY <1>2, <1>3, <2>2, <2>3 DEF Along, HasClusterLoop
  <2> DEFINE q == [i \in 1..(n + 1) |-> IF i = n + 1 THEN m.to ELSE p[i]]
  <2>5. q \in PathsOf(n + 1)
    BY <1>1, <2>2, <2>4, PathGrows DEF Along
  <2>6. q[n + 1] = m.to /\ \A i \in 1..n : q[i] = p[i]
    OBVIOUS
  <2> HIDE DEF q
  <2>7. q[n] = m.from
    BY <2>2, <2>6 DEF Along
  <2>8. \A i \in 2..n : cluster_id[q[i]] \in Range(m.attrs.cluster_list)
    BY <2>2, <2>6 DEF Along
  <2> QED  BY <2>5, <2>6, <2>7, <2>8
<1>7. OnPaths'
  <2> SUFFICES ASSUME NEW k \in inflight'
               PROVE  \E n \in Nat \ {0} : \E p \in PathsOf(n) : Along(k, p, n)'
    BY <1>2, PathsKept DEF OnPaths
  <2>1. CASE k \in inflight
    BY <1>2, <2>1 DEF PathInv, OnPaths, Along
  <2>2. CASE k \notin inflight
    <3>1. /\ k.from = m.to
          /\ k.attrs.cluster_list = <<cluster_id[m.to]>> \o m.attrs.cluster_list
          /\ k.to \in Routers /\ role[m.to][k.to] # NoSession
          /\ ShouldReflect(role[m.to][m.from], role[m.to][k.to], m.from, k.to)
      BY <2>2, AcceptedAnnouncements
    <3>2. PICK n \in Nat \ {0} : \E q \in PathsOf(n + 1) :
            /\ q[n] = m.from /\ q[n + 1] = m.to
            /\ \A i \in 2..n : cluster_id[q[i]] \in Range(m.attrs.cluster_list)
      BY <1>6
    <3>3. PICK q \in PathsOf(n + 1) :
            /\ q[n] = m.from /\ q[n + 1] = m.to
            /\ \A i \in 2..n : cluster_id[q[i]] \in Range(m.attrs.cluster_list)
      BY <3>2
    <3>4. "Client" \in {role[m.to][m.from], role[m.to][k.to]}
      <4>1. role[m.to][m.from] \in RrRole \cup {NoSession}
        BY <1>1 DEF ReflectionTypeOK
      <4>2. role[m.to][m.from] # NoSession
        BY <1>1 DEF PathInv, SessionsMutual
      <4> QED  BY <3>1, <4>1, <4>2 DEF ShouldReflect, RrRole
    <3>5. \A i \in 2..(n + 1) : cluster_id[q[i]] \in Range(k.attrs.cluster_list)
      <4>1. ASSUME NEW i \in 2..(n + 1)
            PROVE  cluster_id[q[i]] \in {cluster_id[m.to]} \cup Range(m.attrs.cluster_list)
        <5>1. CASE i = n + 1
          BY <3>3, <5>1
        <5>2. CASE i \in 2..n
          BY <3>3, <5>2
        <5> QED  BY <5>1, <5>2
      <4> QED  BY <1>5, <3>1, <4>1
    <3>6. (n + 1) - 1 = n /\ n + 1 \in Nat \ {0}
      OBVIOUS
    <3>7. Along(k, q, n + 1)'
      BY <1>2, <3>1, <3>3, <3>4, <3>5, <3>6 DEF Along
    <3> QED  BY <3>6, <3>7
  <2> QED  BY <2>1, <2>2
<1>8. TakenOnPaths'
  <2> SUFFICES ASSUME NEW r \in Routers, accepted'[r] # {}
               PROVE  \E n \in Nat \ {0, 1} : \E p \in PathsOf(n) : p[n] = r
    BY <1>2, PathsKept DEF TakenOnPaths
  <2>1. CASE r = m.to
    <3>1. PICK n \in Nat \ {0} : \E q \in PathsOf(n + 1) : q[n + 1] = m.to
      BY <1>6
    <3>2. n + 1 \in Nat \ {0, 1}
      OBVIOUS
    <3> QED  BY <2>1, <3>1, <3>2
  <2>2. CASE r # m.to
    BY <1>4, <2>2 DEF PathInv, TakenOnPaths
  <2> QED  BY <2>1, <2>2
<1>9. PathsServed'
  <2> SUFFICES ASSUME brought, IsInjective(cluster_id),
                      NEW n \in Nat \ {0, 1}, NEW p \in PathsOf(n)
               PROVE  Served(p, n)'
    BY <1>2, PathsKept DEF PathsServed
  <2>1. /\ p \in [1..n -> Routers] /\ p[n] \in Routers
        /\ \A i, j \in 1..n : p[i] = p[j] => i = j
        /\ \A i \in 1..(n - 1) : role[p[i]][p[i + 1]] # NoSession
        /\ \A i \in 2..(n - 1) : "Client" \in {role[p[i]][p[i - 1]],
                                               role[p[i]][p[i + 1]]}
    BY DEF PathsOf, IsInjective
  <2>2. CASE accepted[p[n]] # {}
    BY <1>4, <2>1, <2>2 DEF Served
  <2>3. ASSUME NEW i \in 1..(n - 1), NEW k \in inflight, Reaches(k, p, i), k # m
        PROVE  Served(p, n)'
    <3>1. k \in inflight' /\ Reaches(k, p, i)'
      BY <1>2, <2>3, AcceptedAnnouncements DEF Reaches
    <3> QED  BY <3>1 DEF Served
  <2>4. ASSUME NEW i \in 1..(n - 1), Reaches(m, p, i)
        PROVE  Served(p, n)'
    <3>1. m.from = p[i] /\ m.to = p[i + 1]
      BY <2>4 DEF Reaches
    <3>2. CASE i = n - 1
      <4>1. m.to = p[n]
        BY <3>1, <3>2
      <4> QED  BY <1>4, <4>1 DEF Served
    <3>3. CASE i # n - 1
      <4>1. /\ i + 1 \in 2..(n - 1) /\ i + 1 \in 1..(n - 1) /\ i + 2 \in 1..n
            /\ i \in 1..n /\ i # i + 2
            /\ (i + 1) - 1 = i /\ (i + 1) + 1 = i + 2
        BY <3>3
      <4>2. /\ p[i + 2] \in Routers /\ p[i] # p[i + 2]
            /\ role[m.to][p[i + 2]] # NoSession
            /\ "Client" \in {role[m.to][m.from], role[m.to][p[i + 2]]}
        BY <2>1, <3>1, <4>1
      <4>3. /\ role[m.to][m.from] \in RrRole \cup {NoSession}
            /\ role[m.to][p[i + 2]] \in RrRole \cup {NoSession}
            /\ role[m.to][m.from] # NoSession
        BY <1>1, <4>2 DEF ReflectionTypeOK, PathInv, SessionsMutual
      <4>4. ShouldReflect(role[m.to][m.from], role[m.to][p[i + 2]], m.from, p[i + 2])
        BY <3>1, <4>2, <4>3 DEF ShouldReflect, RrRole
      <4>5. PICK k \in inflight' :
              /\ k.from = m.to /\ k.to = p[i + 2]
              /\ k.attrs.cluster_list = <<cluster_id[m.to]>> \o m.attrs.cluster_list
        BY <4>2, <4>4, AcceptedAnnouncements
      <4>6. ASSUME NEW c \in Range(k.attrs.cluster_list)
            PROVE  \E j \in 1..(i + 1) : c = cluster_id[p[j]]
        <5>1. CASE c = cluster_id[m.to]
          BY <3>1, <5>1
        <5>2. CASE c \in Range(m.attrs.cluster_list)
          <6>1. PICK j \in 1..i : c = cluster_id[p[j]]
            BY <2>4, <5>2 DEF Reaches
          <6>2. j \in 1..(i + 1)
            OBVIOUS
          <6> QED  BY <6>1, <6>2
        <5> QED  BY <1>5, <4>5, <4>6, <5>1, <5>2
      <4>7. Reaches(k, p, i + 1)'
        BY <1>2, <3>1, <4>1, <4>5, <4>6 DEF Reaches
      <4> QED  BY <4>1, <4>7 DEF Served
    <3> QED  BY <3>2, <3>3
  <2>5. Served(p, n)
    BY DEF PathInv, PathsServed
  <2> QED  BY <2>2, <2>3, <2>4, <2>5 DEF Served
<1> QED
  BY <1>2, <1>7, <1>8, <1>9 DEF PathInv, SessionsMutual

\* Every state of a behaviour satisfies the invariant of the paths.
LEMMA PathInvariant == ReflectionSpec => []PathInv
<1>1. ReflectionInv /\ PathInv /\ [ReflectionNext]_vars => PathInv'
  <2> SUFFICES ASSUME ReflectionInv, PathInv, [ReflectionNext]_vars PROVE PathInv'
    OBVIOUS
  <2>1. CASE Bring
    BY <2>1, BringPathInv
  <2>2. ASSUME NEW m \in inflight, Deliver(m) PROVE PathInv'
    BY <2>2, DiscardPathInv, AcceptPathInv DEF Deliver
  <2>3. CASE UNCHANGED vars
    <3>1. \A n : PathsOf(n)' = PathsOf(n)
      BY <2>3, PathsKept DEF vars
    <3>2. SessionsMutual'
      BY <2>3 DEF vars, PathInv, SessionsMutual
    <3>3. OnPaths'
      BY <2>3, <3>1 DEF vars, PathInv, OnPaths, Along
    <3>4. TakenOnPaths'
      BY <2>3, <3>1 DEF vars, PathInv, TakenOnPaths
    <3>5. \A p, n : Served(p, n)' = Served(p, n)
      BY <2>3 DEF vars, Served, Reaches
    <3>6. PathsServed'
      BY <2>3, <3>1, <3>5 DEF vars, PathInv, PathsServed
    <3> QED  BY <3>2, <3>3, <3>4, <3>6 DEF PathInv
  <2> QED  BY <2>1, <2>2, <2>3 DEF ReflectionNext
<1> QED  BY <1>1, PathInitInv, ReflectionInvariant, PTL DEF ReflectionSpec

\* The ends of the simple paths are the ends of all paths of reflection.
LEMMA SimplePathEnds ==
    ASSUME NEW r
    PROVE  r \in {p[Len(p)] : p \in SimplePaths}
             <=> \E n \in Nat \ {0, 1} : \E p \in PathsOf(n) : p[n] = r
<1>1. SimplePaths = UNION {PathsOf(n) : n \in 2..Cardinality(Routers)}
  BY DEF SimplePaths, PathsOf
<1>2. Cardinality(Routers) \in Nat
  BY FS_CardinalityType, ReflectionAssumption
<1>3. \A n \in Nat : \A p \in PathsOf(n) : Len(p) = n
  BY DEF PathsOf
<1>4. \A n \in Nat \ {0, 1} : \A p \in PathsOf(n) : n \in 2..Cardinality(Routers)
  BY <1>2, PathBounded
<1>5. \A n \in 2..Cardinality(Routers) : n \in Nat \ {0, 1}
  BY <1>2
<1>6. ASSUME NEW n \in 2..Cardinality(Routers), NEW p \in PathsOf(n), r = p[Len(p)]
      PROVE  \E k \in Nat \ {0, 1} : \E q \in PathsOf(k) : q[k] = r
  BY <1>3, <1>5, <1>6
<1>7. ASSUME NEW n \in Nat \ {0, 1}, NEW p \in PathsOf(n), p[n] = r
      PROVE  p \in SimplePaths /\ r = p[Len(p)]
  BY <1>1, <1>3, <1>4, <1>7
<1> QED  BY <1>1, <1>6, <1>7

\* Loop detection costs nobody the route (rr.rs, has_loop and should_reflect):
\* for every finite set of routers, whatever the sessions and the roles are,
\* exactly the routers at the end of a path without a repeated router have the
\* route when nothing is under way.
THEOREM ReflectionLosesNothing == ReflectionSpec => []LoopDetectionLosesNothing
<1>1. ReflectionInv /\ PathInv => LoopDetectionLosesNothing
  <2> SUFFICES ASSUME ReflectionInv, PathInv, brought, inflight = {},
                      IsInjective(cluster_id)
               PROVE  {r \in Routers : accepted[r] # {}}
                        = {p[Len(p)] : p \in SimplePaths}
    BY DEF LoopDetectionLosesNothing
  <2> DEFINE ends == {p[Len(p)] : p \in SimplePaths}
  <2>1. \A r : r \in ends
               <=> \E n \in Nat \ {0, 1} : \E p \in PathsOf(n) : p[n] = r
    BY SimplePathEnds
  <2> HIDE DEF ends
  <2>2. ASSUME NEW r \in Routers, accepted[r] # {} PROVE r \in ends
    BY <2>1, <2>2 DEF PathInv, TakenOnPaths
  <2>3. ASSUME NEW r \in ends PROVE r \in Routers /\ accepted[r] # {}
    <3>1. PICK n \in Nat \ {0, 1} : \E p \in PathsOf(n) : p[n] = r
      BY <2>1, <2>3
    <3>2. PICK p \in PathsOf(n) : p[n] = r
      BY <3>1
    <3>3. r \in Routers
      BY <3>2 DEF PathsOf
    <3>4. Served(p, n)
      BY DEF PathInv, PathsServed
    <3> QED  BY <3>2, <3>3, <3>4 DEF Served
  <2>4. {r \in Routers : accepted[r] # {}} = ends
    BY <2>2, <2>3
  <2> QED  BY <2>4 DEF ends
<1> QED  BY <1>1, ReflectionInvariant, PathInvariant, PTL
=============================================================================
