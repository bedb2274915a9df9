----------------------------- MODULE Reflection -----------------------------
(***************************************************************************)
(* Route reflection (rr.rs, RouteReflector): one route, brought in by an   *)
(* external peer of one router, spreads over the internal sessions of an   *)
(* AS.  The decisions are those of rr.rs; the code that asks for them is   *)
(* not in the repository, and Bring and Deliver call them the way the      *)
(* comments of rr.rs lay down.  Every announcement that passes the loop    *)
(* checks is passed on, which is the most that best-path selection could   *)
(* let through.                                                            *)
(***************************************************************************)
EXTENDS Integers, Sequences, Functions, FiniteSets, Option

CONSTANTS
    Routers,        \* routers of the AS, each named by its router ID
    ClusterIds,
    Topologies,     \* [role, cluster]: the sessions of an AS and its clusters
    NoSession       \* role of a router that one has no session with

\* RrRole towards an internal peer.  A router that reflects nothing sees
\* non-clients only; RrRole::None is the external peer.
RrRole == {"Client", "NonClient"}

ASSUME ReflectionAssumption ==
    /\ IsFiniteSet(Routers)
    /\ None \notin Routers
    /\ NoSession \notin RrRole
    /\ Topologies \subseteq
         [role : [Routers -> [Routers -> RrRole \cup {NoSession}]],
          cluster : [Routers -> ClusterIds]]
    /\ \A top \in Topologies, r \in Routers, s \in Routers :
         /\ top.role[r][r] = NoSession
         /\ (top.role[r][s] = NoSession) <=> (top.role[s][r] = NoSession)

\* The two attributes that reflection writes.
Attributes == [originator_id : Routers \cup {None}, cluster_list : Seq(ClusterIds)]

VARIABLES
    role,       \* role[r][s]: what s is to r
    cluster_id, \* RrConfig.cluster_id of every router
    origin,     \* the router with the external peer
    brought,    \* the route has been brought in
    inflight,   \* announcements under way, [from, to, attrs]
    accepted    \* accepted[r]: attributes r has taken the route with

vars == <<role, cluster_id, origin, brought, inflight, accepted>>

ReflectionInit ==
    /\ \E top \in Topologies : role = top.role /\ cluster_id = top.cluster
    /\ origin \in Routers
    /\ brought = FALSE
    /\ inflight = {}
    /\ accepted = [r \in Routers |-> {}]

-----------------------------------------------------------------------------
(* Decisions *)

\* Mutant of ShouldReflect: clients hear of each other, and nothing else.
ShouldReflectAmongClients(source_role, target_role, source, target) ==
    /\ source # target
    /\ source_role = "Client" => target_role = "Client"
    /\ source_role # "NonClient"

\* should_reflect
ShouldReflect(source_role, target_role, source, target) ==
    /\ source # target
    /\ \/ source_role = "None"
       \/ source_role = "Client" /\ target_role \in RrRole
       \/ source_role = "NonClient" /\ target_role = "Client"

\* Mutants of PrepareReflectedAttrs: the originator is that of the last hop;
\* the cluster list is left alone.
PrepareOverwriting(r, attrs, originator) ==
    [originator_id |-> originator,
     cluster_list  |-> <<cluster_id[r]>> \o attrs.cluster_list]

PrepareUnlisted(r, attrs, originator) ==
    [attrs EXCEPT !.originator_id = IF @ = None THEN originator ELSE @]

\* prepare_reflected_attrs of router r
PrepareReflectedAttrs(r, attrs, originator) ==
    [originator_id |-> IF attrs.originator_id = None THEN originator
                       ELSE attrs.originator_id,
     cluster_list  |-> <<cluster_id[r]>> \o attrs.cluster_list]

\* Mutant of HasClusterLoop: the last cluster of the path is looked at only.
HasClusterLoopLast(r, attrs) ==
    attrs.cluster_list # <<>> /\ Head(attrs.cluster_list) = cluster_id[r]

\* has_cluster_loop
HasClusterLoop(r, attrs) == cluster_id[r] \in Range(attrs.cluster_list)

\* has_originator_loop
HasOriginatorLoop(r, attrs) == attrs.originator_id = r

\* has_loop
HasLoop(r, attrs) == HasClusterLoop(r, attrs) \/ HasOriginatorLoop(r, attrs)

-----------------------------------------------------------------------------
(* The routers that use them *)

Peers(r) == {s \in Routers : role[r][s] # NoSession}

\* The external peer announces the route.  Whether a router marks what it has
\* from outside as reflected is left open: rr.rs says neither.
Bring ==
    /\ ~brought
    /\ brought' = TRUE
    /\ LET plain == [originator_id |-> None, cluster_list |-> <<>>]
       IN  \E attrs \in {plain, PrepareReflectedAttrs(origin, plain, origin)} :
             inflight' = {[from |-> origin, to |-> t, attrs |-> attrs] :
                            t \in {s \in Peers(origin) :
                                     ShouldReflect("None", role[origin][s], None, s)}}
    /\ UNCHANGED <<role, cluster_id, origin, accepted>>

\* An announcement that would loop is dropped.
Discard(m) ==
    /\ HasLoop(m.to, m.attrs)
    /\ inflight' = inflight \ {m}
    /\ UNCHANGED <<role, cluster_id, origin, brought, accepted>>

\* Any other is taken and reflected.
Accept(m) ==
    LET r == m.to IN
    /\ ~HasLoop(r, m.attrs)
    /\ accepted' = [accepted EXCEPT ![r] = @ \cup {m.attrs}]
    /\ inflight' =
         (inflight \ {m}) \cup
           {[from |-> r, to |-> t,
             attrs |-> PrepareReflectedAttrs(r, m.attrs, m.from)] :
              t \in {s \in Peers(r) :
                       ShouldReflect(role[r][m.from], role[r][s], m.from, s)}}
    /\ UNCHANGED <<role, cluster_id, origin, brought>>

Deliver(m) == Discard(m) \/ Accept(m)

ReflectionNext == Bring \/ \E m \in inflight : Deliver(m)

\* Announcements arrive: TCP delivers, and the peer's task is polled.
ReflectionFairness == WF_vars(\E m \in inflight : Deliver(m))

ReflectionSpec == ReflectionInit /\ [][ReflectionNext]_vars /\ ReflectionFairness

-----------------------------------------------------------------------------
(* Properties *)

\* Types of the variables.
ReflectionTypeOK ==
    /\ role \in [Routers -> [Routers -> RrRole \cup {NoSession}]]
    /\ cluster_id \in [Routers -> ClusterIds]
    /\ origin \in Routers
    /\ brought \in BOOLEAN
    /\ inflight \subseteq [from : Routers, to : Routers, attrs : Attributes]
    /\ accepted \in [Routers -> SUBSET Attributes]

\* No announcement passes a cluster twice, however reflectors are nested, be
\* clients of each other or share a cluster: the list that has_cluster_loop
\* searches names a cluster once.
ClusterListsSimple == \A m \in inflight : IsInjective(m.attrs.cluster_list)

\* The router that brought the route in never takes it back from inside, by
\* whatever detour it returns and whoever set ORIGINATOR_ID first.
OriginNeverLearnsItsOwn == accepted[origin] = {}

\* Reflection comes to rest also where sessions form rings.
Quiescence == <>[](inflight = {})

\* Reference: the paths of reflection.  A router on the way passes the route
\* on when it has it from a client or gives it to a client (rr.rs:41-44).
SimplePaths ==
    UNION {{p \in [1..n -> Routers] :
              /\ p[1] = origin
              /\ IsInjective(p)
              /\ \A i \in 1..(n - 1) : role[p[i]][p[i + 1]] # NoSession
              /\ \A i \in 2..(n - 1) : "Client" \in {role[p[i]][p[i - 1]],
                                                     role[p[i]][p[i + 1]]}}
           : n \in 2..Cardinality(Routers)}

\* Loop detection costs nobody the route: where every router is a cluster of
\* its own, in the end exactly those have it who are on some path without a
\* repeated router.
LoopDetectionLosesNothing ==
    (brought /\ inflight = {} /\ IsInjective(cluster_id))
      => {r \in Routers : accepted[r] # {}} = {p[Len(p)] : p \in SimplePaths}
=============================================================================
