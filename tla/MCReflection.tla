---------------------------- MODULE MCReflection ----------------------------
(***************************************************************************)
(* Instance of Reflection for TLC: four routers, each with a cluster of    *)
(* its own or two of them with one cluster, and every choice of roles on a *)
(* ring of sessions with a chord, whose ends may be clients of each other. *)
(* A session may be missing.                                               *)
(***************************************************************************)
EXTENDS Reflection

\* The origin is 1, and the chord joins its two neighbours on the ring.
Pairs == {<<1, 2>>, <<2, 3>>, <<3, 4>>, <<1, 4>>, <<2, 4>>}

\* What the ends of a session are to each other.
Sessions == {<<NoSession, NoSession>>, <<"NonClient", "NonClient">>,
             <<"Client", "NonClient">>, <<"NonClient", "Client">>,
             <<"Client", "Client">>}

RoleOf(s) ==
    [a \in Routers |-> [b \in Routers |->
        CASE <<a, b>> \in Pairs -> s[<<a, b>>][1]
          [] <<b, a>> \in Pairs -> s[<<b, a>>][2]
          [] OTHER -> NoSession]]

RingTopologies ==
    {[role |-> RoleOf(s), cluster |-> c] :
        s \in {f \in [Pairs -> Sessions] :
                 \A p \in Pairs : f[p] = <<"Client", "Client">> => p = <<2, 4>>},
        c \in {[r \in Routers |-> r], [r \in Routers |-> IF r = 4 THEN 2 ELSE r]}}

RingInit == ReflectionInit /\ origin = 1

\* No router has a session, and no route has been brought in.
NoSessions ==
    /\ \A r, s \in Routers : role[r][s] = NoSession
    /\ cluster_id = [r \in Routers |-> r]
    /\ ~brought
=============================================================================
