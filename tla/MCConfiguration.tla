--------------------------- MODULE MCConfiguration ---------------------------
(***************************************************************************)
(* What the operator lays down and what comes of it: the ROA table, the    *)
(* prefix lists, the roles and clusters of route reflectors, and the file  *)
(* and flags the daemon starts with.  The four share no state, and each    *)
(* moves while the others are at rest.                                     *)
(***************************************************************************)
EXTENDS RpkiValidator, Policy, Startup, MCReflection

configVars == <<roas, prefix_lists, startupVars, vars>>

-----------------------------------------------------------------------------
(* Configuration files: every router section without neighbors, and one    *)
(* router section with the neighbor lists of length at most 2.             *)

SomeRouter == [local_as |-> 1, router_id |-> "legal", listen |-> 1179,
               hold_time |-> 3, keepalive_interval |-> None]

RouterSections ==
    [local_as : {0, 1}, router_id : RouterIds, listen : {1179},
     hold_time : {0, 2, 3}, keepalive_interval : {None, 0, 3}]

Neighbors ==
    [addr : {"a"}, remote_as : {0, 1}, hold_time : {None, 2}, md5_password : {None, 0, 81}]

ConfigFiles ==
    [router : RouterSections, neighbors : {<<>>}]
      \cup [router : {SomeRouter}, neighbors : {<<n>> : n \in Neighbors}]
      \cup [router : {SomeRouter},
            neighbors : {<<n, [n EXCEPT !.addr = a]>> : n \in Neighbors, a \in {"a", "b"}}]

NoFlags == [config |-> FALSE, listen |-> None, local_as |-> None,
            router_id |-> None, hold_time |-> None]

CommandLines ==
    {[flags EXCEPT !.config = c, !.listen = l] :
        c \in BOOLEAN, l \in {None, 2179},
        flags \in {NoFlags, [NoFlags EXCEPT !.local_as = 0],
                  [NoFlags EXCEPT !.router_id = "loopback"],
                  [NoFlags EXCEPT !.hold_time = 2]}}

-----------------------------------------------------------------------------

Down ==
    /\ proc = "down" /\ socket = "none"
    /\ file = [router |-> SomeRouter, neighbors |-> <<>>]
    /\ cli = NoFlags

AtRest == roas = {} /\ prefix_lists = <<>>

ConfigInit ==
    /\ RpkiInit /\ PolicyInit
    /\ \/ RingInit /\ NoSessions /\ StartupInit
       \/ StartupInit /\ Down /\ RingInit

ConfigNext ==
    \/ RpkiNext /\ prefix_lists = <<>> /\ Down /\ NoSessions
       /\ UNCHANGED <<prefix_lists, startupVars, vars>>
    \/ PolicyNext /\ roas = {} /\ Down /\ NoSessions
       /\ UNCHANGED <<roas, startupVars, vars>>
    \/ StartupNext /\ AtRest /\ NoSessions
       /\ UNCHANGED <<roas, prefix_lists, vars>>
    \/ ReflectionNext /\ AtRest /\ Down
       /\ UNCHANGED <<roas, prefix_lists, startupVars>>

ConfigSpec ==
    /\ ConfigInit
    /\ [][ConfigNext]_configVars
    /\ StartupFairness /\ ReflectionFairness
=============================================================================
