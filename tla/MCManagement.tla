---------------------------- MODULE MCManagement ----------------------------
(***************************************************************************)
(* The management interface for TLC: a connection that asks for reports    *)
(* while sessions run, over an empty table, and the RIB commands on every  *)
(* table of the instance.                                                  *)
(***************************************************************************)
EXTENDS Management, Views

\* The default route, a prefix, the same one with bits beyond its length, and
\* a longer one at the same address.
SomeKeys == {[address |-> 0, prefix_len |-> 0], [address |-> 2, prefix_len |-> 1],
             [address |-> 3, prefix_len |-> 1], [address |-> 2, prefix_len |-> 2]}

\* No path, a sequence, a sequence before a set, and an empty segment.
SomeRoutes ==
    [next_hop : {None, 1}, as_path : {<<>>, <<<<1, 2>>>>, <<<<2>>, <<1, 3>>>>, <<<<>>>>},
     local_pref : {None}, med : {None}, origin : {None}]
      \cup {[next_hop |-> 2, as_path |-> <<<<3, 3>>>>, local_pref |-> 200, med |-> 7, origin |-> 1]}

EmptyTable == [k \in Keys |-> NoRoute]

MCInit == ManagementInit /\ table \in [Keys -> Routes \cup {NoRoute}]

\* Sessions run while the client is there and asks for one report; without
\* sessions it sends all lines there are.
Bounded ==
    events > 0 => /\ conn = "open" /\ asked <= 1
                  /\ \A i \in DOMAIN inbox : inbox[i] \notin {"other", "garbled"}

MCNext ==
    /\ table = EmptyTable
    /\ ManagementNext /\ Bounded'
    /\ UNCHANGED table

MCSpec == MCInit /\ [][MCNext]_<<managementVars, table>> /\ ManagementFairness
=============================================================================
