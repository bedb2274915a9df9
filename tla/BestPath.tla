------------------------------ MODULE BestPath ------------------------------
(***************************************************************************)
(* Routes and the order the decision process sorts them by                 *)
(* (rib.rs, Route and the comparator of run_decision_process).             *)
(*                                                                         *)
(* An attribute the peer did not send is None; the comparator replaces it  *)
(* by a default.  The AS_PATH is abstracted to its length and the IPv4     *)
(* prefix of a route to the key it is stored under.                        *)
(***************************************************************************)
EXTENDS Option, Rpki

CONSTANT Peers      \* the SocketAddrs that routes are learned from

PathAttributes ==
    [local_pref : OptNat, as_path_len : Nat, origin : (0..2) \cup {None},
     multi_exit_disc : OptNat]

Route ==
    [attrs : PathAttributes, peer_addr : Peers, peer_as : Nat,
     received_at : Nat, stale : BOOLEAN, rov_state : RovState]

\* Mutant of NewRoute: the validation state is not recorded.
NewRouteUnvalidated(attrs, addr, as, t, rov) ==
    [attrs |-> attrs, peer_addr |-> addr, peer_as |-> as,
     received_at |-> t, stale |-> FALSE, rov_state |-> None]

\* Route::new, with the rov_state that process_update assigns next.
NewRoute(attrs, addr, as, t, rov) ==
    [attrs |-> attrs, peer_addr |-> addr, peer_as |-> as,
     received_at |-> t, stale |-> FALSE, rov_state |-> rov]

LocalPref(r) == UnwrapOr(r.attrs.local_pref, 100)
PathLen(r)   == r.attrs.as_path_len
Origin(r)    == UnwrapOr(r.attrs.origin, 2)
Med(r)       == UnwrapOr(r.attrs.multi_exit_disc, 0)

\* sort_by places a strictly before b: highest LOCAL_PREF, shortest AS_PATH,
\* lowest ORIGIN, lowest MED, oldest.
Preferred(a, b) ==
    \/ LocalPref(a) > LocalPref(b)
    \/ /\ LocalPref(a) = LocalPref(b)
       /\ \/ PathLen(a) < PathLen(b)
          \/ /\ PathLen(a) = PathLen(b)
             /\ \/ Origin(a) < Origin(b)
                \/ /\ Origin(a) = Origin(b)
                   /\ \/ Med(a) < Med(b)
                      \/ /\ Med(a) = Med(b)
                         /\ a.received_at < b.received_at

\* The routes that may come first in the sorted vector.  The sort is stable
\* and its input is in HashMap order, so any of several tied routes can.
Best(candidates) ==
    {r \in candidates : \A s \in candidates : ~Preferred(s, r)}

\* What is left of a route when its graceful-restart mark is disregarded.
Unmarked(r) == [r EXCEPT !.stale = FALSE]
=============================================================================
