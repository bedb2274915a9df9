------------------------------ MODULE MCDaemon ------------------------------
(***************************************************************************)
(* Instances of Daemon for TLC: two connections, from two addresses or     *)
(* one after the other from the same, with one prefix, no ROAs and the     *)
(* dampening units of MCRib.                                               *)
(***************************************************************************)
EXTENDS Daemon

HalfLifeDecay(p, e) == p \div 2^e

OnePrefix == {[address |-> 0, prefix_len |-> 1]}

OneAttrs == {[local_pref |-> None, as_path_len |-> 1, origin |-> 0,
              multi_exit_disc |-> None]}

NoRoas == {}

\* Once both addresses are in use no time passes and every OPEN brings Graceful
\* Restart and a hold time; with one address all of Next is explored.
Bounded ==
    \/ Cardinality({conn[c].addr : c \in Conns} \ {None}) < 2
    \/ /\ now = 0
       /\ \A c \in Conns : Running(c) =>
            /\ conn[c].hold_on
            /\ conn[c].state # IncomingState => conn[c].gr

BoundedSpec == Init /\ [][Next /\ Bounded']_vars /\ Fairness
=============================================================================
