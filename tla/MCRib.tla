------------------------------- MODULE MCRib --------------------------------
(***************************************************************************)
(* Instances of Rib for TLC.  A tick is one half-life of the dampening     *)
(* (15 minutes by default) and 4 units of penalty are the program's 1000:  *)
(* the defaults become flap 4, suppress 8, reuse 3 and at most 4 ticks of  *)
(* suppression.                                                            *)
(***************************************************************************)
EXTENDS Rib, TLC

HalfLifeDecay(p, e) == p \div 2^e

attrsDefault == [local_pref |-> None, as_path_len |-> 1, origin |-> 0,
                 multi_exit_disc |-> None]

\* An attribute left out, its default given explicitly, a better one in a
\* higher rank and a worse one in a lower rank.
SelectionAttrs ==
    { attrsDefault,
      [attrsDefault EXCEPT !.local_pref = 100, !.multi_exit_disc = 1],
      [attrsDefault EXCEPT !.local_pref = 101, !.as_path_len = 2],
      [attrsDefault EXCEPT !.origin = None] }

OneAttrs == {attrsDefault}

\* Prefixes of 2-bit addresses: 0/0 and, with a bit beyond its length, 3/1.
prefixDefault == [address |-> 0, prefix_len |-> 0]
prefixShort   == [address |-> 3, prefix_len |-> 1]

OnePrefix   == {prefixShort}
TwoPrefixes == {prefixDefault, prefixShort}

NoRoas == {}
OneRoa == {[prefix |-> 2, prefix_len |-> 1, max_length |-> 2, origin_as |-> 1]}

PeerSymmetry == Permutations(Peers)
=============================================================================
